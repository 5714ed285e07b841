---------------------------- MODULE MCPluginHost ----------------------------
(***************************************************************************)
(* A host's registrations: two good providers, one that has the first one's *)
(* id and one that offers its model; skills with and without a tool they    *)
(* need; a plugin that taps what it did not declare, next to well-behaved   *)
(* ones, of which two have handlers for the same events and one taps twice. *)
(***************************************************************************)
EXTENDS PluginHost

MCProviders ==
  {[id |-> "p", models |-> <<"m">>], [id |-> "q", models |-> <<"n", "o">>],
   [id |-> "p", models |-> <<"n">>], [id |-> "r", models |-> <<"o", "m">>]}

MCTools == {"t", "u"}

MCSkills ==
  {[name |-> "s", requires |-> {}], [name |-> "s", requires |-> {"t"}],
   [name |-> "v", requires |-> {"t", "u"}]}

MCPlugins ==
  {[id |-> "a", declares |-> {"TurnStart"}, taps |-> <<"TurnStart">>],
   [id |-> "b", declares |-> {"TurnStart", "BeforeToolUse"},
    taps |-> <<"BeforeToolUse", "TurnStart">>],
   [id |-> "b", declares |-> {"TurnEnd"}, taps |-> <<>>],
   [id |-> "c", declares |-> {"TurnEnd", "BeforeToolUse"},
    taps |-> <<"BeforeToolUse", "TurnEnd", "BeforeToolUse">>],
   [id |-> "d", declares |-> {"TurnEnd"}, taps |-> <<"TurnEnd", "TurnStart">>]}

MCConfigs ==
  {[default |-> "m", compact |-> c, memory |-> y, accepted |-> TRUE] :
     c \in {"none", "n"}, y \in {"none", "n"}}
  \cup {[default |-> "n", compact |-> "none", memory |-> "none", accepted |-> a] :
          a \in BOOLEAN}
=============================================================================
