---------------------------- MODULE AgentBuilder ----------------------------
(***************************************************************************)
(* The life of an agent's parts: the builder collects registrations, build  *)
(* validates them and lets the plugin manager bring the plugins up, and the *)
(* shutdown of the agent brings them down.  A build that fails on the way   *)
(* brings down what it brought up.                                          *)
(*                                                                          *)
(* Validation awaits nothing and is one step.  Bringing a plugin up or down *)
(* is a call into the host's code and a step each.  A plugin is named by    *)
(* its place in the list; what a configuration's numbers and texts are is   *)
(* left out but for whether validate_config_values accepts them.            *)
(***************************************************************************)
EXTENDS Naturals, SequencesExt

CONSTANTS
  Providers,   \* what register_model_provider may be given: [id, models]
  Tools,       \* names of tools
  Skills,      \* [name, requires]
  Plugins,     \* [id, declares, taps]: the descriptor, and what apply taps
  Configs,     \* [default, compact, memory, accepted], "none" for None
  MaxRegistrations   \* bound: calls of register_*

ASSUME BuilderAssumption ==
  /\ MaxRegistrations \in Nat
  /\ \A p \in Plugins : p.taps \in Seq(STRING)
  /\ \A p \in Providers : p.models \in Seq(STRING)

VARIABLES
  config,      \* AgentBuilder.config
  providers, tools, skills, plugins, storages,   \* what was registered
  phase,       \* where the agent is
  ups,         \* plugins whose initialize succeeded, in order
  downs,       \* plugins whose shutdown was called, in order
  registry     \* HookRegistry, as [event, plugin] in order of registration

registered == <<config, providers, tools, skills, plugins, storages>>
vars == <<registered, phase, ups, downs, registry>>

Init ==
  /\ config \in Configs
  /\ providers = <<>> /\ tools = <<>> /\ skills = <<>> /\ plugins = <<>>
  /\ storages = [session |-> 0, memory |-> 0]
  /\ phase = "registering"
  /\ ups = <<>> /\ downs = <<>>
  /\ registry = <<>>

----------------------------------------------------------------------------
(* register_*                                                               *)

Registrations ==
  Len(providers) + Len(tools) + Len(skills) + Len(plugins)
    + storages.session + storages.memory

Registering ==
  /\ phase = "registering"
  /\ Registrations < MaxRegistrations
  /\ UNCHANGED <<config, phase, ups, downs, registry>>

RegisterModelProvider ==
  /\ Registering
  /\ \E p \in Providers : providers' = Append(providers, p)
  /\ UNCHANGED <<tools, skills, plugins, storages>>

RegisterTool ==
  /\ Registering
  /\ \E t \in Tools : tools' = Append(tools, t)
  /\ UNCHANGED <<providers, skills, plugins, storages>>

RegisterSkill ==
  /\ Registering
  /\ \E s \in Skills : skills' = Append(skills, s)
  /\ UNCHANGED <<providers, tools, plugins, storages>>

RegisterPlugin ==
  /\ Registering
  /\ \E p \in Plugins : plugins' = Append(plugins, p)
  /\ UNCHANGED <<providers, tools, skills, storages>>

\* A second storage of a kind replaces the first, and is counted.
RegisterStorage ==
  /\ Registering
  /\ \E kind \in {"session", "memory"} : storages' = [storages EXCEPT ![kind] = @ + 1]
  /\ UNCHANGED <<providers, tools, skills, plugins>>

----------------------------------------------------------------------------
(* Validation                                                               *)

Rejected(r) == [r EXCEPT !.ok = FALSE]

\* build_model_registry: provider by provider, model by model.
AddModel(r, p, model) ==
  IF model \in DOMAIN r.models THEN Rejected(r)
  ELSE [r EXCEPT !.models =
          [m \in DOMAIN @ \cup {model} |-> IF m = model THEN p.id ELSE @[m]]]
AddModels(r, p) ==
  FoldLeft(LAMBDA s, model : AddModel(s, p, model), [r EXCEPT !.ids = @ \cup {p.id}], p.models)
AddProvider_SameId(r, p) == AddModels(r, p)
AddProvider(r, p) == IF p.id \in r.ids THEN Rejected(r) ELSE AddModels(r, p)
NoModels == [ids |-> {}, models |-> <<>>, ok |-> TRUE]
Models == FoldLeft(AddProvider, NoModels, providers)

\* resolve_model, of a built agent: the provider a model is requested from.
Resolve(model) == Models.models[model]

\* validate_model_config
ModelsConfigured_DefaultOnly == config.default \in DOMAIN Models.models
ModelsConfigured ==
  {config.default, config.compact, config.memory} \ {"none"} \subseteq DOMAIN Models.models

\* Tools, skills and descriptors are entered one by one: the first that does
\* not fit, or whose name is there already, is the end of the build.
NoNames == [names |-> {}, ok |-> TRUE]
AddName(r, entry) ==
  IF entry.name \in r.names \/ ~entry.fits THEN Rejected(r)
  ELSE [r EXCEPT !.names = @ \cup {entry.name}]
NamesOf(entries) == FoldLeft(AddName, NoNames, entries)

\* build_tool_registry
ToolNames == NamesOf([i \in DOMAIN tools |-> [name |-> tools[i], fits |-> TRUE]])

\* build_skill_registry: a skill's tools must be there.
SkillNames ==
  LET known == ToolNames.names IN
  NamesOf([i \in DOMAIN skills |->
             [name |-> skills[i].name, fits |-> skills[i].requires \subseteq known]])

\* collect_plugin_descriptors
Descriptors == NamesOf([i \in DOMAIN plugins |-> [name |-> plugins[i].id, fits |-> TRUE]])

\* build, up to the first plugin's initialize.
Validated ==
  /\ storages.session <= 1 /\ storages.memory <= 1
  /\ providers # <<>>
  /\ config.accepted
  /\ Models.ok
  /\ ModelsConfigured
  /\ ToolNames.ok
  /\ SkillNames.ok
  /\ Descriptors.ok

Build ==
  /\ phase = "registering"
  /\ phase' = IF Validated THEN "initialize" ELSE "failed"
  /\ UNCHANGED <<registered, ups, downs, registry>>

----------------------------------------------------------------------------
(* PluginManager::build                                                     *)

\* The next plugin is initialized, or refuses.
InitializePlugin ==
  LET i == Len(ups) + 1 IN
  /\ phase = "initialize"
  /\ i <= Len(plugins)
  /\ \/ ups' = Append(ups, i) /\ UNCHANGED phase
     \/ phase' = "rollback" /\ UNCHANGED ups
  /\ UNCHANGED <<registered, downs, registry>>

\* The registrations one plugin's apply makes; tap refuses undeclared events.
Taps(i) == [k \in DOMAIN plugins[i].taps |-> [event |-> plugins[i].taps[k], plugin |-> i]]

BreaksContract(i) == ~(ToSet(plugins[i].taps) \subseteq plugins[i].declares)

AppliesAll_LastOnly == plugins = <<>> \/ ~BreaksContract(Len(plugins))
AppliesAll == \A i \in DOMAIN plugins : ~BreaksContract(i)

\* apply_plugins awaits nothing.  A tap that was refused fails it, also if
\* apply ignored the refusal; the hooks registered so far are dropped.
ApplyPlugins ==
  /\ phase = "initialize"
  /\ Len(ups) = Len(plugins)
  /\ IF AppliesAll
     THEN /\ registry' = FlattenSeq([i \in DOMAIN plugins |-> Taps(i)])
          /\ phase' = "running"
     ELSE phase' = "rollback" /\ UNCHANGED registry
  /\ UNCHANGED <<registered, ups, downs>>

\* Plugins that are up, the one to be brought down next first.
StillUp_InOrder == SubSeq(ups, Len(downs) + 1, Len(ups))
StillUp == SubSeq(Reverse(ups), Len(downs) + 1, Len(ups))

\* rollback_plugins and the shutdown of an agent: that a plugin fails to shut
\* down is only logged.
ShutdownPlugin ==
  /\ phase \in {"rollback", "shutdown"}
  /\ StillUp # <<>>
  /\ downs' = Append(downs, Head(StillUp))
  /\ UNCHANGED <<registered, phase, ups, registry>>

EndShutdown ==
  /\ phase \in {"rollback", "shutdown"}
  /\ StillUp = <<>>
  /\ phase' = IF phase = "rollback" THEN "failed" ELSE "stopped"
  /\ UNCHANGED <<registered, ups, downs, registry>>

\* Agent::shutdown, once AgentControl lets it get to the plugins.
BeginShutdown ==
  /\ phase = "running"
  /\ phase' = "shutdown"
  /\ UNCHANGED <<registered, ups, downs, registry>>

\* The caller drops the future of build at one of its awaits: nothing brings
\* down what is up.
DropBuild ==
  /\ phase \in {"initialize", "rollback"}
  /\ phase' = "dropped"
  /\ UNCHANGED <<registered, ups, downs, registry>>

Over == phase \in {"failed", "dropped", "stopped"} /\ UNCHANGED vars

----------------------------------------------------------------------------

Next ==
  \/ RegisterModelProvider \/ RegisterTool \/ RegisterSkill
  \/ RegisterPlugin \/ RegisterStorage
  \/ Build \/ InitializePlugin \/ ApplyPlugins \/ DropBuild
  \/ BeginShutdown \/ ShutdownPlugin \/ EndShutdown
  \/ Over

Spec == Init /\ [][Next]_vars

----------------------------------------------------------------------------
(* Properties                                                               *)

\* Every variable has its type.
TypeOK ==
  /\ config \in Configs
  /\ providers \in Seq(Providers) /\ tools \in Seq(Tools) /\ skills \in Seq(Skills)
  /\ plugins \in Seq(Plugins)
  /\ storages \in [session : Nat, memory : Nat]
  /\ phase \in {"registering", "initialize", "rollback", "running", "shutdown",
                "failed", "dropped", "stopped"}
  /\ ups \in Seq(DOMAIN plugins) /\ downs \in Seq(DOMAIN plugins)
  /\ registry \in Seq([event : STRING, plugin : DOMAIN plugins])

\* No two places of a list agree on f.
AllDiffer(list, f(_)) ==
  \A i, j \in DOMAIN list : f(list[i]) = f(list[j]) => i = j

\* What a builder must be given: names are unique among their kind, a model is
\* offered once, and whatever refers to a model or a tool finds it.
WellFormed ==
  /\ config.accepted
  /\ providers # <<>>
  /\ storages.session <= 1 /\ storages.memory <= 1
  /\ AllDiffer(providers, LAMBDA p : p.id)
  /\ \A i, j \in DOMAIN providers :
       \A k \in DOMAIN providers[i].models, l \in DOMAIN providers[j].models :
         providers[i].models[k] = providers[j].models[l] => i = j /\ k = l
  /\ {config.default, config.compact, config.memory}
       \subseteq {"none"} \cup UNION {ToSet(p.models) : p \in ToSet(providers)}
  /\ AllDiffer(tools, LAMBDA t : t)
  /\ AllDiffer(skills, LAMBDA s : s.name)
  /\ \A s \in ToSet(skills) : s.requires \subseteq ToSet(tools)
  /\ AllDiffer(plugins, LAMBDA p : p.id)

\* The checks that go through the registrations one by one accept exactly the
\* well-formed builders, and no plugin is touched before they have.  A model of
\* a built agent resolves to the one provider that offers it, so that a turn,
\* which asks when it has its slot already, cannot fail for want of one.
OnlyWellFormedStarts ==
  /\ phase \notin {"registering", "failed"} => WellFormed
  /\ phase = "failed" /\ WellFormed => Len(plugins) > 0
  /\ phase = "running" =>
       \A model \in DOMAIN Models.models, p \in ToSet(providers) :
         p.id = Resolve(model) <=> model \in ToSet(p.models)

\* Plugins are brought down in reverse: first the one that came up last, each
\* once, and one that never came up not at all.  Neither a build that failed
\* nor an agent that was shut down leaves one up; only a build that its caller
\* dropped does.
PluginsNest ==
  /\ ups = [i \in 1 .. Len(ups) |-> i]
  /\ IsPrefix(downs, Reverse(ups))
  /\ phase \in {"failed", "stopped"} => downs = Reverse(ups)
  /\ phase = "running" => downs = <<>> /\ Len(ups) = Len(plugins)

----------------------------------------------------------------------------
(* The inductive invariant                                                  *)

\* The plugins that are up are the first of the list; those that are down again
\* are the last of these.
NestInv ==
  /\ plugins \in Seq(Plugins)
  /\ ups \in Seq(Nat) /\ downs \in Seq(Nat)
  /\ Len(downs) <= Len(ups) /\ Len(ups) <= Len(plugins)
  /\ \A i \in DOMAIN ups : ups[i] = i
  /\ \A k \in DOMAIN downs : downs[k] = Len(ups) + 1 - k
  /\ phase = "registering" => ups = <<>>
  /\ phase \in {"registering", "initialize", "running"} => downs = <<>>
  /\ phase = "running" => Len(ups) = Len(plugins)
  /\ phase \in {"failed", "stopped"} => Len(downs) = Len(ups)

\* What has been validated stays so, since nothing is registered any more, and
\* what fails although it was valid fails for a plugin.
ValidInv ==
  /\ providers \in Seq(Providers) /\ tools \in Seq(Tools) /\ skills \in Seq(Skills)
  /\ plugins \in Seq(Plugins)
  /\ phase \notin {"registering", "failed"} => WellFormed
  /\ phase = "rollback" => Len(plugins) > 0
  /\ phase = "failed" /\ WellFormed => Len(plugins) > 0
=============================================================================
