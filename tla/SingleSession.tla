--------------------------- MODULE SingleSession ---------------------------
(***************************************************************************)
(* What the agent's control plane promises its host: there is at most one   *)
(* session, it is reserved, then open, then closing, and at most one turn   *)
(* of it is live.  A turn begins only while the session is open, and the    *)
(* session is released or reopened only when its turn is over.  Shutdown is *)
(* final, but it may leave a last turn behind.                              *)
(***************************************************************************)

CONSTANTS Sessions, Turns, NoSession

VARIABLES
  phase,     \* what the one session is doing
  session,   \* which session that is
  live       \* the turns that are running

svars == <<phase, session, live>>

Init ==
  /\ phase = "empty"
  /\ session = NoSession
  /\ live = {}

Become(from, to) ==
  /\ phase = from
  /\ phase' = to
  /\ UNCHANGED live

Reserve(s) == Become("empty", "reserved") /\ session' = s

Abandon == Become("reserved", "empty") /\ session' = NoSession

Open == Become("reserved", "open") /\ UNCHANGED session

BeginTurn(t) ==
  /\ phase = "open"
  /\ live = {}
  /\ live' = {t}
  /\ UNCHANGED <<phase, session>>

EndTurn ==
  /\ live # {}
  /\ live' = {}
  /\ UNCHANGED <<phase, session>>

BeginClose == Become("open", "closing") /\ UNCHANGED session

Reopen == live = {} /\ Become("closing", "open") /\ UNCHANGED session

Release == live = {} /\ Become("closing", "empty") /\ session' = NoSession

Shut ==
  /\ phase # "shut"
  /\ phase' = "shut"
  /\ session' = NoSession
  /\ UNCHANGED live

Next ==
  \/ \E s \in Sessions : Reserve(s)
  \/ \E t \in Turns : BeginTurn(t)
  \/ Abandon \/ Open \/ EndTurn \/ BeginClose \/ Reopen \/ Release \/ Shut

Spec == Init /\ [][Next]_svars
=============================================================================
