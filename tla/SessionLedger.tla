---------------------------- MODULE SessionLedger ----------------------------
(***************************************************************************)
(* The session's ledger and what is computed from it: sequence numbers,     *)
(* the latest metadata, the projection that the model sees, and the plan of *)
(* a compaction.                                                            *)
(*                                                                          *)
(* A payload is its kind; its text is named by the event's number.  ref is  *)
(* the one number a payload holds: replaces_through_seq of a compaction,    *)
(* lastSeq of a checkpoint, the number of a result's call; 0 elsewhere.     *)
(***************************************************************************)
EXTENDS Naturals, SequencesExt

MessageKinds == {"user", "assistant", "incomplete", "call", "result", "system"}
MetadataKinds == {"config", "namespace", "compaction", "checkpoint"}

LedgerEvents ==
  [seq : Nat \ {0}, kind : MessageKinds \cup MetadataKinds, ref : Nat]

\* next_seq, after append and after from_events alike.
NextSeq(ledger) == IF ledger = <<>> THEN 1 ELSE Last(ledger).seq + 1

\* allocate_event
Event(ledger, kind, ref) == [seq |-> NextSeq(ledger), kind |-> kind, ref |-> ref]

\* latest_metadata of a key whose value is one number, 0 if there is none.
LatestRef_First(ledger, key) ==
  LET i == SelectInSeq(ledger, LAMBDA e : e.kind = key) IN
  IF i = 0 THEN 0 ELSE ledger[i].ref
LatestRef(ledger, key) ==
  LET i == SelectLastInSeq(ledger, LAMBDA e : e.kind = key) IN
  IF i = 0 THEN 0 ELSE ledger[i].ref

----------------------------------------------------------------------------
(* The projection.  An entry that stands for no single event has number 0,  *)
(* a summary has the number of the last event it replaces.                  *)

Entry(kind, seq) == [kind |-> kind, seq |-> seq]
CancelNotice     == Entry("notice", 0)

\* push_projected_message, of what payload_to_message does not drop.
Projected_MetadataToo(e) ==
  IF e.kind = "incomplete" THEN <<Entry(e.kind, e.seq), CancelNotice>>
  ELSE <<Entry(e.kind, e.seq)>>
Projected(e) ==
  IF e.kind = "incomplete" THEN <<Entry(e.kind, e.seq), CancelNotice>>
  ELSE IF e.kind \in MessageKinds THEN <<Entry(e.kind, e.seq)>>
  ELSE <<>>

\* project_visible_entries
Entries(ledger, through) ==
  (IF through = 0 THEN <<>> ELSE <<Entry("summary", through)>>)
  \o FlattenSeq([i \in DOMAIN ledger |->
       IF ledger[i].seq > through THEN Projected(ledger[i]) ELSE <<>>])

\* A view without the notices that only a rebuild inserts.
WithoutNotices(view) ==
  FlattenSeq([i \in DOMAIN view |-> IF view[i] = CancelNotice THEN <<>> ELSE <<view[i]>>])

----------------------------------------------------------------------------
(* CompactionPlan                                                           *)

\* The user message of the current turn, 0 if it is not visible.
Anchor(ledger, through) ==
  LET i == SelectLastInSeq(ledger, LAMBDA e : e.kind = "user") IN
  IF i = 0 \/ ledger[i].seq <= through THEN 0 ELSE ledger[i].seq

\* Something visible comes before the current turn.
CanCompact(ledger, through) ==
  /\ Anchor(ledger, through) # 0
  /\ Head(Entries(ledger, through)) # Entry("user", Anchor(ledger, through))

\* A compaction replaces everything before the current turn, nothing of it.
ReplacesThrough_AnchorToo(ledger, through) == Anchor(ledger, through)
ReplacesThrough(ledger, through) == Anchor(ledger, through) - 1

----------------------------------------------------------------------------
(* What a memory extraction works on: the events after the checkpoint.      *)

IncrementAfter(ledger, checkpoint) ==
  {e.seq : e \in {ledger[i] : i \in {j \in DOMAIN ledger : ledger[j].seq > checkpoint}}}

Calls(ledger) == Cardinality({i \in DOMAIN ledger : ledger[i].kind = "call"})

\* turn_index of a restored session.
UserMessages(ledger) == Cardinality({i \in DOMAIN ledger : ledger[i].kind = "user"})
=============================================================================
