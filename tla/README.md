# Verification of youyou-agent

`youyou-agent` is a Rust library: a host builds an `Agent`, opens one session at a time
on it and sends messages to that session. Every message runs as a *turn*, a background
task that talks to a model, calls tools and appends events to the session's ledger. This
directory holds TLA+ models of the library, the TLC configurations that check them on
small instances, and TLAPS proofs that hold for every instance. Paths below are relative
to `src/src/` of the repository; "the design" is
`src/specs/0006_youyou_agent_design.md`.

    tlc -config MCToolBatch.cfg MCToolBatch      # model-check one configuration
    tlapm AgentControlProofs.tla                 # check the proofs of one module

`PROJECT.json` lists components, runs, findings, hazards and theorems, and maps every
definition to the lines it models.

## 1. Inventory

| component (code) | state | operations | modelled in |
|---|---|---|---|
| control plane (`application/session_service.rs`, `api/session.rs`, `api/agent.rs`, `domain/state.rs`) | `AgentControl { lifecycle, slot }` behind a mutex that is never held over an await | new, resume, close, delete, shutdown; admission of `send_message`; the supervisor of a turn | `AgentControl`, abstractly `SingleSession` |
| turn engine (`application/turn_engine.rs`) | loop mode, tool counter, turn id | `run_turn`: requests, streaming, batches, compaction, limit, checkpoint, endings | `TurnEngine` |
| session ledger, SessionStorage port (`domain/ledger.rs`, `ports/storage.rs`) | the events, `next_seq` | allocate, append, load, latest metadata, `persist_and_project` | `SessionLedger`, `TurnEngine` |
| context manager (`application/context_manager.rs`, `request_builder.rs`) | `visible_messages`, `latest_compaction` | project, push, plan and apply a compaction | `SessionLedger`, `TurnEngine` |
| tool dispatcher (`application/tool_dispatcher.rs`) | the batch's records and flags | `prepare_batch`, `execute_batch` | `ToolBatch`, abstractly `BatchPromise` |
| event stream (`api/running_turn.rs`, `domain/event.rs`, the supervisor) | `event_sequence`, one bounded channel for each turn | emit, read, join, drop | `EventChannel` |
| memory manager, MemoryStorage port (`application/memory_manager.rs`) | `last_memory_checkpoint_seq`, the stored memories | bootstrap, search, extract, apply operations, checkpoint | `MemoryManager`; when an extraction is due in `TurnEngine` |
| plugin manager (`application/plugin_manager.rs`, `ports/plugin.rs`) | plugins that are up | initialize, apply, rollback, shutdown | `AgentBuilder`, with hooks in `PluginHost`; when shutdown gets to them in `AgentControl` |
| hook registry (`application/hook_registry.rs`, `domain/hook.rs`) | ordered handlers | register, dispatch, merge of patches | `HookRegistry`, `PluginHost`; its verdicts are inputs of the other models |
| skill manager (`application/skill_manager.rs`) | registered skills | resolve `/name`, inject | the injected message in `TurnEngine` |
| builder, model registry (`api/builder.rs`, `api/agent.rs`) | registrations, configuration | `register_*`, `build`, resolve a model | `AgentBuilder` |
| prompts, domain types, errors | none | text and data | not modelled |

How they interact. The host calls the control plane from any number of tasks. The control
plane admits one session and one turn; a turn's task *owns* the session's runtime (its
mutex is held from the first to the last statement of the turn), so turn engine, ledger,
context manager, dispatcher and memory manager are one sequential process for each turn.
What crosses process boundaries is the slot (control plane, supervisor), the cancellation
token (handle, close, shutdown to engine and dispatcher), the event channel (engine to
host), the outcome and `turn_finished` one-shot channels (supervisor to host and close),
tool tasks that outlive their timeout, and storage, which survives the process.

What is hard, and the properties aimed at it (all 40 hazards are in `PROJECT.json`):

- *Calls that interleave between critical sections*: two sends, a close and an old
  supervisor around one slot; two closes; shutdown against a session that is still being
  built; delete against resume. `SingleLiveTurn`, `LiveTurnInSlot`, `QuietClose`,
  `ExclusiveClose`, `SlotOwnership`, `ImplementsSingleSession`.
- *Waiting*: close waits for a turn, shutdown for a close, a send of an event for the
  host. `EveryCallReturns`, `NothingStuck`, `TurnFinishes`, `EveryTurnEnds`, `BatchEnds`.
- *Failures in the middle*: a save that fails at any of the engine's write points, a
  panic, a hook that breaks its contract, a process that dies, a call that is dropped, an
  extraction that stops between two writes, a plugin that does not come up.
  `LedgerIsStored`, `ViewIsRebuild`, `CallsAnswered`, `PluginsOutliveService`,
  `NothingForgotten`, `CopiesBounded`, `PluginsNest`.
- *Restoring*: a resume rebuilds ledger, view, boundaries and counters from storage.
  `ViewIsRebuild`, `RequestSeesTurn`, `CheckpointCovers`.
- *Stale knowledge*: an extraction works on the memories it listed before it asked the
  model, while others write, and the model names ids freely. `DeletedStaysDeleted`,
  `NamespaceIsolation`, `TurnMemoriesFit`.
- *Races with cancellation*: before, between, during tool calls; against the stream's
  end. `CancelIsReported`, `AnswerIsKept`, `LastEventMatchesOutcome`.
- *Order*: concurrent tools, events through a full channel, the supervisor's last steps.
  `EventsPaired`, `NothingAfterFailure`, `EventsArrive`, `EndOfStreamMeansIdle`.
- *Things put together by others*: registrations validated one against those before it,
  taps of several plugins, patches that build on patches. `OnlyWellFormedStarts`,
  `EveryTapCalled`, `PatchesAddUp`.

## 2. The modules

Conventions. A definition `Op_Variant` right before `Op` is `Op` with a plausible bug (a
dropped guard, a missing reset, a swapped order); nothing uses it, and replacing `Op` by
it makes a property fail, which shows what the property is sensitive to. Definitions
keep the names of the code where they can. `MC*` modules fix instances for TLC.

### AgentControl: the control plane

State: `lifecycle` and `slot` are `AgentControl`; `pc[c]`, `arg[c]`, `held[c]` are the
program point and the locals of a call `c` in progress (the future of `new_session`,
`close`, ...); `task[t]` is how far the background task of a turn is (`starting` between
`start_turn` and the spawn, `running`, then the supervisor's `ended`, `sent`, `cleared`);
`cancelled` are the fired tokens; `stored` is which sessions storage has events of,
`plugins` whether plugins were shut down, `shutter` the shutdown in progress.

An action is one critical section of the mutex or one awaited effect, so calls interleave
exactly where the code awaits. `NewSession`/`ResumeSession` are `claim_session_slot`;
`BuildSession`, `PersistConfig`, `PersistNamespace`, `LoadSession` the awaited steps of
building, each of which may fail into `RollbackReservation`; `ActivateSession` tests the
reservation; `BeginClose`, `SeeTurnFinished`, `SessionEndHook`, `ExtractOnClose`,
`FinishClose` are `close_session`; `BeginShutdown` to `ShutdownCommit` are `shutdown`,
with `ShutdownRevert` its rollback; `CheckNotActive`, `DeleteStored` are
`delete_session`; `StartTurn`, `SpawnTurn` are `send_message`; `TurnEnds`, `SendOutcome`,
`ClearRunningTurn`, `SignalFinished` the turn and its supervisor. `DropCall` is a caller
that drops a future at an await: none of the code after it runs (there are no drop
guards), while a request that was already sent may take effect.

`SingleSession` is what the control plane promises: at most one session, reserved, open,
closing; at most one turn, begun only while it is open; released or reopened only when
that turn is over; a final shutdown. `Abstract` in `AgentControl` is the refinement
mapping (`slot` to phase and session, `Live` turns to `live`).

### SessionLedger and TurnEngine: one session and its turns

`SessionLedger` holds the pure part: `NextSeq`, `LatestRef` (`latest_metadata`),
`Entries` (the projection a rebuild computes), `Anchor`, `CanCompact` and
`ReplacesThrough` (the plan of a compaction), `IncrementAfter` (what an extraction gets).
`TurnEngine` is `run_turn` with one action for the code between two awaits whose outcomes
can be told apart: `StartTurn`, `PersistSkillInjection`, `PersistUserMessage`,
`BeginIteration`, `SkipCompaction`/`Compact`/`CompactionFails`/`CompactionCancelled`,
`StartRequest`, `ModelAnswers`/`ModelStops`/`ContextExceeded`/`RequestFails`,
`HandleReply`, `PrepareBatch`, `PersistToolCall`, `ExecuteBatch`, `PersistToolResult`,
`SettleBatch`, `PersistToolLimit`, `ExtractMemories`, `PersistCheckpoint`, `FinishTurn`,
`TurnEndFails`; and around it `CancelTurn`, `Panic`, `CloseSession`, `Crash`,
`ResumeSession`. `Persist` is `persist_and_project`: storage first, then ledger, view
and boundaries; if the save fails nothing in memory changes. An event saved by a process
that dies may have landed (`Crash`).

Abstractions: a text is the number of its event; token counts are left out, so whether a
compaction is due, or is enough, may go either way; a model, hook or tool may answer
anything the code accepts; a batch is what `BatchPromise` says of one: a result for each
call and two flags, or an error. The model may ask for `MaxCalls` calls in all.

### ToolBatch: one batch of tool calls

`prepare_batch` call by call (`PlanCall`: unknown tool, vetoed by a hook, skipped behind
an earlier one in a batch with a mutating tool), then `execute_batch`: serial if a call
mutates, concurrent if none does. `AnnounceCall`, `SpawnTools`, `ReportCall`,
`FinishCall`, `FinishFails` are the steps of a call, `RefuseRest` what cancellation or a
stop leaves. A tool is a process: it returns when it likes (`ToolReturns`), or the
dispatcher reports a timeout and leaves it running in `alive`, as the code does.

`BatchPromise` is what the turn sees of this: calls that wait, start, end well or badly, or
are left out by the plan; a hook's stop; a cancellation; and a `Finish` that answers all
calls at once, leaving over those that wait only because the turn is cancelled, or because
a serial batch stops at a call that went badly or whose hook asked for it. Events, stages,
timeouts and tools that run on are invisible in it. `Promise` in `ToolBatch` is the
refinement mapping (a call's result and stage to its state), `KeepsPromise` the refinement.

### EventChannel: from the turn to the host

`EmitEvent` numbers, `SendEvent` waits for room; `PanicTurn` is the supervisor's report
through the same channel; `SendOutcome`, `ClearRunningTurn`, `SignalFinished` its last
steps. The host reads, sees the end of the stream, joins or drops the `RunningTurn`;
another task may close the session (`BeginClose`, `FinishClose`) and resume it.

### MemoryManager: what a session remembers

A `MemoryStorage` outlives sessions and has other writers (`OthersUpsert`,
`OthersDelete`). `OpenSession` is `load_bootstrap_memories`, `LoadTurnMemories` the
search and `merge_memories` before a turn, `AddMessage` what a turn adds to the ledger.
`extract_incremental` is `BeginExtraction` (an increment without messages only moves the
checkpoint), `ListMemories`, `ModelAnswers` or `ExtractionFails`, one `ApplyOperation` for
each operation, `EndOperations`, `PersistCheckpoint`. `OperationFails` is a write that the
storage refuses, or a close that times out in it; `Crash` a process that dies at any
point. `BreakOff` is what both have in common: the write under way may have landed, those
after it are not made, the checkpoint stays.

A memory is *about* the number of the message that taught it. That is data the code does
not keep; it is what lets a property say that a message is forgotten or remembered twice.
`due` and `gone` are such history too: what the model wanted remembered and is not yet,
and the ids that were deleted before the listing, or by the extraction. The model may
name any id that exists or existed, of any namespace, or one that never did, but says
each new thing once in an answer; whether *two answers* repeat it is not restricted.

### AgentBuilder, HookRegistry, PluginHost: from registrations to hooks

`AgentBuilder` collects registrations in any order (`Register*`), validates them in one
step (`Build`, which awaits nothing: `Models`, `ModelsConfigured`, `ToolNames`,
`SkillNames`, `Descriptors` go through them one by one as `build_*_registry` does), and
brings plugins up (`InitializePlugin`), lets them tap (`ApplyPlugins`) and brings them
down (`ShutdownPlugin`, `EndShutdown`), after a failure or at the agent's shutdown.
`DropBuild` is a host that drops the future. `HookRegistry` is one `dispatch`: handlers
called in order with the data as patched so far, each of which continues, patches or
stops it. `PluginHost` composes the two through the registry that `ApplyPlugins` fills.

## 3. The runs

| run (cfg) | instance | shows |
|---|---|---|
| control_safety (`MCAgentControl`) | 3 calls, 2 sessions, 2 turns, dropped calls, symmetry | mutual exclusion of turns, quiet and exclusive closes, final shutdown, ownership of the slot, the inductive invariant, refinement of `SingleSession` |
| control_liveness (`MCAgentControlLive`) | 2 calls, 2 sessions, 1 turn, no dropped calls | every call returns, a reserved or closing slot and a shutdown under way resolve |
| tool_batch (`MCToolBatch`) | every batch of up to 3 calls | records, events, serial order, cancellation, termination, refinement of `BatchPromise` |
| turn_loop (`MCTurnEngine`) | 1 turn, 3 calls, limit 1, 2 compactions, 1 fault, 1 resume | the loop: answered calls, the limit, the ending, termination |
| turn_resume (`MCTurnEngineResume`) | 2 turns, 1 call, checkpoint every 2nd turn, 1 fault, 1 resume, 1 compaction | ledger, view, boundaries and checkpoint through faults and resumes |
| event_channel (`MCEventChannel`) | 2 turns of 4 events (and a panic's), channel of 2, 1 resume | order and completeness of events, the end of the stream, termination |
| memory (`MCMemoryManager`) | 2 namespaces, prompts of 2 memories, 4 memories, answers of up to 2 operations, 4 events, 1 foreign write, 1 fault | what extractions that start over, stale indices and invented ids forget, double, revive or reach; the memories of a turn |
| plugin_host (`MCPluginHost`) | up to 5 registrations out of good and bad providers, tools, skills, plugins; 6 configurations | what builds, order of up and down, who is called, what patches amount to |

Four more runs each check one sentence of the documentation that the code does not keep
(section 6).

Bounds and why they are enough. *Control plane*: two calls can race on any critical
section, the third lets a close and a shutdown race while a send is admitted; two
sessions distinguish "this session" from "some session"; a second turn is needed for a
late supervisor to meet a newer turn, and turns are reused once over. The safety
properties are also proved for all sets, so the bounds only limit liveness and the
findings; liveness has no symmetry, and one turn suffices because `SingleLiveTurn` is
proved. *Batch*: with three calls one can fail between a call before it and a call after
it. *Turn engine*: with a limit of one call, three calls give a batch below the limit,
one that exceeds it and one refused after it; two compactions give a compaction after a
compaction in one turn, or a fallback after a scheduled one; one fault at any place is
what each property is about (a second one only repeats the first after it was absorbed),
and the two turns of turn_resume are what makes a boundary, a checkpoint interval of two
and a restored turn index matter. *Memory*: two operations have one before and one after
a failure; one foreign write deletes what an extraction has listed, or adds to it; with
prompts of two, a third memory is crowded out; four events after the two that a new
session has are enough for a message, a checkpoint, another message and a second
extraction. More faults and writes repeat this; the proofs allow any number of them.
*Plugins*: five registrations are a provider (without which nothing builds) and four of
anything else: three plugins with a tool, or two skills and the tools they need; every
rule of the validation has builders that break it. *Channel*: the code's capacity is 64;
with 2 and turns of 4 the channel fills, drains and fills again, and the proof covers every capacity.

Deadlock is checked in every passing run but event_channel, where a host may simply stop
sending messages: there `TurnFinishes` says what must not block. In the other modules
the states in which the system may stop have a stuttering step with a name (`Stopped`,
`Over`).

## 4. Fairness

- `AgentControl`: `WF` for the steps of a call (the runtime polls its task; hooks,
  storage and plugins are assumed to answer; the code has no timeout around them) and
  for the supervisor's steps; `WF` for the end of a turn *only once it is cancelled*. A
  host need not call anything. That a cancelled turn ends is not taken on trust: it is
  what `EveryTurnEnds` (the engine's loop ends), `BatchEnds` (a batch ends although
  tools may not) and `TurnFinishes` (a send ends) establish in the finer models. The
  last one needs a host that reads its events or drops the `RunningTurn`; without one
  the assumption is false, which is finding 3.
- `TurnEngine`: `WF` of the engine's own steps; no fairness for cancellation, faults,
  crashes, or what a model answers.
- `ToolBatch`: `WF` of the dispatcher; none for tools.
- `EventChannel`: `WF` of the turn and its supervisor, of a host that reads, and of a
  close that has begun; none for joining, dropping, closing.

## 5. What is proved

### The control plane (`AgentControlProofs`), for every set of calls, sessions, turns

Assumptions: `ControlAssumption` (the three "none" values are outside their sets, the two
flags are Boolean). No bound on calls or turns, with or without storage, with or without
dropped calls.

The invariants are not inductive by themselves, so the proof goes by `ControlInv`, which
adds what calls in progress know:

- `WaitsForLiveTurn`: a close that waits holds the handle of the one live turn its
  session may have, so "the turn I hold is finished" implies "no turn is live", which is
  what `QuietClose` needs when the close moves on;
- `SenderHasTurn`: between `start_turn` and the spawn, the turn belongs to one call;
- `OneShutter` and `PluginsDownCommits`: only the call that set `ShuttingDown` is in
  shutdown's steps, and once plugins are down it can only commit, so a rollback to
  `Running` never follows;
- `ArgsTyped`: calls past their first step have a session.

`ControlInit` and `ControlStep` (one lemma for the steps of calls, one for the host's, one
for the turns') give `ControlInvariant`; from it follow `TypeCorrect`, `MutualExclusion`
(`SingleLiveTurn`), `LiveTurnKeepsSlot` (`LiveTurnInSlot`), `CloseIsQuiet` (`QuietClose`),
`CloseIsExclusive` (`ExclusiveClose`), `ShutdownStaysEmpty` (`ShutdownIsFinal`) and
`NoServiceWithoutPlugins` (`PluginsOutliveService`). `SlotIsOwned` proves the action
property `SlotOwnership`: apart from shutdown's last step, only the owner of a
reservation, the close in progress or the live turn's supervisor changes the slot.
`ControlRefinesSession` proves `Spec => Abstract!Spec`: each step is a step of
`SingleSession` or a stutter, by the invariant and one lemma for each kind of step.

### The event channel (`EventChannelProofs`), for every capacity, turns, events, resumes

Assumption: `EventChannelAssumption` (a positive capacity; the bounds are naturals). The
inductive invariant `ChannelInv` says that nothing exists of a turn that has not started
(`NotStarted`), that a live turn is the latest and the slot says so (`LiveTurnHasSlot`),
that the turn that emits has the session's numbers to itself (`Numbering`: this is why
a panic's event continues the sequence), that the receiver held is the host's
(`HostHoldsLatest`), and the order event by event (`InOrder`). The lemmas `OrderNumber`,
`OrderSend`, `OrderRead` say what becomes of that order when an event is numbered, sent
and read, and `OrderIsSequence` that it is the order of `EventsArrive`. From
`ChannelInvariant` follow `ChannelTypes` (no channel exceeds its capacity),
`EventsArriveInOrder` and `StreamEndsWithTurn`.

### The tool batch (`ToolBatchProofs`), for every size of batch

No bound on calls, no assumption but `ToolBatchAssumption`. `BatchInv` ties together, for
each call, its plan, stage and result (`CallInv`) and the events it has caused
(`EventInv`); says of a batch with a mutating call that it is executed up to `at` without
a failure and that only the call at `at` may be alive (`SerialInv`); and that whether the
batch was refused is settled at its end (`RefusalInv`). The lemmas about events say what
an appended event does to the events of its own call and of the others. From
`BatchInvariant` follow `BatchTypes`, `CallsAreAnswered` (`EveryCallAnswered`),
`EventsAreBalanced` (`EventsPaired`), `MutatorsAreSerial` (`MutatorsRunAlone`),
`CancellationIsTold` (`CancelIsReported`) and the action property `FailureStopsBatch`
(`NothingAfterFailure`). `BatchTypes` states `TypeOK`, which is proved and not in the run.

`DispatcherKeepsPromise` (`KeepsPromise`) proves that `ToolBatch` implements `BatchPromise`:
`PromiseStep` maps each step, with a lemma for each kind of it. `StateOfStage` reads a
call's abstract state off `CallInv`; `OneBecomes`, `NoneBecomes` and `BatchFinishes` say
once when one call moves, none does, and the batch is over. That the calls left over at a
serial batch's end are exactly those behind `at` is `SerialInv`; that the turn hears of a
cancellation is `RefusalInv`.

### The turn engine (`TurnEngineProofs`), for every limit, interval and number of turns

`EngineInv` has a part for each thing a turn promises, since each needs to know where the
loop is: `LedgerInv` (memory equals storage, numbered from 1), `LoopInv` (a batch has as
many results to come as `left` says), `EndInv` (what a turn that has not ended may have
said), `LimitInv` (once over the limit the tools are gone and the model is told),
`CoverInv` (the boundaries are those a resume would find, and an extraction that
succeeded has covered what its checkpoint is about to record), `AnsweredInv` (calls
without a result are those of the batch under way). The lemmas about `Persist` say what
one more event does to the ledger, to the latest metadata and to the unanswered calls, so
each action cites them. From `EngineInvariant` follow `LedgerIsKept` (`LedgerIsStored`),
`NothingIsLeftOut` (`CheckpointCovers`), `LastEventIsRight` (`LastEventMatchesOutcome`),
`LimitIsKept` (`ToolLimit`) and `EveryCallIsAnswered` (`CallsAnswered`), through any
number of faults, crashes, compactions and resumes.

### What the model is shown (`TurnViewProofs`), for the same turns

The view is a projection of the ledger: every event becomes no, one or two messages, and
the projection puts their lists together. `EntriesAppend`, `WithoutNoticesConcat` and
`TurnAppends` say what one more event adds to the projection, to the view without its
notices and to the messages of the current turn; `ViewStep` that every action of the
engine pushes what it saved, compacts, resumes or leaves the view alone. `EngineViewInv`
is `EngineInv` with four parts:

- `ViewInv`: the view is what a resume would rebuild from the events past the boundary, up
  to the notices that only a rebuild puts in, and the boundary is in the ledger. A
  compaction is the hard case: it replaces the front of the view and moves the boundary,
  and both must stop right before the current turn (`CompactsBefore`).
- `SuffixInv`: from the user's message on the view ends with all of the current turn; it
  needs that no message of the turn is incomplete until its last answer, or a rebuild
  would put a notice between them.
- `AnswerInv`: from the last answer without calls to the end of the turn, that answer is
  the last message of the turn, marked incomplete if the turn was cancelled.
- `TypeInv`: the types, which need the bounds on events, calls and compactions.

From `EngineViewInvariant` follow `ViewIsTheRebuild` (`ViewIsRebuild`),
`RequestsSeeTheTurn` (`RequestSeesTurn`), `TheAnswerIsKept` (`AnswerIsKept`) and
`EngineTypes` (`TypeOK`).

### The memory manager (`MemoryManagerProofs`), for any namespaces, writers and faults

`MemoryInv`: one memory for an id, and the next id is new (`StorageInv`); what the index
lets an extraction touch is its own namespace's and not deleted yet (`IndexInv`); what is
due is in the operations still to come (`DueInv`). It gives `NothingIsForgotten`
(`NothingForgotten`), `DeletedIsGone` (`DeletedStaysDeleted`) and the action property
`NamespacesAreIsolated` (`NamespaceIsolation`); `EffectStep` is the one lemma about what
an operation does to the storage. `CopiesAreBounded` (`CopiesBounded`) needs `CopiesInv`
on top: a message whose operation has not been applied by the extraction under way has at
most as many copies as there were failures, one that has been applied one more; a failure
pays for the copy it leaves behind.

`RoomInv` is about the ids: what is stored are memories, and however many ids are given
out, each message that the operations under way still have to record has one left
(`EffectRoom`: an operation takes an id only if it takes its message off the list;
`OthersRoom`: nobody else takes it). `TurnInv` is about the lists of a session:
`OwnMemories` says what a list of the storage's memories is, and `MergeIs`, by induction
over the merge of the bootstrap memories and the hits, that it keeps the first memory of
each id up to the limit; so `MergeFits`: the bootstrap memories stay in front, and a hit
is left out only for lack of room. From `RoomInvariant` and `TurnInvariant`, which hold
whatever happens to the storage after the session has read it, follow
`TurnMemoriesAreRight` (`TurnMemoriesFit`) and `MemoryTypes` (`TypeOK`).

### Plugins (`PluginHostProofs`), for any registrations

Four invariants of the builder together with its dispatches, each inductive by itself:

- `NestInv`: the plugins that are up are the first of the list, those that are down again
  the last of these. `PluginsAreNested` (`PluginsNest`).
- `HookInv`: the data a handler is given is the data of the caller with all patches
  returned so far; the hard case is a section that is blank, which is left out.
  `PatchesOfHandlersAddUp` (`PatchesAddUp`).
- `TapInv`: once applied, the registry is the taps of all plugins in their order, and a
  dispatch goes through those of its event. `HandlersAreTappers`: the plugins whose
  handlers those are, are the plugins that tap the event, in the order in which they were
  registered. `EveryTapIsCalled` (`EveryTapCalled`).
- `ValidInv`: what is past the validation is well formed and stays so. The validation
  goes through the registrations one by one and stops at the first that collides;
  `NamesAre`, `AddModelsAre` and `ModelsAre` say, by induction over the list, that it
  accepts exactly the lists in which no two places collide, and `ValidatedIsWellFormed`
  that all checks together accept exactly the `WellFormed`. `OnlyTheWellFormedStart`
  (`OnlyWellFormedStarts`).

### Lists (`ListLemmas`)

Merge, validation and projection are recursive: `FoldLeft` and `FlattenSeq` of the
community modules. `ListLemmas` has what the proofs above need of them. Its induction is
over a *set* of numbers (`SetInduction`: a set that has 0 and with each number the next
has them all), which the provers can instantiate where they cannot instantiate an
induction over a predicate. From it `FiniteRecursion` and `SubsetRecursion` give that the
function the library chooses for a recursive definition exists, which is why
`FlattenSeq` of a list with one more element (`FlattenAppend`, and `FlatMapAppend`,
`FlatMapConcat` for the lists that a projection puts together) and the steps of a fold
(`FirstPlaces`, and the lemmas named `...Run` of each module) can be computed.

### What stays with TLC

- Every liveness property (`EveryCallReturns`, `NothingStuck`, `BatchEnds`,
  `EveryTurnEnds`, `TurnFinishes`): the prover does not handle fairness.
- The findings of section 6, which are counterexamples.

Every invariant and every action property that a passing run checks is proved.

## 6. Where code and documentation disagree

Each run below checks one statement of the documentation and TLC finds a behaviour of the
code that breaks it; `PROJECT.json` quotes the lines.

1. *shutdown_leaves_turn* (`ShutdownEndsTurn`): shutdown looks for an active session
   once. A session that is reserved then is activated afterwards, may start a turn, and
   has its slot overwritten with `Empty` while the turn runs.
2. *delete_active_session* (`ActiveSessionNotDeleted`): `delete_session` checks the slot,
   leaves the mutex, then deletes; a resume may activate the session in between.
3. *join_blocks* (`JoinGetsOutcome`): `join` keeps the receiver alive and does not read
   it, so with more events to come than the channel holds neither turn nor join ends.
4. *sequence_restarts* (`SequenceIncreases`): the numbers of a session's events start
   again at 1 after a resume.

Facts a reader should know that contradict no document: a dropped `new_session`, `close`
or `shutdown` leaves the slot `Reserved` or `Closing`, or the lifecycle `ShuttingDown`
(`NothingStuck` is checked without dropped calls only), and a dropped `build` leaves
plugins up that nobody shuts down; the outcome is sent before the
slot is cleared, so a host that joins without reading to the end may get `TurnBusy`;
`TurnFailed` turns have no last event of their own; a serial batch cancelled during its
last call does not report it, and the turn notices at its next iteration; `start_turn`
does not look at the lifecycle, which is one half of finding 1; a memory that another
writer deletes after an extraction has listed it comes back if that extraction updates
it; an extraction that is repeated after a failure remembers again what it had applied,
once for each failure at most (`CopiesBounded`).

## 7. What is not modelled

- Texts, prompts, token estimates, truncation of tool output, slash parsing, similarity
  search: data that no property tells apart. Choices made from them are nondeterministic.
- `list_sessions`, `find_sessions`: they read. How a memory search ranks its hits is left
  open; that it returns memories of the namespace asked for is the storage's contract.
- Prompt assembly (`prompt_builder.rs`, `prompt/templates.rs`), the domain types and
  errors: no state. Which of several errors a failed validation reports is left out.
- The numbers and texts of a configuration: `validate_config_values` accepts them or not,
  which is a flag of a configuration in `AgentBuilder` and an assumption elsewhere.
- The parsing of a slash invocation and the rendering of a skill; that the injected
  message is saved before the user's, and is dropped by a compaction, is modelled.
- A storage that reports failure for a save that landed: the storage contract
  (`README.md` of the repository) obliges `save_event` to be exact; only a process that
  dies, or a call that is dropped, leaves it open.
- `examples/`: a host of the library, not part of it.

## 8. Plan

Done: control plane and dispatcher with their abstract specifications, ledger and turn
engine, event channel, memory manager, builder, plugins and hooks, each with the proofs of
its safety properties. What is left, most important first:

1. A composition of control plane and channel in which the supervisor's steps are shared,
   so that the assumption "a cancelled turn ends" becomes a checked refinement.
2. A composition of `TurnEngine` and `MemoryManager` over one ledger: both have the
   checkpoint, the first with every event of a turn, the second with every operation of
   an extraction.
