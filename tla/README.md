# Verification of the protocol bridge

agent-vibes lets the Cursor client talk to other model back ends.  Its core is
the *protocol bridge* (`src/apps/protocol-bridge`): a single-threaded Node
service that accepts bidirectional Run RPCs from the client, runs agent turns
and sub-agents on them, asks the client to execute tools, and keeps every
conversation in SQLite.  This directory holds TLA+ models of the parts of the
bridge whose correctness depends on the order of events, TLC configurations
that check them, and proofs that TLAPS checks.

Paths below are relative to `src/apps/protocol-bridge/src/protocol/cursor/`
unless they begin with `src/`.  `ccs` is `cursor-connect-stream.service.ts`.

## 1. The system

| part | code | state | operations |
|---|---|---|---|
| Turn lifecycle | `turn/turn-lifecycle.service.ts`, `turn/turn-handle-impl.ts` | the registered turns as a tree, an abort signal per turn, the umbrella turn of each attachment | spawn, drive a runner to its terminal, cancel a turn / an attachment / a conversation, await terminals |
| Attachment | `bidi/bidi-outbound.ts`, `bidi/bidi-stream-controller.ts` | open / sealing / sealed, the turns that may write | push and pop a writer, write, seal |
| Cleanup | `turn/turn-cleanup-coordinator.service.ts` | progress of one unwind | cancel, await terminals, drain writers, sweep tool calls, close |
| Inbound continuations | `bidi/bidi-inbound-continuation-scheduler.ts`, `handleBidiStream` in `ccs` | FIFO, running continuation, end reason | read a frame, enqueue, start the next, evaluate the idle edge, end the RPC |
| Pending work | `session/session-lifecycle.service.ts`, `session/session-stream.service.ts`, `session/interaction-query-deadline-sweeper.service.ts` | pending tool calls, pending interaction queries | register, consume, interrupt, expire |
| Exec dispatch | `session/exec-dispatch-store.service.ts`, `session/exec-dispatch-serializer.service.ts` | durable outbox rows, in-memory schedule per attachment, exec ids | enqueue, deliver, release, cancel, park, reattach, replay |
| Tool batches, graph turns | `session/assistant-tool-batch.service.ts`, `turn/top-level-agent-turn-runner.service.ts`, `session/conversation-context-runtime.service.ts`, `ccs` | the open batch, the parked inline continuation, the active graph turn, the top-level turn and its context operation, the lane of continuations | open, add, settle, claim; park and take; begin / commit / abort; run exclusively |
| Sub-agent runs | `subagents/`, `session/subagent-run-store.service.ts`, `session/context-state.service.ts`, `ccs` | durable runs (status, foreground or background, delivery of the outcome), the turn that executes each, its projection gate | dispatch, hand over to the background, end, await, notify, kill, interrupt, reconcile before a mount |
| Projection gate | `session/projection-attempt-gate.service.ts` | one lease and one handoff per owner | acquire, release or abort; begin, complete or abort a handoff |
| Frame channel, abort registry | `concurrency/buffer-channel.ts`, `backend/backend-abort-registry.ts` | queued frames, abort controllers | push, close, iterate; register, abort |
| Context | `src/apps/protocol-bridge/src/context` | projections of a conversation | project, compact |
| Back ends | `src/apps/protocol-bridge/src/llm` | account pools, provider sessions | stream, retry, cool down |

How they interact.  A Run RPC attaches a stream (`attachBidi` → controller and
outbound) and spawns its *umbrella* turn.  The *pump* reads client frames; what
needs the model goes into the FIFO, what a running continuation waits for is
handled at once.  A continuation spawns a chat turn under the umbrella, and
sub-agents under that.  A tool call becomes a pending call and an outbox row;
the serializer writes one frame at a time to the attachment.  The client's
result comes back through the pump, releases the serializer, consumes the
pending call and continues the turn.  When nothing runs, waits or is owed, the
pump ends the RPC; its `finally` seals the attachment, which makes the cleanup
coordinator cancel and await the turns and close the outbound.  A later RPC
with a resume action takes the outbox rows over.

A `task` call starts a durable run.  In the foreground its turn runs under the
parent's chat turn and its outcome is the answer of the call.  A background run
answers the call at once and is told about later: by an `await_task` call of
the parent or by a notification.  A `backgroundSubagentAction` of the client
moves a run from one to the other: its handler waits at the projection gate
until the current attempt has released its lease, switches the row, cancels the
foreground turn, awaits it and only then answers the call and lets the new
worker through.

The calls of one assistant message form a *batch*.  A result handler commits its
result, settles its call in the batch and asks for the continuation in a turn of
its own, one at a time in the *lane*; the first that finds the batch settled
claims it and asks the model again.  A batch that settles inside its own turn
parks the continuation, for the chat body or a result handler to take.  The turn
that speaks owns the *graph turn* of the conversation.  A user message on any
attachment interrupts what is pending, supersedes the owner of the graph turn
and of the batch, waits for their terminals, and begins.

What is hard: the bridge has one thread, but every `await` is a point where
other handlers run.  Cancels, late results, query deadlines, closes by either
side, resumes on another attachment and restarts from the database meet in any
order.  `PROJECT.json` lists the hazards with their lines.

## 2. Modules

| module | models | extends |
|---|---|---|
| `TurnOutbound` | the write path of an attachment, as operators on a value | |
| `Attachment` | abstract: an attachment opens, gathers turns, is silenced and closes | |
| `TurnSupervisor` | the turn tree, cancelling, closing an attachment, superseding a turn; implements `Attachment` | `TurnOutbound` |
| `TurnSupervisorProofs` | theorems about it, the refinement included | `TurnSupervisor` |
| `InboundScheduler` | the continuation FIFO, as operators on a value | |
| `RunRpc` | abstract: jobs taken and served, calls made and settled, one end, the return | |
| `InboundPump` | pump, FIFO, owed work, deadlines, end of a Run RPC; implements `RunRpc` | `InboundScheduler` |
| `InboundPumpProofs` | theorems about it, the refinement included | `InboundPump` |
| `ClientCall` | abstract: a tool call the client executes, from its making to its one end | |
| `ExecDispatch` | outbox, serializer, attachments, resumes, restarts; implements `ClientCall` | |
| `ExecDispatchProofs` | theorems about its rows and ids | `ExecDispatch` |
| `ExecScheduleProofs` | theorems about its schedules | `ExecDispatchProofs` |
| `ExecCallProofs` | the refinement | `ExecDispatchProofs` |
| `ProjectionGate` | the gate of one sub-agent, as operators on a value | |
| `SubagentPromise` | abstract: what a parent sees of a sub-agent | |
| `SubagentRuns` | sub-agent runs and their turns, handoffs, awaits, notifications, restarts; implements `SubagentPromise` | `ProjectionGate` |
| `SubagentRunsProofs` | theorems about it | `SubagentRuns` |
| `AgentLoop` | abstract: the model speaks, its calls are made and closed | |
| `ToolBatch` | user turns, tool batches, results and continuations over several attachments; implements `AgentLoop` | |
| `ToolBatchProofs` | theorems about the graph turn and the lane | `ToolBatch` |
| `ToolBatchLoopProofs` | theorems about the batch and the refinement | `ToolBatchProofs` |
| `MC*` | the symmetry sets of the TLC instances | the module named |

An action is one run-to-completion section of the JavaScript: what happens
between two awaits.  A promise is modelled by the state it waits for.

### TurnSupervisor

`phase[t]` follows `driveRunner`: *running* until the runner's promise settles,
*settled* until `withWriter` has popped the writer, *finalizing* during the
awaited `onFinalize`, *done* when the record has left the maps and the terminal
promise is resolved.  `info[t]` is what `spawn` recorded; `chain` is the set of
ancestors, because every handle listens to its parent's `AbortSignal` and so is
aborted with any of them, whether the ones in between are still registered or
not (`Below`).  `seal[b]` is the program counter of `unwindBidi`, `unwind[t]`
that of `unwindTurn`.

`SealBidi` is `BidiStreamController.seal` up to its first await; then
`TerminalsResolve`, `WritersDrain` (with the timeout as a nondeterministic
outcome that needs a writer left) and `CloseOutbound`.  `AttachBidi`,
`SpawnChat`, `SpawnSubagent`, `SpawnCompaction` and `SpawnBackground` are the
spawn sites in `ccs` with their guards; `IsActiveTurnOwner` is the check that
those sites make.  The `TurnKind` names of the code do not tell an umbrella
from a chat turn (both are `user`; a `control` turn is spawned like a chat
turn), so `Kinds` names the spawn sites instead; no code spawns a `recovery`
turn.  Nothing outside tests seals with `superseded-by`, cleans up with
`bidi-superseded` or `user-cancelled`, or calls `reportTerminal`; these are
left out.

`Attachment` is the close as a client may rely on it.  The mapping `Shown` sorts
the turns of an attachment into *live* (registered, signal not fired), *ending*
(registered, aborted) and *over*, takes the state of its outbound, and the
registered umbrella as its root while it is open.  A turn never passes from over
or ending to live, nobody joins an attachment that is not open, the root is never
cancelled alone, and `Closed` wants nobody left.  That the first step of a close
makes *every* turn ending is a claim about the tree: the code cancels the roots
of the attachment and relies on the signals to carry.

### InboundPump

`tool[t]` says what a pending tool call waits for: the client's result (*exec*,
or *restored* if the bridge was restarted since the call was made), the response
to a query (*query*), its own queued handler (*closed*), or a client answer on
behalf of a sub-agent, which the running continuation awaits (*child*) or which
works in the background (*background*).  A query that was resolved or aborted
before its response came leaves the call *astray*: the response will be
unmatched, and an unmatched response fails every pending call of the
conversation (`failPendingToolCallsWithProtocolError`).  `answer[t]` is what was
enqueued for a call: a result, a response, or the client's error (*throw*).
`sched` is the scheduler; `rpc` is the frame forwarder's `finally`.

`stage[c]` is how far a continuation has come.  A user message closes the queries
an earlier turn left (`BeginChat`), gives sub-agents up to five seconds
(*grace*), interrupts what is pending then except the calls of background
sub-agents (`GraceOver`), and runs a model turn (*model*).  If calls of before a
restart are pending it requests the terminal end instead and leaves them for the
next attachment (`DeferMessage`, *cut*).  A resume only waits (`ResumePassively`,
*passive*).  A result or response continues the model; an `execThrow` aborts the
one call it names and ends the run (`AbortByThrow`, *cut*), except for MCP tools,
whose error is a result.  A message may bring the outcomes of interrupted calls
(`ReadMessage`), and a completion or a response that comes before those are known
makes the pump throw (`RefuseResponse`, `PumpEnds`).  A handler that throws ends
the run as *continuation-failed*; only the handler of a tool result logs the error
and goes on.

Other awaits inside a handler on the pump are collapsed: the pump reads no other
frame meanwhile.  Left out: asynchronous questions (another kind of owed work),
the recovery query of the Google back end, parked control continuations and their
replay, calls left by sub-agents of before a restart, what background sub-agents
call when nothing else keeps the run open, and an error for a call that is no
longer pending, which is ignored.

`RunRpc` is the Run RPC without pump and scheduler.  `Seen` maps the running
continuation, the FIFO, what was read, what has finished, the calls that were made,
those still owed and those of before a restart, the calls the client gave up, the
end reason, and whether the forwarder has returned.  What needs the model is
taken once and served in the order it came; the reason for the end is given once;
a step that settles the last call of an idle run is the end of the run
(`Settled`); nothing is taken or called afterwards.  `turn-terminal` is given only
with no call open, with two exceptions, which the promise spells out because the
code makes them: what runs is about a call the client gave up, or it is a user
message that met calls of before a restart.  `RequestEnd` throws the FIFO away,
which the abstract run does only as it ends.

### ExecDispatch

`box` holds what one synchronous call may change together: the rows per call
and attachment, how often each envelope was written, the schedule of each
attachment (`slot`), and the durable order.  `Offer` is the writer
(`writeExecDispatchOutbox`): beginDelivery, write, markDelivered, or the row put
back.  Since those three run without an await, only a crash can separate them:
`CrashInDelivery` is the restart that finds a row in *dispatching*, written or
not.  `Refuse` and `Recover` model an attachment whose leaf turn is aborted but
not yet gone.  `edge[c]` is the call's edge in the ledger; `Restart` parks what
may have been sent and rebuilds the exec id counter from the outbox.

`ClientCall` is one tool call, seen from the conversation and from the client.
`Seen` takes its status from the edge and the rows (*parked* when a row waits for
the client's verdict, *answered* when one is settled), `holds` from the active
rows and `shown` from the writes.  Queue and order do not appear: an open call is
held by one attachment, a resume moves it only to one where its frame was never
shown, a parked one is neither moved nor shown, and an end is final.  One step of
`ExecDispatch` may be a step of several calls, since a release sends the next
frame and a resume moves them all.  That a resume may move a call whose frame
*was* shown elsewhere is the code's doing (`replayed_frame`), so the promise does
not exclude it.

### SubagentRuns

A run is named by the parent's `task` call, which has one run.  `status`,
`mode`, `delivery` and `edge` are the durable part: the run's row and the edge
of the parent's call in the ledger; a transaction of the store is one step.
`fg[r]` is how far the foreground execution has come.  The row is written before
there is a turn: *admitted* is the set-up between the two, and *failing* is
`failSubAgent` in its stop hook after a set-up that threw or a spawn that was
refused, with no turn registered (`SpawnForeground`, `SpawnFails`).  The turn is
*ready* for the next attempt, *refused* by a handoff, *working* under the lease,
*asking* the client to execute its tools, still under the lease, *stopping* in
the stop hook, *exhausted* (out of turns), *settled*, and *unwinding* in
`onFinalize`.  `bg[r]` is the background turn, which is *gated* until it is
released.  `aborted[r]` are the turns whose signal has fired.  `starter[r]` is
the handler that starts a turn: it dispatches the call, or it drains the gate,
switches the row, acknowledges, runs the parent's continuation, or rejects the
turn it spawned.  A handoff that finds no turn registered (`SwitchFails`) throws
after the row has changed hands, and the background turn is rejected; a kill then
reports `missing_runtime`.  `wait[w]` is an `await_task` call, possibly inside the
continuation that a handoff runs (`within`); `notice` is the set of deliveries a
completion notification has frozen.

Abstracted: the sidechain graph, the sub-agent's own tool calls beyond *asking*
(an attempt may end in any way at any time), reports, the turn tree (see
`TurnSupervisor`), the awaits inside `onFinalize` of a background turn.  A killed
run counts as interrupted; `executionTurnId` follows `mode`, because a run has one
foreground and then at most one background turn.  The queue of attempts that wait
at the gate is left out, since the loop of a sub-agent asks for one lease at a
time.

### ToolBatch

One conversation.  A turn is named by what starts it: a user turn by its RPC, a
continuation by the call that triggers it and the way it does (a result, or the
first call of a batch that settled inline).  `turn[t]` is the supervisor's view:
*live*, aborted for a reason, or *over*; the reason decides what the finalizer
drops (`EndAborted`).  `h[s]` is the handler that runs on RPC `s`, between two
awaits: a user message on its way through interrupt, supersede and begin, a
response being read, its tools being dispatched, a result being committed, a
continuation in the lane.  `EndAborted` is separate from the handler because the
turn of an aborted handler ends at once (the runner races its signal) while the
body runs on until it looks: the bodies of two turns overlap, as they do in the
code.  `current` is the stream of the last attachment; `installed` the
`graphTurnOwnershipInstalled` flags; `op` the active context operation.
`StartResume` keeps a resume attached while the model is being read or a call is
pending, and binds those calls to its stream.

A call is answered by the client on the RPC that asked or on the one it was bound
to.  The finalizers of `handleChatMessage` and `runToolContinuationParentTurn` do
nothing before the graph turn is installed, and the model does the same.  Left
out: asynchronous questions (`await_async_user`), turns of control actions and of
recovery, the continuation budget, sub-agents, the frames, and an error of a
turn's body that escapes its own catch (the turn is then *failed* and its
finalizer drops the batch, `ccs:35021`).  Every back end
wants complete batches (`llm/shared/tool-continuation-policy.ts`).

`AgentLoop` is what the client sees of all this: `speaking` are the live turns
that read a response for the current stream, `open` the pending calls.  The
refinement says that however the attachments come, go and supersede each other
there is never a second speaker, that the model never speaks over an open call
(a user message closes them as it begins), and that a closed call never opens
again.

## 3. Runs

| run | instance | shows |
|---|---|---|
| `turn_tree` | 3 turns of every kind, 2 attachments, fair | aborts reach all descendants; live turns hang from the registered umbrella and can write; a close is never forced and ends sealed; attachments live as `Attachment` says; a supersede is answered |
| `stalled_runner` | 3 turns, bodies may ignore the abort | violation: the drain timeout never starts |
| `sweep_too_early` | 3 turns | violation: a turn is swept while its sub-agent runs |
| `pump_safety` | 1 chat, 1 completion, 3 tool calls, perhaps of before a restart, deadlines | a run the client did not cut short is terminal only when it owes nothing, and loses no answer; an idle run has ended; the run goes as `RunRpc` says: in order, one at a time, one end, then the return |
| `pump_live` | 1 chat, 1 completion, 2 calls, no deadlines, the client answers | waiting continuations proceed; answered calls settle; an ended run returns |
| `dropped_completion` | | violation: a completion ends the run over a non-empty FIFO |
| `expired_query` | | violation: an expired query leaves its call pending |
| `exec_schedule` | 2 calls, 2 attachments, 1 restart or crash, fair client | an envelope is written at most once per attachment; exec ids are unique; calls live as `ClientCall` says (one attachment holds them, one end); one unanswered frame at a time; no schedule without a frame in flight; scheduled frames advance |
| `replayed_frame` | | violation: a resume replays a delivered frame |
| `subagent_runs` | 2 runs, one of them may begin in the foreground, 1 `await_task`, 1 restart, fair, the client answers | the parent is told each outcome once; every outcome has a route; a crash never leaves a conversation that cannot be mounted; a running run is attended; one turn works, the owner; handoffs and aborted turns end |
| `tool_batch` | 2 RPCs (each a user message or a resume), 2 client calls and 1 inline call, 1 stop, fair handlers | one speaker at a time and none over open calls; the graph turn and the lane have one owner; a batch holds the calls of one turn; handlers come to rest; a settled batch is continued |
| `graph_release` | 2 RPCs, 1 call | violation: a turn that is over owns the graph turn |

Bounds.  Three turns allow a chain umbrella–chat–sub-agent that is cancelled from
its middle, a close that meets a turn spawned late, or two attachments; what
longer chains add is covered by the proofs, which establish every invariant of
`turn_tree` for any number of turns.  Three tool calls in
`pump_safety` are one whose result continues the run, one of before a restart that
is still pending then, and one that is made meanwhile, whose response the pump
has to refuse; or one that runs or is awaited, one that is queued and one that is
owed or astray (the proofs hold for any number).  Two exec calls are one in
flight and one that waits for it; two attachments allow a hand-over and one back
(queues of any length are in the proofs).  Two RPCs meet as a user message that
supersedes another, as a resume that takes the calls of a user message over, or
as a message that comes while a continuation runs; two client calls and an inline
one make a batch that settles on mixed paths, or two batches in a row (three RPCs
with two calls, 4.7 million states, satisfy the safety properties too).  `MaxRestarts = 1`: a restart wipes
the memory and every row is then queued, parked or inactive, so a second one
finds no new kind of row.  Two sub-agent runs, one that may be handed over and
one that is in the background from the start, meet in a cancel, in a
notification and in an `await_task` made while the other is handed over; two
foreground runs meet only when they are cancelled together (the proofs of the
safety properties hold for any number).  Two `await_task` calls
that claim the same delivery are covered by the proof.  Turns, calls and messages are used once.  The runs
switch the deadlock check off because all inputs are finite.

Fairness.  `TurnSupervisor.SchedulerFairness`: the event loop runs every
continuation whose promise has resolved, timers fire, finalizers return or
throw.  `ListenersSettle`: an umbrella waits for its signal and a chat turn
races against it, so both settle by scheduling alone.  `BodiesHeedAbort` also
lets sub-agents and compactions settle after an abort, which the code asks of
its runners and cannot enforce; `stalled_runner` drops it.  In `InboundPump`
ready continuations run, the sweeper's interval fires, and (`ClientAnswers`)
the client answers what it was asked; `AwaitIdle` also relies on the umbrella
turn's terminal, which `SealCompletes` is about.  In `ExecDispatch` the client
closes the streams it was given.  In `SubagentRuns`, `HandlersReturn`: hooks,
transactions and continuations return, and the continuation a handoff runs has
a bounded number of rounds, so that its end is strongly fair; `BodiesEnd`: an attempt that works ends with its provider stream or
asks the client, an abort ends it even while it asks, `await_task` has a deadline,
and an aborted worker is not sent back to work for ever.  That the client answers
what a foreground sub-agent asks is an assumption of its own (`ClientAnswers`):
`awaitTerminal` of `subagents/subagent-exec-bridge.service.ts` has no deadline, and
the lease is held over it.  `HandoffsSettle` fails without that assumption, with a
handoff that drains behind a silent client for ever; `AbortedTurnsEnd` does not
need it.
In `ToolBatch` each handler goes on when its await has resolved (responses end,
hooks return, inline tools finish or fail) and the runner of an aborted turn
settles, since it races the signal; nothing makes the client answer, close or
send anything, nor the user stop.

## 4. What the code does not do as its comments say

* `stalled_runner`: the drain timeout of a close is there for a stalled runner,
  but the coordinator awaits the terminal of every runner before it.
* `sweep_too_early`: the coordinator's header promises that every runner's
  `finally` has run; superseding a turn awaits that one turn.
* `dropped_completion`: the end of a run is said to be decided only at an idle
  edge; a background completion decides it from inside the FIFO and drops what
  is queued.
* `expired_query`: deadline expiry is listed as an abort path of the ledger; the
  sweeper aborts no tool call.
* `replayed_frame`: a delivered envelope is said to be parked until the client's
  verdict; a resume without a restart writes it again on the new attachment.
* `graph_release`: the graph turn is said to be released before the terminal of its
  owner, so that a superseding turn finds it free.  A user or continuation turn
  that is aborted while it waits for a stale one is finalized before it owns
  anything, and then takes the graph turn all the same: it stays taken, and every
  later user message of the conversation fails.

Some lesser disagreements are not runs.  `shouldEndWhenIdle` says that pending
client executions keep a run open
(`bidi/bidi-inbound-continuation-scheduler.ts:15-16`), but an `execThrow` for one
call, and a user message that meets calls of before a restart, end it terminal
over the others; `CutShort` and the exceptions of `RunRpc` name these two ends.
`cancelTurn` aborts a parent before its children have settled; a row that was
reattached is *queued* although `ccs:2385` takes that to prove its frame was never
written; a tool result releases the serializer before `stream_close`.  These are
listed as hazards.
Neither are these, around sub-agents:

* A handoff answers the parent's call and runs the parent's whole continuation
  before it releases the new worker, so that an `await_task` on that very run
  can only wait for its own deadline.
* `backgroundSubagentAction` is queued in the FIFO behind the chat continuation
  whose sub-agent it is about.
* A notification is frozen over a set of deliveries; if one of them is told by
  another route meanwhile, the whole notification is dropped, and the others
  wait for the next one.
* Two `await_task` calls may both read a delivery as pending; the second commit
  throws.  So does the second answer of a background spawn whose setup failed
  after the acknowledgement.
* Around batches: a batch that settles while its attachment is superseded is not
  continued, and a later resume does not continue it either, although
  `ccs:33352` says a resume continues correctly.  The body of a superseded chat turn that runs on may take
  the inline continuation another handler parked and, finding that the stream is
  not its own, end the context operation the others run under; the next
  continuation then has none.  A resume's continuation supersedes a graph turn
  that is running before it finds that it has to wait for the batch.
* The limit on a sub-agent's turns is committed without the lease, so that a
  handoff can come between; and a background turn that waits at its gate does
  not listen to its abort signal.

## 5. Proofs

For every set of turns and attachments (`TurnSupervisorProofs`):

* `TypeCorrect`, `AbortsReachDescendants`, `AttachmentsCloseUnwound`,
  `WritersAlwaysDrain`.
* `AbortInv`: ancestors of a spawned turn are spawned, and the chain of an
  ancestor is contained in the chain of its descendant; then a cancel, which
  aborts whatever meets it in its chain, and a spawn, which inherits the
  parent's abort, both preserve `AbortReachesDescendants`.
* `CloseInv`: a writer is a turn of the attachment whose runner has not left
  (`WritersRun`), so that terminals in means writers gone; once a close has
  begun, the outbound is not open and every turn of the attachment that is not
  terminal is among those the close remembered (`CloseKnowsTurns`), because no
  site spawns onto an outbound that is not open; and the steps of a close come
  in order (`CloseInOrder`).  Neither property is inductive without these.

For every set of messages and tool calls (`InboundPumpProofs`):

* `TypeCorrect`, `TerminalRunsOweNothing`, `AnswersAreNotLost`,
  `IdleEdgesAreSeen`, `RunsArePromised`.
  The first two except a run that was cut short (`CutShort`): the client gave a
  call up, or spoke over calls of before a restart.
* `PumpInv` adds to them: nothing is queued behind nothing or after the end
  (`FifoInv`), pump and forwarder leave only after the end was requested
  (`DetachInv`), a sub-agent's pending call belongs to the running continuation
  as long as the run accepts (`WaitInv`: this is why a deadline or an answer
  that settles it cannot leave an idle run behind), a terminal run has nothing in
  line, and what still runs then is what declared the end (`TerminalInv`), and
  answers belong to calls that were made (`AnswersAreCalled`).  One lemma per
  shape of step: frames that are admitted, frames handled at once, the ends of
  pump and forwarder, a continuation that declares the end
  (`DeclareKeepsPumpInv`), a tool call, the end of a continuation, and steps that
  leave the scheduler alone.  `SettleOnlySettles` says once what settling calls
  does to what is owed.
* `RunsArePromised`: `Spec => Promise!Spec` with `Seen`.  `RunInv` adds three facts
  to `PumpInv`.  What still runs after the end runs behind a sealed attachment or
  has declared the end itself (`EndedIsSealed`), which is why it makes no further
  call: the code checks the attachment, not the run.  A response that is waited
  for was not read (`QueriesUnread`), so that an answer is taken once, and what
  was enqueued for a call was read (`AnswersWereRead`).  `AdmitShows`,
  `SettledShows`, `RequestShows` and `EndsShow` say what a frame, a settled call, a
  requested end and the end of a continuation look like from outside;
  `EndsEffect` says which of the four ends (next, last, terminal, failed) it is.

For every set of calls and attachments and any number of restarts
(`ExecDispatchProofs`):

* `EnvelopesAreSingle`, `EnvelopesAreWrittenOnce`, `IdsAreUnique`.
* `RowInv`: live envelopes belong to open calls, one to each, a call that was not
  made has no row, and a row that waits was not written.  The invariant says
  nothing of the queues, and needs nothing: `OfferKeeps` shows that an offer of
  any call at all only turns a queued row into a dispatched one and counts its
  one write, `SerializerKeeps` lifts that to scheduling, releasing, cancelling and
  replaying (`Kept`), and one lemma per way the rows change before the
  serializer acts does the rest.  A resume keeps the invariant because it moves
  the one live row of a call to an attachment where the call had none
  (`CanReattach`); dropping that check is one of the mutants.
* `CallsArePromised` (`ExecCallProofs`): `Spec => Promise!Spec` with `Seen`.
  `CallInv` adds to `RowInv` that an open call has a live row and no settled one
  (`OpenInv`): an edge closes in the transaction that ends the row, and a resume
  that takes a row away puts another in its place.  Without it an open call could
  look moved to nowhere, or answered.  Whatever the serializer does at the end of
  a step makes of the view of each call a stutter or a `Shown` (`Served`), which
  may come in the same step as the call's making or moving.
* `IdInv`: the counter is ahead of every id in use.  A restart rebuilds it from the
  largest id (`MaxOfBounded`: a bounded set of naturals has a maximum, from the
  well-foundedness of `<`).

`RunningTurnsCanWrite` and `LiveTurnsHangFromUmbrella` (`WritersAreRunners`,
`LiveTurnsHang` in `TurnSupervisorProofs`) need two more invariants.  `WriteInv`:
a running turn of an attachment that is not closing is on the writer stack, which
only its own settling leaves.  `RootInv`: every turn of an attachment descends
from one root, which leaves `umbrellaByBidi` only once it was aborted; as aborts
reach descendants, a turn that was not aborted still hangs from it.

`AttachmentsArePromised` (same module) is `Spec => Promise!Spec` with the mapping
`Shown`.  It needs the invariants above and three more.  As long as an attachment
is open its umbrella is a running turn that was not aborted (`OpenRootLives`):
only the close of its attachment aborts an umbrella.  All turns of an attachment
that is not open are aborted (`ClosingSilences`), so that nothing of it is ever
live again.  A turn that was not spawned was not aborted (`UnspawnedUnaborted`),
so that one that joins is live.  One lemma per kind of step (`SpawnKeeps`,
`DriveKeeps`, `CancelKeeps`, `SealKeeps`, `UnwindKeeps`) shows what it is to each
attachment; a spawn is *Opened* or *Joined* for one and a stutter for the others,
a cancel may be *Cancelled* for several.

The schedules of `ExecDispatch` (`ExecScheduleProofs`: `SchedulesStayLawful`,
`SchedulesAreHeld`, `FramesGoOneByOne`, `TypeCorrect`).  `SchedInv` says of each
attachment (`EpochInv`): at most one frame was written and neither answered nor
withdrawn, and while the stream is attached it is the frame in flight; a frame in
flight was written; a queue waits only behind a frame in flight; a stream that is
gone has no schedule, and one that has not come yet no rows.  The argument is
that an offer ends with exactly one frame unanswered when none was before.  Removing a
call from a queue (`Keep`) is a recursive function; that it has a solution and
that its value is a sequence of what was kept is proved with a least
counterexample (`<` is well founded) where an induction theorem cannot be used.

For every set of runs and awaits and any number of restarts
(`SubagentRunsProofs`):

* `TypeCorrect`, `NeverUnmountable`, `OutcomesAreRouted`, `WorkersOwnTheirRuns`,
  `TurnsDoNotOverlap`, `RunningRunsAreAttended`, `GatesAreOwned`.
* `RunInv` is one invariant per run: a call that was not made has nothing
  (*Unborn*); an outcome that is pending belongs to an acknowledged background
  run (*Routed*); the lease belongs to the attempt and the handoff to its handler
  (*Gated*); when the row is in the background what is left of the foreground execution is
  aborted, or asks whose run it is before it goes on (*Superseded*); a handler
  that starts a turn has one that is gated (*Started*); a run that is durably
  running is attended, by its turn or by the handler that spawns it or reports
  its failure (*Attended*).  None of
  the properties is inductive alone: that a handoff does not take a run from
  under an attempt needs the gate, the gate needs the handler, and the handler
  needs the turn it has spawned.
* `PromiseKept`: `Spec => Promise!Spec` with `Seen`, the database as the parent
  sees it.  Every step is a step of `SubagentPromise` for some runs and a stutter
  for the others; the invariant is what makes a second answer and an outcome
  without a route impossible.

For every set of RPCs and calls and any number of stops (`ToolBatchProofs`):

* `TypeCorrect`, `BegunTurnsOwnTheGraph`, `ContinuationsTakeTurns`.
* `Inv`: a turn is installed only when nobody owns the graph turn, so that every
  other installed turn is over by then, and only the owner releases it; a turn
  that is spawned has a fresh name, which no handler is in and which was never
  installed (`Spawned`: it also keeps an aborted turn from coming back to life).
  The holder of the lane stays first because handlers join at the end and only
  the holder of a continuation turn leaves at the head.  Each action is reduced to
  what it does to the turns, the graph turn, the lane and one handler (`Quiet`,
  `TakesUp`, `Spawns`, `Begins`, `Ends`, `Leaves`), and `Moves` is all a step can do.

and `ToolBatchLoopProofs`:

* `DispatchersOwnTheirBatch` and `ConversationIsALoop` (`Spec => Loop!Spec`, with
  `Speaking` and `pending` as the mapping).
* `BatchInv`: whoever talks is in a turn that has begun, hence in the owner of the
  graph turn, hence alone (`TalkersOwn`); and while somebody talks there is no
  batch: a batch is opened by the only talker as it stops talking, a claim clears
  it, and a user turn begins over a batch of nobody else.  A claim therefore
  finds nobody speaking.
* `LoopInv`: no job carries the stream of a user message that has not begun, so
  that a new attachment silences everybody and nothing is registered on its
  stream before it begins (`StreamsBegun`); a call is registered once
  (`CallsFresh`); and a message on the current stream has closed every call by
  the time it begins (`CallsClosed`).  Without the last one the model would speak
  over the calls that were registered while the message waited.
* `Effects` is what a step can do to handlers, batch and calls; a dispatch on the
  current stream is an `Ask`, a claim by a live turn a `Speak`, a user turn that
  begins on the current stream an `Interject`, and everything else a `Close`, of
  no call in many cases.

Assumptions: `AbsentAssumption` and `KindsAssumption` (the absent turn and
attachment are no turn and attachment), `DistinctAssumption` (messages,
completions and calls are told apart), `NoRunAssumption`, `RoutesAssumption` (an
`await_task` is no other route), `RestartsAssumption` and `ToolBatchAssumption`
(RPCs, calls and continuations are told apart).  Every invariant of the passing
runs and all five refinements (`Attachment`, `RunRpc`, `ClientCall`,
`SubagentPromise`, `AgentLoop`) are proved; the refinements are the action
properties of this project, since each says what a step may never do.
`EnvelopesAreSingle` and `AttachmentsCloseUnwound` are invariants that the
promises imply: they are proved first, from invariants that the refinements build
on, and the runs check the promises.  Only model-checked: all liveness
(`SealCompletes`, `UnwindResolves`, `RunReturns`, `WaitingContinuationProceeds`,
`AnsweredCallsSettle`, `ScheduledAdvances`, `HandoffsSettle`, `AbortedTurnsEnd`,
`HandlersRest`, `SettledBatchContinues`), which TLAPS does not prove here.

## 6. Mutants

Each passing property has a mutated definition of the code, next to the
original in its module and marked *Mutant*, that breaks it.

## 7. Plan

1. `ToolBatch` with asynchronous questions, control and recovery turns; composed
   with `InboundPump`.
2. `ControlContinuations`: parking and draining of control actions.
3. `FrameChannel`, the abort registry, account cooldowns.

Not modelled and not planned: provider adapters and generated code (I/O and data
conversion), tools, skills and web search (single effects that the models treat
as opaque), prompt assembly and compaction decisions.
