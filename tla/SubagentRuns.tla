----------------------------- MODULE SubagentRuns -----------------------------
(***************************************************************************)
(* The sub-agents of one conversation: durable runs, the turns that        *)
(* execute them in the foreground or in the background, the handoff from   *)
(* one to the other, and the ways by which the parent is told the outcome  *)
(* (cursor-connect-stream.service.ts, session/subagent-run-store, session/ *)
(* context-state, subagents/subagent-task-registry).                       *)
(*                                                                         *)
(* A transaction of the store is one step; an action is what runs between  *)
(* two awaits.  A run is named by its parent's `task` call, which has one. *)
(*                                                                         *)
(* Abstracted: the sidechain graph and the sub-agent's own tool calls (a   *)
(* turn that works may end its attempt in any way at any time), reports,   *)
(* transcripts, the turn tree (see TurnSupervisor).  A killed run counts   *)
(* as interrupted.  executionTurnId follows mode: the run is owned by its  *)
(* one foreground turn, then by its one background turn.                   *)
(***************************************************************************)
EXTENDS Naturals, FiniteSets, ProjectionGate

CONSTANTS
    Runs,        \* parent `task` calls, and the run of each
    InForeground, InBackground, \* those whose input may ask for either
    Waits,       \* `await_task` calls that may be under way at once
    NoRun,       \* the absent run
    MaxRestarts  \* bound on the restarts of the bridge

ASSUME NoRunAssumption    == NoRun \notin Runs
ASSUME RoutesAssumption   == Waits \cap {"pending", "parent", "notice"} = {}
ASSUME RestartsAssumption == MaxRestarts \in Nat

VARIABLES
    \* durable: the run's row and the ledger edge of its parent call;
    \* delivery[r]: the route by which the outcome was told (memory event)
    status, mode, delivery, edge,
    \* fg[r], bg[r]: how far the executions of r have come (see Registered);
    \* aborted[r]: those whose signal has fired
    fg, bg, aborted,
    starter,     \* starter[r]: the handler that starts a turn for r
    gate,        \* gate[r]: the projection gate of r
    wait,        \* wait[w]: an await_task call
    notice,      \* the deliveries frozen in a completion notification
    restarts

durable == <<status, mode, delivery, edge>>
turns   == <<fg, bg, aborted, starter, gate>>
parent  == <<wait, notice>>
vars    == <<durable, turns, parent, restarts>>

Outcomes == {"completed", "failed", "interrupted"}

Statuses == {"none", "running"} \cup Outcomes
FgStates == {"none", "admitted", "failing", "ready", "refused", "working", "asking",
             "stopping", "exhausted", "settled", "unwinding"}
BgStates == {"none", "gated", "working", "stopping", "settled"}
Starters == {"none", "dispatching", "draining", "switching", "acking", "acked",
             "continuing", "rejecting"}
Routes   == {"pending", "parent", "notice"} \cup Waits
WaitPcs  == {"none", "waiting", "claim", "plain"}

NoWait == [pc |-> "none", run |-> NoRun, within |-> NoRun]

Init ==
    /\ status = [r \in Runs |-> "none"]
    /\ mode = [r \in Runs |-> "foreground"]
    /\ delivery = [r \in Runs |-> "pending"]
    /\ edge = [r \in Runs |-> "none"]
    /\ fg = [r \in Runs |-> "none"]
    /\ bg = [r \in Runs |-> "none"]
    /\ aborted = [r \in Runs |-> {}]
    /\ starter = [r \in Runs |-> "none"]
    /\ gate = [r \in Runs |-> FreeGate]
    /\ wait = [w \in Waits |-> NoWait]
    /\ notice = {}
    /\ restarts = 0

Terminal(r) == status[r] \in Outcomes

\* The check that the foreground turn makes wherever it touches the run:
\* running, foreground, and owned by this execution.
Owns(r) == status[r] = "running" /\ mode[r] = "foreground"

\* There is a foreground turn.  The run is there before it ("admitted"), and
\* ends without one if the turn cannot be spawned ("failing").
Registered(pc) == pc \notin {"none", "admitted", "failing"}

\* The foreground attempt holds the lease from acquire to release or abort,
\* also while it asks the client to execute tools.
HoldsLease(pc) == pc \in {"working", "asking", "stopping"}

-----------------------------------------------------------------------------
(* Durable transactions.                                                   *)

\* Mutant: the delivery is not claimed with the answer.
ReportUnclaimed(r, o) ==
    /\ status[r] = "running" /\ delivery[r] = "pending" /\ edge[r] = "open"
    /\ status' = [status EXCEPT ![r] = o]
    /\ edge' = [edge EXCEPT ![r] = "closed"]
    /\ UNCHANGED <<mode, delivery>>

\* The outcome, its delivery and the parent's answer in one transaction.
\* The parent's edge has to be open and the run running; whose run it is by
\* now is not asked.
ReportToParent(r, o) ==
    /\ status[r] = "running" /\ delivery[r] = "pending" /\ edge[r] = "open"
    /\ status' = [status EXCEPT ![r] = o]
    /\ delivery' = [delivery EXCEPT ![r] = "parent"]
    /\ edge' = [edge EXCEPT ![r] = "closed"]
    /\ UNCHANGED mode

\* terminalizeBackgroundOutboxRun: the outcome of a background run whose
\* parent was acknowledged; the delivery stays pending.
EndInBackground(r, o) ==
    /\ status[r] = "running" /\ mode[r] = "background" /\ edge[r] = "closed"
    /\ status' = [status EXCEPT ![r] = o]
    /\ UNCHANGED <<mode, delivery, edge>>

\* Mutant: an aborted call keeps its run.
AbortEdgesOnly(E) ==
    /\ E \subseteq {r \in Runs : edge[r] = "open"}
    /\ edge' = [r \in Runs |-> IF r \in E THEN "aborted" ELSE edge[r]]
    /\ UNCHANGED <<status, mode, delivery>>

\* abortOpenGraphToolCalls: the calls of E are aborted in one transaction;
\* a run of theirs ends interrupted and is reported by the abort result.
AbortTasks(E) ==
    /\ E \subseteq {r \in Runs : edge[r] = "open"}
    /\ \A r \in E : delivery[r] = "pending"
    /\ edge' = [r \in Runs |-> IF r \in E THEN "aborted" ELSE edge[r]]
    /\ status' = [r \in Runs |-> IF r \in E /\ status[r] = "running"
                                   THEN "interrupted" ELSE status[r]]
    /\ delivery' = [r \in Runs |-> IF r \in E /\ status[r] # "none"
                                     THEN "parent" ELSE delivery[r]]
    /\ UNCHANGED mode

\* commitSubagentTerminalDeliveriesInTransaction claims every delivery of S
\* or, if one of them is not pending any more, throws.
CanDeliver(S) == \A r \in S : Terminal(r) /\ delivery[r] = "pending"
Deliver(S, route) ==
    /\ delivery' = [r \in Runs |-> IF r \in S THEN route ELSE delivery[r]]
    /\ UNCHANGED <<status, mode, edge>>

-----------------------------------------------------------------------------
(* Starting.                                                               *)

\* The model calls the task tool: its call is open in the ledger and being
\* dispatched.
Dispatch(r) ==
    /\ edge[r] = "none"
    /\ edge' = [edge EXCEPT ![r] = "open"]
    /\ starter' = [starter EXCEPT ![r] = "dispatching"]
    /\ UNCHANGED <<status, mode, delivery, fg, bg, aborted, gate, parent, restarts>>

\* Rejected, denied by a hook or failed before there is a run: the call is
\* answered with an error, unless it has been aborted meanwhile.
RejectTask(r) ==
    /\ starter[r] = "dispatching"
    /\ starter' = [starter EXCEPT ![r] = "none"]
    /\ edge' = IF edge[r] = "open" THEN [edge EXCEPT ![r] = "closed"] ELSE edge
    /\ UNCHANGED <<status, mode, delivery, fg, bg, aborted, gate, parent, restarts>>

\* admitForegroundSubagent: the run's row comes before its turn.
AdmitForeground(r) ==
    /\ starter[r] = "dispatching" /\ edge[r] = "open" /\ r \in InForeground
    /\ starter' = [starter EXCEPT ![r] = "none"]
    /\ status' = [status EXCEPT ![r] = "running"]
    /\ fg' = [fg EXCEPT ![r] = "admitted"]
    /\ UNCHANGED <<mode, delivery, edge, bg, aborted, gate, parent, restarts>>

\* spawnBackgroundSubAgent: a gated turn, then its row; then it acknowledges.
SpawnBackground(r) ==
    /\ starter[r] = "dispatching" /\ edge[r] = "open" /\ r \in InBackground
    /\ starter' = [starter EXCEPT ![r] = "acking"]
    /\ status' = [status EXCEPT ![r] = "running"]
    /\ mode' = [mode EXCEPT ![r] = "background"]
    /\ bg' = [bg EXCEPT ![r] = "gated"]
    /\ UNCHANGED <<delivery, edge, fg, aborted, gate, parent, restarts>>

-----------------------------------------------------------------------------
(* The foreground turn: executeSubAgentTask and its onFinalize.            *)

\* An abort of the parent's turn reaches the foreground turn, or the one that
\* is about to be spawned under it.
Reached(pc) == pc \notin {"none", "failing"}

\* The execution moves on; a lease it no longer needs is settled.
FgGoes(r, pc) ==
    /\ fg' = [fg EXCEPT ![r] = pc]
    /\ gate' = IF HoldsLease(fg[r]) /\ ~HoldsLease(pc)
                 THEN [gate EXCEPT ![r] = LeaseSettled(@)] ELSE gate
    /\ aborted' = IF Reached(pc) THEN aborted ELSE [aborted EXCEPT ![r] = @ \ {"fg"}]
    /\ UNCHANGED <<bg, starter, parent, restarts>>

\* The turn is spawned and first looks whether the run is its own.
SpawnForeground(r) ==
    /\ fg[r] = "admitted"
    /\ FgGoes(r, IF Owns(r) THEN "ready" ELSE "settled")
    /\ UNCHANGED durable

\* The set-up throws, or the parent's turn is gone: failSubAgent asks the run
\* and waits for the stop hook, with no turn registered.
SpawnFails(r) ==
    /\ fg[r] = "admitted"
    /\ FgGoes(r, IF Owns(r) THEN "failing" ELSE "none")
    /\ UNCHANGED durable

\* acquireForegroundSubagentAttempt, first try.
Acquire(r) ==
    /\ fg[r] = "ready"
    /\ IF "fg" \notin aborted[r] /\ CanAcquire(gate[r])
         THEN /\ fg' = [fg EXCEPT ![r] = "working"]
              /\ gate' = [gate EXCEPT ![r] = Acquired(@)]
              /\ UNCHANGED <<durable, bg, aborted, starter, parent, restarts>>
         ELSE /\ FgGoes(r, IF "fg" \in aborted[r] THEN "settled" ELSE "refused")
              /\ UNCHANGED durable

\* ... and after the handoff: it looks whose run it is by now.
HandoffOver(r) ==
    /\ fg[r] = "refused"
    /\ gate[r].handoff = "none" \/ "fg" \in aborted[r]
    /\ FgGoes(r, IF "fg" \in aborted[r] \/ ~Owns(r) THEN "settled" ELSE "ready")
    /\ UNCHANGED durable

\* The attempt has the client execute its tool calls and awaits the terminals
\* (SubagentExecBridgeService.awaitTerminal), for which there is no deadline.
FgAsks(r) == fg[r] = "working" /\ FgGoes(r, "asking") /\ UNCHANGED durable

\* One attempt ends: with tool results appended to the branch, with a final
\* answer (completeSubAgent keeps the lease), with the turn budget spent (and
\* the lease released), or by an error or an abort.
AttemptEnds(r) ==
    /\ fg[r] \in {"working", "asking"}
    /\ \/ Owns(r) /\ "fg" \notin aborted[r] /\ FgGoes(r, "ready")
       \/ Owns(r) /\ fg[r] = "working" /\ FgGoes(r, "stopping")
       \/ Owns(r) /\ FgGoes(r, "exhausted")
       \/ FgGoes(r, "settled")
    /\ UNCHANGED durable

\* The turn fails before its next attempt.
FgThrows(r) == fg[r] = "ready" /\ FgGoes(r, "settled") /\ UNCHANGED durable

\* completeSubAgent and failSubAgent asked the run before the stop hook ran;
\* now they commit.  With a follow-up the hook sends the turn back to work.
FgCommits(r, o) ==
    /\ \/ fg[r] \in {"stopping", "exhausted"} /\ o # "interrupted" /\ FgGoes(r, "settled")
       \/ fg[r] = "unwinding" /\ o # "completed" /\ FgGoes(r, "none")
       \/ fg[r] = "failing" /\ o = "failed" /\ FgGoes(r, "none")
    /\ ReportToParent(r, o)

FgFollowUp(r) ==
    /\ fg[r] = "stopping" /\ Owns(r) /\ FgGoes(r, "ready")
    /\ UNCHANGED durable

\* The stop hook or the commit throws.  failSubAgent only notes the hook's
\* error, so that only a commit that is refused gets there.
FgFails(r) ==
    /\ \/ fg[r] \in {"stopping", "exhausted"} /\ FgGoes(r, "settled")
       \/ /\ fg[r] \in {"unwinding", "failing"}
          /\ ~(status[r] = "running" /\ edge[r] = "open")
          /\ FgGoes(r, "none")
    /\ UNCHANGED durable

\* Mutant: the finalizer leaves an interrupted run to somebody else.
FgFinalizesSilently(r) ==
    /\ fg[r] = "settled" /\ FgGoes(r, "none") /\ UNCHANGED durable

\* onFinalize: nothing left to do if the run has ended or has a new owner.
FgFinalizes(r) ==
    /\ fg[r] = "settled"
    /\ FgGoes(r, IF Owns(r) THEN "unwinding" ELSE "none")
    /\ UNCHANGED durable

-----------------------------------------------------------------------------
(* The handoff: handleBackgroundSubagentAction.                            *)

BackgroundAction(r) ==
    /\ Owns(r) /\ edge[r] = "open" /\ CanBeginHandoff(gate[r])
    /\ starter' = [starter EXCEPT ![r] = "draining"]
    /\ gate' = [gate EXCEPT ![r] = HandoffBegun(@)]
    /\ UNCHANGED <<durable, fg, bg, aborted, parent, restarts>>

\* The control turn is aborted, or the run is not its to take any more.
AbandonHandoff(r) ==
    /\ starter[r] = "draining"
    /\ starter' = [starter EXCEPT ![r] = "none"]
    /\ gate' = [gate EXCEPT ![r] = HandoffClosed(@)]
    /\ UNCHANGED <<durable, fg, bg, aborted, parent, restarts>>

\* With the token: a gated background turn, transitionToBackground (which
\* asks the row and the parent's edge again), and the foreground turn is
\* cancelled, all without an await.
MaySwitch(r) ==
    /\ starter[r] = "draining" /\ gate[r].handoff = "held"
    /\ Owns(r) /\ edge[r] = "open"

Switch(r) ==
    /\ MaySwitch(r) /\ Registered(fg[r])
    /\ mode' = [mode EXCEPT ![r] = "background"]
    /\ bg' = [bg EXCEPT ![r] = "gated"]
    /\ aborted' = [aborted EXCEPT ![r] = @ \cup {"fg"}]
    /\ starter' = [starter EXCEPT ![r] = "switching"]
    /\ UNCHANGED <<status, delivery, edge, fg, gate, parent, restarts>>

\* No foreground turn is registered: replaceExecution throws after the run has
\* changed hands, and the background turn is rejected at once.
SwitchFails(r) ==
    /\ MaySwitch(r) /\ ~Registered(fg[r])
    /\ mode' = [mode EXCEPT ![r] = "background"]
    /\ bg' = [bg EXCEPT ![r] = "settled"]
    /\ starter' = [starter EXCEPT ![r] = "rejecting"]
    /\ UNCHANGED <<status, delivery, edge, fg, aborted, gate, parent, restarts>>

\* Mutant: the terminal of the foreground turn is not awaited.
MayAckAtOnce(r) == starter[r] \in {"acking", "switching"}

\* The background turn may acknowledge once its predecessor is terminal.
MayAck(r) ==
    \/ starter[r] = "acking"
    \/ starter[r] = "switching" /\ fg[r] = "none"

\* The parent's call is answered: "running in background".  After a handoff
\* the answer also continues the parent's turn, before it returns.
Ack(r) ==
    /\ MayAck(r) /\ edge[r] = "open"
    /\ edge' = [edge EXCEPT ![r] = "closed"]
    /\ starter' = [starter EXCEPT ![r] = IF @ = "acking" THEN "acked" ELSE "continuing"]
    /\ UNCHANGED <<status, mode, delivery, fg, bg, aborted, gate, parent, restarts>>

\* Mutant: the gate of the turn is left closed.
RejectNobody(r) ==
    /\ bg[r] = "gated"
    /\ starter' = [starter EXCEPT ![r] = "rejecting"]
    /\ UNCHANGED <<fg, bg, aborted, gate, parent, restarts>>

\* detached.reject: the gated turn ends without having worked.
RejectTurn(r) ==
    /\ bg' = [bg EXCEPT ![r] = "settled"]
    /\ starter' = [starter EXCEPT ![r] = "rejecting"]
    /\ UNCHANGED <<fg, aborted, gate, parent, restarts>>

\* The answer is refused, a hook of the call throws, or, once the call is
\* answered, the continuation of the parent's turn fails.
AckFails(r) ==
    /\ MayAck(r) \/ starter[r] = "continuing"
    /\ RejectTurn(r)
    /\ UNCHANGED durable

\* The parent's continuation has returned: none of its awaits is under way.
MayRelease(r) ==
    \/ starter[r] = "acked"
    \/ starter[r] = "continuing" /\ \A w \in Waits : wait[w].within # r

\* handoffToken.complete and detached.release; the turn asks the row first.
Release(r) ==
    /\ MayRelease(r)
    /\ starter' = [starter EXCEPT ![r] = "none"]
    /\ gate' = [gate EXCEPT ![r] = HandoffClosed(@)]
    /\ bg' = [bg EXCEPT ![r] = IF "bg" \in aborted[r] \/ status[r] # "running"
                                 THEN "settled" ELSE "working"]
    /\ UNCHANGED <<durable, fg, aborted, parent, restarts>>

\* Mutant: the token of a failed handoff is kept.
RejectedKeepsToken(r) ==
    /\ starter[r] = "rejecting" /\ bg[r] = "none"
    /\ starter' = [starter EXCEPT ![r] = "none"]
    /\ UNCHANGED <<durable, fg, bg, aborted, gate, parent, restarts>>

\* awaitTerminal of the rejected turn, then the token is given back.
Rejected(r) ==
    /\ starter[r] = "rejecting" /\ bg[r] = "none"
    /\ starter' = [starter EXCEPT ![r] = "none"]
    /\ gate' = [gate EXCEPT ![r] = HandoffClosed(@)]
    /\ UNCHANGED <<durable, fg, bg, aborted, parent, restarts>>

-----------------------------------------------------------------------------
(* The background turn: createDetachedBackgroundSubagentTurn.              *)

BgGoes(r, pc) ==
    /\ bg' = [bg EXCEPT ![r] = pc]
    /\ aborted' = IF pc = "none" THEN [aborted EXCEPT ![r] = @ \ {"bg"}] ELSE aborted
    /\ UNCHANGED <<fg, starter, gate, parent, restarts>>

\* The worker returns and the stop hook starts; the worker or the hook
\* throws; or the hook sends a worker that has completed back to work.
BgStops(r)    == bg[r] = "working" /\ BgGoes(r, "stopping") /\ UNCHANGED durable
BgFails(r)    == bg[r] \in {"working", "stopping"} /\ BgGoes(r, "settled") /\ UNCHANGED durable
BgFollowUp(r) == bg[r] = "stopping" /\ BgGoes(r, "working") /\ UNCHANGED durable

\* finalizeBackgroundSubAgent: interrupted only if the turn was aborted.
BgCommits(r, o) ==
    /\ bg[r] = "stopping"
    /\ o = "interrupted" => "bg" \in aborted[r]
    /\ EndInBackground(r, o)
    /\ BgGoes(r, "settled")

\* finalizeUnexpectedDetachedBackgroundTurn: a run that has not ended ends,
\* by the route that the parent's edge leaves (one of the two is open by
\* AlwaysMountable, and an outcome that pends with its call open, which the
\* code would tell here, does not occur by OutcomeHasRoute).
BgFinalizes(r, o) ==
    /\ bg[r] = "settled" /\ o \in {"failed", "interrupted"}
    /\ BgGoes(r, "none")
    /\ IF status[r] = "running"
         THEN IF edge[r] = "open" THEN ReportToParent(r, o) ELSE EndInBackground(r, o)
         ELSE UNCHANGED durable

-----------------------------------------------------------------------------
(* Cancelling.                                                             *)

\* The turns of the runs in R.
Abort(R) ==
    aborted' = [r \in Runs |->
        IF r \in R THEN aborted[r] \cup (IF Reached(fg[r]) THEN {"fg"} ELSE {})
                                   \cup (IF bg[r] # "none" THEN {"bg"} ELSE {})
                   ELSE aborted[r]]

\* SubagentTaskRegistry.kill cancels the execution that owns the run now, if
\* it is registered ("missing_runtime" otherwise).
Kill(r) ==
    /\ status[r] = "running"
    /\ mode[r] = "foreground" => Registered(fg[r])
    /\ aborted' = [aborted EXCEPT ![r] = @ \cup
                     {IF mode[r] = "foreground" THEN "fg" ELSE "bg"}]
    /\ UNCHANGED <<durable, fg, bg, starter, gate, parent, restarts>>

\* handleConversationCancelAction: every turn is cancelled, the control turn
\* of a handoff among them, and the calls pending on the stream are aborted.
Cancel(E) ==
    /\ \E r \in Runs : Reached(fg[r]) \/ bg[r] # "none"
    /\ Abort(Runs)
    /\ AbortTasks(E)
    /\ starter' = [r \in Runs |-> IF starter[r] = "draining" THEN "none" ELSE starter[r]]
    /\ gate' = [r \in Runs |-> IF starter[r] = "draining" THEN HandoffClosed(gate[r])
                                                          ELSE gate[r]]
    /\ UNCHANGED <<fg, bg, parent, restarts>>

\* The calls are interrupted by the end of their stream or by a new user
\* turn; the turns of the sub-agents are not told.
InterruptTasks(E) ==
    /\ E # {} /\ AbortTasks(E)
    /\ UNCHANGED <<turns, parent, restarts>>

\* The attachment closes: the foreground turns hang from it.
CloseAttachment ==
    /\ \E r \in Runs : Reached(fg[r]) /\ "fg" \notin aborted[r]
    /\ aborted' = [r \in Runs |-> IF Reached(fg[r]) THEN aborted[r] \cup {"fg"}
                                                   ELSE aborted[r]]
    /\ UNCHANGED <<durable, fg, bg, starter, gate, parent, restarts>>

-----------------------------------------------------------------------------
(* The parent asks, or is told: await_task and completion notifications.   *)

Claims(r) == IF delivery[r] = "pending" THEN "claim" ELSE "plain"

\* executeInlineAwaitTask, in the parent's turn or in the continuation (of
\* run h) that a handoff runs; it needs an acknowledged background run.
AwaitTask(w, r, h) ==
    /\ wait[w] = NoWait
    /\ edge[r] = "closed" /\ mode[r] = "background" /\ status[r] # "none"
    /\ h # NoRun => starter[h] = "continuing"
    /\ wait' = [wait EXCEPT ![w] =
                  [pc |-> IF status[r] = "running" THEN "waiting" ELSE Claims(r),
                   run |-> r, within |-> h]]
    /\ UNCHANGED <<durable, turns, notice, restarts>>

\* awaitDone follows the execution to its end and reads the run again.
AwaitReads(w) ==
    /\ wait[w].pc = "waiting"
    /\ LET r == wait[w].run
       IN  Terminal(r) /\ bg[r] = "none"
           /\ wait' = [wait EXCEPT ![w].pc = Claims(r)]
    /\ UNCHANGED <<durable, turns, notice, restarts>>

\* Mutant: no deadline.
AwaitUntilDone(w) ==
    /\ wait[w].pc = "waiting" /\ Terminal(wait[w].run)
    /\ wait' = [wait EXCEPT ![w].pc = "plain"]
    /\ UNCHANGED <<durable, turns, notice, restarts>>

\* block_until_ms is over: "still running".
AwaitDeadline(w) ==
    /\ wait[w].pc = "waiting"
    /\ wait' = [wait EXCEPT ![w].pc = "plain"]
    /\ UNCHANGED <<durable, turns, notice, restarts>>

\* The tool result of await_task, which claims the delivery it has read as
\* pending; a claim that comes too late throws and nothing is delivered.
AwaitCommit(w) ==
    /\ wait[w].pc \in {"claim", "plain"}
    /\ wait' = [wait EXCEPT ![w] = NoWait]
    /\ LET r == wait[w].run
       IN  IF wait[w].pc = "claim" /\ CanDeliver({r})
             THEN Deliver({r}, w) ELSE UNCHANGED durable
    /\ UNCHANGED <<turns, notice, restarts>>

\* The parent's turn is aborted.
AwaitAborted(w) ==
    /\ wait[w].pc # "none"
    /\ wait' = [wait EXCEPT ![w] = NoWait]
    /\ UNCHANGED <<durable, turns, notice, restarts>>

\* A background completion of the client: its deliveries are resolved now,
\* and committed when nothing else of the parent is under way.
Notify(S) ==
    /\ notice = {} /\ S # {}
    /\ \A r \in S : mode[r] = "background"
    /\ CanDeliver(S)
    /\ notice' = S
    /\ UNCHANGED <<durable, turns, wait, restarts>>

\* Mutant: the notification is committed as it was frozen.
NoticeCommitsUnchecked ==
    /\ notice # {}
    /\ \A w \in Waits : wait[w].pc = "none"
    /\ \A r \in Runs : edge[r] # "open"
    /\ notice' = {}
    /\ Deliver(notice, "notice")
    /\ UNCHANGED <<turns, wait, restarts>>

\* One transaction for all; it throws if one was told by another way.
NoticeCommits ==
    /\ notice # {}
    /\ \A w \in Waits : wait[w].pc = "none"
    /\ \A r \in Runs : edge[r] # "open"
    /\ notice' = {}
    /\ IF CanDeliver(notice) THEN Deliver(notice, "notice") ELSE UNCHANGED durable
    /\ UNCHANGED <<turns, wait, restarts>>

\* The continuation is dropped: stale stream, or a new user turn.
NoticeDropped ==
    /\ notice # {}
    /\ notice' = {}
    /\ UNCHANGED <<durable, turns, wait, restarts>>

-----------------------------------------------------------------------------
(* Restart: reconcileStaleSubagentRunsBeforeMount.                         *)

\* The mount throws, and the conversation cannot be opened, where a run has
\* no route for its outcome.
CanMount ==
    \A r \in Runs : status[r] # "none" /\ delivery[r] = "pending" =>
        \/ edge[r] = "open"
        \/ edge[r] = "closed" /\ mode[r] = "background"

ColdStart ==
    /\ fg' = [r \in Runs |-> "none"]
    /\ bg' = [r \in Runs |-> "none"]
    /\ aborted' = [r \in Runs |-> {}]
    /\ starter' = [r \in Runs |-> "none"]
    /\ gate' = [r \in Runs |-> FreeGate]
    /\ wait' = [w \in Waits |-> NoWait]
    /\ notice' = {}
    /\ restarts' = restarts + 1

\* Runs that were running are interrupted; where the parent's call is open
\* it gets the outcome as its answer, otherwise the delivery stays pending.
Restart ==
    /\ restarts < MaxRestarts
    /\ CanMount
    /\ LET owed(r) == status[r] # "none" /\ delivery[r] = "pending" /\ edge[r] = "open"
       IN  /\ status' = [r \in Runs |-> IF status[r] = "running" THEN "interrupted"
                                                                 ELSE status[r]]
           /\ delivery' = [r \in Runs |-> IF owed(r) THEN "parent" ELSE delivery[r]]
           /\ edge' = [r \in Runs |-> IF owed(r) THEN "closed" ELSE edge[r]]
    /\ ColdStart
    /\ UNCHANGED mode

-----------------------------------------------------------------------------
Foreground(r) ==
    \/ SpawnForeground(r) \/ SpawnFails(r)
    \/ Acquire(r) \/ HandoffOver(r) \/ FgThrows(r) \/ FgAsks(r) \/ AttemptEnds(r)
    \/ FgFollowUp(r) \/ FgFails(r) \/ FgFinalizes(r)
    \/ \E o \in Outcomes : FgCommits(r, o)

Handoff(r) ==
    \/ BackgroundAction(r) \/ AbandonHandoff(r) \/ Switch(r) \/ SwitchFails(r)
    \/ Ack(r) \/ AckFails(r) \/ Release(r) \/ Rejected(r)

Background(r) ==
    \/ BgStops(r) \/ BgFails(r) \/ BgFollowUp(r)
    \/ \E o \in Outcomes : BgCommits(r, o) \/ BgFinalizes(r, o)

Awaiting(w) ==
    \/ \E r \in Runs, h \in Runs \cup {NoRun} : AwaitTask(w, r, h)
    \/ AwaitReads(w) \/ AwaitDeadline(w) \/ AwaitCommit(w) \/ AwaitAborted(w)

Next ==
    \/ \E r \in Runs :
          \/ Dispatch(r) \/ RejectTask(r) \/ AdmitForeground(r) \/ SpawnBackground(r)
          \/ Foreground(r) \/ Handoff(r) \/ Background(r)
          \/ Kill(r)
    \/ \E E \in SUBSET Runs : Cancel(E) \/ InterruptTasks(E) \/ Notify(E)
    \/ CloseAttachment
    \/ \E w \in Waits : Awaiting(w)
    \/ NoticeCommits \/ NoticeDropped
    \/ Restart

Spec == Init /\ [][Next]_vars

\* Hooks, transactions and continuations return; a handler that was let in
\* starts its turn or answers.  A handoff's continuation of the parent's turn
\* has a bounded number of rounds, so that it is strongly fair.
HandlersReturn ==
    \A r \in Runs :
        /\ WF_vars(RejectTask(r) \/ AdmitForeground(r) \/ SpawnBackground(r))
        /\ WF_vars(SpawnForeground(r) \/ SpawnFails(r))
        /\ WF_vars(Acquire(r) \/ HandoffOver(r) \/ FgFinalizes(r))
        /\ WF_vars(fg[r] \in {"unwinding", "failing"} /\
                      (FgFails(r) \/ \E o \in Outcomes : FgCommits(r, o)))
        /\ WF_vars(gate[r].handoff = "held" /\
                      (Switch(r) \/ SwitchFails(r) \/ AbandonHandoff(r)))
        /\ WF_vars(MayAck(r) /\ (Ack(r) \/ AckFails(r)))
        /\ SF_vars(Release(r))
        /\ WF_vars(Rejected(r))
        /\ WF_vars(\E o \in Outcomes : BgFinalizes(r, o))

\* The stream of the provider ends, and the attempt with it or with what it
\* asks the client; an abort ends it in any case.  An aborted background
\* worker returns, and its stop hook does not send it back for ever.
\* await_task has a deadline.
BodiesEnd ==
    /\ \A r \in Runs :
        /\ WF_vars(fg[r] = "working" /\ (AttemptEnds(r) \/ FgAsks(r)))
        /\ WF_vars("fg" \in aborted[r] /\ AttemptEnds(r))
        /\ WF_vars(fg[r] \in {"stopping", "exhausted"} /\
                      (FgFollowUp(r) \/ FgFails(r) \/ \E o \in Outcomes : FgCommits(r, o)))
        /\ WF_vars("bg" \in aborted[r] /\ (BgStops(r) \/ BgFails(r)))
        /\ SF_vars("bg" \in aborted[r] /\ bg[r] = "stopping" /\
                      (BgFails(r) \/ \E o \in Outcomes : BgCommits(r, o)))
    /\ \A w \in Waits : WF_vars(AwaitDeadline(w)) /\ WF_vars(AwaitCommit(w))

\* An assumption about the client, not about the bridge: it answers what an
\* attempt asks.  Nothing in the bridge ends the wait otherwise, and a handoff
\* waits as long.
ClientAnswers == \A r \in Runs : WF_vars(fg[r] = "asking" /\ AttemptEnds(r))

FairSpec         == Spec /\ HandlersReturn /\ BodiesEnd
AnsweredFairSpec == FairSpec /\ ClientAnswers

-----------------------------------------------------------------------------
(* Properties.                                                             *)

Waitings == [pc : WaitPcs, run : Runs \cup {NoRun}, within : Runs \cup {NoRun}]

TypeOK ==
    /\ status \in [Runs -> Statuses]
    /\ mode \in [Runs -> {"foreground", "background"}]
    /\ delivery \in [Runs -> Routes]
    /\ edge \in [Runs -> {"none", "open", "closed", "aborted"}]
    /\ fg \in [Runs -> FgStates]
    /\ bg \in [Runs -> BgStates]
    /\ aborted \in [Runs -> SUBSET {"fg", "bg"}]
    /\ starter \in [Runs -> Starters]
    /\ gate \in [Runs -> GateOf]
    /\ wait \in [Waits -> Waitings]
    /\ notice \in SUBSET Runs
    /\ restarts \in Nat

\* Whenever the bridge dies, the next mount of the conversation succeeds:
\* reconcileStaleSubagentRunsBeforeMount throws for a run that is owed an
\* outcome and whose parent's call leaves it no route.
AlwaysMountable == CanMount

\* An outcome that was not told yet waits on the one route that is left, an
\* await_task or a notification about an acknowledged background run; every
\* other outcome commits together with its delivery.
OutcomeHasRoute ==
    \A r \in Runs : Terminal(r) /\ delivery[r] = "pending" =>
        mode[r] = "background" /\ edge[r] = "closed"

\* A turn that works on a running run is the one that owns it: a handoff
\* never takes the run away under an attempt (ProjectionAttemptGate).
WorkerOwnsRun ==
    \A r \in Runs : status[r] = "running" =>
        /\ HoldsLease(fg[r]) => mode[r] = "foreground"
        /\ bg[r] \in {"working", "stopping"} => mode[r] = "background"

\* The background turn starts to work when nothing of the foreground turn is
\* left, its finalizer included.
OneTurnWorks ==
    \A r \in Runs : bg[r] \in {"working", "stopping"} => fg[r] = "none"

\* A run that is durably running is attended by somebody who will end it: the
\* turn that owns it or, while that turn does not exist, the handler that is
\* about to spawn it or failed to (see onExecutionTerminal: nobody else would
\* end an orphaned run before the next restart).
RunningRunIsAttended ==
    \A r \in Runs : status[r] = "running" =>
        IF mode[r] = "foreground" THEN fg[r] # "none" ELSE bg[r] # "none"

\* The gate is taken by somebody who will give it back: the lease by an
\* attempt under way, the handoff by a handler under way.
GateHasOwner ==
    \A r \in Runs :
        /\ gate[r].active <=> HoldsLease(fg[r])
        /\ gate[r].handoff # "none" =>
              starter[r] \in {"draining", "switching", "continuing", "rejecting"}

\* What the parent sees of each run,
Seen == [r \in Runs |-> [call |-> edge[r], fate |-> status[r], told |-> delivery[r]]]

Promise == INSTANCE SubagentPromise WITH
    LateRoutes <- {"notice"} \cup Waits, promise <- Seen

\* ... keeps the promise: the parent's call is answered once, a run has one
\* outcome, and of the handlers, turns, restarts and notifications that race
\* to tell the parent one does, each outcome by a route that is left to it.
ParentIsToldOnce == Promise!Spec

\* Whoever starts, takes over or rejects a run comes to an end, although a
\* handoff answers the parent's call and runs its continuation, which may
\* await the very run that the handoff still holds back.  It supposes that the
\* client answers an attempt that the handoff has to wait for.
HandoffsSettle == \A r \in Runs : starter[r] # "none" ~> starter[r] = "none"

\* A turn that was aborted ends, and its mark with it, also one that still
\* waits at its gate, where it does not listen to its signal.
AbortedTurnsEnd == \A r \in Runs : aborted[r] # {} ~> aborted[r] = {}
=============================================================================
