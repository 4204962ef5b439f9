----------------------------- MODULE ToolBatch -----------------------------
(***************************************************************************)
(* The turns of one conversation: user messages, the tool batches the      *)
(* model asks for, the results and the continuation of a settled batch,    *)
(* with several Run RPCs attached at once.  A turn is named by what starts *)
(* it: a user turn by its RPC, a continuation turn by the tool call that   *)
(* triggers it, as a result or as the first call of an inline batch.  One  *)
(* handler runs at a time on each RPC; handlers of different RPCs          *)
(* interleave at every await.  Left out: an error of a turn's body that    *)
(* escapes its own catch, for which the finalizer drops the batch.         *)
(***************************************************************************)
EXTENDS Naturals, Sequences, FiniteSets

CONSTANTS Rpcs,           \* Run RPCs
          ClientCalls,    \* tool calls the client executes
          InlineCalls,    \* tool calls the bridge executes itself
          MaxStops,       \* bound on cancel actions
          Nobody

Calls == ClientCalls \cup InlineCalls
Continuations == Calls \X {"result", "inline"}
Turns == Rpcs \cup Continuations

ASSUME ToolBatchAssumption ==
    /\ ClientCalls \cap InlineCalls = {} /\ Rpcs \cap Continuations = {}
    /\ Nobody \notin Turns \cup Calls
    /\ MaxStops \in Nat

VARIABLES
    open,       \* RPCs whose outbound channel is open
    current,    \* the stream of the conversation: the RPC attached last
    turn,       \* state of each turn in the supervisor
    installed,  \* turns whose graphTurnOwnershipInstalled is set
    active,     \* activeGraphTurns[conversation]
    top,        \* topLevelTurnId of the conversation
    op,         \* top-level turn of the active context operation
    batch,      \* activeAssistantToolBatch
    inline,     \* pendingInlineContinuation
    pending,    \* tool calls with a pending entry
    answered,   \* tool calls whose result is in the graph
    call,       \* per call: owning turn, RPC that asked, stream it is bound to
    lane,       \* RPCs in the lane of the top-level turn runner
    h,          \* the handler each RPC runs
    stops       \* cancel actions so far

vars == <<open, current, turn, installed, active, top, op, batch, inline,
          pending, answered, call, lane, h, stops>>
graphVars == <<installed, active, top>>
callVars  == <<pending, answered, call>>

NoJob   == [top |-> Nobody, graph |-> Nobody, stream |-> Nobody, turn |-> Nobody]
NoBatch == [top |-> Nobody, graph |-> Nobody, stream |-> Nobody,
            calls |-> {}, unsettled |-> {}]
Idle    == [pc |-> "idle", turn |-> Nobody, job |-> NoJob, call |-> Nobody,
            calls |-> {}, stale |-> <<>>, superseded |-> FALSE]
Unread  == [Idle EXCEPT !.pc = "unread"]

Aborted == {"superseded", "closed", "cancelled"}
Live(t) == turn[t] = "live"
IsChat(s) == h[s].turn \in Rpcs

Init ==
    /\ open = {} /\ current = Nobody
    /\ turn = [t \in Turns |-> "none"]
    /\ installed = {} /\ active = Nobody /\ top = Nobody /\ op = Nobody
    /\ batch = NoBatch /\ inline = NoJob
    /\ pending = {} /\ answered = {}
    /\ call = [c \in Calls |-> [owner |-> Nobody, asked |-> Nobody, stream |-> Nobody]]
    /\ lane = <<>>
    /\ h = [s \in Rpcs |-> Unread]
    /\ stops = 0

-----------------------------------------------------------------------------
(* The batch service and the pending calls.                                *)

Matches(job) == batch # NoBatch /\ batch.top = job.top /\ batch.graph = job.graph

(* b after the calls C leave the pending store: a call settles in the batch *)
(* only if the batch belongs to the turn that owns the call.                *)
Settled(b, C) ==
    [b EXCEPT !.unsettled = @ \ {c \in C \cap pending : call[c].owner = b.graph}]

OwnedBy(t) == {c \in pending : call[c].owner = t}

(* abortGraphTurn on the batch record and on the parked continuation. *)
WithoutBatchOf(t)  == IF batch.graph = t THEN NoBatch ELSE batch
WithoutInlineOf(t) == IF inline.graph = t THEN NoJob ELSE inline

Claimable(job) ==
    Matches(job) /\ job.turn[1] \in batch.calls /\ batch.unsettled = {}

\* Mutant: a settled batch defers its own continuation.
DeferredWhileBatch(job) == pending # {} \/ Matches(job)
Deferred(job) ==
    pending # {} \/ (Matches(job) /\ batch.unsettled # {})

(* The context operation ends if it is still the one of this top level. *)
OpEnded(t) == IF op = t THEN Nobody ELSE op

(* Turns to supersede before a turn begins: the owner of the graph turn and *)
(* the owner of the batch.                                                  *)
\* Mutant: turns that are not there are superseded too.
StaleTurnsUnchecked == <<active, batch.graph>>
StaleTurns ==
    IF batch.graph \in {Nobody, active}
    THEN IF active = Nobody THEN <<>> ELSE <<active>>
    ELSE IF active = Nobody THEN <<batch.graph>> ELSE <<active, batch.graph>>

Cancel(ts, t, why) == [ts EXCEPT ![t] = IF @ = "live" THEN why ELSE @]

-----------------------------------------------------------------------------
(* A frame opens an RPC, under a fresh name, and rotates the stream of the *)
(* conversation.  The frame is a user message or a resume action.          *)
ReadFrame(s) ==
    /\ h[s].pc = "unread" /\ s = CHOOSE r \in Rpcs : h[r].pc = "unread"
    /\ open' = open \cup {s} /\ current' = s
    /\ h' = [h EXCEPT ![s].pc = "read"]
    /\ UNCHANGED <<turn, graphVars, op, batch, inline, callVars, lane, stops>>

(* A resume stays attached while a model response is being read or a call  *)
(* is pending, and binds the pending calls to its stream; otherwise it     *)
(* ends its RPC.                                                           *)
StartResume(s) ==
    /\ h[s].pc = "read"
    /\ h' = [h EXCEPT ![s] = Idle]
    /\ IF pending # {} \/ \E r \in Rpcs : h[r].pc = "generating"
       THEN /\ call' = [c \in Calls |-> IF c \in pending
                                        THEN [call[c] EXCEPT !.stream = current]
                                        ELSE call[c]]
            /\ UNCHANGED open
       ELSE /\ open' = open \ {s}
            /\ UNCHANGED call
    /\ UNCHANGED <<current, turn, graphVars, op, batch, inline, pending, answered,
                   lane, stops>>

-----------------------------------------------------------------------------
(* A user message: pending calls are interrupted, a turn is spawned, stale *)
(* turns are superseded one after the other, and the turn begins.          *)

InstallChat(s, live) ==
    /\ installed' = installed \cup {s}
    /\ active' = s /\ top' = s /\ op' = s
    /\ inline' = IF inline.top = s THEN inline ELSE NoJob
    /\ h' = [h EXCEPT ![s] =
              [Idle EXCEPT !.pc = IF live THEN "generating" ELSE "ending",
                           !.turn = s,
                           !.job = [NoJob EXCEPT !.top = s, !.graph = s, !.stream = s]]]

Spawn(s) ==
    IF s \notin open
    THEN /\ h' = [h EXCEPT ![s] = Idle]
         /\ UNCHANGED <<turn, graphVars, op, inline>>
    ELSE IF StaleTurns = <<>>
    THEN /\ turn' = [turn EXCEPT ![s] = "live"]
         /\ InstallChat(s, TRUE)
    ELSE /\ turn' = Cancel([turn EXCEPT ![s] = "live"], Head(StaleTurns), "superseded")
         /\ h' = [h EXCEPT ![s] = [Idle EXCEPT !.pc = "superseding", !.turn = s,
                                               !.stale = StaleTurns]]
         /\ UNCHANGED <<graphVars, op, inline>>

StartChat(s) ==
    /\ h[s].pc = "read"
    /\ IF pending = {}
       THEN Spawn(s)
       ELSE /\ h' = [h EXCEPT ![s].pc = "interrupting", ![s].calls = pending]
            /\ UNCHANGED <<turn, graphVars, op, inline>>
    /\ UNCHANGED <<open, current, batch, callVars, lane, stops>>

Interrupt(s) ==
    /\ h[s].pc = "interrupting"
    /\ pending' = pending \ h[s].calls
    /\ batch' = Settled(batch, h[s].calls)
    /\ Spawn(s)
    /\ UNCHANGED <<open, current, answered, call, lane, stops>>

(* The superseded turn is over: its calls are swept, its batch is dropped. *)
Sweep(s) ==
    /\ h[s].pc = "superseding"
    /\ LET t    == Head(h[s].stale)
           rest == Tail(h[s].stale)
       IN  /\ turn[t] = "over"
           /\ pending' = pending \ OwnedBy(t)
           /\ batch' = WithoutBatchOf(t)
           /\ inline' = WithoutInlineOf(t)
           /\ turn' = IF rest = <<>> THEN turn ELSE Cancel(turn, Head(rest), "superseded")
           /\ h' = [h EXCEPT ![s].stale = rest,
                             ![s].pc = IF rest = <<>> THEN "begin" ELSE @]
    /\ UNCHANGED <<open, current, graphVars, op, answered, call, lane, stops>>

(* A continuation turn that is over gives up the lane. *)
\* Mutant: the lane is kept.
ReleasedNever(s) == lane
LaneReleased(s) == IF IsChat(s) THEN lane ELSE Tail(lane)

(* A turn that may not begin fails, and its handler with it. *)
Refuse(s) ==
    /\ turn' = [turn EXCEPT ![h[s].turn] = "over"]
    /\ h' = [h EXCEPT ![s] = Idle]
    /\ lane' = LaneReleased(s)
    /\ UNCHANGED <<graphVars, op, batch, inline>>

BeginChat(s) ==
    /\ h[s].pc = "begin" /\ IsChat(s)
    /\ IF active # Nobody \/ batch.top \notin {Nobody, s}
       THEN Refuse(s)
       ELSE /\ InstallChat(s, Live(s))
            /\ UNCHANGED <<turn, batch, lane>>
    /\ UNCHANGED <<open, current, callVars, stops>>

-----------------------------------------------------------------------------
(* The continuation of a settled batch, inside the turn of handler r. *)
\* Mutant: the claim leaves the batch behind.
ContinueUncleared(s, r) ==
    LET job == r.job
        ours == top = job.top /\ current = job.stream
        claimed == ours /\ ~Deferred(job) /\ Claimable(job)
    IN  /\ h' = [h EXCEPT ![s] = [r EXCEPT !.pc = IF claimed THEN "generating" ELSE "ending"]]
        /\ op' = IF top = job.top /\ current # job.stream THEN OpEnded(job.top) ELSE op
        /\ UNCHANGED batch

Continue(s, r) ==
    LET job == r.job
        ours == top = job.top /\ current = job.stream
        claimed == ours /\ ~Deferred(job) /\ Claimable(job)
    IN  /\ h' = [h EXCEPT ![s] = [r EXCEPT !.pc = IF claimed THEN "generating" ELSE "ending"]]
        /\ batch' = IF claimed THEN NoBatch ELSE batch
        /\ op' = IF top = job.top /\ current # job.stream THEN OpEnded(job.top) ELSE op

InstallContinuation(s, r) ==
    /\ installed' = installed \cup {r.turn}
    /\ active' = r.turn
    /\ Continue(s, r)
    /\ UNCHANGED <<top, inline>>

\* Mutant: nobody waits for the turn before.
AnywhereInLane(s) == lane # <<>>
FirstInLane(s) == lane # <<>> /\ Head(lane) = s

(* The holder of the lane spawns the continuation turn, which is a new one; *)
(* a graph turn that is still active is superseded first.                   *)
EnterLane(s) ==
    LET t == h[s].job.turn
        r == [h[s] EXCEPT !.turn = t]
    IN  /\ h[s].pc = "lane" /\ FirstInLane(s)
        /\ \/ /\ s \notin open
              /\ lane' = Tail(lane)
              /\ h' = [h EXCEPT ![s] = Idle]
              /\ UNCHANGED <<turn, graphVars, op, batch, inline>>
           \/ /\ s \in open /\ turn[t] = "none" /\ active = Nobody
              /\ turn' = [turn EXCEPT ![t] = "live"]
              /\ InstallContinuation(s, r)
              /\ UNCHANGED lane
           \/ /\ s \in open /\ turn[t] = "none" /\ active # Nobody
              /\ turn' = Cancel([turn EXCEPT ![t] = "live"], active, "superseded")
              /\ h' = [h EXCEPT ![s] = [r EXCEPT !.pc = "superseding", !.stale = <<active>>]]
              /\ UNCHANGED <<graphVars, op, batch, inline, lane>>
        /\ UNCHANGED <<open, current, callVars, stops>>

BeginContinuation(s) ==
    /\ h[s].pc = "begin" /\ ~IsChat(s)
    /\ IF active # Nobody
       THEN Refuse(s)
       ELSE /\ InstallContinuation(s, h[s])
            /\ UNCHANGED <<turn, lane>>
    /\ UNCHANGED <<open, current, callVars, stops>>

-----------------------------------------------------------------------------
(* A model response, its tool batch and the end of the turn.               *)

Unasked == {c \in Calls : /\ call[c].asked = Nobody
                          /\ \A r \in Rpcs : h[r].pc = "dispatching" => c \notin h[r].calls}

(* Calls get fresh names; which of them is all the same. *)
FreshCalls(C) ==
    /\ C \subseteq Unasked
    /\ \A K \in {ClientCalls, InlineCalls} :
          C \cap K = CHOOSE D \in SUBSET (Unasked \cap K) : Cardinality(D) = Cardinality(C \cap K)

(* The response ends without tools, is stopped because its stream is no    *)
(* longer the current one, or fails.                                       *)
EndResponse(s) ==
    /\ h[s].pc = "generating"
    /\ h' = [h EXCEPT ![s].pc = "ending"]
    /\ op' = OpEnded(h[s].job.top)
    /\ UNCHANGED <<open, current, turn, graphVars, batch, inline, callVars, lane, stops>>

AskTools(s, C) ==
    /\ h[s].pc = "generating" /\ Live(h[s].turn) /\ current = h[s].job.stream
    /\ C # {} /\ FreshCalls(C)
    /\ h' = [h EXCEPT ![s].pc = "dispatching", ![s].calls = C]
    /\ UNCHANGED <<open, current, turn, graphVars, op, batch, inline, callVars, lane, stops>>

(* Dispatch fails in a turn that is no longer live, as does an inline tool. *)
FailDispatch(s) ==
    /\ \/ h[s].pc = "dispatching" /\ ~Live(h[s].turn)
       \/ h[s].pc = "inline" /\ ~(h[s].calls \cap InlineCalls \subseteq answered)
    /\ h' = [h EXCEPT ![s].pc = "ending"]
    /\ op' = OpEnded(h[s].job.top)
    /\ UNCHANGED <<open, current, turn, graphVars, batch, inline, callVars, lane, stops>>

(* Calls are registered unless the stream was rotated meanwhile. *)
\* Mutant: the stream is not looked at.
RegisteredAnyway(s) == h[s].calls
Registered(s) == IF current = h[s].job.stream THEN h[s].calls ELSE {}

(* The calls open the batch, or join the one of the same stream. *)
Dispatch(s) ==
    LET C == h[s].calls
    IN  /\ h[s].pc = "dispatching" /\ Live(h[s].turn)
        /\ pending' = pending \cup Registered(s)
        /\ call' = [c \in Calls |->
                      IF c \in C
                      THEN [owner |-> IF c \in Registered(s) THEN h[s].turn ELSE Nobody,
                            asked |-> s, stream |-> current]
                      ELSE call[c]]
        /\ IF batch # NoBatch /\ (batch.top # top \/ batch.graph # active)
           THEN h' = [h EXCEPT ![s].pc = "ending"] /\ UNCHANGED batch
           ELSE /\ h' = [h EXCEPT ![s].pc = "inline", ![s].calls = Registered(s)]
                /\ batch' = IF batch = NoBatch \/ batch.stream # h[s].job.stream
                            THEN [top |-> top, graph |-> active,
                                  stream |-> h[s].job.stream, calls |-> C, unsettled |-> C]
                            ELSE [batch EXCEPT !.calls = @ \cup C, !.unsettled = @ \cup C]
        /\ UNCHANGED <<open, current, turn, graphVars, op, inline, answered, lane, stops>>

RunInline(s, c) ==
    /\ h[s].pc = "inline" /\ c \in h[s].calls \cap InlineCalls \cap pending
    /\ Live(h[s].turn)
    /\ pending' = pending \ {c}
    /\ answered' = answered \cup {c}
    /\ batch' = Settled(batch, {c})
    /\ UNCHANGED <<open, current, turn, graphVars, op, inline, call, lane, h, stops>>

(* The trigger of an inline continuation is the first tool of the batch. *)
Trigger(C) == CHOOSE c \in C : TRUE

(* Once the inline tools are done, a batch with nothing pending parks its  *)
(* continuation if the outbound channel is open.  A chat body takes a      *)
(* parked continuation at once, in its own turn.                           *)
EndDispatch(s) ==
    LET job == [top |-> h[s].job.top, graph |-> h[s].turn,
                stream |-> h[s].job.stream, turn |-> <<Trigger(h[s].calls), "inline">>]
        parks == /\ h[s].calls # {} /\ h[s].calls \cap pending = {}
                 /\ s \in open /\ Live(h[s].turn)
                 /\ Matches(job) /\ batch.unsettled = {}
        parked == IF parks THEN job ELSE inline
    IN  /\ h[s].pc = "inline" /\ h[s].calls \cap InlineCalls \subseteq answered
        /\ IF IsChat(s) /\ parked # NoJob
           THEN /\ inline' = NoJob
                /\ IF parked.top = top /\ op = top /\ Live(s)
                   THEN Continue(s, [h[s] EXCEPT !.job = parked])
                   ELSE h' = [h EXCEPT ![s].pc = "ending"] /\ UNCHANGED <<batch, op>>
           ELSE /\ inline' = parked
                /\ h' = [h EXCEPT ![s].pc = "ending"]
                /\ UNCHANGED <<batch, op>>
        /\ UNCHANGED <<open, current, turn, graphVars, callVars, lane, stops>>

(* A turn that has begun releases the graph turn. *)
\* Mutant: whoever ends releases the graph turn.
GraphReleasedByAny(t) == Nobody
GraphReleased(t) == IF t \in installed /\ active = t THEN Nobody ELSE active

(* The body is over: the runner completes a live turn, and its finalizer   *)
(* releases the graph turn before the terminal is published.               *)
EndTurn(s) ==
    LET t == h[s].turn
    IN  /\ h[s].pc = "ending" /\ turn[t] \notin Aborted
        /\ turn' = [turn EXCEPT ![t] = "over"]
        /\ active' = IF Live(t) THEN GraphReleased(t) ELSE active
        /\ h' = [h EXCEPT ![s] = IF IsChat(s) THEN Idle ELSE [Idle EXCEPT !.pc = "drain"]]
        /\ lane' = LaneReleased(s)
        /\ UNCHANGED <<open, current, installed, top, op, batch, inline, callVars, stops>>

(* An aborted turn ends without its body.  A turn detached by a closed     *)
(* attachment keeps its batch while calls of it are pending; any other     *)
(* abort drops it.  A turn that has not begun leaves the graph alone.      *)
EndAborted(t) ==
    LET drops == t \in installed /\ ~(turn[t] = "closed" /\ OwnedBy(t) # {})
    IN  /\ turn[t] \in Aborted
        /\ turn' = [turn EXCEPT ![t] = "over"]
        /\ active' = GraphReleased(t)
        /\ batch' = IF drops THEN WithoutBatchOf(t) ELSE batch
        /\ inline' = IF drops THEN WithoutInlineOf(t) ELSE inline
        /\ UNCHANGED <<open, current, installed, top, op, callVars, lane, h, stops>>

-----------------------------------------------------------------------------
(* A tool result.                                                          *)

ReadResult(s, c) ==
    /\ h[s].pc = "idle" /\ s \in open
    /\ c \in pending \cap ClientCalls /\ s \in {call[c].asked, call[c].stream}
    /\ \A r \in Rpcs : h[r].call # c
    /\ h' = [h EXCEPT ![s] = [Idle EXCEPT !.pc = "hooks", !.call = c,
                                          !.superseded = (current # s)]]
    /\ UNCHANGED <<open, current, turn, graphVars, op, batch, inline, callVars, lane, stops>>

(* After the hooks the handler notes the batch the call belongs to. *)
NoteBatch(s) ==
    LET c == h[s].call
    IN  /\ h[s].pc = "hooks"
        /\ h' = [h EXCEPT ![s].pc = "committing",
                          ![s].job = IF batch # NoBatch /\ batch.graph = call[c].owner
                                        /\ c \in batch.calls
                                     THEN [top |-> batch.top, graph |-> batch.graph,
                                           stream |-> s, turn |-> <<c, "result">>]
                                     ELSE NoJob]
        /\ UNCHANGED <<open, current, turn, graphVars, op, batch, inline, callVars, lane, stops>>

CommitResult(s) ==
    LET c == h[s].call
    IN  /\ h[s].pc = "committing"
        /\ IF c \in pending
           THEN /\ pending' = pending \ {c}
                /\ answered' = answered \cup {c}
                /\ batch' = Settled(batch, {c})
                /\ h' = [h EXCEPT ![s] = IF h[s].job = NoJob \/ h[s].superseded THEN Idle
                                         ELSE [Idle EXCEPT !.pc = "feedback", !.job = h[s].job]]
           ELSE /\ h' = [h EXCEPT ![s] = Idle]
                /\ UNCHANGED <<pending, answered, batch>>
        /\ UNCHANGED <<open, current, turn, graphVars, op, inline, call, lane, stops>>

(* Frames go out, the context operation is looked up, the lane is joined. *)
JoinLane(s) ==
    /\ h[s].pc = "feedback"
    /\ IF s \in open /\ op # Nobody /\ op = h[s].job.top
       THEN /\ h' = [h EXCEPT ![s].pc = "lane"]
            /\ lane' = Append(lane, s)
       ELSE /\ h' = [h EXCEPT ![s] = Idle]
            /\ UNCHANGED lane
    /\ UNCHANGED <<open, current, turn, graphVars, op, batch, inline, callVars, stops>>

(* After its own continuation a result handler takes parked ones in turn. *)
Drain(s) ==
    /\ h[s].pc = "drain"
    /\ inline' = NoJob
    /\ IF inline # NoJob /\ inline.top = top /\ op = top
       THEN /\ h' = [h EXCEPT ![s] = [Idle EXCEPT !.pc = "lane", !.job = inline]]
            /\ lane' = Append(lane, s)
       ELSE /\ h' = [h EXCEPT ![s] = Idle]
            /\ UNCHANGED lane
    /\ UNCHANGED <<open, current, turn, graphVars, op, batch, callVars, stops>>

-----------------------------------------------------------------------------
(* The attachment closes: its turn is aborted, its handler runs on. *)
CloseRpc(s) ==
    /\ s \in open
    /\ open' = open \ {s}
    /\ turn' = IF h[s].turn \in Turns THEN Cancel(turn, h[s].turn, "closed") ELSE turn
    /\ UNCHANGED <<current, graphVars, op, batch, inline, callVars, lane, h, stops>>

(* The user stops the conversation: every turn is aborted, and the pending *)
(* calls bound to the current stream are cleared.                          *)
Stop ==
    LET C == {c \in pending : call[c].stream = current}
    IN  /\ stops < MaxStops /\ open # {}
        /\ stops' = stops + 1
        /\ turn' = [t \in Turns |-> IF Live(t) THEN "cancelled" ELSE turn[t]]
        /\ pending' = pending \ C
        /\ batch' = Settled(batch, C)
        /\ UNCHANGED <<open, current, graphVars, op, inline, answered, call, lane, h>>

-----------------------------------------------------------------------------
(* What a handler does by itself once it runs. *)
Advance(s) ==
    \/ StartResume(s) \/ StartChat(s) \/ Interrupt(s) \/ Sweep(s)
    \/ BeginChat(s) \/ EnterLane(s) \/ BeginContinuation(s)
    \/ EndResponse(s) \/ (\E C \in SUBSET Calls : AskTools(s, C))
    \/ FailDispatch(s) \/ Dispatch(s) \/ (\E c \in Calls : RunInline(s, c))
    \/ EndDispatch(s) \/ EndTurn(s)
    \/ NoteBatch(s) \/ CommitResult(s) \/ JoinLane(s) \/ Drain(s)

Next ==
    \/ \E s \in Rpcs : ReadFrame(s) \/ Advance(s) \/ CloseRpc(s)
    \/ \E s \in Rpcs, c \in Calls : ReadResult(s, c)
    \/ \E t \in Turns : EndAborted(t)
    \/ Stop

Spec == Init /\ [][Next]_vars

FairSpec ==
    /\ Spec
    /\ \A s \in Rpcs : WF_vars(Advance(s))
    /\ \A t \in Turns : WF_vars(EndAborted(t))

-----------------------------------------------------------------------------
TurnStates == {"none", "live", "over"} \cup Aborted
Pcs == {"unread", "read", "idle", "interrupting", "superseding", "begin", "generating",
        "dispatching", "inline", "ending", "hooks", "committing", "feedback", "lane", "drain"}
JobType == [top : Rpcs \cup {Nobody}, graph : Turns \cup {Nobody},
            stream : Rpcs \cup {Nobody}, turn : Continuations \cup {Nobody}]
BatchType == [top : Rpcs \cup {Nobody}, graph : Turns \cup {Nobody},
              stream : Rpcs \cup {Nobody}, calls : SUBSET Calls, unsettled : SUBSET Calls]
CallType == [owner : Turns \cup {Nobody}, asked : Rpcs \cup {Nobody},
             stream : Rpcs \cup {Nobody}]
HandlerType == [pc : Pcs, turn : Turns \cup {Nobody}, job : JobType,
                call : Calls \cup {Nobody}, calls : SUBSET Calls, stale : Seq(Turns),
                superseded : BOOLEAN]

(* The variables of the module have their types. *)
TypeOK ==
    /\ open \subseteq Rpcs /\ current \in Rpcs \cup {Nobody}
    /\ turn \in [Turns -> TurnStates]
    /\ installed \subseteq Turns /\ active \in Turns \cup {Nobody}
    /\ top \in Rpcs \cup {Nobody} /\ op \in Rpcs \cup {Nobody}
    /\ batch \in BatchType /\ inline \in JobType
    /\ pending \subseteq Calls /\ answered \subseteq Calls
    /\ call \in [Calls -> CallType]
    /\ lane \in Seq(Rpcs)
    /\ h \in [Rpcs -> HandlerType]
    /\ stops \in 0..MaxStops

(* A turn that has begun and is not over is the owner of the graph turn:   *)
(* its end never meets the owner of somebody else ("terminal ordering is   *)
(* broken"), whatever turns were superseded, detached or stopped.          *)
GraphOwner ==
    \A t \in installed : turn[t] # "over" => active = t

(* A live turn about to dispatch its tools owns the graph turn, and a batch *)
(* that still exists is its own: the calls of two turns never share one     *)
(* batch, so that no turn waits for the calls of another.                   *)
DispatchOwnsBatch ==
    \A s \in Rpcs : h[s].pc = "dispatching" /\ Live(h[s].turn) =>
        active = h[s].turn /\ (batch = NoBatch \/ (batch.top = top /\ batch.graph = active))

(* The live turns that read a response of the stream the conversation has. *)
Speaking ==
    {h[s].turn : s \in {r \in Rpcs : /\ h[r].pc \in {"generating", "dispatching"}
                                     /\ Live(h[r].turn) /\ h[r].job.stream = current}}
Loop == INSTANCE AgentLoop
            WITH Users <- Rpcs, speaking <- Speaking, open <- pending,
                 closed <- {c \in Calls : call[c].owner # Nobody /\ c \notin pending}

(* The turns, batches and continuations of all the RPCs together are one   *)
(* agent loop: one speaker at a time, no response before every call is     *)
(* closed, no call opened twice.                                           *)
ImplementsLoop == Loop!Spec

(* Handlers come to rest, again and again: a turn that waits for a stale    *)
(* one, for the lane or for its tools is never left waiting, and one that   *)
(* fails does not keep the lane.                                            *)
HandlersRest == []<>(\A s \in Rpcs : h[s].pc \in {"unread", "idle"})

Alone(s) == \A r \in Rpcs \ {s} : h[r].pc = "unread"
Answered == batch # NoBatch /\ batch.unsettled = {} /\ batch.calls \subseteq answered

(* While the conversation has one RPC that nobody closes or stops, a batch  *)
(* all of whose calls are answered is continued.                            *)
SettledBatchContinues ==
    Answered /\ Alone(batch.stream) ~>
        \/ ~Answered \/ ~Alone(batch.stream)
        \/ batch.stream \notin open \/ stops > 0

(* One continuation turn at a time: a handler that runs one is first in the *)
(* lane from its spawn to its terminal, also when the turn is superseded,   *)
(* stopped or may not begin.                                                *)
LaneOwner ==
    \A s \in Rpcs : h[s].turn \in Continuations => lane # <<>> /\ Head(lane) = s

(* What the comment at the finalizer of a chat turn says: the graph turn is *)
(* released before the terminal of its owner is published.                  *)
FinishedTurnsOwnNothing == active # Nobody => turn[active] # "over"
=============================================================================
