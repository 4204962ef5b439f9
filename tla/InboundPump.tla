----------------------------- MODULE InboundPump -----------------------------
(***************************************************************************)
(* The input side of one Run RPC (handleBidiStream in                      *)
(* cursor-connect-stream.service.ts): the pump that reads the client's     *)
(* frames, the FIFO of continuations it feeds, the work the conversation   *)
(* still owes, and the end of the RPC.                                     *)
(*                                                                         *)
(* A frame that needs the model is enqueued; an answer that a running      *)
(* continuation waits for is routed on the pump itself.  A continuation is *)
(* named by what caused it: a chat message, a control action (a background *)
(* completion), or the tool call that a result or an interaction response  *)
(* answers, or an error of the client (execThrow) in its place.            *)
(*                                                                         *)
(* The owed work is the set of pending tool calls; an interaction query    *)
(* always belongs to one here (the recovery query of the Google back end   *)
(* is left out), and so does a back end stream to the running              *)
(* continuation.  Asynchronous user questions, another kind of owed work,  *)
(* the calls left by sub-agents of before a restart, and the replay of     *)
(* parked control actions are left out.                                    *)
(***************************************************************************)
EXTENDS InboundScheduler

CONSTANTS
    Chats,         \* chat messages the client may send
    Controls,      \* background completions the client may send
    Tools,         \* tool calls the model may make
    DeadlinesFire  \* whether an interaction query may outlive its deadline

Continuations == Chats \cup Controls \cup Tools

ASSUME DistinctAssumption ==
    /\ Nothing \notin Continuations
    /\ Chats \cap Controls = {} /\ Chats \cap Tools = {} /\ Controls \cap Tools = {}
    /\ DeadlinesFire \in BOOLEAN

VARIABLES
    sched,     \* the scheduler
    waitsFor,  \* the sub-agent's tool call the running continuation awaits
    tool,      \* tool[t]: pendingToolCalls and pendingInteractionQueries
    sent,      \* the frames read so far, by the continuation they name
    answer,    \* answer[t]: what was enqueued for t
    stage,     \* stage[c]: how far continuation c has come
    finished,  \* the continuations that ran to their end
    botched,   \* the answered tool calls whose handler threw
    pump,      \* "reading", or "ended" once its finally has run
    rpc        \* how far the frame forwarder and its finally have come

vars == <<sched, waitsFor, tool, sent, answer, stage, finished, botched, pump, rpc>>

\* A pending tool call waits for a client result ("exec"; "restored" if the
\* bridge has been restarted since), for the response to an interaction query
\* ("query"), for its own handler after the query is gone ("closed"), or for
\* the client on behalf of a sub-agent, which the running continuation awaits
\* ("child") or which works in the background ("background").
PendingStates == {"exec", "restored", "query", "closed", "child", "background"}
ToolStates    == PendingStates \cup {"none", "astray", "settled"}
AnswerKinds   == {"result", "response", "throw"}

\* Calls may be left from an earlier attachment, or from before a restart.
Init ==
    /\ sched = FreshScheduler
    /\ waitsFor = Nothing
    /\ \E left \in {"exec", "restored"} : tool \in [Tools -> {"none", left}]
    /\ sent = {}
    /\ answer = [t \in Tools |-> "none"]
    /\ stage = [c \in Continuations |-> "new"]
    /\ finished = {}
    /\ botched = {}
    /\ pump = "reading"
    /\ rpc = "open"

\* hasPendingStreamWork.
OwedIn(status) == {t \in Tools : status[t] \in PendingStates}
Owed == OwedIn(tool)

\* waitForDurableToolRecoveryBeforeContinuation.
AwaitsRecovery(status) == \E t \in Tools : status[t] = "restored"

\* Mutant: a state of its own for a call that was aborted.
SettleMislabelled(T) ==
    [t \in Tools |-> IF t \in T \cap Owed THEN "aborted" ELSE tool[t]]

\* The pending calls among T get a result or are aborted.  A response to the
\* query of one of them may still be under way: it has gone astray.
Settle(T) ==
    [t \in Tools |-> IF t \notin T \cap Owed THEN tool[t]
                     ELSE IF tool[t] \in {"query", "closed"} /\ t \notin sent THEN "astray"
                     ELSE "settled"]

\* The pump's finally, or the forwarder's, has sealed the attachment.
Sealed == pump = "ended" \/ rpc # "open"

-----------------------------------------------------------------------------
(* The pump.                                                               *)

\* The pump can take a frame that leads to a continuation.
CanAdmit == pump = "reading" /\ Accepting(sched)

Admit(c) ==
    /\ CanAdmit
    /\ sched' = Enqueue(sched, c)
    /\ sent' = sent \cup {c}
    /\ UNCHANGED <<waitsFor, stage, finished, botched, pump, rpc>>

\* A chat message, or a background completion, which is not taken while calls
\* of before a restart are pending.  It may carry the outcomes of calls (R)
\* that were interrupted; those are settled first.
ReadMessage(c, R) ==
    /\ c \in (Chats \cup Controls) \ sent
    /\ \A t \in R : tool[t] \in {"exec", "restored"}
    /\ tool' = Settle(R)
    /\ c \in Controls => ~AwaitsRecovery(tool')
    /\ Admit(c)
    /\ UNCHANGED answer

\* The result of a tool call the client executes, or its error (one that
\* comes when the call is no longer pending is ignored, and left out).
ReadResult(t, kind) ==
    /\ tool[t] \in {"exec", "restored"} /\ t \notin sent
    /\ kind \in {"result", "throw"}
    /\ Admit(t)
    /\ answer' = [answer EXCEPT ![t] = kind]
    /\ UNCHANGED tool

\* The response to an interaction query: the query is resolved on the pump,
\* its tool call continues in the FIFO.
ReadResponse(t) ==
    /\ tool[t] = "query" /\ ~AwaitsRecovery(tool)
    /\ Admit(t)
    /\ tool' = [tool EXCEPT ![t] = "closed"]
    /\ answer' = [answer EXCEPT ![t] = "response"]

\* Mutant: it waits in the FIFO behind the continuation that awaits it.
ReadChildAnswerQueued(t) ==
    /\ tool[t] = "child" /\ t \notin sent
    /\ Admit(t)
    /\ UNCHANGED <<tool, answer>>

\* The answer to a sub-agent's call is handled at once, never queued.
ReadChildAnswer(t) ==
    /\ CanAdmit /\ tool[t] \in {"child", "background"}
    /\ tool' = Settle({t})
    /\ sched' = EvaluateIdle(sched, OwedIn(tool'))
    /\ sent' = sent \cup {t}
    /\ UNCHANGED <<waitsFor, answer, stage, finished, botched, pump, rpc>>

\* Mutant: the idle edge is not evaluated.
ReadUnmatchedSilently(t) ==
    /\ CanAdmit /\ tool[t] \in {"closed", "astray"} /\ t \notin sent
    /\ ~AwaitsRecovery(tool)
    /\ tool' = Settle(Owed)
    /\ sent' = sent \cup {t}
    /\ UNCHANGED <<sched, waitsFor, answer, stage, finished, botched, pump, rpc>>

\* A response whose query has expired, or was interrupted, is unmatched: every
\* pending tool call of the conversation is failed.
ReadUnmatchedResponse(t) ==
    /\ CanAdmit /\ tool[t] \in {"closed", "astray"} /\ t \notin sent
    /\ ~AwaitsRecovery(tool)
    /\ tool' = Settle(Owed)
    /\ sched' = EvaluateIdle(sched, OwedIn(tool'))
    /\ sent' = sent \cup {t}
    /\ UNCHANGED <<waitsFor, answer, stage, finished, botched, pump, rpc>>

\* The pump leaves its loop, and the calls of T are settled.  Its finally
\* closes the scheduler and seals the attachment.
PumpLeaves(T) ==
    /\ pump = "reading"
    /\ pump' = "ended"
    /\ tool' = Settle(T)
    /\ sched' = RequestEnd(sched, "input-ended")
    /\ UNCHANGED <<waitsFor, sent, answer, stage, finished, botched, rpc>>

SubagentCalls == {t \in Tools : tool[t] \in {"child", "background"}}

\* The end was requested (a frame that wins the race after that is refused by
\* enqueue) or the input is over: sub-agents cannot be resumed.  Or the client
\* cancels, which aborts every call.  Or a handler throws, or the frame may
\* not be taken: nothing is settled.
PumpEnds ==
    \/ PumpLeaves(SubagentCalls)
    \/ ~AwaitsRecovery(tool) /\ PumpLeaves(Owed)
    \/ PumpLeaves({})

\* A response that comes while calls of before a restart are pending is such
\* a frame.
RefuseResponse(t) ==
    /\ CanAdmit /\ AwaitsRecovery(tool)
    /\ tool[t] \in {"query", "closed", "astray"} /\ t \notin sent
    /\ PumpLeaves({})

\* InteractionQueryDeadlineSweeper: the query's promise is resolved with an
\* error.  Only a sub-agent awaits that promise.
QueryExpires(t) ==
    /\ DeadlinesFire
    /\ tool[t] \in {"query", "child"}
    /\ tool' = [tool EXCEPT ![t] = IF @ = "query" THEN "closed" ELSE "settled"]
    /\ UNCHANGED <<sched, waitsFor, sent, answer, stage, finished, botched, pump, rpc>>

-----------------------------------------------------------------------------
(* The running continuation.                                               *)

Runs(C) == sched.active \in C /\ waitsFor = Nothing

Starts(c, C) == Runs({c}) /\ c \in C /\ stage[c] = "new"

\* Continuation c goes on as s, and the calls of T are settled.
Goes(c, s, T) ==
    /\ stage' = [stage EXCEPT ![c] = s]
    /\ tool' = Settle(T)
    /\ UNCHANGED <<waitsFor, sent, answer, finished, botched, pump, rpc>>

\* A user message that meets calls of before a restart ends the run: they
\* stay pending, for the next attachment.
DeferMessage(c) ==
    /\ Starts(c, Chats) /\ AwaitsRecovery(tool)
    /\ Goes(c, "cut", {})
    /\ sched' = RequestEnd(sched, "turn-terminal")

\* A resume waits for what is still pending, without a turn of its own.
ResumePassively(c) ==
    /\ Starts(c, Chats)
    /\ Goes(c, "passive", {})
    /\ sched' = IF Owed = {} THEN RequestEnd(sched, "turn-terminal") ELSE sched

\* A new user turn interrupts the queries an earlier one left, ...
BeginChat(c) ==
    /\ Starts(c, Chats) /\ ~AwaitsRecovery(tool)
    /\ stage' = [stage EXCEPT ![c] = "grace"]
    /\ tool' = [t \in Tools |-> IF tool[t] = "query" THEN "closed" ELSE tool[t]]
    /\ UNCHANGED <<sched, waitsFor, sent, answer, finished, botched, pump, rpc>>

\* ... gives sub-agents some time, and interrupts what is pending then, but
\* for the calls of background sub-agents.
GraceOver(c) ==
    /\ Runs({c}) /\ stage[c] = "grace"
    /\ Goes(c, "model", {t \in Tools : tool[t] # "background"})
    /\ UNCHANGED sched

\* The idle gate of continueAgentFromControlContinuation parks a completion
\* that meets owed work; otherwise it runs a model turn.
BeginControl(c) ==
    /\ Starts(c, Controls)
    /\ Goes(c, IF Owed = {} THEN "model" ELSE "passive", {})
    /\ UNCHANGED sched

\* handleToolResult consumes the pending call it answers, if it still is
\* pending, and goes on with the model; so does the error of an MCP tool.
BeginAnswer(t) ==
    /\ Starts(t, Tools)
    /\ Goes(t, IF t \in Owed THEN "model" ELSE "passive", {t})
    /\ UNCHANGED sched

\* The client's error aborts any other tool's call, and ends the run.
AbortByThrow(t) ==
    /\ Starts(t, Tools) /\ answer[t] = "throw" /\ t \in Owed
    /\ Goes(t, "cut", {t})
    /\ sched' = RequestEnd(sched, "turn-terminal")

\* The model calls a tool: the call is pending and the client has been asked.
CallTool(c, t, kind) ==
    /\ Runs({c}) /\ stage[c] = "model" /\ ~Sealed
    /\ tool[t] = "none"
    /\ kind \in {"exec", "query", "child"}
    /\ tool' = [tool EXCEPT ![t] = kind]
    /\ waitsFor' = IF kind = "child" THEN t ELSE Nothing
    /\ UNCHANGED <<sched, sent, answer, stage, finished, botched, pump, rpc>>

\* A background sub-agent calls a tool, as long as the run stays open for
\* something else (what it calls later is left out).
BackgroundCalls(t) ==
    /\ Accepting(sched) /\ (~IsIdle(sched) \/ Owed # {})
    /\ tool[t] = "none"
    /\ tool' = [tool EXCEPT ![t] = "background"]
    /\ UNCHANGED <<sched, waitsFor, sent, answer, stage, finished, botched, pump, rpc>>

\* The sub-agent's call is answered and the continuation goes on.
ChildAnswered ==
    /\ waitsFor # Nothing
    /\ waitsFor \notin Owed
    /\ waitsFor' = Nothing
    /\ UNCHANGED <<sched, tool, sent, answer, stage, finished, botched, pump, rpc>>

\* The continuation ends.  If it fails, the run ends, unless it handled a tool
\* result, whose failure is only logged.  A control action, or the error of an
\* MCP tool, that leaves nothing owed ends the run itself, before the FIFO gets
\* to see its idle edge.
Ends(c, ok) ==
    /\ sched.active = c
    /\ waitsFor = Nothing \/ (Sealed /\ ~ok)
    /\ ok => stage[c] \notin {"new", "grace"}
    /\ LET logged == c \in Tools /\ answer[c] = "result"
           asked  == /\ Owed = {}
                     /\ c \in Controls \/ (c \in Tools /\ answer[c] = "throw"
                                                       /\ stage[c] = "model")
           s      == IF ~ok /\ ~logged THEN RequestEnd(sched, "continuation-failed")
                     ELSE IF ok /\ asked THEN RequestEnd(sched, "turn-terminal") ELSE sched
       IN  /\ sched' = Finish(s, Owed)
           /\ botched' = IF logged /\ ~ok THEN botched \cup {c} ELSE botched
    /\ waitsFor' = Nothing
    /\ finished' = finished \cup {c}
    /\ rpc' = IF rpc = "waiting" /\ IsIdle(sched') THEN "returned" ELSE rpc
    /\ UNCHANGED <<tool, sent, answer, stage, pump>>

-----------------------------------------------------------------------------
(* The frame forwarder and its finally.                                    *)

\* The outbound is sealed, or the consumer is gone.
ForwarderExits ==
    /\ rpc = "open"
    /\ rpc' = "draining"
    /\ sched' = RequestEnd(sched, "consumer-closed")
    /\ UNCHANGED <<waitsFor, tool, sent, answer, stage, finished, botched, pump>>

\* Mutant: the RPC waits for a notification that is over.
AwaitNotification ==
    /\ rpc = "draining" /\ pump = "ended"
    /\ rpc' = "waiting"
    /\ UNCHANGED <<sched, waitsFor, tool, sent, answer, stage, finished, botched, pump>>

\* The pump is over; awaitIdle returns at once or waits for a notification.
AwaitIdle ==
    /\ rpc = "draining" /\ pump = "ended"
    /\ rpc' = IF IsIdle(sched) THEN "returned" ELSE "waiting"
    /\ UNCHANGED <<sched, waitsFor, tool, sent, answer, stage, finished, botched, pump>>

-----------------------------------------------------------------------------
ReadAnswer(t) ==
    \/ \E kind \in {"result", "throw"} : ReadResult(t, kind)
    \/ ReadResponse(t)
    \/ ReadChildAnswer(t)
    \/ ReadUnmatchedResponse(t)
    \/ RefuseResponse(t)

Begin(c) ==
    \/ DeferMessage(c) \/ ResumePassively(c) \/ BeginChat(c) \/ GraceOver(c)
    \/ BeginControl(c)
    \/ BeginAnswer(c) \/ AbortByThrow(c)

Progress ==
    \/ \E c \in Continuations : Begin(c)
    \/ ChildAnswered
    \/ \E c \in Continuations, ok \in BOOLEAN : Ends(c, ok)

Next ==
    \/ \E c \in Chats \cup Controls, R \in SUBSET Tools : ReadMessage(c, R)
    \/ \E t \in Tools : ReadAnswer(t) \/ QueryExpires(t) \/ BackgroundCalls(t)
    \/ \E c \in Continuations, t \in Tools, kind \in {"exec", "query", "child"} :
           CallTool(c, t, kind)
    \/ Progress
    \/ PumpEnds
    \/ ForwarderExits
    \/ AwaitIdle

Spec == Init /\ [][Next]_vars

\* The event loop runs what is ready; a running continuation ends unless it
\* waits; the sweeper's interval fires.
Fairness ==
    /\ WF_vars(Progress)
    /\ WF_vars(~Accepting(sched) /\ PumpEnds)
    /\ WF_vars(Sealed /\ ForwarderExits)
    /\ WF_vars(AwaitIdle)
    /\ \A t \in Tools : WF_vars(QueryExpires(t))

\* The client answers what it was asked, as long as the pump reads.
ClientAnswers == \A t \in Tools : WF_vars(ReadAnswer(t))

FairSpec         == Spec /\ Fairness
AnsweredFairSpec == FairSpec /\ ClientAnswers

-----------------------------------------------------------------------------
(* Properties.                                                             *)

TypeOK ==
    /\ sched \in SchedulerOf(Continuations)
    /\ waitsFor \in Tools \cup {Nothing}
    /\ tool \in [Tools -> ToolStates]
    /\ sent \subseteq Continuations
    /\ answer \in [Tools -> AnswerKinds \cup {"none"}]
    /\ stage \in [Continuations -> {"new", "grace", "model", "passive", "cut"}]
    /\ finished \subseteq Continuations
    /\ botched \subseteq Tools
    /\ pump \in {"reading", "ended"}
    /\ rpc \in {"open", "draining", "waiting", "returned"}

\* The run was ended over what is owed, because the client gave a call up or
\* spoke while calls of before a restart were pending.
CutShort == \E c \in Continuations : stage[c] = "cut"

\* Otherwise a run is called terminal only when the conversation owes nothing:
\* no tool call of it is left to a client that may close the stream now,
\* whichever of the pump, the FIFO and a continuation saw the end.
TerminalOwesNothing == sched.end = "turn-terminal" => Owed = {} \/ CutShort

\* ... and an answer the client has given is never thrown away: the answered
\* call is queued, running, finished or settled.
AnswersSurviveTerminal ==
    sched.end \in {"none", "turn-terminal"} =>
        \A t \in sent \cap Tools :
            t \in Admitted(sched) \cup finished \/ t \notin Owed \/ CutShort

\* The run does not stay open with nothing to wait for: once something was
\* admitted, an idle FIFO with nothing owed has requested the end, whoever
\* settled the last call.
IdleRunHasEnded ==
    sent # {} /\ IsIdle(sched) /\ Owed = {} => ~Accepting(sched)

\* What a client sees of the run
Seen ==
    [runs |-> sched.active, line |-> sched.queue, taken |-> sent, over |-> finished,
     thrown |-> {t \in Tools : answer[t] = "throw"},
     made |-> {t \in Tools : tool[t] # "none"}, open |-> Owed,
     old  |-> {t \in Tools : tool[t] = "restored"},
     end  |-> sched.end, back |-> rpc = "returned"]

Promise == INSTANCE RunRpc WITH Jobs <- Continuations, Calls <- Tools, run <- Seen

\* ... keeps the promise: frames are served once, one at a time and in order,
\* the run ends once and for a reason, nothing starts or is called afterwards,
\* and the RPC returns only when its last continuation is over
\* (BidiInboundContinuationScheduler, handleBidiStream).
RunKeepsPromise == Promise!Spec

\* An end that was requested lets the RPC return, with a continuation running
\* or not: awaitIdle never misses its notification.
RunReturns == ~Accepting(sched) ~> rpc = "returned"

\* A continuation that waits for the client does not wait for ever behind its
\* own FIFO (class comment of BidiInboundContinuationScheduler).
WaitingContinuationProceeds == waitsFor # Nothing ~> waitsFor = Nothing

\* A tool call the client answers is settled, unless the run ends or the
\* handler of the answer throws.
AnsweredCallsSettle ==
    \A t \in Tools : tool[t] \in PendingStates
        ~> t \notin Owed \/ t \in botched \/ ~Accepting(sched)

-----------------------------------------------------------------------------
(* What the comments promise and the code does not do.                     *)

\* BidiInboundContinuationSchedulerOptions.shouldEndWhenIdle is "evaluated only
\* at a real FIFO idle edge.  Returning true ends this Run RPC".  A control
\* action ends the run from inside the FIFO, and what is queued is lost.
TerminalOnlyAtIdleEdge ==
    [][Accepting(sched) /\ sched'.end = "turn-terminal" /\ sched.active \in Controls
          => sched.queue = <<>>]_vars

\* ToolCallLedger.buildAbortToolResult: "consistent across every abort path
\* (bidi teardown, supersede, user cancel, deadline expiry, ...)".  The expiry
\* of a query that belongs to a tool call aborts nothing.
ExpiredCallsSettle ==
    \A t \in Tools : tool[t] = "closed"
        ~> t \notin Owed \/ t \in botched \/ ~Accepting(sched)
=============================================================================
