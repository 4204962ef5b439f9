------------------------ MODULE ToolBatchLoopProofs ------------------------
(***************************************************************************)
(* ToolBatch implements AgentLoop, and a turn that dispatches owns the     *)
(* batch, for any sets of RPCs and calls.  Every step of the conversation  *)
(* has one of the effects below on the handlers, the batch and the calls;  *)
(* the invariants and the step simulation are proved about the effects.    *)
(***************************************************************************)
EXTENDS ToolBatchProofs

BegunPcs   == {"generating", "dispatching", "inline", "ending"}
UnbegunPcs == {"superseding", "begin"}
Reading    == {"generating", "dispatching"}

(* The handlers of a turn that has begun, and those that wait for it. *)
Begun ==
    \A s \in Rpcs :
        /\ h[s].pc \in BegunPcs => h[s].turn \in installed
        /\ h[s].pc \in UnbegunPcs => h[s].turn \notin installed

(* A top level is a user turn that has begun; a batch belongs to one. *)
TopBegun ==
    /\ top # Nobody => top \in installed
    /\ batch # NoBatch =>
          /\ batch.top \in installed \cap Rpcs /\ batch.graph # Nobody
          /\ top # Nobody
    /\ \A s \in Rpcs : h[s].pc \in Reading => top # Nobody

(* A live turn that reads a response, or is about to dispatch its tools. *)
Talks(s) == h[s].pc \in Reading /\ Live(h[s].turn)

(* There is no batch while the model speaks. *)
NoBatchWhileTalking == \A s \in Rpcs : Talks(s) => batch = NoBatch

BatchInv == Begun /\ TopBegun /\ NoBatchWhileTalking

(* A user message that has not begun: no continuation runs on its stream. *)
Fresh(s) ==
    \/ h[s].pc \in Waiting
    \/ h[s].pc \in UnbegunPcs /\ h[s].turn = s

StreamsBegun ==
    \A s \in Rpcs : Fresh(s) =>
        /\ inline.stream # s
        /\ \A r \in Rpcs : h[r].job.stream # s

(* Calls are registered once, and each response names its own. *)
CallsFresh ==
    /\ \A c \in Calls : call[c].owner # Nobody => call[c].asked # Nobody
    /\ \A c \in pending : call[c].owner # Nobody
    /\ \A s \in Rpcs : h[s].pc = "dispatching" =>
          /\ \A c \in h[s].calls : call[c].asked = Nobody
          /\ \A r \in Rpcs \ {s} : h[r].pc = "dispatching" => h[r].calls \cap h[s].calls = {}

(* A user message on the current stream closes every call before it begins. *)
CallsClosed ==
    \A s \in Rpcs : current = s =>
        /\ h[s].pc = "interrupting" => pending \subseteq h[s].calls
        /\ h[s].pc \in UnbegunPcs /\ h[s].turn = s => pending = {}

LoopInv == StreamsBegun /\ CallsFresh /\ CallsClosed

AllInv == Inv /\ BatchInv /\ LoopInv

(* No two handlers are in one turn. *)
LEMMA Unique ==
    ASSUME Inv, NEW s \in Rpcs, NEW r \in Rpcs,
           h[s].turn = h[r].turn, h[s].turn # Nobody
    PROVE  s = r
<1>1. h[s].turn \in Turns
    BY RegisteredType DEF Inv
<1>2. CASE h[s].turn \in Rpcs
    BY <1>2 DEF Inv, HandlerShape, GoodHandler
<1>3. CASE h[s].turn \in Continuations
    BY <1>3 DEF Inv, LaneOwner
<1> QED
    BY <1>1, <1>2, <1>3 DEF Turns

(* The only handler that talks is that of the owner of the graph turn. *)
LEMMA TalkersOwn ==
    ASSUME Inv, Begun, NEW s \in Rpcs, Talks(s)
    PROVE  /\ h[s].turn \in Turns /\ active = h[s].turn
           /\ \A r \in Rpcs : Talks(r) => r = s
<1>1. ASSUME NEW r \in Rpcs, Talks(r) PROVE h[r].turn \in Turns /\ active = h[r].turn
  <2>1. h[r].turn \in installed /\ turn[h[r].turn] # "over"
      BY <1>1 DEF Begun, Talks, Live, Reading, BegunPcs
  <2> QED
      BY <2>1 DEF Inv, TypeOK, GraphOwner
<1> QED
    BY <1>1, Unique, ConstantTypes

-----------------------------------------------------------------------------
(* The effects. *)

Others(s) == \A x \in Rpcs \ {s} : h'[x] = h[x]

(* The stream of a new job is an old one, or that of a handler that serves. *)
NewStream(s) ==
    \/ h'[s].job.stream \in {h[s].job.stream, Nobody, inline.stream}
    \/ h'[s].job.stream = s /\ h'[s].pc \notin Waiting \cup UnbegunPcs

(* Handler s goes on in its turn, or is in none. *)
Keeps(s) ==
    /\ Others(s)
    /\ h'[s].pc \in Waiting => h[s].pc \in Waiting
    /\ h'[s].pc \in UnbegunPcs => h[s].pc \in UnbegunPcs /\ h'[s].turn = h[s].turn
    /\ h'[s].pc \in BegunPcs => h[s].pc \in BegunPcs /\ h'[s].turn = h[s].turn
    /\ h'[s].pc \in Reading => h[s].pc \in Reading /\ h'[s].job = h[s].job
    /\ h'[s].pc = "dispatching" => h'[s].calls \subseteq Unasked
    /\ h'[s].pc = "interrupting" => pending' \subseteq h'[s].calls
    /\ NewStream(s)
    /\ UNCHANGED <<installed, top>>

(* Handler s has spawned turn t, which waits for a stale one. *)
Awaits(s, t) ==
    /\ Others(s)
    /\ h'[s].pc = "superseding" /\ h'[s].turn = t /\ turn[t] = "none"
    /\ t = s => /\ h[s].pc \in Waiting
                /\ current = s => pending' = {}
    /\ NewStream(s)
    /\ UNCHANGED <<installed, top>>

(* The user turn of RPC s begins. *)
Interjects(s) ==
    /\ Others(s)
    /\ h'[s].pc \in {"generating", "ending"} /\ h'[s].turn = s /\ h'[s].job.stream = s
    /\ turn[s] = "none" \/ h[s].turn = s
    /\ active = Nobody
    /\ installed' = installed \cup {s} /\ top' = s
    /\ batch = NoBatch /\ batch' = NoBatch
    /\ current = s => pending' = {}

(* Turn t of handler s claims the continuation of a settled batch, or gives *)
(* it up; a continuation turn begins with it.                               *)
Resumes(s, t) ==
    /\ Others(s)
    /\ h'[s].pc \in {"generating", "ending"} /\ h'[s].turn = t
    /\ h'[s].pc = "generating" => batch # NoBatch /\ batch' = NoBatch /\ pending = {}
    /\ turn[t] = "none" \/ h[s].turn = t
    /\ NewStream(s)
    /\ installed' = installed \cup {t} /\ top' = top

(* The calls that leave the pending store settle in the batch, or the batch *)
(* is dropped; nothing is registered.                                       *)
Settles ==
    /\ batch' = NoBatch \/ (/\ batch # NoBatch
                            /\ batch'.top = batch.top /\ batch'.graph = batch.graph)
    /\ pending' \subseteq pending
    /\ \A c \in Calls : call'[c].owner = call[c].owner /\ call'[c].asked = call[c].asked

(* No turn comes back to life, and a parked continuation runs on a stream   *)
(* that has served.                                                         *)
LiveKept == \A t \in Turns : turn'[t] = "live" => turn[t] \in {"live", "none"}
ParkedFrom ==
    \/ inline'.stream \in {Nobody, inline.stream}
    \/ \E x \in Rpcs : inline'.stream = h[x].job.stream

Effect(s) ==
    \/ Keeps(s) /\ Settles /\ current' = current
    \/ /\ Keeps(s) /\ Settles /\ current' = s
       /\ h[s].pc = "unread" /\ h'[s].pc = "read"
    \/ Keeps(s) /\ Dispatch(s)
    \/ Settles /\ current' = current /\ Interjects(s)
    \/ Settles /\ current' = current /\ \E t \in Turns : Awaits(s, t) \/ Resumes(s, t)

Effects ==
    /\ LiveKept /\ ParkedFrom
    /\ \/ \E s \in Rpcs : Effect(s)
       \/ UNCHANGED <<h, installed, top, current>> /\ Settles

-----------------------------------------------------------------------------
(* Every step has an effect. *)

BatchShrinks ==
    batch' = NoBatch \/ (/\ batch # NoBatch
                         /\ batch'.top = batch.top /\ batch'.graph = batch.graph)

LEMMA SettledShrinks ==
    ASSUME TypeOK, NEW C
    PROVE  /\ batch' = Settled(batch, C) => BatchShrinks
           /\ batch = NoBatch => Settled(batch, C) = NoBatch
<1> DEFINE U == batch.unsettled \ {c \in C \cap pending : call[c].owner = batch.graph}
<1>1. Settled(batch, C) = [batch EXCEPT !.unsettled = U] /\ batch \in BatchType
    BY DEF Settled, TypeOK
<1>2. batch = NoBatch => U = {}
    BY DEF NoBatch
<1> HIDE DEF U
<1>3. /\ [batch EXCEPT !.unsettled = U].top = batch.top
      /\ [batch EXCEPT !.unsettled = U].graph = batch.graph
    BY <1>1 DEF BatchType
<1>4. batch = NoBatch => [batch EXCEPT !.unsettled = U] = NoBatch
    BY <1>2 DEF NoBatch
<1> QED
    BY <1>1, <1>3, <1>4 DEF BatchShrinks

(* What handler s is after it was given r. *)
LEMMA Updated ==
    ASSUME TypeOK, NEW s \in Rpcs, NEW r, h' = [h EXCEPT ![s] = r]
    PROVE  h'[s] = r /\ Others(s)
BY DEF TypeOK, Others

LEMMA IdleFields ==
    /\ Idle.pc = "idle" /\ Idle.turn = Nobody /\ Idle.job = NoJob
    /\ NoJob.stream = Nobody
BY DEF Idle, NoJob

LEMMA KeepsIdle ==
    ASSUME TypeOK, NEW s \in Rpcs, h' = [h EXCEPT ![s] = Idle], UNCHANGED <<installed, top>>
    PROVE  Keeps(s)
<1>1. h'[s] = Idle /\ Others(s)
    BY Updated
<1> QED
    BY <1>1, IdleFields DEF Keeps, NewStream, Waiting, UnbegunPcs, BegunPcs, Reading

LEMMA KeepsIdleWith ==
    ASSUME TypeOK, NEW s \in Rpcs, NEW j \in JobType, NEW p \in {"feedback", "lane"},
           j.stream \in {h[s].job.stream, inline.stream},
           h' = [h EXCEPT ![s] = [Idle EXCEPT !.pc = p, !.job = j]],
           UNCHANGED <<installed, top>>
    PROVE  Keeps(s)
<1> DEFINE r == [Idle EXCEPT !.pc = p, !.job = j]
<1>1. r.pc = p /\ r.job = j
    BY IdleType DEF HandlerType, Pcs
<1>2. h' = [h EXCEPT ![s] = r]
    OBVIOUS
<1> HIDE DEF r
<1>3. h'[s] = r /\ Others(s)
    BY <1>2, Updated
<1> QED
    BY <1>1, <1>3 DEF Keeps, NewStream, Waiting, UnbegunPcs, BegunPcs, Reading

LEMMA KeepsPc ==
    ASSUME TypeOK, NEW s \in Rpcs, NEW p \in {"read", "ending", "lane"},
           h' = [h EXCEPT ![s] = [h[s] EXCEPT !.pc = p]],
           p = "read" => h[s].pc \in Waiting,
           p = "ending" => h[s].pc \in BegunPcs,
           UNCHANGED <<installed, top>>
    PROVE  Keeps(s) /\ h'[s].pc = p
<1> DEFINE r == [h[s] EXCEPT !.pc = p]
<1>1. h[s] \in HandlerType /\ p \in Pcs
    BY DEF TypeOK, Pcs
<1>2. r.pc = p /\ r.turn = h[s].turn /\ r.job = h[s].job
    BY <1>1, PcUpdate
<1>3. h' = [h EXCEPT ![s] = r]
    OBVIOUS
<1> HIDE DEF r
<1>4. h'[s] = r /\ Others(s)
    BY <1>3, Updated
<1> QED
    BY <1>2, <1>4 DEF Keeps, NewStream, Waiting, UnbegunPcs, BegunPcs, Reading

LEMMA ReadFrameEffect ==
    ASSUME AllInv, NEW s \in Rpcs, ReadFrame(s)
    PROVE  Effects
<1> USE DEF AllInv, Inv
<1>1. Keeps(s) /\ h'[s].pc = "read"
  <2>1. h' = [h EXCEPT ![s] = [h[s] EXCEPT !.pc = "read"]] /\ h[s].pc = "unread"
      BY DEF ReadFrame
  <2> QED
      BY <2>1, KeepsPc DEF Waiting, ReadFrame, graphVars
<1> QED
    BY <1>1 DEF ReadFrame, Effects, Effect, LiveKept, ParkedFrom, Settles, graphVars, callVars

LEMMA StartResumeEffect ==
    ASSUME AllInv, NEW s \in Rpcs, StartResume(s)
    PROVE  Effects
<1> USE DEF AllInv, Inv
<1>1. Keeps(s)
    BY KeepsIdle DEF StartResume, graphVars
<1>2. Settles
  <2>1. ASSUME NEW c \in Calls
        PROVE  call'[c].owner = call[c].owner /\ call'[c].asked = call[c].asked
      BY DEF StartResume, TypeOK, CallType
  <2> QED
      BY <2>1 DEF StartResume, Settles
<1> QED
    BY <1>1, <1>2 DEF StartResume, Effects, Effect, LiveKept, ParkedFrom, graphVars

LEMMA EndResponseEffect ==
    ASSUME AllInv, NEW s \in Rpcs, EndResponse(s) \/ FailDispatch(s)
    PROVE  Effects
<1> USE DEF AllInv, Inv
<1>1. Keeps(s)
  <2>1. /\ h' = [h EXCEPT ![s] = [h[s] EXCEPT !.pc = "ending"]]
        /\ h[s].pc \in {"generating", "dispatching", "inline"}
        /\ UNCHANGED <<installed, top>>
      BY DEF EndResponse, FailDispatch, graphVars
  <2> QED
      BY <2>1, KeepsPc DEF BegunPcs
<1> QED
    BY <1>1 DEF EndResponse, FailDispatch, Effects, Effect, LiveKept, ParkedFrom, Settles,
                graphVars, callVars

LEMMA KeepsCalls ==
    ASSUME TypeOK, NEW s \in Rpcs, NEW C \in SUBSET Calls,
           NEW p \in {"interrupting", "dispatching", "inline"},
           h' = [h EXCEPT ![s] = [h[s] EXCEPT !.pc = p, !.calls = C]],
           p = "interrupting" => h[s].pc \in Waiting /\ pending' \subseteq C,
           p = "dispatching" => h[s].pc \in Reading /\ C \subseteq Unasked,
           p = "inline" => h[s].pc \in BegunPcs,
           UNCHANGED <<installed, top>>
    PROVE  Keeps(s) /\ h'[s].pc = p
<1> DEFINE r == [h[s] EXCEPT !.pc = p, !.calls = C]
<1>1. h[s] \in HandlerType
    BY DEF TypeOK
<1>2. r.pc = p /\ r.turn = h[s].turn /\ r.job = h[s].job /\ r.calls = C
    BY <1>1 DEF HandlerType
<1>3. h' = [h EXCEPT ![s] = r]
    OBVIOUS
<1> HIDE DEF r
<1>4. h'[s] = r /\ Others(s)
    BY <1>3, Updated
<1> QED
    BY <1>2, <1>4 DEF Keeps, NewStream, Waiting, UnbegunPcs, BegunPcs, Reading

LEMMA AskToolsEffect ==
    ASSUME AllInv, NEW s \in Rpcs, NEW C \in SUBSET Calls, AskTools(s, C)
    PROVE  Effects
<1> USE DEF AllInv, Inv
<1>1. Keeps(s)
  <2>1. /\ h' = [h EXCEPT ![s] = [h[s] EXCEPT !.pc = "dispatching", !.calls = C]]
        /\ h[s].pc = "generating" /\ C \subseteq Unasked /\ UNCHANGED <<installed, top>>
      BY DEF AskTools, FreshCalls, graphVars
  <2> QED
      BY <2>1, KeepsCalls DEF Reading
<1> QED
    BY <1>1 DEF AskTools, Effects, Effect, LiveKept, ParkedFrom, Settles, graphVars, callVars

LEMMA DispatchEffect ==
    ASSUME AllInv, NEW s \in Rpcs, Dispatch(s)
    PROVE  Effects
<1> USE DEF AllInv, Inv
<1>1. Keeps(s)
  <2>1. CASE h' = [h EXCEPT ![s].pc = "ending"]
    <3>1. /\ h' = [h EXCEPT ![s] = [h[s] EXCEPT !.pc = "ending"]]
          /\ h[s].pc = "dispatching" /\ UNCHANGED <<installed, top>>
        BY <2>1 DEF Dispatch, graphVars
    <3> QED
        BY <3>1, KeepsPc DEF BegunPcs
  <2>2. CASE h' = [h EXCEPT ![s].pc = "inline", ![s].calls = Registered(s)]
    <3>1. /\ h' = [h EXCEPT ![s] = [h[s] EXCEPT !.pc = "inline", !.calls = Registered(s)]]
          /\ h[s].pc = "dispatching" /\ UNCHANGED <<installed, top>>
        BY <2>2 DEF Dispatch, graphVars
    <3>2. Registered(s) \in SUBSET Calls
        BY RegisteredType
    <3> QED
        BY <3>1, <3>2, KeepsCalls DEF BegunPcs
  <2> QED
      BY <2>1, <2>2 DEF Dispatch
<1> QED
    BY <1>1 DEF Dispatch, Effects, Effect, LiveKept, ParkedFrom, graphVars

LEMMA RunInlineEffect ==
    ASSUME AllInv, NEW s \in Rpcs, NEW c \in Calls, RunInline(s, c)
    PROVE  Effects
<1> USE DEF AllInv, Inv
<1>1. BatchShrinks
    BY SettledShrinks DEF RunInline
<1> QED
    BY <1>1
    DEF RunInline, Effects, LiveKept, ParkedFrom, Settles, BatchShrinks, graphVars

LEMMA ReadResultEffect ==
    ASSUME AllInv, NEW s \in Rpcs, NEW c \in Calls, ReadResult(s, c)
    PROVE  Effects
<1> USE DEF AllInv, Inv
<1> DEFINE r == [Idle EXCEPT !.pc = "hooks", !.call = c, !.superseded = (current # s)]
<1>1. r.pc = "hooks" /\ r.job = NoJob
    BY IdleType, IdleFields DEF HandlerType, Pcs
<1>2. h' = [h EXCEPT ![s] = r]
    BY DEF ReadResult
<1> HIDE DEF r
<1>3. h'[s] = r /\ Others(s)
    BY <1>2, Updated
<1>4. Keeps(s)
    BY <1>1, <1>3, IdleFields
    DEF Keeps, NewStream, Waiting, UnbegunPcs, BegunPcs, Reading, ReadResult, graphVars
<1> QED
    BY <1>4 DEF ReadResult, Effects, Effect, LiveKept, ParkedFrom, Settles, graphVars, callVars

LEMMA NoteBatchEffect ==
    ASSUME AllInv, NEW s \in Rpcs, NoteBatch(s)
    PROVE  Effects
<1> USE DEF AllInv, Inv
<1> DEFINE noted == [top |-> batch.top, graph |-> batch.graph, stream |-> s,
                     turn |-> <<h[s].call, "result">>]
           j == IF /\ batch # NoBatch /\ batch.graph = call[h[s].call].owner
                   /\ h[s].call \in batch.calls
                THEN noted ELSE NoJob
           r == [h[s] EXCEPT !.pc = "committing", !.job = j]
<1>1. h[s] \in HandlerType /\ "committing" \in Pcs
    BY DEF TypeOK, Pcs
<1>2. j.stream \in {s, Nobody}
    BY IdleFields
<1>3. h' = [h EXCEPT ![s] = r]
    BY DEF NoteBatch
<1> HIDE DEF j
<1>4. r.pc = "committing" /\ r.job = j
    BY <1>1 DEF HandlerType
<1> HIDE DEF r
<1>5. h'[s] = r /\ Others(s)
    BY <1>3, Updated
<1>6. Keeps(s)
    BY <1>2, <1>4, <1>5
    DEF Keeps, NewStream, Waiting, UnbegunPcs, BegunPcs, Reading, NoteBatch, graphVars
<1> QED
    BY <1>6 DEF NoteBatch, Effects, Effect, LiveKept, ParkedFrom, Settles, graphVars, callVars

LEMMA CommitResultEffect ==
    ASSUME AllInv, NEW s \in Rpcs, CommitResult(s)
    PROVE  Effects
<1> USE DEF AllInv, Inv
<1>1. \/ h' = [h EXCEPT ![s] = Idle]
      \/ h' = [h EXCEPT ![s] = [Idle EXCEPT !.pc = "feedback", !.job = h[s].job]]
    BY DEF CommitResult
<1>2. Keeps(s)
    BY <1>1, KeepsIdle, KeepsIdleWith, RegisteredType DEF CommitResult, graphVars
<1>3. BatchShrinks
    BY SettledShrinks DEF CommitResult, BatchShrinks
<1> QED
    BY <1>2, <1>3
    DEF CommitResult, Effects, Effect, LiveKept, ParkedFrom, Settles, BatchShrinks, graphVars

LEMMA JoinLaneEffect ==
    ASSUME AllInv, NEW s \in Rpcs, JoinLane(s)
    PROVE  Effects
<1> USE DEF AllInv, Inv
<1>1. Keeps(s)
  <2>1. \/ h' = [h EXCEPT ![s] = Idle]
        \/ h' = [h EXCEPT ![s] = [h[s] EXCEPT !.pc = "lane"]]
      BY DEF JoinLane
  <2> QED
      BY <2>1, KeepsIdle, KeepsPc DEF JoinLane, graphVars
<1> QED
    BY <1>1 DEF JoinLane, Effects, Effect, LiveKept, ParkedFrom, Settles, graphVars, callVars

LEMMA DrainEffect ==
    ASSUME AllInv, NEW s \in Rpcs, Drain(s)
    PROVE  Effects
<1> USE DEF AllInv, Inv
<1>1. Keeps(s)
  <2>1. \/ h' = [h EXCEPT ![s] = Idle]
        \/ h' = [h EXCEPT ![s] = [Idle EXCEPT !.pc = "lane", !.job = inline]]
      BY DEF Drain
  <2>2. inline \in JobType /\ UNCHANGED <<installed, top>>
      BY DEF TypeOK, Drain, graphVars
  <2> QED
      BY <2>1, <2>2, KeepsIdle, KeepsIdleWith
<1>2. ParkedFrom
    BY IdleFields DEF Drain, ParkedFrom
<1> QED
    BY <1>1, <1>2 DEF Drain, Effects, Effect, LiveKept, Settles, graphVars, callVars

LEMMA CancelLive ==
    ASSUME NEW ts \in [Turns -> TurnStates], NEW t, NEW why \in Aborted
    PROVE  \A x \in Turns : Cancel(ts, t, why)[x] = "live" => ts[x] = "live"
BY DEF Cancel, Aborted, TurnStates

LEMMA CloseRpcEffect ==
    ASSUME AllInv, NEW s \in Rpcs, CloseRpc(s)
    PROVE  Effects
<1> USE DEF AllInv, Inv
<1>1. LiveKept
  <2>1. turn \in [Turns -> TurnStates] /\ "closed" \in Aborted
      BY DEF TypeOK, Aborted
  <2>2. turn' = turn \/ turn' = Cancel(turn, h[s].turn, "closed")
      BY DEF CloseRpc
  <2> QED
      BY <2>1, <2>2, CancelLive DEF LiveKept
<1> QED
    BY <1>1 DEF CloseRpc, Effects, ParkedFrom, Settles, graphVars, callVars

LEMMA StopEffect ==
    ASSUME AllInv, Stop
    PROVE  Effects
<1> USE DEF AllInv, Inv
<1>1. LiveKept
    BY DEF LiveKept, Stop, Live
<1>2. BatchShrinks
    BY SettledShrinks DEF Stop
<1> QED
    BY <1>1, <1>2 DEF Stop, Effects, ParkedFrom, Settles, BatchShrinks, graphVars

LEMMA EndAbortedEffect ==
    ASSUME AllInv, NEW t \in Turns, EndAborted(t)
    PROVE  Effects
<1> USE DEF AllInv, Inv
<1>1. LiveKept
    BY DEF LiveKept, EndAborted, TypeOK
<1>2. batch' \in {batch, NoBatch} /\ inline' \in {inline, NoJob}
    BY DEF EndAborted, WithoutBatchOf, WithoutInlineOf
<1>3. Settles
    BY <1>2 DEF EndAborted, Settles, callVars
<1>4. ParkedFrom
    BY <1>2, IdleFields DEF ParkedFrom
<1> QED
    BY <1>1, <1>3, <1>4 DEF EndAborted, Effects

LEMMA EndTurnEffect ==
    ASSUME AllInv, NEW s \in Rpcs, EndTurn(s)
    PROVE  Effects
<1> USE DEF AllInv, Inv
<1>1. LiveKept
    BY DEF LiveKept, EndTurn, TypeOK
<1>2. Keeps(s)
  <2>1. CASE h' = [h EXCEPT ![s] = Idle]
      BY <2>1, KeepsIdle DEF EndTurn
  <2>2. CASE h' = [h EXCEPT ![s] = [Idle EXCEPT !.pc = "drain"]]
    <3> DEFINE r == [Idle EXCEPT !.pc = "drain"]
    <3>1. r.pc = "drain" /\ r.job = NoJob
        BY IdleType, IdleFields DEF HandlerType, Pcs
    <3>2. h' = [h EXCEPT ![s] = r]
        BY <2>2
    <3> HIDE DEF r
    <3>3. h'[s] = r /\ Others(s)
        BY <3>2, Updated
    <3> QED
        BY <3>1, <3>3, IdleFields
        DEF Keeps, NewStream, Waiting, UnbegunPcs, BegunPcs, Reading, EndTurn
  <2> QED
      BY <2>1, <2>2 DEF EndTurn
<1> QED
    BY <1>1, <1>2 DEF EndTurn, Effects, Effect, ParkedFrom, Settles, callVars

LEMMA SweepEffect ==
    ASSUME AllInv, NEW s \in Rpcs, Sweep(s)
    PROVE  Effects
<1> USE DEF AllInv, Inv
<1> DEFINE rest == Tail(h[s].stale)
           p == IF rest = <<>> THEN "begin" ELSE h[s].pc
           r == [h[s] EXCEPT !.stale = rest, !.pc = p]
<1>1. h[s] \in HandlerType /\ h[s].pc = "superseding"
    BY DEF TypeOK, Sweep
<1>2. p \in UnbegunPcs
    BY <1>1 DEF UnbegunPcs
<1>3. h' = [h EXCEPT ![s] = r]
    BY DEF Sweep
<1>4. LiveKept
  <2>1. turn \in [Turns -> TurnStates] /\ "superseded" \in Aborted
      BY DEF TypeOK, Aborted
  <2>2. turn' = turn \/ turn' = Cancel(turn, Head(rest), "superseded")
      BY DEF Sweep
  <2> QED
      BY <2>1, <2>2, CancelLive DEF LiveKept
<1> HIDE DEF rest, p
<1>5. r.pc = p /\ r.turn = h[s].turn /\ r.job = h[s].job
    BY <1>1 DEF HandlerType
<1> HIDE DEF r
<1>6. h'[s] = r /\ Others(s)
    BY <1>3, Updated
<1>7. Keeps(s)
    BY <1>1, <1>2, <1>5, <1>6
    DEF Keeps, NewStream, Waiting, UnbegunPcs, BegunPcs, Reading, Sweep, graphVars
<1>8. batch' \in {batch, NoBatch} /\ inline' \in {inline, NoJob}
    BY DEF Sweep, WithoutBatchOf, WithoutInlineOf
<1> QED
    BY <1>4, <1>7, <1>8, IdleFields DEF Sweep, Effects, Effect, ParkedFrom, Settles

LEMMA InstallChatEffect ==
    ASSUME TypeOK, NEW s \in Rpcs, NEW live \in BOOLEAN, InstallChat(s, live),
           active = Nobody, batch = NoBatch, batch' = NoBatch,
           turn[s] = "none" \/ h[s].turn = s,
           current = s => pending' = {}
    PROVE  Interjects(s) /\ ParkedFrom
<1> DEFINE p == IF live THEN "generating" ELSE "ending"
           j == [NoJob EXCEPT !.top = s, !.graph = s, !.stream = s]
           r == [Idle EXCEPT !.pc = p, !.turn = s, !.job = j]
<1>1. p \in {"generating", "ending"}
    OBVIOUS
<1>2. j.stream = s
    BY DEF NoJob
<1>3. h' = [h EXCEPT ![s] = r]
    BY DEF InstallChat
<1> HIDE DEF p, j
<1>4. r.pc = p /\ r.turn = s /\ r.job = j
    BY IdleType DEF HandlerType
<1> HIDE DEF r
<1>5. h'[s] = r /\ Others(s)
    BY <1>3, Updated
<1>6. inline' \in {inline, NoJob} /\ installed' = installed \cup {s} /\ top' = s
    BY DEF InstallChat
<1> QED
    BY <1>1, <1>2, <1>4, <1>5, <1>6, IdleFields DEF Interjects, ParkedFrom

LEMMA SpawnEffect ==
    ASSUME AllInv, NEW s \in Rpcs, h[s].pc \in Waiting, Spawn(s),
           Settles, current' = current, batch = NoBatch => batch' = NoBatch,
           current = s => pending' = {}
    PROVE  Effects
<1> USE DEF AllInv, Inv
<1>1. s \in Turns /\ turn[s] = "none" /\ turn \in [Turns -> TurnStates]
    BY DEF Turns, Spawned, TypeOK
<1>2. CASE s \notin open
  <2>1. Keeps(s)
      BY <1>2, KeepsIdle DEF Spawn, graphVars
  <2> QED
      BY <1>2, <2>1 DEF Spawn, Effects, Effect, LiveKept, ParkedFrom
<1>3. CASE s \in open /\ StaleTurns = <<>>
  <2>1. active = Nobody /\ batch.graph = Nobody
      BY <1>3 DEF StaleTurns
  <2>2. batch = NoBatch
      BY <2>1 DEF BatchInv, TopBegun
  <2>3. InstallChat(s, TRUE) /\ turn' = [turn EXCEPT ![s] = "live"]
      BY <1>3 DEF Spawn
  <2>4. Interjects(s) /\ ParkedFrom
      BY <1>1, <2>1, <2>2, <2>3, InstallChatEffect
  <2>5. LiveKept
      BY <1>1, <2>3 DEF LiveKept
  <2> QED
      BY <2>4, <2>5 DEF Effects, Effect
<1>4. CASE s \in open /\ StaleTurns # <<>>
  <2>1. /\ turn' = Cancel([turn EXCEPT ![s] = "live"], Head(StaleTurns), "superseded")
        /\ h' = [h EXCEPT ![s] = [Idle EXCEPT !.pc = "superseding", !.turn = s,
                                              !.stale = StaleTurns]]
        /\ UNCHANGED <<graphVars, op, inline>>
      BY <1>4 DEF Spawn
  <2> DEFINE r == [Idle EXCEPT !.pc = "superseding", !.turn = s, !.stale = StaleTurns]
  <2>2. r.pc = "superseding" /\ r.turn = s /\ r.job = NoJob
      BY IdleType, IdleFields DEF HandlerType
  <2>3. h' = [h EXCEPT ![s] = r]
      BY <2>1
  <2> HIDE DEF r
  <2>4. h'[s] = r /\ Others(s)
      BY <2>3, Updated
  <2>5. Awaits(s, s)
      BY <1>1, <2>1, <2>2, <2>4, IdleFields DEF Awaits, NewStream, graphVars
  <2>6. LiveKept
    <3> DEFINE ts == [turn EXCEPT ![s] = "live"]
    <3>1. ts \in [Turns -> TurnStates] /\ "superseded" \in Aborted
        BY <1>1 DEF TurnStates, Aborted
    <3>2. \A x \in Turns : ts[x] = "live" => turn[x] \in {"live", "none"}
        BY <1>1
    <3>3. turn' = Cancel(ts, Head(StaleTurns), "superseded")
        BY <2>1
    <3> HIDE DEF ts
    <3> QED
        BY <3>1, <3>2, <3>3, CancelLive DEF LiveKept
  <2> QED
      BY <1>1, <2>1, <2>5, <2>6 DEF Effects, Effect, ParkedFrom
<1> QED
    BY <1>2, <1>3, <1>4

LEMMA StartChatEffect ==
    ASSUME AllInv, NEW s \in Rpcs, StartChat(s) \/ Interrupt(s)
    PROVE  Effects
<1> USE DEF AllInv, Inv
<1>1. CASE StartChat(s) /\ pending = {}
    BY <1>1, SpawnEffect DEF StartChat, Settles, Waiting, callVars
<1>2. CASE StartChat(s) /\ pending # {}
  <2>1. /\ h' = [h EXCEPT ![s] = [h[s] EXCEPT !.pc = "interrupting", !.calls = pending]]
        /\ h[s].pc = "read" /\ pending' = pending /\ UNCHANGED <<installed, top>>
      BY <1>2 DEF StartChat, graphVars, callVars
  <2>2. pending \in SUBSET Calls
      BY DEF TypeOK
  <2>3. Keeps(s)
      BY <2>1, <2>2, KeepsCalls DEF Waiting
  <2> QED
      BY <1>2, <2>3
      DEF StartChat, Effects, Effect, LiveKept, ParkedFrom, Settles, graphVars, callVars
<1>3. CASE Interrupt(s)
  <2>1. BatchShrinks /\ (batch = NoBatch => batch' = NoBatch)
      BY <1>3, SettledShrinks DEF Interrupt
  <2>2. current = s => pending' = {}
      BY <1>3 DEF Interrupt, LoopInv, CallsClosed
  <2>3. Settles
      BY <1>3, <2>1 DEF Interrupt, Settles, BatchShrinks
  <2> QED
      BY <1>3, <2>1, <2>2, <2>3, SpawnEffect DEF Interrupt, Waiting
<1> QED
    BY <1>1, <1>2, <1>3

LEMMA RefuseEffect ==
    ASSUME AllInv, NEW s \in Rpcs, h[s].pc = "begin", Refuse(s), UNCHANGED <<current, callVars>>
    PROVE  Effects
<1> USE DEF AllInv, Inv
<1>1. Keeps(s)
    BY KeepsIdle DEF Refuse, graphVars
<1>2. LiveKept
    BY DEF LiveKept, Refuse, TypeOK
<1> QED
    BY <1>1, <1>2 DEF Refuse, Effects, Effect, ParkedFrom, Settles, callVars

LEMMA BeginChatEffect ==
    ASSUME AllInv, NEW s \in Rpcs, BeginChat(s)
    PROVE  Effects
<1> USE DEF AllInv, Inv
<1>1. h[s].pc = "begin" /\ h[s].turn = s
    BY DEF BeginChat, IsChat, HandlerShape, GoodHandler
<1>2. CASE Refuse(s)
    BY <1>1, <1>2, RefuseEffect DEF BeginChat
<1>3. CASE /\ active = Nobody /\ batch.top \in {Nobody, s}
           /\ InstallChat(s, Live(s)) /\ UNCHANGED <<turn, batch>>
  <2>1. s \notin installed
      BY <1>1 DEF BatchInv, Begun, UnbegunPcs
  <2>2. batch = NoBatch
      BY <1>3, <2>1, ConstantTypes DEF BatchInv, TopBegun
  <2>3. current = s => pending' = {}
      BY <1>1 DEF LoopInv, CallsClosed, UnbegunPcs, BeginChat, callVars
  <2>4. Interjects(s) /\ ParkedFrom
      BY <1>1, <1>3, <2>2, <2>3, InstallChatEffect DEF Live
  <2> QED
      BY <1>3, <2>2, <2>4 DEF BeginChat, Effects, Effect, LiveKept, Settles, callVars
<1> QED
    BY <1>2, <1>3 DEF BeginChat

(* A claim needs a batch, whose calls have all left the pending store. *)
LEMMA ContinueEffect ==
    ASSUME AllInv, NEW s \in Rpcs, NEW r \in HandlerType, NEW t, r.turn = t, Continue(s, r),
           r.job.stream \in {h[s].job.stream, inline.stream},
           pending' = pending, call' = call, turn[t] = "none" \/ h[s].turn = t,
           installed' = installed \cup {t}, top' = top
    PROVE  Resumes(s, t) /\ Settles
<1> USE DEF AllInv, Inv
<1> DEFINE job == r.job
           claimed == /\ top = job.top /\ current = job.stream
                      /\ ~Deferred(job) /\ Claimable(job)
           p == IF claimed THEN "generating" ELSE "ending"
           q == [r EXCEPT !.pc = p]
<1>1. h' = [h EXCEPT ![s] = q] /\ batch' = IF claimed THEN NoBatch ELSE batch
    BY DEF Continue
<1>2. claimed => batch # NoBatch /\ pending = {}
    BY DEF Deferred, Claimable, Matches
<1>3. p \in {"generating", "ending"} /\ (p = "generating" => claimed)
    OBVIOUS
<1> HIDE DEF claimed, p
<1>4. q.pc = p /\ q.turn = t /\ q.job = r.job
    BY DEF HandlerType
<1> HIDE DEF q
<1>5. h'[s] = q /\ Others(s)
    BY <1>1, Updated
<1>6. Resumes(s, t)
    BY <1>1, <1>2, <1>3, <1>4, <1>5 DEF Resumes, NewStream
<1> QED
    BY <1>1, <1>6 DEF Settles

LEMMA BeginContinuationEffect ==
    ASSUME AllInv, NEW s \in Rpcs, BeginContinuation(s)
    PROVE  Effects
<1> USE DEF AllInv, Inv
<1>1. h[s].pc = "begin" /\ h[s] \in HandlerType /\ h[s].turn \in Turns
    BY RegisteredType DEF BeginContinuation, HandlerShape, GoodHandler, TurnPcs, TypeOK
<1>2. CASE Refuse(s)
    BY <1>1, <1>2, RefuseEffect DEF BeginContinuation
<1>3. CASE InstallContinuation(s, h[s]) /\ UNCHANGED turn
  <2>1. /\ Continue(s, h[s]) /\ installed' = installed \cup {h[s].turn}
        /\ UNCHANGED <<top, inline, current, pending, call>>
      BY <1>3 DEF InstallContinuation, BeginContinuation, callVars
  <2>2. Resumes(s, h[s].turn) /\ Settles
      BY <1>1, <2>1, ContinueEffect
  <2> QED
      BY <1>1, <1>3, <2>1, <2>2 DEF Effects, Effect, LiveKept, ParkedFrom
<1> QED
    BY <1>2, <1>3 DEF BeginContinuation

LEMMA EnterLaneEffect ==
    ASSUME AllInv, NEW s \in Rpcs, EnterLane(s)
    PROVE  Effects
<1> USE DEF AllInv, Inv
<1> DEFINE t == h[s].job.turn
           r == [h[s] EXCEPT !.turn = t]
<1>1. h[s] \in HandlerType /\ t \in Continuations /\ turn \in [Turns -> TurnStates]
    BY DEF TypeOK, EnterLane, HandlerShape, GoodHandler
<1>2. t \in Turns /\ t # s
    BY <1>1, ToolBatchAssumption DEF Turns
<1>3. UNCHANGED <<current, pending, call>>
    BY DEF EnterLane, callVars
<1> HIDE DEF t
<1>4. r \in HandlerType /\ r.turn = t /\ r.job = h[s].job
    BY <1>1, <1>2 DEF HandlerType
<1>5. CASE h' = [h EXCEPT ![s] = Idle] /\ UNCHANGED <<turn, graphVars, op, batch, inline>>
  <2>1. Keeps(s)
      BY <1>5, KeepsIdle DEF graphVars
  <2> QED
      BY <1>3, <1>5, <2>1 DEF Effects, Effect, LiveKept, ParkedFrom, Settles
<1>6. CASE /\ turn[t] = "none" /\ turn' = [turn EXCEPT ![t] = "live"]
           /\ InstallContinuation(s, r)
  <2>1. /\ Continue(s, r) /\ installed' = installed \cup {t} /\ UNCHANGED <<top, inline>>
      BY <1>4, <1>6 DEF InstallContinuation
  <2>2. Resumes(s, t) /\ Settles
      BY <1>3, <1>4, <1>6, <2>1, ContinueEffect
  <2>3. LiveKept
      BY <1>1, <1>2, <1>6 DEF LiveKept
  <2> QED
      BY <1>2, <1>3, <2>1, <2>2, <2>3 DEF Effects, Effect, ParkedFrom
<1>7. CASE /\ turn[t] = "none"
           /\ turn' = Cancel([turn EXCEPT ![t] = "live"], active, "superseded")
           /\ h' = [h EXCEPT ![s] = [r EXCEPT !.pc = "superseding", !.stale = <<active>>]]
           /\ UNCHANGED <<graphVars, op, batch, inline>>
  <2> DEFINE q == [h[s] EXCEPT !.turn = t, !.pc = "superseding", !.stale = <<active>>]
  <2>1. q.pc = "superseding" /\ q.turn = t /\ q.job = h[s].job
      BY <1>1 DEF HandlerType
  <2>2. h' = [h EXCEPT ![s] = q]
      BY <1>7
  <2> HIDE DEF q
  <2>3. h'[s] = q /\ Others(s)
      BY <2>2, Updated
  <2>4. Awaits(s, t)
      BY <1>2, <1>7, <2>1, <2>3 DEF Awaits, NewStream, graphVars
  <2>5. LiveKept
    <3> DEFINE ts == [turn EXCEPT ![t] = "live"]
    <3>1. ts \in [Turns -> TurnStates] /\ "superseded" \in Aborted
        BY <1>1, <1>2 DEF TurnStates, Aborted
    <3>2. \A x \in Turns : ts[x] = "live" => turn[x] \in {"live", "none"}
        BY <1>1, <1>2, <1>7
    <3>3. turn' = Cancel(ts, active, "superseded")
        BY <1>7
    <3> HIDE DEF ts
    <3> QED
        BY <3>1, <3>2, <3>3, CancelLive DEF LiveKept
  <2> QED
      BY <1>2, <1>3, <1>7, <2>4, <2>5 DEF Effects, Effect, ParkedFrom, Settles
<1> QED
    BY <1>5, <1>6, <1>7 DEF EnterLane, t

LEMMA EndDispatchEffect ==
    ASSUME AllInv, NEW s \in Rpcs, EndDispatch(s)
    PROVE  Effects
<1> USE DEF AllInv, Inv
<1> DEFINE job == [top |-> h[s].job.top, graph |-> h[s].turn,
                   stream |-> h[s].job.stream, turn |-> <<Trigger(h[s].calls), "inline">>]
           parks == /\ h[s].calls # {} /\ h[s].calls \cap pending = {}
                    /\ s \in open /\ Live(h[s].turn)
                    /\ Matches(job) /\ batch.unsettled = {}
           parked == IF parks THEN job ELSE inline
           r == [h[s] EXCEPT !.job = parked]
<1>1. /\ h[s] \in HandlerType /\ h[s].pc = "inline" /\ h[s].turn \in Turns
      /\ h[s].turn \in installed
    BY RegisteredType
    DEF TypeOK, EndDispatch, HandlerShape, GoodHandler, TurnPcs, BatchInv, Begun, BegunPcs
<1>2. parked.stream \in {h[s].job.stream, inline.stream}
    OBVIOUS
<1>3. parked \in JobType
  <2>1. parks => Trigger(h[s].calls) \in Calls
      BY RegisteredType DEF Trigger
  <2>2. parks => <<Trigger(h[s].calls), "inline">> \in Continuations
      BY <2>1 DEF Continuations
  <2> QED
      BY <2>2, RegisteredType DEF JobType, TypeOK
<1>4. /\ UNCHANGED <<turn, installed, top, current, pending, call>>
      /\ inline' \in {NoJob, parked}
    BY DEF EndDispatch, graphVars, callVars
<1>5. \/ h' = [h EXCEPT ![s] = [h[s] EXCEPT !.pc = "ending"]] /\ UNCHANGED <<batch, op>>
      \/ Continue(s, r)
    BY DEF EndDispatch
<1> HIDE DEF parked
<1>6. r \in HandlerType /\ r.turn = h[s].turn /\ r.job = parked
    BY <1>1, <1>3 DEF HandlerType
<1>7. LiveKept /\ ParkedFrom
    BY <1>2, <1>4, IdleFields DEF LiveKept, ParkedFrom
<1>8. CASE h' = [h EXCEPT ![s] = [h[s] EXCEPT !.pc = "ending"]] /\ UNCHANGED <<batch, op>>
  <2>1. Keeps(s)
      BY <1>1, <1>4, <1>8, KeepsPc DEF BegunPcs
  <2> QED
      BY <1>4, <1>7, <1>8, <2>1 DEF Effects, Effect, Settles
<1>9. CASE Continue(s, r)
  <2>1. Resumes(s, h[s].turn) /\ Settles
      BY <1>1, <1>2, <1>4, <1>6, <1>9, ContinueEffect
  <2> QED
      BY <1>1, <1>4, <1>7, <2>1 DEF Effects, Effect
<1> QED
    BY <1>5, <1>8, <1>9

LEMMA StepEffects ==
    ASSUME AllInv, [Next]_vars
    PROVE  Effects
<1>1. CASE UNCHANGED vars
    BY <1>1 DEF vars, graphVars, callVars, Effects, LiveKept, ParkedFrom, Settles
<1> QED
    BY <1>1, ReadFrameEffect, StartResumeEffect, EndResponseEffect, AskToolsEffect,
       DispatchEffect, RunInlineEffect, ReadResultEffect, NoteBatchEffect, CommitResultEffect,
       JoinLaneEffect, DrainEffect, CloseRpcEffect, StopEffect, EndAbortedEffect,
       EndTurnEffect, SweepEffect, StartChatEffect, BeginChatEffect,
       BeginContinuationEffect, EnterLaneEffect, EndDispatchEffect
    DEF Next, Advance

-----------------------------------------------------------------------------
(* The invariants are kept. *)

LEMMA DispatchFields ==
    ASSUME AllInv, NEW s \in Rpcs, Dispatch(s)
    PROVE  /\ Talks(s) /\ h[s].turn \in Turns /\ active = h[s].turn /\ batch = NoBatch
           /\ h'[s].pc \in {"inline", "ending"}
           /\ batch' = [top |-> top, graph |-> active, stream |-> h[s].job.stream,
                        calls |-> h[s].calls, unsettled |-> h[s].calls]
           /\ batch'.top = top /\ batch'.graph = active
           /\ top # Nobody /\ active # Nobody
           /\ UNCHANGED <<current, turn, installed, top, inline>>
<1> USE DEF AllInv, Inv
<1>1. Talks(s)
    BY DEF Dispatch, Talks, Reading
<1>2. batch = NoBatch
    BY <1>1 DEF BatchInv, NoBatchWhileTalking
<1>3. h[s].turn \in Turns /\ active = h[s].turn
    BY <1>1, TalkersOwn DEF BatchInv
<1>4. /\ h' = [h EXCEPT ![s].pc = "inline", ![s].calls = Registered(s)]
      /\ batch' = [top |-> top, graph |-> active, stream |-> h[s].job.stream,
                   calls |-> h[s].calls, unsettled |-> h[s].calls]
    BY <1>2 DEF Dispatch
<1>5. h'[s].pc = "inline"
    BY <1>4 DEF TypeOK, HandlerType
<1>6. top # Nobody
    BY <1>1 DEF BatchInv, TopBegun, Talks
<1> QED
    BY <1>1, <1>2, <1>3, <1>4, <1>5, <1>6, ConstantTypes DEF Dispatch, graphVars

LEMMA InstalledGrows ==
    ASSUME AllInv, Effects
    PROVE  installed \subseteq installed' /\ (top' = top \/ top' \in installed' \cap Rpcs)
BY DEF Effects, Effect, Keeps, Awaits, Interjects, Resumes

LEMMA BegunKept ==
    ASSUME AllInv, Effects
    PROVE  Begun'
<1> USE DEF AllInv, BatchInv
<1>1. ASSUME NEW x \in Rpcs, h'[x] = h[x], h[x].pc \in BegunPcs PROVE h'[x].turn \in installed'
    BY <1>1, InstalledGrows DEF Begun
<1>2. ASSUME NEW x \in Rpcs, h[x].pc \in UnbegunPcs
      PROVE  /\ h[x].turn \notin installed /\ h[x].turn \in Turns
             /\ turn[h[x].turn] # "none"
    BY <1>2, RegisteredType
    DEF Begun, Inv, Spawned, HandlerShape, GoodHandler, UnbegunPcs, TurnPcs
<1>3. ASSUME NEW s \in Rpcs, Keeps(s) PROVE Begun'
    BY <1>3 DEF Keeps, Others, Begun
<1>4. ASSUME NEW s \in Rpcs, NEW t \in Turns, Awaits(s, t) PROVE Begun'
  <2>1. t \notin installed
      BY <1>4 DEF Awaits, Inv, Spawned
  <2> QED
      BY <1>4, <2>1 DEF Awaits, Others, Begun, BegunPcs, UnbegunPcs
<1>5. ASSUME NEW s \in Rpcs, NEW t \in Turns, Others(s), installed' = installed \cup {t},
             h'[s].pc \in {"generating", "ending"}, h'[s].turn = t,
             turn[t] = "none" \/ h[s].turn = t
      PROVE  Begun'
  <2>1. ASSUME NEW x \in Rpcs \ {s}, h[x].pc \in UnbegunPcs PROVE h[x].turn \notin installed'
      BY <1>2, <1>5, <2>1, Unique, ConstantTypes
  <2> QED
      BY <1>1, <1>5, <2>1 DEF Begun, Others, BegunPcs, UnbegunPcs
<1>6. ASSUME NEW s \in Rpcs, Interjects(s) PROVE Begun'
    BY <1>5, <1>6 DEF Interjects, Turns
<1>7. ASSUME NEW s \in Rpcs, NEW t \in Turns, Resumes(s, t) PROVE Begun'
    BY <1>5, <1>7 DEF Resumes
<1>8. CASE UNCHANGED <<h, installed>>
    BY <1>8 DEF Begun
<1> QED
    BY <1>3, <1>4, <1>6, <1>7, <1>8 DEF Effects, Effect

LEMMA TopBegunKept ==
    ASSUME AllInv, Effects
    PROVE  TopBegun'
<1> USE DEF AllInv, BatchInv
<1>1. installed \subseteq installed' /\ (top' = top \/ top' \in installed' \cap Rpcs)
    BY InstalledGrows
<1>2. top' # Nobody => top' \in installed'
    BY <1>1 DEF TopBegun
<1>3. top # Nobody => top' # Nobody
    BY <1>1, ConstantTypes
<1>4. batch' # NoBatch =>
          /\ batch'.top \in installed' \cap Rpcs /\ batch'.graph # Nobody
          /\ top' # Nobody
  <2>1. CASE Settles
      BY <1>1, <1>3, <2>1 DEF Settles, TopBegun
  <2>2. ASSUME NEW s \in Rpcs, Dispatch(s)
        PROVE  /\ batch'.top \in installed' \cap Rpcs /\ batch'.graph # Nobody
               /\ top' # Nobody
      BY <1>1, <1>3, <2>2, DispatchFields DEF TopBegun, Inv, TypeOK
  <2> QED
      BY <2>1, <2>2 DEF Effects, Effect
<1>5. ASSUME NEW x \in Rpcs, h'[x].pc \in Reading PROVE top' # Nobody
  <2>1. CASE h[x].pc \in Reading
      BY <1>3, <2>1 DEF TopBegun
  <2>2. ASSUME NEW s \in Rpcs, Keeps(s) PROVE h[x].pc \in Reading
      BY <1>5, <2>2 DEF Keeps, Others
  <2>3. ASSUME NEW s \in Rpcs, NEW t \in Turns, Awaits(s, t) PROVE h[x].pc \in Reading
      BY <1>5, <2>3 DEF Awaits, Others, Reading
  <2>4. ASSUME NEW s \in Rpcs, Interjects(s) PROVE top' # Nobody
      BY <2>4, ConstantTypes DEF Interjects
  <2>5. ASSUME NEW s \in Rpcs, NEW t \in Turns, Resumes(s, t)
        PROVE  h[x].pc \in Reading \/ top' # Nobody
      BY <1>3, <1>5, <2>5 DEF Resumes, Others, Reading, TopBegun
  <2> QED
      BY <1>5, <2>1, <2>2, <2>3, <2>4, <2>5 DEF Effects, Effect
<1> QED
    BY <1>2, <1>4, <1>5 DEF TopBegun

(* Who talks after a step talked before, or has just begun to. *)
LEMMA TalkersKept ==
    ASSUME AllInv, Effects, NEW x \in Rpcs, Talks(x)'
    PROVE  \/ Talks(x) /\ h'[x].turn = h[x].turn /\ h'[x].job = h[x].job
           \/ Interjects(x) /\ Settles
           \/ \E t \in Turns : Resumes(x, t) /\ Settles /\ h'[x].pc = "generating"
<1> USE DEF AllInv, Inv
<1>1. h'[x].pc \in Reading /\ turn'[h'[x].turn] = "live"
    BY DEF Talks, Live
<1>2. ASSUME h[x].pc \in Reading PROVE h[x].turn \in Turns /\ turn[h[x].turn] # "none"
    BY <1>2, RegisteredType DEF Spawned, HandlerShape, GoodHandler, Reading, TurnPcs
<1>3. ASSUME h[x].pc \in Reading, h'[x].turn = h[x].turn PROVE Talks(x)
    BY <1>1, <1>2, <1>3 DEF Talks, Live, Effects, LiveKept
<1>4. CASE h'[x] = h[x]
    BY <1>1, <1>3, <1>4
<1>5. ASSUME NEW s \in Rpcs, Keeps(s)
      PROVE  Talks(x) /\ h'[x].turn = h[x].turn /\ h'[x].job = h[x].job
    BY <1>1, <1>3, <1>4, <1>5 DEF Keeps, Others, Reading, BegunPcs
<1>6. ASSUME NEW s \in Rpcs, NEW t \in Turns, Awaits(s, t) PROVE h'[x] = h[x]
    BY <1>1, <1>6 DEF Awaits, Others, Reading
<1>7. ASSUME NEW s \in Rpcs, Interjects(s) PROVE h'[x] = h[x] \/ Interjects(x)
    BY <1>7 DEF Interjects, Others
<1>8. ASSUME NEW s \in Rpcs, NEW t \in Turns, Resumes(s, t), s # x PROVE h'[x] = h[x]
    BY <1>8 DEF Resumes, Others
<1>9. ASSUME NEW t \in Turns, Resumes(x, t) PROVE h'[x].pc = "generating"
    BY <1>1, <1>9 DEF Resumes, Reading
<1> QED
    BY <1>4, <1>5, <1>6, <1>7, <1>8, <1>9 DEF Effects, Effect

LEMMA NoBatchKept ==
    ASSUME AllInv, Effects
    PROVE  NoBatchWhileTalking'
<1> USE DEF AllInv, BatchInv
<1> SUFFICES ASSUME NEW x \in Rpcs, Talks(x)' PROVE batch' = NoBatch
    BY DEF NoBatchWhileTalking
<1>1. CASE \/ Interjects(x)
           \/ \E t \in Turns : Resumes(x, t) /\ h'[x].pc = "generating"
    BY <1>1 DEF Interjects, Resumes
<1>2. CASE Talks(x)
  <2>1. batch = NoBatch
      BY <1>2 DEF NoBatchWhileTalking
  <2>2. CASE Settles
      BY <2>1, <2>2 DEF Settles
  <2>3. ASSUME NEW s \in Rpcs, Dispatch(s) PROVE FALSE
    <3>1. Talks(s) /\ h'[s].pc \in {"inline", "ending"}
        BY <2>3, DispatchFields
    <3>2. x = s
        BY <1>2, <3>1, TalkersOwn
    <3> QED
        BY <3>1, <3>2 DEF Talks, Reading
  <2> QED
      BY <2>2, <2>3 DEF Effects, Effect
<1> QED
    BY <1>1, <1>2, TalkersKept

LEMMA FreshKept ==
    ASSUME AllInv, Effects, NEW x \in Rpcs, Fresh(x)'
    PROVE  Fresh(x)
<1> USE DEF AllInv, Inv
<1>1. CASE h'[x] = h[x]
    BY <1>1 DEF Fresh
<1>2. ASSUME NEW s \in Rpcs, Keeps(s) PROVE Fresh(x)
    BY <1>1, <1>2 DEF Keeps, Others, Fresh
<1>3. ASSUME NEW s \in Rpcs, NEW t \in Turns, Awaits(s, t) PROVE Fresh(x)
    BY <1>1, <1>3 DEF Awaits, Others, Fresh, Waiting
<1>4. ASSUME NEW s \in Rpcs, Others(s), h'[s].pc \in {"generating", "ending"} PROVE Fresh(x)
    BY <1>1, <1>4 DEF Others, Fresh, Waiting, UnbegunPcs
<1> QED
    BY <1>1, <1>2, <1>3, <1>4 DEF Effects, Effect, Interjects, Resumes

LEMMA StreamsKept ==
    ASSUME AllInv, Effects
    PROVE  StreamsBegun'
<1> USE DEF AllInv, LoopInv
<1> SUFFICES ASSUME NEW x \in Rpcs, Fresh(x)'
             PROVE  inline'.stream # x /\ \A r \in Rpcs : h'[r].job.stream # x
    BY DEF StreamsBegun
<1>1. inline.stream # x /\ \A r \in Rpcs : h[r].job.stream # x
    BY FreshKept DEF StreamsBegun
<1>2. x # Nobody
    BY ConstantTypes
<1>3. inline'.stream # x
    BY <1>1, <1>2 DEF Effects, ParkedFrom
<1>4. ASSUME NEW s \in Rpcs, Others(s), NewStream(s), NEW r \in Rpcs
      PROVE  h'[r].job.stream # x
    BY <1>1, <1>2, <1>4 DEF Others, NewStream, Fresh
<1>5. ASSUME NEW s \in Rpcs, Interjects(s), NEW r \in Rpcs PROVE h'[r].job.stream # x
    BY <1>1, <1>5 DEF Interjects, Others, Fresh, Waiting, UnbegunPcs
<1>6. ASSUME NEW r \in Rpcs PROVE h'[r].job.stream # x
    BY <1>1, <1>4, <1>5 DEF Effects, Effect, Keeps, Awaits, Resumes
<1> QED
    BY <1>3, <1>6

(* Dispatch registers fresh calls, all of them or none. *)
LEMMA DispatchCalls ==
    ASSUME AllInv, NEW s \in Rpcs, Dispatch(s)
    PROVE  /\ h[s].calls \in SUBSET Calls /\ Registered(s) \subseteq h[s].calls
           /\ h[s].calls \cap pending = {}
           /\ pending' = pending \cup Registered(s)
           /\ \A c \in h[s].calls :
                 /\ call[c].owner = Nobody /\ call'[c].asked = s
                 /\ call'[c].owner = IF c \in Registered(s) THEN active ELSE Nobody
           /\ \A c \in Calls \ h[s].calls : call'[c] = call[c]
<1> USE DEF AllInv, Inv, LoopInv
<1>1. h[s].calls \in SUBSET Calls /\ Registered(s) \subseteq h[s].calls
    BY RegisteredType
<1>2. \A c \in h[s].calls : call[c].owner = Nobody
    BY <1>1 DEF Dispatch, CallsFresh
<1>3. h[s].calls \cap pending = {}
    BY <1>2 DEF CallsFresh
<1>4. active = h[s].turn
    BY DispatchFields
<1> QED
    BY <1>1, <1>2, <1>3, <1>4 DEF Dispatch

LEMMA CallsFreshKept ==
    ASSUME AllInv, Effects
    PROVE  CallsFresh'
<1> USE DEF AllInv, Inv, LoopInv
<1>1. ASSUME NEW c \in Calls, call'[c].owner # Nobody PROVE call'[c].asked # Nobody
  <2>1. CASE Settles
      BY <1>1, <2>1 DEF Settles, CallsFresh
  <2>2. ASSUME NEW s \in Rpcs, Dispatch(s) PROVE call'[c].asked # Nobody
      BY <1>1, <2>2, DispatchCalls, ConstantTypes DEF CallsFresh
  <2> QED
      BY <2>1, <2>2 DEF Effects, Effect
<1>2. ASSUME NEW c \in pending' PROVE call'[c].owner # Nobody
  <2>1. pending \subseteq Calls
      BY DEF TypeOK
  <2>2. CASE Settles
      BY <1>2, <2>1, <2>2 DEF Settles, CallsFresh
  <2>3. ASSUME NEW s \in Rpcs, Dispatch(s) PROVE call'[c].owner # Nobody
    <3>1. CASE c \in Registered(s)
        BY <2>3, <3>1, DispatchCalls, DispatchFields
    <3>2. CASE c \in pending \ h[s].calls
        BY <2>1, <2>3, <3>2, DispatchCalls DEF CallsFresh
    <3> QED
        BY <1>2, <2>3, <3>1, <3>2, DispatchCalls
  <2> QED
      BY <2>2, <2>3 DEF Effects, Effect
<1>3. ASSUME NEW x \in Rpcs, h'[x].pc = "dispatching"
      PROVE  \/ h'[x] = h[x]
             \/ h'[x].calls \subseteq Unasked /\ Others(x) /\ Settles
  <2>1. ASSUME NEW s \in Rpcs, Keeps(s)
        PROVE  h'[x] = h[x] \/ (h'[x].calls \subseteq Unasked /\ x = s)
    <3>1. h'[s].pc = "dispatching" => h'[s].calls \subseteq Unasked
        BY <2>1 DEF Keeps
    <3>2. x # s => h'[x] = h[x]
        BY <2>1 DEF Keeps, Others
    <3> QED
        BY <1>3, <3>1, <3>2
  <2>2. ASSUME NEW s \in Rpcs, Others(s), h'[s].pc # "dispatching" PROVE h'[x] = h[x]
      BY <1>3, <2>2 DEF Others
  <2>3. ASSUME NEW s \in Rpcs, Dispatch(s) PROVE h'[s].pc # "dispatching"
      BY <2>3, DispatchFields
  <2> QED
      BY <2>1, <2>2, <2>3 DEF Effects, Effect, Keeps, Awaits, Interjects, Resumes
<1>4. ASSUME NEW x \in Rpcs, h'[x].pc = "dispatching", NEW c \in h'[x].calls
      PROVE  call'[c].asked = Nobody
  <2>1. call[c].asked = Nobody /\ c \in Calls
      BY <1>3, <1>4, RegisteredType DEF CallsFresh, Unasked
  <2>2. CASE Settles
      BY <2>1, <2>2 DEF Settles
  <2>3. ASSUME NEW s \in Rpcs, Dispatch(s) PROVE call'[c].asked = Nobody
    <3>1. h'[s].pc # "dispatching" /\ h[s].pc = "dispatching"
        BY <2>3, DispatchFields DEF Dispatch
    <3>2. CASE h'[x] = h[x]
      <4>1. c \notin h[s].calls
          BY <1>4, <3>1, <3>2 DEF CallsFresh
      <4> QED
          BY <2>1, <2>3, <4>1, DispatchCalls
    <3>3. CASE Settles
        BY <2>1, <3>3 DEF Settles
    <3> QED
        BY <1>3, <1>4, <3>2, <3>3
  <2> QED
      BY <2>2, <2>3 DEF Effects, Effect
<1>5. ASSUME NEW x \in Rpcs, h'[x].pc = "dispatching",
             NEW r \in Rpcs \ {x}, h'[r].pc = "dispatching"
      PROVE  h'[r].calls \cap h'[x].calls = {}
  <2>1. CASE h'[x] = h[x] /\ h'[r] = h[r]
      BY <1>5, <2>1 DEF CallsFresh
  <2>2. CASE h'[x].calls \subseteq Unasked /\ Others(x)
      BY <1>5, <2>2 DEF Unasked, Others
  <2>3. CASE h'[r].calls \subseteq Unasked /\ Others(r)
      BY <1>5, <2>3 DEF Unasked, Others
  <2> QED
      BY <1>3, <1>5, <2>1, <2>2, <2>3
<1> QED
    BY <1>1, <1>2, <1>4, <1>5 DEF CallsFresh

LEMMA CallsClosedKept ==
    ASSUME AllInv, Effects
    PROVE  CallsClosed'
<1> USE DEF AllInv, Inv, LoopInv
<1> SUFFICES ASSUME NEW x \in Rpcs, current' = x
             PROVE  /\ h'[x].pc = "interrupting" => pending' \subseteq h'[x].calls
                    /\ h'[x].pc \in UnbegunPcs /\ h'[x].turn = x => pending' = {}
    BY DEF CallsClosed
<1>1. ASSUME current # x
      PROVE  h'[x].pc = "read"
  <2>1. ASSUME NEW s \in Rpcs, Dispatch(s) PROVE FALSE
      BY <1>1, <2>1, DispatchFields
  <2> QED
      BY <1>1, <2>1 DEF Effects, Effect
<1>2. ASSUME current = x, Fresh(x)' PROVE pending' \subseteq pending
  <2>1. CASE Settles
      BY <2>1 DEF Settles
  <2>2. ASSUME NEW s \in Rpcs, Dispatch(s) PROVE pending' \subseteq pending
    <3>1. h[s].job.stream # x
        BY <1>2, FreshKept DEF StreamsBegun
    <3>2. Registered(s) = {}
        BY <1>2, <3>1 DEF Registered
    <3> QED
        BY <2>2, <3>2, DispatchCalls
  <2> QED
      BY <2>1, <2>2 DEF Effects, Effect
<1>3. ASSUME current = x, h'[x] = h[x], Fresh(x)'
      PROVE  /\ h'[x].pc = "interrupting" => pending' \subseteq h'[x].calls
             /\ h'[x].pc \in UnbegunPcs /\ h'[x].turn = x => pending' = {}
    BY <1>2, <1>3 DEF CallsClosed
<1>4. ASSUME current = x, NEW s \in Rpcs, Keeps(s), Fresh(x)'
      PROVE  /\ h'[x].pc = "interrupting" => pending' \subseteq h'[x].calls
             /\ h'[x].pc \in UnbegunPcs /\ h'[x].turn = x => pending' = {}
    BY <1>2, <1>3, <1>4 DEF Keeps, Others, CallsClosed
<1>5. ASSUME current = x, NEW s \in Rpcs, NEW t \in Turns, Awaits(s, t), Fresh(x)'
      PROVE  /\ h'[x].pc = "interrupting" => pending' \subseteq h'[x].calls
             /\ h'[x].pc \in UnbegunPcs /\ h'[x].turn = x => pending' = {}
    BY <1>3, <1>5 DEF Awaits, Others
<1>6. ASSUME current = x, NEW s \in Rpcs, Others(s), h'[s].pc \in {"generating", "ending"},
             Fresh(x)'
      PROVE  /\ h'[x].pc = "interrupting" => pending' \subseteq h'[x].calls
             /\ h'[x].pc \in UnbegunPcs /\ h'[x].turn = x => pending' = {}
    BY <1>3, <1>6 DEF Others, UnbegunPcs
<1>7. CASE Fresh(x)' /\ current = x
    BY <1>3, <1>4, <1>5, <1>6, <1>7 DEF Effects, Effect, Interjects, Resumes
<1>8. CASE ~Fresh(x)'
    BY <1>8 DEF Fresh, Waiting
<1> QED
    BY <1>1, <1>7, <1>8 DEF UnbegunPcs

LEMMA InitAllInv == Init => AllInv
<1> SUFFICES ASSUME Init PROVE AllInv
    OBVIOUS
<1>1. Inv
    BY InitInv
<1>2. \A s \in Rpcs : h[s].pc = "unread" /\ h[s].job = NoJob
    BY DEF Init, Unread, Idle
<1>3. BatchInv
    BY <1>2 DEF Init, BatchInv, Begun, TopBegun, NoBatchWhileTalking, Talks,
                BegunPcs, UnbegunPcs, Reading
<1>4. LoopInv
    BY <1>2, IdleFields, ConstantTypes
    DEF Init, LoopInv, StreamsBegun, CallsFresh, CallsClosed, UnbegunPcs
<1> QED
    BY <1>1, <1>3, <1>4 DEF AllInv

LEMMA StepAllInv == AllInv /\ [Next]_vars => AllInv'
<1> SUFFICES ASSUME AllInv, [Next]_vars PROVE AllInv'
    OBVIOUS
<1>1. Inv'
    BY StepInv DEF AllInv
<1>2. Effects
    BY StepEffects
<1> QED
    BY <1>1, <1>2, BegunKept, TopBegunKept, NoBatchKept, StreamsKept, CallsFreshKept,
       CallsClosedKept
    DEF AllInv, BatchInv, LoopInv

(* A handler talks only in a turn that has begun and while no batch exists,  *)
(* no continuation runs on the stream of a message that has not begun, and   *)
(* every call is registered once, in every behaviour.                        *)
THEOREM AllInvHolds == Spec => []AllInv
BY InitAllInv, StepAllInv, PTL DEF Spec

(* A live turn about to dispatch its tools owns the graph turn, and a batch  *)
(* that still exists is its own: the calls of two turns share no batch, for  *)
(* any number of RPCs, calls and stops.                                      *)
THEOREM DispatchersOwnTheirBatch == Spec => []DispatchOwnsBatch
<1>1. AllInv => DispatchOwnsBatch
  <2> SUFFICES ASSUME AllInv, NEW s \in Rpcs, h[s].pc = "dispatching", Live(h[s].turn)
               PROVE  active = h[s].turn /\ batch = NoBatch
      BY DEF DispatchOwnsBatch
  <2>1. Talks(s)
      BY DEF Talks, Reading
  <2> QED
      BY <2>1, TalkersOwn DEF AllInv, BatchInv, NoBatchWhileTalking
<1> QED
    BY <1>1, AllInvHolds, PTL

-----------------------------------------------------------------------------
(* The conversation is one agent loop. *)

Closed == {c \in Calls : call[c].owner # Nobody /\ c \notin pending}

Spoken(s) == Talks(s) /\ h[s].job.stream = current

LEMMA SpeakingTurns ==
    /\ Speaking = {h[s].turn : s \in {r \in Rpcs : Spoken(r)}}
    /\ Inv => Speaking \subseteq Turns
<1>1. Speaking = {h[s].turn : s \in {r \in Rpcs : Spoken(r)}}
    BY DEF Speaking, Spoken, Talks, Reading
<1>2. ASSUME Inv, NEW s \in Rpcs, Spoken(s) PROVE h[s].turn \in Turns
    BY <1>2, RegisteredType DEF Inv, HandlerShape, GoodHandler, Spoken, Talks, Reading, TurnPcs
<1> QED
    BY <1>1, <1>2

(* Nobody but the handlers that spoke before speaks after the step. *)
LEMMA CloseStep ==
    ASSUME AllInv, pending' \subseteq pending,
           \A c \in Calls : call'[c].owner = call[c].owner,
           \A x \in Rpcs : Spoken(x)' => Spoken(x) /\ h'[x].turn = h[x].turn
    PROVE  Loop!Next
<1> DEFINE C == pending \ pending'
           S == Speaking \ Speaking'
<1>1. Speaking' \subseteq Speaking /\ S \in SUBSET Turns
  <2>1. Speaking' = {h'[s].turn : s \in {r \in Rpcs : Spoken(r)'}}
      BY DEF Speaking, Spoken, Talks, Reading
  <2> QED
      BY <2>1, SpeakingTurns DEF AllInv
<1>2. pending' \subseteq pending /\ C \in SUBSET Calls
    BY DEF AllInv, Inv, TypeOK
<1>3. Closed' = Closed \cup C
    BY <1>2 DEF Closed, AllInv, LoopInv, CallsFresh, Inv, TypeOK
<1>4. Loop!Close(C, S)
    BY <1>1, <1>2, <1>3 DEF Loop!Close, Closed
<1>5. C \in SUBSET Calls /\ S \in SUBSET Turns
    BY <1>1, <1>2
<1> HIDE DEF C, S
<1>6. \E D \in SUBSET Calls, T \in SUBSET Turns : Loop!Close(D, T)
    BY <1>4, <1>5, Zenon DEF Loop!Close
<1> QED
    BY <1>6 DEF Loop!Next

LEMMA OthersTalk ==
    ASSUME AllInv, LiveKept, NEW x \in Rpcs, h'[x] = h[x], Talks(x)'
    PROVE  Talks(x)
<1>1. h[x].turn \in Turns /\ turn[h[x].turn] # "none"
    BY RegisteredType
    DEF AllInv, Inv, Spawned, HandlerShape, GoodHandler, Talks, Reading, TurnPcs
<1> QED
    BY <1>1 DEF Talks, Live, LiveKept

(* Only the handler of the step speaks after a step that nobody else makes. *)
LEMMA OnlySpeaker ==
    ASSUME AllInv, LiveKept, NEW s \in Rpcs, Others(s), \A x \in Rpcs \ {s} : ~Talks(x)
    PROVE  Speaking' = IF Spoken(s)' THEN {h'[s].turn} ELSE {}
<1>1. Speaking' = {h'[x].turn : x \in {r \in Rpcs : Spoken(r)'}}
    BY DEF Speaking, Spoken, Talks, Reading
<1>2. ASSUME NEW x \in Rpcs \ {s}, Spoken(x)' PROVE FALSE
    BY <1>2, OthersTalk DEF Others, Spoken
<1> QED
    BY <1>1, <1>2

LEMMA Silent ==
    ASSUME AllInv, active = Nobody \/ batch # NoBatch
    PROVE  Speaking = {} /\ \A x \in Rpcs : ~Talks(x)
<1>1. ASSUME NEW x \in Rpcs, Talks(x) PROVE FALSE
    BY <1>1, TalkersOwn, ConstantTypes DEF AllInv, BatchInv, NoBatchWhileTalking
<1> QED
    BY <1>1, SpeakingTurns DEF Spoken

LEMMA InterjectStep ==
    ASSUME AllInv, LiveKept, NEW s \in Rpcs, Interjects(s), Settles, Spoken(s)',
           current' = current
    PROVE  Loop!Next
<1>1. Speaking = {} /\ \A x \in Rpcs : ~Talks(x)
    BY Silent DEF Interjects
<1>2. Speaking' = {s}
    BY <1>1, OnlySpeaker DEF Interjects
<1>3. pending' = {}
    BY DEF Interjects, Spoken
<1>4. Closed' = Closed \cup pending
    BY <1>3 DEF Closed, Settles, AllInv, LoopInv, CallsFresh, Inv, TypeOK
<1>5. Loop!Interject(s)
    BY <1>1, <1>2, <1>3, <1>4 DEF Loop!Interject, Closed
<1> QED
    BY <1>5 DEF Loop!Next

LEMMA SpeakStep ==
    ASSUME AllInv, LiveKept, NEW s \in Rpcs, NEW t \in Turns, Resumes(s, t), Settles,
           h'[s].pc = "generating", Spoken(s)'
    PROVE  Loop!Next
<1>1. Speaking = {} /\ pending = {} /\ \A x \in Rpcs : ~Talks(x)
    BY Silent DEF Resumes
<1>2. Speaking' = {t}
    BY <1>1, OnlySpeaker DEF Resumes
<1>3. pending' = pending /\ Closed' = Closed
    BY <1>1 DEF Closed, Settles
<1>4. Loop!Speak(t)
    BY <1>1, <1>2, <1>3 DEF Loop!Speak, Closed
<1> QED
    BY <1>4 DEF Loop!Next

LEMMA AskStep ==
    ASSUME AllInv, LiveKept, NEW s \in Rpcs, Dispatch(s), Keeps(s)
    PROVE  Loop!Next
<1> DEFINE C == h[s].calls
<1>1. /\ Talks(s) /\ current' = current /\ h'[s].pc \in {"inline", "ending"}
      /\ active # Nobody
    BY DispatchFields
<1>2. ~Spoken(s)'
    BY <1>1 DEF Spoken, Talks, Reading
<1>3. \A x \in Rpcs \ {s} : ~Talks(x)
    BY <1>1, TalkersOwn DEF AllInv, BatchInv
<1>4. Speaking' = {}
    BY <1>2, <1>3, OnlySpeaker DEF Keeps
<1>5. CASE current = h[s].job.stream
  <2>1. Registered(s) = C
      BY <1>5 DEF Registered
  <2>2. Speaking # {}
      BY <1>1, <1>5, SpeakingTurns DEF Spoken
  <2>3. C \in SUBSET Calls /\ C \cap (pending \cup Closed) = {} /\ pending' = pending \cup C
      BY <2>1, DispatchCalls DEF Closed
  <2>4. Closed' = Closed
      BY <1>1, <2>1, <2>3, DispatchCalls DEF Closed
  <2>5. Loop!Ask(C)
      BY <1>4, <2>2, <2>3, <2>4 DEF Loop!Ask, Closed
  <2> HIDE DEF C
  <2> QED
      BY <2>3, <2>5 DEF Loop!Next
<1>6. CASE current # h[s].job.stream
  <2>1. Registered(s) = {}
      BY <1>6 DEF Registered
  <2>2. pending' = pending /\ \A c \in Calls : call'[c].owner = call[c].owner
    <3>1. \A c \in C : call'[c].owner = call[c].owner
        BY <2>1, DispatchCalls
    <3>2. \A c \in Calls \ C : call'[c].owner = call[c].owner
        BY DispatchCalls
    <3>3. pending' = pending
      <4>1. pending' = pending \cup {}
          BY <2>1, DispatchCalls
      <4> QED
          BY <4>1
    <3> HIDE DEF C
    <3> QED
        BY <3>1, <3>2, <3>3
  <2>3. \A x \in Rpcs : ~Spoken(x)'
      BY <1>2, <1>3, OthersTalk DEF Keeps, Others, Spoken
  <2> QED
      BY <2>2, <2>3, CloseStep
<1> QED
    BY <1>5, <1>6

LEMMA StepImplements ==
    ASSUME AllInv, [Next]_vars
    PROVE  Loop!Next
<1>1. Effects /\ LiveKept
    BY StepEffects DEF Effects
<1>2. ASSUME current' # current
      PROVE  current' \in Rpcs /\ Fresh(current') /\ h'[current'].pc = "read" /\ Settles
  <2>1. ASSUME NEW s \in Rpcs, Dispatch(s) PROVE FALSE
      BY <1>2, <2>1, DispatchFields
  <2> QED
      BY <1>1, <1>2, <2>1 DEF Effects, Effect, Fresh, Waiting
<1>3. ASSUME NEW s \in Rpcs, Dispatch(s), Keeps(s) PROVE Loop!Next
    BY <1>1, <1>3, AskStep
<1>4. ASSUME NEW x \in Rpcs, Spoken(x)', ~(Spoken(x) /\ h'[x].turn = h[x].turn)
      PROVE  Loop!Next
  <2>1. Talks(x)' /\ h'[x].job.stream = current'
      BY <1>4 DEF Spoken
  <2>2. ASSUME Talks(x), h'[x].turn = h[x].turn, h'[x].job = h[x].job PROVE FALSE
    <3>1. current' # current
        BY <1>4, <2>1, <2>2 DEF Spoken
    <3>2. h[x].job.stream # current'
        BY <1>2, <3>1 DEF AllInv, LoopInv, StreamsBegun
    <3> QED
        BY <2>1, <2>2, <3>2
  <2>3. CASE Interjects(x) /\ Settles
    <3>1. current' = x
        BY <2>1, <2>3 DEF Interjects
    <3>2. current' = current
        BY <1>2, <2>1, <3>1 DEF Talks, Reading
    <3> QED
        BY <1>1, <1>4, <2>3, <3>2, InterjectStep
  <2>4. ASSUME NEW t \in Turns, Resumes(x, t), Settles, h'[x].pc = "generating"
        PROVE  Loop!Next
      BY <1>1, <1>4, <2>4, SpeakStep
  <2> QED
      BY <1>1, <2>1, <2>2, <2>3, <2>4, TalkersKept
<1>5. ASSUME Settles, \A x \in Rpcs : Spoken(x)' => Spoken(x) /\ h'[x].turn = h[x].turn
      PROVE  Loop!Next
    BY <1>5, CloseStep DEF Settles
<1>6. Settles \/ \E s \in Rpcs : Dispatch(s) /\ Keeps(s)
    BY <1>1 DEF Effects, Effect
<1> QED
    BY <1>3, <1>4, <1>5, <1>6

(* Whatever the attachments do, the turns, batches and continuations of the  *)
(* conversation are one agent loop: one turn speaks at a time, only when     *)
(* every call before it is closed, and no call is opened twice.              *)
THEOREM ConversationIsALoop == Spec => ImplementsLoop
<1>1. Init => Loop!Init
  <2>1. ASSUME Init PROVE Speaking = {}
      BY <2>1 DEF Init, Speaking, Unread
  <2> QED
      BY <2>1 DEF Init, Loop!Init
<1>2. AllInv /\ [Next]_vars => [Loop!Next]_Loop!vars
    BY StepImplements
<1> QED
    BY <1>1, <1>2, AllInvHolds, PTL DEF Spec, ImplementsLoop, Loop!Spec
=============================================================================
