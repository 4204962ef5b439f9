--------------------------- MODULE ToolBatchProofs ---------------------------
(***************************************************************************)
(* Theorems of ToolBatch, for any sets of RPCs and calls.  Each action is  *)
(* first reduced to what it does to the turns, to the graph turn, to the   *)
(* lane and to one handler; the invariant is proved about those effects.   *)
(***************************************************************************)
EXTENDS ToolBatch, TLAPS

(* The steps of a handler that is in a turn, and those before it has one. *)
TurnPcs == {"superseding", "begin", "generating", "dispatching", "inline", "ending"}
Waiting == {"unread", "read", "interrupting"}

(* What a handler carries at each of its steps. *)
GoodHandler(s, r) ==
    /\ r \in HandlerType
    /\ r.turn = Nobody <=> r.pc \notin TurnPcs
    /\ r.turn \in Rpcs => r.turn = s
    /\ r.pc = "superseding" => r.stale # <<>>
    /\ r.pc \in {"feedback", "lane"} => r.job.turn \in Continuations
    /\ r.pc = "committing" /\ r.job # NoJob => r.job.turn \in Continuations

HandlerShape == \A s \in Rpcs : GoodHandler(s, h[s])

LEMMA ConstantTypes ==
    /\ NoJob \in JobType /\ NoBatch \in BatchType
    /\ Aborted \subseteq TurnStates
    /\ Nobody \notin Turns /\ Nobody \notin Rpcs /\ Nobody \notin Continuations
<1>1. NoJob \in JobType
    BY DEF NoJob, JobType
<1>2. NoBatch \in BatchType
    BY DEF NoBatch, BatchType
<1>3. Aborted \subseteq TurnStates
    BY DEF Aborted, TurnStates
<1> QED
    BY <1>1, <1>2, <1>3, ToolBatchAssumption DEF Turns

LEMMA IdleType == Idle \in HandlerType /\ Idle.pc = "idle" /\ Idle.turn = Nobody
<1>1. << >> \in Seq(Turns)
    OBVIOUS
<1> QED
    BY <1>1, ConstantTypes DEF Idle, HandlerType, Pcs

LEMMA UnreadType == Unread \in HandlerType /\ Unread.pc = "unread" /\ Unread.turn = Nobody
<1>1. << >> \in Seq(Turns)
    OBVIOUS
<1> QED
    BY <1>1, ConstantTypes DEF Unread, Idle, HandlerType, Pcs

LEMMA PcUpdate ==
    ASSUME NEW r \in HandlerType, NEW p \in Pcs
    PROVE  LET q == [r EXCEPT !.pc = p]
           IN  /\ q \in HandlerType /\ q.pc = p /\ q.turn = r.turn /\ q.job = r.job
               /\ q.stale = r.stale /\ q.call = r.call /\ q.calls = r.calls
BY DEF HandlerType

(* Handler s goes on, in the same turn or in none; the others stand still. *)
Quiet(s) ==
    /\ h' \in [Rpcs -> HandlerType]
    /\ GoodHandler(s, h'[s])
    /\ \A x \in Rpcs \ {s} : h'[x] = h[x]
    /\ h'[s].turn \in {h[s].turn, Nobody}
    /\ h'[s].pc \in Waiting => h[s].pc \in Waiting

LEMMA QuietUpdate ==
    ASSUME TypeOK, NEW s \in Rpcs, NEW r, GoodHandler(s, r),
           h' = [h EXCEPT ![s] = r],
           r.turn \in {h[s].turn, Nobody}, r.pc \in Waiting => h[s].pc \in Waiting
    PROVE  Quiet(s)
BY DEF TypeOK, GoodHandler, Quiet

LEMMA QuietIdle ==
    ASSUME TypeOK, NEW s \in Rpcs, h' = [h EXCEPT ![s] = Idle]
    PROVE  Quiet(s)
<1>1. GoodHandler(s, Idle)
    BY IdleType, ConstantTypes DEF GoodHandler, TurnPcs
<1> QED
    BY <1>1, IdleType, QuietUpdate DEF Waiting

LEMMA QuietIdleWith ==
    ASSUME TypeOK, NEW s \in Rpcs, NEW j \in JobType, NEW p \in {"feedback", "lane"},
           j.turn \in Continuations,
           h' = [h EXCEPT ![s] = [Idle EXCEPT !.pc = p, !.job = j]]
    PROVE  Quiet(s)
<1> DEFINE r == [Idle EXCEPT !.pc = p, !.job = j]
<1>1. /\ r \in HandlerType /\ r.pc = p /\ r.turn = Nobody /\ r.job = j
    BY IdleType DEF HandlerType, Pcs
<1> HIDE DEF r
<1>2. GoodHandler(s, r)
    BY <1>1, ConstantTypes DEF GoodHandler, TurnPcs
<1>3. h' = [h EXCEPT ![s] = r]
    BY DEF r
<1> QED
    BY <1>1, <1>2, <1>3, QuietUpdate DEF Waiting

LEMMA QuietPc ==
    ASSUME TypeOK, HandlerShape, NEW s \in Rpcs,
           NEW p \in Pcs \ {"superseding", "committing"},
           h' = [h EXCEPT ![s] = [h[s] EXCEPT !.pc = p]],
           p \in TurnPcs <=> h[s].pc \in TurnPcs,
           p \in Waiting => h[s].pc \in Waiting,
           p \in {"feedback", "lane"} => h[s].job.turn \in Continuations
    PROVE  Quiet(s)
<1> DEFINE r == [h[s] EXCEPT !.pc = p]
<1>1. h[s] \in HandlerType
    BY DEF TypeOK
<1>2. /\ r \in HandlerType /\ r.pc = p /\ r.turn = h[s].turn /\ r.job = h[s].job
      /\ r.stale = h[s].stale
    BY <1>1, PcUpdate
<1> HIDE DEF r
<1>3. GoodHandler(s, r)
    BY <1>1, <1>2 DEF HandlerShape, GoodHandler
<1>4. h' = [h EXCEPT ![s] = r]
    BY DEF r
<1> QED
    BY <1>2, <1>3, <1>4, QuietUpdate

LEMMA QuietCalls ==
    ASSUME TypeOK, HandlerShape, NEW s \in Rpcs, NEW C \in SUBSET Calls,
           NEW p \in {"interrupting", "dispatching", "inline"},
           h' = [h EXCEPT ![s] = [h[s] EXCEPT !.pc = p, !.calls = C]],
           p \in TurnPcs <=> h[s].pc \in TurnPcs,
           p \in Waiting => h[s].pc \in Waiting
    PROVE  Quiet(s)
<1> DEFINE r == [h[s] EXCEPT !.pc = p, !.calls = C]
<1>1. h[s] \in HandlerType /\ p \in Pcs
    BY DEF TypeOK, Pcs
<1>2. /\ r \in HandlerType /\ r.pc = p /\ r.turn = h[s].turn /\ r.job = h[s].job
      /\ r.stale = h[s].stale
    BY <1>1 DEF HandlerType
<1> HIDE DEF r
<1>3. GoodHandler(s, r)
    BY <1>1, <1>2 DEF HandlerShape, GoodHandler
<1>4. h' = [h EXCEPT ![s] = r]
    BY DEF r
<1> QED
    BY <1>2, <1>3, <1>4, QuietUpdate

(* The types of the variables other than h. *)
RestOK ==
    /\ open \subseteq Rpcs /\ current \in Rpcs \cup {Nobody}
    /\ turn \in [Turns -> TurnStates]
    /\ installed \subseteq Turns /\ active \in Turns \cup {Nobody}
    /\ top \in Rpcs \cup {Nobody} /\ op \in Rpcs \cup {Nobody}
    /\ batch \in BatchType /\ inline \in JobType
    /\ pending \subseteq Calls /\ answered \subseteq Calls
    /\ call \in [Calls -> CallType]
    /\ lane \in Seq(Rpcs)
    /\ stops \in 0..MaxStops

LEMMA RestTypes == TypeOK <=> RestOK /\ h \in [Rpcs -> HandlerType]
BY DEF TypeOK, RestOK

LEMMA BatchFields ==
    ASSUME NEW b \in BatchType
    PROVE  /\ b.top \in Rpcs \cup {Nobody} /\ b.graph \in Turns \cup {Nobody}
           /\ b.stream \in Rpcs \cup {Nobody} /\ b.calls \in SUBSET Calls
           /\ b.unsettled \in SUBSET Calls
BY DEF BatchType

LEMMA SettledType ==
    ASSUME NEW b \in BatchType, NEW C
    PROVE  Settled(b, C) \in BatchType
<1> DEFINE D == {c \in C \cap pending : call[c].owner = b.graph}
<1>1. Settled(b, C) = [b EXCEPT !.unsettled = b.unsettled \ D]
    BY DEF Settled
<1>2. ASSUME NEW U \in SUBSET Calls PROVE [b EXCEPT !.unsettled = U] \in BatchType
    BY DEF BatchType
<1>3. b.unsettled \ D \in SUBSET Calls
    BY BatchFields
<1> HIDE DEF D
<1> QED
    BY <1>1, <1>2, <1>3

LEMMA CancelType ==
    ASSUME NEW ts \in [Turns -> TurnStates], NEW t, NEW why \in Aborted
    PROVE  /\ Cancel(ts, t, why) \in [Turns -> TurnStates]
           /\ \A x \in Turns : /\ Cancel(ts, t, why)[x] = "none" <=> ts[x] = "none"
                               /\ Cancel(ts, t, why)[x] = "over" <=> ts[x] = "over"
BY ConstantTypes DEF Cancel, TurnStates, Aborted

LEMMA OthersTypes ==
    ASSUME RestOK, NEW t
    PROVE  /\ WithoutBatchOf(t) \in BatchType
           /\ WithoutInlineOf(t) \in JobType
           /\ OpEnded(t) \in Rpcs \cup {Nobody}
           /\ GraphReleased(t) \in Turns \cup {Nobody}
BY ConstantTypes DEF RestOK, WithoutBatchOf, WithoutInlineOf, OpEnded, GraphReleased

LEMMA StaleTurnsType ==
    ASSUME RestOK
    PROVE  /\ StaleTurns \in Seq(Turns)
           /\ StaleTurns = <<>> => active = Nobody
<1>1. batch.graph \in Turns \cup {Nobody}
    BY BatchFields DEF RestOK
<1> QED
    BY <1>1 DEF RestOK, StaleTurns

-----------------------------------------------------------------------------
(* Steps that neither begin nor end a turn. *)

(* What the ownership of turns depends on, besides the handlers. *)
Untouched == UNCHANGED <<turn, installed, active>>

LEMMA ReadFrameStep ==
    ASSUME TypeOK, HandlerShape, NEW s \in Rpcs, ReadFrame(s)
    PROVE  Quiet(s) /\ RestOK' /\ Untouched /\ lane' = lane /\ inline' = inline
<1>1. h' = [h EXCEPT ![s] = [h[s] EXCEPT !.pc = "read"]] /\ h[s].pc = "unread"
    BY DEF ReadFrame
<1>2. "read" \in Pcs \ {"superseding", "committing"}
    BY DEF Pcs
<1>3. Quiet(s)
    BY <1>1, <1>2, QuietPc DEF TurnPcs, Waiting
<1> QED
    BY <1>3, RestTypes DEF ReadFrame, RestOK, Untouched, graphVars, callVars

LEMMA StartResumeStep ==
    ASSUME TypeOK, HandlerShape, NEW s \in Rpcs, StartResume(s)
    PROVE  Quiet(s) /\ RestOK' /\ Untouched /\ lane' = lane /\ inline' = inline
<1>1. Quiet(s)
    BY QuietIdle DEF StartResume
<1>2. call' \in [Calls -> CallType]
  <2>1. ASSUME NEW c \in Calls PROVE [call[c] EXCEPT !.stream = current] \in CallType
      BY RestTypes DEF RestOK, CallType
  <2>2. CASE call' = call
      BY <2>2, RestTypes DEF RestOK
  <2>3. CASE call' = [c \in Calls |-> IF c \in pending
                                       THEN [call[c] EXCEPT !.stream = current]
                                       ELSE call[c]]
      BY <2>1, <2>3, RestTypes DEF RestOK
  <2> QED
      BY <2>2, <2>3 DEF StartResume
<1> QED
    BY <1>1, <1>2, RestTypes DEF StartResume, RestOK, Untouched, graphVars

LEMMA EndResponseStep ==
    ASSUME TypeOK, HandlerShape, NEW s \in Rpcs, EndResponse(s) \/ FailDispatch(s)
    PROVE  Quiet(s) /\ RestOK' /\ Untouched /\ lane' = lane /\ inline' = inline
<1>1. /\ h' = [h EXCEPT ![s] = [h[s] EXCEPT !.pc = "ending"]]
      /\ h[s].pc \in {"generating", "dispatching", "inline"}
    BY DEF EndResponse, FailDispatch
<1>2. "ending" \in Pcs \ {"superseding", "committing"}
    BY DEF Pcs
<1>3. Quiet(s)
    BY <1>1, <1>2, QuietPc DEF TurnPcs, Waiting
<1>4. op' \in Rpcs \cup {Nobody}
    BY RestTypes, OthersTypes DEF EndResponse, FailDispatch
<1> QED
    BY <1>3, <1>4, RestTypes DEF EndResponse, FailDispatch, RestOK, Untouched, graphVars, callVars

LEMMA AskToolsStep ==
    ASSUME TypeOK, HandlerShape, NEW s \in Rpcs, NEW C \in SUBSET Calls, AskTools(s, C)
    PROVE  Quiet(s) /\ RestOK' /\ Untouched /\ lane' = lane /\ inline' = inline
<1>1. /\ h' = [h EXCEPT ![s] = [h[s] EXCEPT !.pc = "dispatching", !.calls = C]]
      /\ h[s].pc = "generating"
    BY DEF AskTools
<1>2. Quiet(s)
    BY <1>1, QuietCalls DEF TurnPcs, Waiting
<1> QED
    BY <1>2, RestTypes DEF AskTools, RestOK, Untouched, graphVars, callVars

LEMMA RegisteredType ==
    ASSUME TypeOK, NEW s \in Rpcs
    PROVE  h[s].calls \in SUBSET Calls /\ Registered(s) \subseteq h[s].calls
           /\ h[s].job \in JobType /\ h[s].turn \in Turns \cup {Nobody}
           /\ h[s].call \in Calls \cup {Nobody} /\ h[s].stale \in Seq(Turns)
<1>1. h[s] \in HandlerType
    BY DEF TypeOK
<1> QED
    BY <1>1 DEF HandlerType, Registered

LEMMA DispatchStep ==
    ASSUME TypeOK, HandlerShape, NEW s \in Rpcs, Dispatch(s)
    PROVE  Quiet(s) /\ RestOK' /\ Untouched /\ lane' = lane /\ inline' = inline
<1>1. Quiet(s)
  <2>1. CASE h' = [h EXCEPT ![s].pc = "ending"]
    <3>1. "ending" \in Pcs \ {"superseding", "committing"}
        BY DEF Pcs
    <3>2. h' = [h EXCEPT ![s] = [h[s] EXCEPT !.pc = "ending"]]
        BY <2>1
    <3> QED
        BY <3>1, <3>2, QuietPc DEF TurnPcs, Waiting, Dispatch
  <2>2. CASE h' = [h EXCEPT ![s].pc = "inline", ![s].calls = Registered(s)]
    <3>1. h' = [h EXCEPT ![s] = [h[s] EXCEPT !.pc = "inline", !.calls = Registered(s)]]
        BY <2>2
    <3>2. Registered(s) \in SUBSET Calls
        BY RegisteredType
    <3> QED
        BY <3>1, <3>2, QuietCalls DEF TurnPcs, Waiting, Dispatch
  <2> QED
      BY <2>1, <2>2 DEF Dispatch
<1>2. call' \in [Calls -> CallType]
  <2>1. ASSUME NEW c \in Calls, NEW t \in Turns \cup {Nobody}
        PROVE [owner |-> t, asked |-> s, stream |-> current] \in CallType
      BY RestTypes DEF RestOK, CallType
  <2> QED
      BY <2>1, RegisteredType, RestTypes DEF RestOK, Dispatch
<1>3. batch' \in BatchType
  <2>1. top \in Rpcs \cup {Nobody} /\ active \in Turns \cup {Nobody}
        /\ h[s].job.stream \in Rpcs \cup {Nobody} /\ h[s].calls \in SUBSET Calls
        /\ batch \in BatchType
      BY RestTypes, RegisteredType DEF RestOK, JobType
  <2>2. [top |-> top, graph |-> active, stream |-> h[s].job.stream,
         calls |-> h[s].calls, unsettled |-> h[s].calls] \in BatchType
      BY <2>1 DEF BatchType
  <2>3. [batch EXCEPT !.calls = @ \cup h[s].calls, !.unsettled = @ \cup h[s].calls] \in BatchType
      BY <2>1 DEF BatchType
  <2> QED
      BY <2>1, <2>2, <2>3 DEF Dispatch
<1>4. pending' \subseteq Calls
    BY RegisteredType, RestTypes DEF RestOK, Dispatch
<1> QED
    BY <1>1, <1>2, <1>3, <1>4, RestTypes DEF Dispatch, RestOK, Untouched, graphVars

LEMMA ContinueStep ==
    ASSUME TypeOK, HandlerShape, NEW s \in Rpcs, NEW r, Continue(s, r)
    PROVE  /\ batch' \in BatchType /\ op' \in Rpcs \cup {Nobody}
           /\ \E p \in {"generating", "ending"} : h' = [h EXCEPT ![s] = [r EXCEPT !.pc = p]]
<1>1. batch' \in BatchType /\ op' \in Rpcs \cup {Nobody}
    BY ConstantTypes, RestTypes, OthersTypes DEF Continue, RestOK
<1> QED
    BY <1>1 DEF Continue

(* A parked continuation names the turn that will take it. *)
ParkedShape == inline # NoJob => inline.turn \in Continuations

LEMMA EndDispatchStep ==
    ASSUME TypeOK, HandlerShape, ParkedShape, NEW s \in Rpcs, EndDispatch(s)
    PROVE  Quiet(s) /\ RestOK' /\ Untouched /\ lane' = lane /\ ParkedShape'
<1> DEFINE job == [top |-> h[s].job.top, graph |-> h[s].turn,
                   stream |-> h[s].job.stream, turn |-> <<Trigger(h[s].calls), "inline">>]
           parks == /\ h[s].calls # {} /\ h[s].calls \cap pending = {}
                    /\ s \in open /\ Live(h[s].turn)
                    /\ Matches(job) /\ batch.unsettled = {}
           parked == IF parks THEN job ELSE inline
           r == [h[s] EXCEPT !.job = parked]
<1>1. h[s] \in HandlerType /\ h[s].pc = "inline"
    BY DEF TypeOK, EndDispatch
<1>2. parks => job \in JobType /\ job.turn \in Continuations
  <2>1. SUFFICES ASSUME h[s].calls # {}
                 PROVE  job \in JobType /\ job.turn \in Continuations
      OBVIOUS
  <2>2. Trigger(h[s].calls) \in Calls
      BY <2>1, RegisteredType DEF Trigger
  <2>3. <<Trigger(h[s].calls), "inline">> \in Continuations
      BY <2>2 DEF Continuations
  <2> QED
      BY <2>3, RegisteredType DEF JobType
<1>3. parked \in JobType /\ (parked # NoJob => parked.turn \in Continuations)
    BY <1>2, RestTypes DEF RestOK, ParkedShape
<1>4. inline' \in {NoJob, parked}
    BY DEF EndDispatch
<1>5. inline' \in JobType /\ ParkedShape'
    BY <1>3, <1>4, ConstantTypes DEF ParkedShape
<1>6. \/ h' = [h EXCEPT ![s].pc = "ending"] /\ UNCHANGED <<batch, op>>
      \/ Continue(s, r)
    BY DEF EndDispatch
<1>7. Untouched /\ lane' = lane /\ UNCHANGED <<open, current, top, callVars, stops>>
    BY DEF EndDispatch, Untouched, graphVars
<1> HIDE DEF parked
<1>8. batch' \in BatchType /\ op' \in Rpcs \cup {Nobody}
    BY <1>6, ContinueStep, RestTypes DEF RestOK
<1>9. RestOK'
    BY <1>5, <1>7, <1>8, RestTypes DEF RestOK, callVars, Untouched
<1>10. Quiet(s)
  <2>1. CASE h' = [h EXCEPT ![s].pc = "ending"]
    <3>1. "ending" \in Pcs \ {"superseding", "committing"}
        BY DEF Pcs
    <3>2. h' = [h EXCEPT ![s] = [h[s] EXCEPT !.pc = "ending"]]
        BY <2>1
    <3> QED
        BY <1>1, <3>1, <3>2, QuietPc DEF TurnPcs, Waiting
  <2>2. ASSUME NEW p \in {"generating", "ending"}, h' = [h EXCEPT ![s] = [r EXCEPT !.pc = p]]
        PROVE  Quiet(s)
    <3>1. p \in Pcs
        BY DEF Pcs
    <3> DEFINE q == [[h[s] EXCEPT !.job = parked] EXCEPT !.pc = p]
    <3>2. q \in HandlerType /\ q.pc = p /\ q.turn = h[s].turn
        BY <1>1, <1>3, <3>1 DEF HandlerType
    <3>3. h' = [h EXCEPT ![s] = q]
        BY <2>2
    <3> HIDE DEF q
    <3>4. GoodHandler(s, q)
        BY <1>1, <3>2 DEF HandlerShape, GoodHandler, TurnPcs
    <3> QED
        BY <3>2, <3>3, <3>4, QuietUpdate DEF Waiting
  <2> QED
      BY <1>6, <2>1, <2>2, ContinueStep
<1> QED
    BY <1>5, <1>7, <1>9, <1>10

LEMMA RunInlineStep ==
    ASSUME TypeOK, NEW s \in Rpcs, NEW c \in Calls, RunInline(s, c)
    PROVE  UNCHANGED h /\ RestOK' /\ Untouched /\ lane' = lane /\ inline' = inline
<1>1. batch' \in BatchType
    BY SettledType, RestTypes DEF RestOK, RunInline
<1> QED
    BY <1>1, RestTypes DEF RunInline, RestOK, Untouched, graphVars

LEMMA ReadResultStep ==
    ASSUME TypeOK, HandlerShape, NEW s \in Rpcs, NEW c \in Calls, ReadResult(s, c)
    PROVE  Quiet(s) /\ RestOK' /\ Untouched /\ lane' = lane /\ inline' = inline
<1> DEFINE r == [Idle EXCEPT !.pc = "hooks", !.call = c, !.superseded = (current # s)]
<1>1. r \in HandlerType /\ r.pc = "hooks" /\ r.turn = Nobody
    BY IdleType DEF HandlerType, Pcs
<1>2. h' = [h EXCEPT ![s] = r]
    BY DEF ReadResult
<1> HIDE DEF r
<1>3. GoodHandler(s, r)
    BY <1>1, ConstantTypes DEF GoodHandler, TurnPcs
<1>4. Quiet(s)
    BY <1>1, <1>2, <1>3, QuietUpdate DEF Waiting
<1> QED
    BY <1>4, RestTypes DEF ReadResult, RestOK, Untouched, graphVars, callVars

LEMMA NoteBatchStep ==
    ASSUME TypeOK, HandlerShape, NEW s \in Rpcs, NoteBatch(s)
    PROVE  Quiet(s) /\ RestOK' /\ Untouched /\ lane' = lane /\ inline' = inline
<1> DEFINE noted == [top |-> batch.top, graph |-> batch.graph, stream |-> s,
                     turn |-> <<h[s].call, "result">>]
           j == IF /\ batch # NoBatch /\ batch.graph = call[h[s].call].owner
                   /\ h[s].call \in batch.calls
                THEN noted ELSE NoJob
           r == [[h[s] EXCEPT !.job = j] EXCEPT !.pc = "committing"]
<1>1. batch \in BatchType /\ h[s] \in HandlerType /\ h[s].pc = "hooks"
    BY RestTypes DEF RestOK, TypeOK, NoteBatch
<1>2. h[s].call \in batch.calls => noted \in JobType /\ noted.turn \in Continuations
    BY <1>1, BatchFields DEF JobType, Continuations
<1>3. j \in JobType /\ (j # NoJob => j.turn \in Continuations)
    BY <1>2, ConstantTypes
<1>4. h' = [h EXCEPT ![s] = r]
    BY DEF NoteBatch
<1> HIDE DEF j
<1>5. "committing" \in Pcs
    BY DEF Pcs
<1>6. r \in HandlerType /\ r.pc = "committing" /\ r.turn = h[s].turn /\ r.job = j
    BY <1>1, <1>3, <1>5 DEF HandlerType
<1> HIDE DEF r
<1>7. GoodHandler(s, r)
    BY <1>1, <1>3, <1>6 DEF HandlerShape, GoodHandler, TurnPcs
<1>8. Quiet(s)
    BY <1>4, <1>6, <1>7, QuietUpdate DEF Waiting
<1> QED
    BY <1>8, RestTypes DEF NoteBatch, RestOK, Untouched, graphVars, callVars

LEMMA CommitResultStep ==
    ASSUME TypeOK, HandlerShape, NEW s \in Rpcs, CommitResult(s)
    PROVE  Quiet(s) /\ RestOK' /\ Untouched /\ lane' = lane /\ inline' = inline
<1>1. \/ h' = [h EXCEPT ![s] = Idle]
      \/ /\ h[s].job # NoJob
         /\ h' = [h EXCEPT ![s] = [Idle EXCEPT !.pc = "feedback", !.job = h[s].job]]
    BY DEF CommitResult
<1>2. h[s].job # NoJob => h[s].job.turn \in Continuations
    BY DEF CommitResult, HandlerShape, GoodHandler
<1>3. Quiet(s)
    BY <1>1, <1>2, QuietIdle, QuietIdleWith, RegisteredType
<1>4. batch' \in BatchType
    BY SettledType, RestTypes DEF RestOK, CommitResult
<1>5. pending' \subseteq Calls /\ answered' \subseteq Calls
    BY RestTypes, RegisteredType DEF RestOK, CommitResult
<1> QED
    BY <1>3, <1>4, <1>5, RestTypes DEF CommitResult, RestOK, Untouched, graphVars

(* Handlers join the lane at its end. *)
Joins(s) == lane' = lane \/ lane' = Append(lane, s)

LEMMA JoinLaneStep ==
    ASSUME TypeOK, HandlerShape, NEW s \in Rpcs, JoinLane(s)
    PROVE  Quiet(s) /\ RestOK' /\ Untouched /\ Joins(s) /\ inline' = inline
<1>1. CASE h' = [h EXCEPT ![s].pc = "lane"] /\ lane' = Append(lane, s)
  <2>1. h' = [h EXCEPT ![s] = [h[s] EXCEPT !.pc = "lane"]] /\ h[s].pc = "feedback"
      BY <1>1 DEF JoinLane
  <2>2. "lane" \in Pcs \ {"superseding", "committing"} /\ h[s].job.turn \in Continuations
      BY <2>1 DEF Pcs, HandlerShape, GoodHandler
  <2>3. Quiet(s)
      BY <2>1, <2>2, QuietPc DEF TurnPcs, Waiting
  <2>4. lane' \in Seq(Rpcs)
      BY <1>1, RestTypes DEF RestOK
  <2> QED
      BY <1>1, <2>3, <2>4, RestTypes DEF JoinLane, RestOK, Untouched, Joins, graphVars, callVars
<1>2. CASE h' = [h EXCEPT ![s] = Idle] /\ lane' = lane
    BY <1>2, QuietIdle, RestTypes DEF JoinLane, RestOK, Untouched, Joins, graphVars, callVars
<1> QED
    BY <1>1, <1>2 DEF JoinLane

LEMMA DrainStep ==
    ASSUME TypeOK, HandlerShape, ParkedShape, NEW s \in Rpcs, Drain(s)
    PROVE  Quiet(s) /\ RestOK' /\ Untouched /\ Joins(s) /\ inline' = NoJob
<1>1. CASE /\ inline # NoJob /\ lane' = Append(lane, s)
           /\ h' = [h EXCEPT ![s] = [Idle EXCEPT !.pc = "lane", !.job = inline]]
  <2>1. inline \in JobType /\ inline.turn \in Continuations /\ lane' \in Seq(Rpcs)
      BY <1>1, RestTypes DEF RestOK, ParkedShape
  <2>2. Quiet(s)
      BY <1>1, <2>1, QuietIdleWith
  <2> QED
      BY <1>1, <2>1, <2>2, RestTypes, ConstantTypes
      DEF Drain, RestOK, Untouched, Joins, graphVars, callVars
<1>2. CASE h' = [h EXCEPT ![s] = Idle] /\ lane' = lane
    BY <1>2, QuietIdle, RestTypes, ConstantTypes
    DEF Drain, RestOK, Untouched, Joins, graphVars, callVars
<1> QED
    BY <1>1, <1>2 DEF Drain

(* Turns that are aborted stay what they are: spawned or not, over or not. *)
OnlyCancels ==
    /\ turn' \in [Turns -> TurnStates]
    /\ \A x \in Turns : /\ turn'[x] = "none" <=> turn[x] = "none"
                        /\ turn'[x] = "over" <=> turn[x] = "over"

LEMMA CloseRpcStep ==
    ASSUME TypeOK, NEW s \in Rpcs, CloseRpc(s)
    PROVE  RestOK' /\ OnlyCancels /\ UNCHANGED <<h, installed, active, lane, inline>>
<1>1. OnlyCancels
  <2>1. turn \in [Turns -> TurnStates] /\ "closed" \in Aborted
      BY RestTypes DEF RestOK, Aborted
  <2>2. turn' = turn \/ turn' = Cancel(turn, h[s].turn, "closed")
      BY DEF CloseRpc
  <2> QED
      BY <2>1, <2>2, CancelType DEF OnlyCancels
<1> QED
    BY <1>1, RestTypes DEF CloseRpc, RestOK, OnlyCancels, graphVars, callVars

LEMMA StopStep ==
    ASSUME TypeOK, Stop
    PROVE  RestOK' /\ OnlyCancels /\ UNCHANGED <<h, installed, active, lane, inline>>
<1>1. OnlyCancels
    BY RestTypes DEF RestOK, Stop, Live, OnlyCancels, TurnStates, Aborted
<1>2. batch' \in BatchType
    BY SettledType, RestTypes DEF RestOK, Stop
<1>3. stops' \in 0..MaxStops
    BY ToolBatchAssumption, RestTypes DEF RestOK, Stop
<1>4. pending' \subseteq Calls
    BY RestTypes DEF RestOK, Stop
<1> QED
    BY <1>1, <1>2, <1>3, <1>4, RestTypes DEF Stop, RestOK, OnlyCancels, graphVars

-----------------------------------------------------------------------------
(* Turns are spawned, begin and end. *)

(* Turn names are fresh until their turn is spawned. *)
Spawned ==
    /\ \A s \in Rpcs : h[s].pc \in Waiting => turn[s] = "none"
    /\ \A s \in Rpcs : h[s].turn # Nobody => turn[h[s].turn] # "none"
    /\ \A t \in installed : turn[t] # "none"

(* Handler s takes up turn t, or stays in it; the others stand still. *)
TakesUp(s, t) ==
    /\ h' \in [Rpcs -> HandlerType]
    /\ GoodHandler(s, h'[s])
    /\ \A x \in Rpcs \ {s} : h'[x] = h[x]
    /\ h'[s].turn = t /\ t \in Turns

LEMMA TakesUpUpdate ==
    ASSUME TypeOK, NEW s \in Rpcs, NEW t \in Turns, NEW r, GoodHandler(s, r),
           h' = [h EXCEPT ![s] = r], r.turn = t
    PROVE  TakesUp(s, t)
BY DEF TypeOK, GoodHandler, TakesUp

(* Turn t is spawned; turns may be aborted. *)
Spawns(t) ==
    /\ t \in Turns /\ turn[t] = "none"
    /\ turn' \in [Turns -> TurnStates]
    /\ turn'[t] \notin {"none", "over"}
    /\ \A x \in Turns \ {t} : /\ turn'[x] = "none" <=> turn[x] = "none"
                              /\ turn'[x] = "over" <=> turn[x] = "over"

LEMMA SpawnsLive ==
    ASSUME TypeOK, NEW t \in Turns, turn[t] = "none",
           NEW x, turn' = Cancel([turn EXCEPT ![t] = "live"], x, "superseded")
    PROVE  Spawns(t)
<1> DEFINE ts == [turn EXCEPT ![t] = "live"]
<1>1. ts \in [Turns -> TurnStates] /\ ts[t] = "live" /\ \A y \in Turns \ {t} : ts[y] = turn[y]
    BY RestTypes DEF RestOK, TurnStates
<1>2. turn' = Cancel(ts, x, "superseded")
    OBVIOUS
<1> HIDE DEF ts
<1>3. /\ turn' \in [Turns -> TurnStates]
      /\ \A y \in Turns : /\ turn'[y] = "none" <=> ts[y] = "none"
                          /\ turn'[y] = "over" <=> ts[y] = "over"
    BY <1>1, <1>2 DEF Cancel, TurnStates, Aborted
<1> QED
    BY <1>1, <1>3 DEF Spawns

(* Turn t takes the graph turn, which nobody had. *)
Begins(t) ==
    /\ t \in Turns /\ active = Nobody
    /\ installed' = installed \cup {t} /\ active' = t

(* Nobody takes or releases the graph turn. *)
NoTurnBegins == UNCHANGED <<installed, active>>

LEMMA SpawnStep ==
    ASSUME TypeOK, HandlerShape, Spawned, NEW s \in Rpcs, h[s].pc \in Waiting, Spawn(s),
           ParkedShape
    PROVE  /\ \/ Quiet(s) /\ UNCHANGED turn /\ NoTurnBegins
              \/ TakesUp(s, s) /\ Spawns(s) /\ (NoTurnBegins \/ Begins(s))
           /\ h' \in [Rpcs -> HandlerType] /\ turn' \in [Turns -> TurnStates]
           /\ installed' \subseteq Turns /\ active' \in Turns \cup {Nobody}
           /\ top' \in Rpcs \cup {Nobody} /\ op' \in Rpcs \cup {Nobody}
           /\ inline' \in JobType /\ ParkedShape'
<1> USE DEF graphVars
<1>1. s \in Turns /\ turn[s] = "none" /\ h[s] \in HandlerType
    BY DEF Turns, Spawned, TypeOK
<1>2. CASE s \notin open
  <2>1. Quiet(s)
      BY <1>2, QuietIdle DEF Spawn
  <2> QED
      BY <1>2, <2>1, RestTypes DEF Spawn, NoTurnBegins, RestOK, Quiet, ParkedShape
<1>3. CASE s \in open /\ StaleTurns = <<>>
  <2>1. turn' = [turn EXCEPT ![s] = "live"] /\ InstallChat(s, TRUE) /\ active = Nobody
      BY <1>3, StaleTurnsType, RestTypes DEF Spawn
  <2>2. Spawns(s)
      BY <1>1, <2>1, RestTypes DEF RestOK, Spawns, TurnStates
  <2>3. Begins(s)
      BY <1>1, <2>1 DEF InstallChat, Begins
  <2> DEFINE r == [Idle EXCEPT !.pc = "generating", !.turn = s,
                               !.job = [NoJob EXCEPT !.top = s, !.graph = s, !.stream = s]]
  <2>4. [NoJob EXCEPT !.top = s, !.graph = s, !.stream = s] \in JobType
      BY <1>1 DEF NoJob, JobType
  <2>5. r \in HandlerType /\ r.pc = "generating" /\ r.turn = s
      BY <1>1, <2>4, IdleType DEF HandlerType, Pcs
  <2>6. h' = [h EXCEPT ![s] = r]
      BY <2>1 DEF InstallChat
  <2> HIDE DEF r
  <2>7. GoodHandler(s, r)
      BY <2>5, ConstantTypes DEF GoodHandler, TurnPcs
  <2>8. TakesUp(s, s)
      BY <1>1, <2>5, <2>6, <2>7, TakesUpUpdate
  <2>9. inline' \in {inline, NoJob} /\ top' = s /\ op' = s
      BY <2>1 DEF InstallChat
  <2> QED
      BY <1>1, <2>2, <2>3, <2>8, <2>9, RestTypes, ConstantTypes
      DEF RestOK, TakesUp, Spawns, Begins, ParkedShape
<1>4. CASE s \in open /\ StaleTurns # <<>>
  <2>1. /\ turn' = Cancel([turn EXCEPT ![s] = "live"], Head(StaleTurns), "superseded")
        /\ h' = [h EXCEPT ![s] = [Idle EXCEPT !.pc = "superseding", !.turn = s,
                                              !.stale = StaleTurns]]
        /\ UNCHANGED <<graphVars, op, inline>>
      BY <1>4 DEF Spawn
  <2>2. Spawns(s)
      BY <1>1, <2>1, SpawnsLive
  <2> DEFINE r == [Idle EXCEPT !.pc = "superseding", !.turn = s, !.stale = StaleTurns]
  <2>3. StaleTurns \in Seq(Turns)
      BY StaleTurnsType, RestTypes
  <2>4. r \in HandlerType /\ r.pc = "superseding" /\ r.turn = s /\ r.stale = StaleTurns
      BY <1>1, <2>3, IdleType DEF HandlerType, Pcs
  <2>5. h' = [h EXCEPT ![s] = r]
      BY <2>1
  <2> HIDE DEF r
  <2>6. GoodHandler(s, r)
      BY <1>4, <2>4, ConstantTypes DEF GoodHandler, TurnPcs
  <2>7. TakesUp(s, s)
      BY <1>1, <2>4, <2>5, <2>6, TakesUpUpdate
  <2> QED
      BY <2>1, <2>2, <2>7, RestTypes DEF RestOK, TakesUp, Spawns, NoTurnBegins, ParkedShape
<1> QED
    BY <1>2, <1>3, <1>4

LEMMA StartChatStep ==
    ASSUME TypeOK, HandlerShape, ParkedShape, Spawned, NEW s \in Rpcs,
           StartChat(s) \/ Interrupt(s)
    PROVE  /\ \/ Quiet(s) /\ UNCHANGED turn /\ NoTurnBegins
              \/ TakesUp(s, s) /\ Spawns(s) /\ (NoTurnBegins \/ Begins(s))
           /\ RestOK' /\ ParkedShape' /\ lane' = lane
<1>1. CASE Spawn(s)
  <2>1. h[s].pc \in Waiting
      BY DEF StartChat, Interrupt, Waiting
  <2>2. batch' \in BatchType /\ pending' \subseteq Calls
      BY SettledType, RestTypes DEF StartChat, Interrupt, RestOK, callVars
  <2> QED
      BY <1>1, <2>1, <2>2, SpawnStep, RestTypes DEF StartChat, Interrupt, RestOK, callVars
<1>2. CASE StartChat(s) /\ ~Spawn(s)
  <2>1. /\ h' = [h EXCEPT ![s] = [h[s] EXCEPT !.pc = "interrupting", !.calls = pending]]
        /\ h[s].pc = "read"
        /\ UNCHANGED <<turn, graphVars, op, inline, open, current, batch, callVars, lane, stops>>
      BY <1>2 DEF StartChat
  <2>2. pending \in SUBSET Calls
      BY RestTypes DEF RestOK
  <2>3. Quiet(s)
      BY <2>1, <2>2, QuietCalls DEF TurnPcs, Waiting
  <2> QED
      BY <2>1, <2>3, RestTypes DEF RestOK, NoTurnBegins, graphVars, callVars, ParkedShape
<1> QED
    BY <1>1, <1>2 DEF StartChat, Interrupt

LEMMA SweepStep ==
    ASSUME TypeOK, HandlerShape, ParkedShape, NEW s \in Rpcs, Sweep(s)
    PROVE  Quiet(s) /\ RestOK' /\ ParkedShape' /\ OnlyCancels /\ NoTurnBegins /\ lane' = lane
<1> DEFINE rest == Tail(h[s].stale)
           p == IF rest = <<>> THEN "begin" ELSE h[s].pc
           r == [h[s] EXCEPT !.stale = rest, !.pc = p]
<1>1. /\ h[s] \in HandlerType /\ h[s].pc = "superseding"
      /\ h[s].stale \in Seq(Turns) /\ h[s].stale # <<>>
    BY RegisteredType DEF TypeOK, Sweep, HandlerShape, GoodHandler
<1>2. rest \in Seq(Turns)
    BY <1>1
<1>3. p \in {"begin", "superseding"} /\ (p = "superseding" => rest # <<>>)
    BY <1>1
<1>4. h' = [h EXCEPT ![s] = r]
    BY DEF Sweep
<1>5. /\ turn' = turn \/ turn' = Cancel(turn, Head(rest), "superseded")
      /\ pending' = pending \ OwnedBy(Head(h[s].stale))
      /\ batch' = WithoutBatchOf(Head(h[s].stale))
      /\ inline' = WithoutInlineOf(Head(h[s].stale))
      /\ UNCHANGED <<open, current, graphVars, op, answered, call, lane, stops>>
    BY DEF Sweep
<1> HIDE DEF rest, p
<1>6. r \in HandlerType /\ r.pc = p /\ r.turn = h[s].turn /\ r.stale = rest
    BY <1>1, <1>2, <1>3 DEF HandlerType, Pcs
<1> HIDE DEF r
<1>7. GoodHandler(s, r)
    BY <1>1, <1>3, <1>6 DEF HandlerShape, GoodHandler, TurnPcs
<1>8. Quiet(s)
    BY <1>3, <1>4, <1>6, <1>7, QuietUpdate DEF Waiting
<1>9. OnlyCancels
  <2>1. turn \in [Turns -> TurnStates] /\ "superseded" \in Aborted
      BY RestTypes DEF RestOK, Aborted
  <2> QED
      BY <1>5, <2>1, CancelType DEF OnlyCancels
<1>10. batch' \in BatchType /\ inline' \in JobType /\ ParkedShape'
    BY <1>5, OthersTypes, RestTypes DEF ParkedShape, WithoutInlineOf
<1> QED
    BY <1>5, <1>8, <1>9, <1>10, RestTypes DEF RestOK, OnlyCancels, NoTurnBegins, graphVars

(* Turn t ends; the graph turn stays or is released by its owner. *)
Ends(t) ==
    /\ t \in Turns /\ turn[t] # "none"
    /\ turn' = [turn EXCEPT ![t] = "over"]
    /\ UNCHANGED installed
    /\ \/ UNCHANGED active
       \/ active = t /\ active' = Nobody

(* The handler of a continuation turn leaves the lane at its head. *)
Leaves(s) ==
    \/ lane' = lane /\ h[s].turn \notin Continuations
    \/ lane' = Tail(lane) /\ h[s].turn \in Continuations

LEMMA LaneReleasedStep ==
    ASSUME TypeOK, HandlerShape, LaneOwner, NEW s \in Rpcs, h[s].turn # Nobody,
           lane' = LaneReleased(s)
    PROVE  Leaves(s) /\ lane' \in Seq(Rpcs)
<1>1. h[s].turn \in Turns /\ lane \in Seq(Rpcs)
    BY RegisteredType, RestTypes DEF RestOK
<1>2. CASE h[s].turn \in Rpcs
    BY <1>1, <1>2, ToolBatchAssumption DEF LaneReleased, IsChat, Leaves
<1>3. CASE h[s].turn \in Continuations
  <2>1. lane # <<>> /\ h[s].turn \notin Rpcs
      BY <1>3, ToolBatchAssumption DEF LaneOwner
  <2> QED
      BY <1>1, <1>3, <2>1 DEF LaneReleased, IsChat, Leaves
<1> QED
    BY <1>1, <1>2, <1>3 DEF Turns

LEMMA RefuseStep ==
    ASSUME TypeOK, HandlerShape, LaneOwner, Spawned, NEW s \in Rpcs,
           h[s].pc = "begin", Refuse(s)
    PROVE  /\ Quiet(s) /\ h'[s].turn = Nobody
           /\ Ends(h[s].turn) /\ Leaves(s) /\ lane' \in Seq(Rpcs)
<1>1. h[s].turn # Nobody /\ h[s].turn \in Turns
    BY RegisteredType DEF HandlerShape, GoodHandler, TurnPcs
<1>2. Ends(h[s].turn)
    BY <1>1 DEF Refuse, Spawned, Ends, graphVars
<1>3. Quiet(s) /\ h'[s].turn = Nobody
    BY QuietIdle, IdleType DEF Refuse, TypeOK
<1> QED
    BY <1>1, <1>2, <1>3, LaneReleasedStep DEF Refuse

(* Handler s begins its turn, or is refused. *)
BeginsOrEnds(s) ==
    \/ /\ TakesUp(s, h[s].turn) /\ Begins(h[s].turn)
       /\ UNCHANGED <<turn, lane>>
    \/ /\ Quiet(s) /\ h'[s].turn = Nobody
       /\ Ends(h[s].turn) /\ Leaves(s)

LEMMA BeginChatStep ==
    ASSUME TypeOK, HandlerShape, ParkedShape, LaneOwner, Spawned, NEW s \in Rpcs, BeginChat(s)
    PROVE  BeginsOrEnds(s) /\ RestOK' /\ ParkedShape'
<1>1. h[s].pc = "begin" /\ h[s].turn = s /\ s \in Turns /\ h[s] \in HandlerType
    BY DEF BeginChat, IsChat, HandlerShape, GoodHandler, Turns
<1>2. CASE Refuse(s)
  <2>1. /\ Quiet(s) /\ h'[s].turn = Nobody
        /\ Ends(h[s].turn) /\ Leaves(s) /\ lane' \in Seq(Rpcs)
      BY <1>1, <1>2, RefuseStep
  <2>2. turn' \in [Turns -> TurnStates]
      BY <1>2, RestTypes DEF Refuse, RestOK, TurnStates
  <2> QED
      BY <1>2, <2>1, <2>2, RestTypes
      DEF BeginChat, Refuse, BeginsOrEnds, RestOK, ParkedShape, graphVars, callVars
<1>3. CASE /\ active = Nobody /\ InstallChat(s, Live(s))
           /\ UNCHANGED <<turn, batch, lane, open, current, callVars, stops>>
  <2> DEFINE p == IF Live(s) THEN "generating" ELSE "ending"
             r == [Idle EXCEPT !.pc = p, !.turn = s,
                               !.job = [NoJob EXCEPT !.top = s, !.graph = s, !.stream = s]]
  <2>1. [NoJob EXCEPT !.top = s, !.graph = s, !.stream = s] \in JobType
      BY <1>1 DEF NoJob, JobType
  <2>2. p \in {"generating", "ending"}
      OBVIOUS
  <2>3. h' = [h EXCEPT ![s] = r]
      BY <1>3 DEF InstallChat
  <2> HIDE DEF p
  <2>4. r \in HandlerType /\ r.pc = p /\ r.turn = s
      BY <1>1, <2>1, <2>2, IdleType DEF HandlerType, Pcs
  <2> HIDE DEF r
  <2>5. GoodHandler(s, r)
      BY <2>2, <2>4, ConstantTypes DEF GoodHandler, TurnPcs
  <2>6. TakesUp(s, s)
      BY <1>1, <2>3, <2>4, <2>5, TakesUpUpdate
  <2>7. Begins(s)
      BY <1>1, <1>3 DEF InstallChat, Begins
  <2>8. inline' \in {inline, NoJob} /\ top' = s /\ op' = s
      BY <1>3 DEF InstallChat
  <2> QED
      BY <1>1, <1>3, <2>6, <2>7, <2>8, RestTypes, ConstantTypes
      DEF BeginsOrEnds, Begins, RestOK, ParkedShape, callVars
<1> QED
    BY <1>2, <1>3 DEF BeginChat

LEMMA InstallContinuationStep ==
    ASSUME TypeOK, HandlerShape, NEW s \in Rpcs, NEW r \in HandlerType,
           r.turn \in Continuations, active = Nobody, InstallContinuation(s, r)
    PROVE  /\ TakesUp(s, r.turn) /\ Begins(r.turn)
           /\ batch' \in BatchType /\ op' \in Rpcs \cup {Nobody}
           /\ UNCHANGED <<top, inline>>
<1>1. r.turn \in Turns
    BY DEF Turns
<1>2. PICK p \in {"generating", "ending"} : h' = [h EXCEPT ![s] = [r EXCEPT !.pc = p]]
    BY ContinueStep DEF InstallContinuation
<1> DEFINE q == [r EXCEPT !.pc = p]
<1>3. q \in HandlerType /\ q.pc = p /\ q.turn = r.turn
    BY DEF HandlerType, Pcs
<1>4. h' = [h EXCEPT ![s] = q]
    BY <1>2
<1> HIDE DEF q
<1>5. GoodHandler(s, q)
    BY <1>3, ConstantTypes, ToolBatchAssumption DEF GoodHandler, TurnPcs
<1>6. TakesUp(s, r.turn)
    BY <1>1, <1>3, <1>4, <1>5, TakesUpUpdate
<1> QED
    BY <1>1, <1>6, ContinueStep DEF InstallContinuation, Begins

LEMMA BeginContinuationStep ==
    ASSUME TypeOK, HandlerShape, ParkedShape, LaneOwner, Spawned, NEW s \in Rpcs,
           BeginContinuation(s)
    PROVE  BeginsOrEnds(s) /\ RestOK' /\ ParkedShape'
<1>1. h[s].pc = "begin" /\ h[s].turn \in Continuations /\ h[s] \in HandlerType
    BY RegisteredType DEF BeginContinuation, IsChat, HandlerShape, GoodHandler, Turns, TurnPcs
<1>2. CASE Refuse(s)
  <2>1. /\ Quiet(s) /\ h'[s].turn = Nobody
        /\ Ends(h[s].turn) /\ Leaves(s) /\ lane' \in Seq(Rpcs)
      BY <1>1, <1>2, RefuseStep
  <2>2. turn' \in [Turns -> TurnStates]
      BY <1>2, RestTypes DEF Refuse, RestOK, TurnStates
  <2> QED
      BY <1>2, <2>1, <2>2, RestTypes
      DEF BeginContinuation, Refuse, BeginsOrEnds, RestOK, ParkedShape, graphVars, callVars
<1>3. CASE /\ active = Nobody /\ InstallContinuation(s, h[s])
           /\ UNCHANGED <<turn, lane, open, current, callVars, stops>>
  <2>1. /\ TakesUp(s, h[s].turn) /\ Begins(h[s].turn)
        /\ batch' \in BatchType /\ op' \in Rpcs \cup {Nobody}
        /\ UNCHANGED <<top, inline>>
      BY <1>1, <1>3, InstallContinuationStep
  <2> QED
      BY <1>3, <2>1, RestTypes DEF BeginsOrEnds, Begins, RestOK, ParkedShape, callVars
<1> QED
    BY <1>2, <1>3 DEF BeginContinuation

LEMMA EnterLaneStep ==
    ASSUME TypeOK, HandlerShape, ParkedShape, Spawned, NEW s \in Rpcs, EnterLane(s)
    PROVE  /\ lane # <<>> /\ Head(lane) = s
           /\ \/ Quiet(s) /\ h'[s].turn = Nobody /\ UNCHANGED turn /\ NoTurnBegins /\ lane' = Tail(lane)
              \/ /\ TakesUp(s, h[s].job.turn) /\ Spawns(h[s].job.turn) /\ lane' = lane
                 /\ h[s].job.turn \in Continuations
                 /\ NoTurnBegins \/ Begins(h[s].job.turn)
           /\ RestOK' /\ ParkedShape'
<1> DEFINE t == h[s].job.turn
           r == [h[s] EXCEPT !.turn = t]
<1>1. /\ h[s] \in HandlerType /\ h[s].pc = "lane" /\ t \in Continuations
      /\ lane # <<>> /\ Head(lane) = s /\ lane \in Seq(Rpcs)
    BY RestTypes DEF TypeOK, EnterLane, FirstInLane, HandlerShape, GoodHandler
<1>2. t \in Turns
    BY <1>1 DEF Turns
<1> HIDE DEF t
<1>3. r \in HandlerType /\ r.turn = t
    BY <1>1, <1>2 DEF HandlerType
<1>4. CASE h' = [h EXCEPT ![s] = Idle] /\ lane' = Tail(lane)
           /\ UNCHANGED <<turn, graphVars, op, batch, inline>>
  <2>1. Quiet(s) /\ h'[s].turn = Nobody
      BY <1>4, QuietIdle, IdleType DEF TypeOK
  <2>2. lane' \in Seq(Rpcs)
      BY <1>1, <1>4
  <2> QED
      BY <1>1, <1>4, <2>1, <2>2, RestTypes
      DEF EnterLane, RestOK, NoTurnBegins, ParkedShape, graphVars, callVars
<1>5. CASE /\ turn[t] = "none" /\ active = Nobody
           /\ turn' = [turn EXCEPT ![t] = "live"]
           /\ InstallContinuation(s, r) /\ lane' = lane
  <2>1. /\ TakesUp(s, t) /\ Begins(t)
        /\ batch' \in BatchType /\ op' \in Rpcs \cup {Nobody}
        /\ UNCHANGED <<top, inline>>
      BY <1>1, <1>3, <1>5, InstallContinuationStep
  <2>2. Spawns(t)
      BY <1>2, <1>5, RestTypes DEF RestOK, Spawns, TurnStates
  <2> QED
      BY <1>1, <1>5, <2>1, <2>2, RestTypes
      DEF EnterLane, RestOK, Begins, Spawns, ParkedShape, callVars, t
<1>6. CASE /\ turn[t] = "none" /\ active # Nobody
           /\ turn' = Cancel([turn EXCEPT ![t] = "live"], active, "superseded")
           /\ h' = [h EXCEPT ![s] = [r EXCEPT !.pc = "superseding", !.stale = <<active>>]]
           /\ UNCHANGED <<graphVars, op, batch, inline, lane>>
  <2>1. Spawns(t)
      BY <1>2, <1>6, SpawnsLive
  <2> DEFINE q == [h[s] EXCEPT !.turn = t, !.pc = "superseding", !.stale = <<active>>]
  <2>2. <<active>> \in Seq(Turns) /\ <<active>> # <<>>
      BY <1>6, RestTypes DEF RestOK
  <2>3. q \in HandlerType /\ q.pc = "superseding" /\ q.turn = t /\ q.stale = <<active>>
      BY <1>1, <1>2, <2>2 DEF HandlerType, Pcs
  <2>4. h' = [h EXCEPT ![s] = q]
      BY <1>6
  <2> HIDE DEF q
  <2>5. GoodHandler(s, q)
      BY <1>1, <2>2, <2>3, ConstantTypes, ToolBatchAssumption DEF GoodHandler, TurnPcs
  <2>6. TakesUp(s, t)
      BY <1>2, <2>3, <2>4, <2>5, TakesUpUpdate
  <2> QED
      BY <1>1, <1>6, <2>1, <2>6, RestTypes
      DEF EnterLane, RestOK, NoTurnBegins, Spawns, ParkedShape, graphVars, callVars, t
<1> QED
    BY <1>4, <1>5, <1>6 DEF EnterLane, t

LEMMA EndTurnStep ==
    ASSUME TypeOK, HandlerShape, LaneOwner, ParkedShape, Spawned, NEW s \in Rpcs, EndTurn(s)
    PROVE  /\ Quiet(s) /\ h'[s].turn = Nobody /\ Ends(h[s].turn) /\ Leaves(s)
           /\ RestOK' /\ ParkedShape'
<1>1. h[s].turn # Nobody /\ h[s].turn \in Turns
    BY RegisteredType DEF EndTurn, HandlerShape, GoodHandler, TurnPcs
<1>2. Quiet(s) /\ h'[s].turn = Nobody
  <2>1. CASE h' = [h EXCEPT ![s] = Idle]
      BY <2>1, QuietIdle, IdleType DEF TypeOK
  <2>2. CASE h' = [h EXCEPT ![s] = [Idle EXCEPT !.pc = "drain"]]
    <3> DEFINE r == [Idle EXCEPT !.pc = "drain"]
    <3>1. r \in HandlerType /\ r.pc = "drain" /\ r.turn = Nobody
        BY IdleType DEF HandlerType, Pcs
    <3>2. h' = [h EXCEPT ![s] = r]
        BY <2>2
    <3> HIDE DEF r
    <3>3. GoodHandler(s, r)
        BY <3>1, ConstantTypes DEF GoodHandler, TurnPcs
    <3> QED
        BY <3>1, <3>2, <3>3, QuietUpdate DEF Waiting, TypeOK
  <2> QED
      BY <2>1, <2>2 DEF EndTurn
<1>3. Ends(h[s].turn)
    BY <1>1 DEF EndTurn, Ends, Spawned, GraphReleased
<1>4. Leaves(s) /\ lane' \in Seq(Rpcs)
    BY <1>1, LaneReleasedStep DEF EndTurn
<1>5. turn' \in [Turns -> TurnStates] /\ active' \in Turns \cup {Nobody}
    BY RestTypes DEF EndTurn, RestOK, TurnStates, GraphReleased
<1> QED
    BY <1>2, <1>3, <1>4, <1>5, RestTypes DEF EndTurn, RestOK, ParkedShape, callVars

LEMMA EndAbortedStep ==
    ASSUME TypeOK, ParkedShape, NEW t \in Turns, EndAborted(t)
    PROVE  Ends(t) /\ UNCHANGED <<h, lane>> /\ RestOK' /\ ParkedShape'
<1>1. Ends(t)
    BY DEF EndAborted, Ends, GraphReleased, Aborted
<1>2. turn' \in [Turns -> TurnStates] /\ active' \in Turns \cup {Nobody}
    BY RestTypes, OthersTypes DEF EndAborted, RestOK, TurnStates
<1>3. batch' \in BatchType /\ inline' \in JobType /\ ParkedShape'
    BY RestTypes, OthersTypes DEF EndAborted, RestOK, ParkedShape, WithoutInlineOf
<1> QED
    BY <1>1, <1>2, <1>3, RestTypes DEF EndAborted, RestOK, callVars

-----------------------------------------------------------------------------
(* The invariant: types, what handlers carry, the lane, fresh names, and the *)
(* owner of the graph turn.                                                  *)
Inv ==
    /\ TypeOK /\ HandlerShape /\ ParkedShape
    /\ LaneOwner /\ Spawned /\ GraphOwner

(* What a step may do to the turns, the graph turn, the lane and handler s. *)
HandlerMoves(s) ==
    \/ Quiet(s) /\ UNCHANGED turn /\ NoTurnBegins /\ Joins(s)
    \/ Quiet(s) /\ OnlyCancels /\ NoTurnBegins /\ lane' = lane
    \/ TakesUp(s, s) /\ Spawns(s) /\ lane' = lane /\ (NoTurnBegins \/ Begins(s))
    \/ BeginsOrEnds(s)
    \/ /\ Quiet(s) /\ h'[s].turn = Nobody /\ UNCHANGED turn /\ NoTurnBegins
       /\ lane # <<>> /\ Head(lane) = s /\ lane' = Tail(lane)
    \/ /\ TakesUp(s, h[s].job.turn) /\ Spawns(h[s].job.turn) /\ lane' = lane
       /\ lane # <<>> /\ Head(lane) = s /\ h[s].job.turn \in Continuations
       /\ NoTurnBegins \/ Begins(h[s].job.turn)
    \/ Quiet(s) /\ Ends(h[s].turn) /\ Leaves(s) /\ h'[s].turn = Nobody

Moves ==
    \/ \E s \in Rpcs : HandlerMoves(s)
    \/ UNCHANGED <<h, lane>> /\ NoTurnBegins /\ (OnlyCancels \/ UNCHANGED turn)
    \/ UNCHANGED <<h, lane>> /\ \E t \in Turns : Ends(t)

LEMMA StepMoves ==
    ASSUME Inv, [Next]_vars
    PROVE  Moves /\ RestOK' /\ ParkedShape'
<1> USE DEF Inv
<1>1. ASSUME NEW s \in Rpcs,
             \/ ReadFrame(s) \/ StartResume(s) \/ EndResponse(s) \/ FailDispatch(s)
             \/ (\E C \in SUBSET Calls : AskTools(s, C)) \/ Dispatch(s) \/ NoteBatch(s)
             \/ CommitResult(s) \/ (\E c \in Calls : ReadResult(s, c))
      PROVE  HandlerMoves(s) /\ RestOK' /\ ParkedShape'
  <2>1. Quiet(s) /\ RestOK' /\ Untouched /\ lane' = lane /\ inline' = inline
      BY <1>1, ReadFrameStep, StartResumeStep, EndResponseStep, AskToolsStep, DispatchStep,
         NoteBatchStep, CommitResultStep, ReadResultStep
  <2> QED
      BY <2>1 DEF HandlerMoves, Untouched, NoTurnBegins, Joins, ParkedShape
<1>2. ASSUME NEW s \in Rpcs, EndDispatch(s) \/ JoinLane(s) \/ Drain(s)
      PROVE  HandlerMoves(s) /\ RestOK' /\ ParkedShape'
  <2>1. Quiet(s) /\ RestOK' /\ Untouched /\ Joins(s) /\ ParkedShape'
      BY <1>2, EndDispatchStep, JoinLaneStep, DrainStep DEF Joins, ParkedShape
  <2> QED
      BY <2>1 DEF HandlerMoves, Untouched, NoTurnBegins
<1>3. ASSUME NEW s \in Rpcs, StartChat(s) \/ Interrupt(s)
      PROVE  HandlerMoves(s) /\ RestOK' /\ ParkedShape'
    BY <1>3, StartChatStep DEF HandlerMoves, Joins
<1>4. ASSUME NEW s \in Rpcs, Sweep(s)
      PROVE  HandlerMoves(s) /\ RestOK' /\ ParkedShape'
    BY <1>4, SweepStep DEF HandlerMoves
<1>5. ASSUME NEW s \in Rpcs, BeginChat(s) \/ BeginContinuation(s)
      PROVE  HandlerMoves(s) /\ RestOK' /\ ParkedShape'
    BY <1>5, BeginChatStep, BeginContinuationStep DEF HandlerMoves
<1>6. ASSUME NEW s \in Rpcs, EnterLane(s)
      PROVE  HandlerMoves(s) /\ RestOK' /\ ParkedShape'
    BY <1>6, EnterLaneStep DEF HandlerMoves
<1>7. ASSUME NEW s \in Rpcs, EndTurn(s)
      PROVE  HandlerMoves(s) /\ RestOK' /\ ParkedShape'
    BY <1>7, EndTurnStep DEF HandlerMoves
<1>8. ASSUME NEW s \in Rpcs, NEW c \in Calls, RunInline(s, c)
      PROVE  Moves /\ RestOK' /\ ParkedShape'
    BY <1>8, RunInlineStep DEF Moves, Untouched, NoTurnBegins, ParkedShape
<1>9. ASSUME NEW s \in Rpcs, CloseRpc(s) PROVE Moves /\ RestOK' /\ ParkedShape'
    BY <1>9, CloseRpcStep DEF Moves, NoTurnBegins, ParkedShape
<1>10. CASE Stop
    BY <1>10, StopStep DEF Moves, NoTurnBegins, ParkedShape
<1>11. ASSUME NEW t \in Turns, EndAborted(t) PROVE Moves /\ RestOK' /\ ParkedShape'
    BY <1>11, EndAbortedStep DEF Moves
<1>12. CASE UNCHANGED vars
    BY <1>12, RestTypes
    DEF vars, graphVars, callVars, Moves, NoTurnBegins, RestOK, ParkedShape
<1>13. ASSUME NEW s \in Rpcs, HandlerMoves(s) PROVE Moves
    BY <1>13 DEF Moves
<1> QED
    BY <1>1, <1>2, <1>3, <1>4, <1>5, <1>6, <1>7, <1>8, <1>9, <1>10, <1>11, <1>12, <1>13
    DEF Next, Advance

LEMMA HandlersStayGood ==
    ASSUME Inv, Moves
    PROVE  h' \in [Rpcs -> HandlerType] /\ HandlerShape'
<1>1. ASSUME NEW s \in Rpcs, HandlerMoves(s)
      PROVE  /\ h' \in [Rpcs -> HandlerType] /\ GoodHandler(s, h'[s])
             /\ \A x \in Rpcs \ {s} : h'[x] = h[x]
    BY <1>1 DEF HandlerMoves, Quiet, TakesUp, BeginsOrEnds
<1>2. ASSUME NEW s \in Rpcs, HandlerMoves(s)
      PROVE  h' \in [Rpcs -> HandlerType] /\ \A x \in Rpcs : GoodHandler(x, h'[x])
  <2>1. ASSUME NEW x \in Rpcs PROVE GoodHandler(x, h'[x])
    <3>1. CASE x = s
        BY <1>1, <1>2, <3>1
    <3>2. CASE x # s
        BY <1>1, <1>2, <3>2 DEF Inv, HandlerShape
    <3> QED
        BY <3>1, <3>2
  <2> QED
      BY <1>1, <1>2, <2>1
<1>3. CASE UNCHANGED h
    BY <1>3 DEF Inv, TypeOK, HandlerShape, GoodHandler
<1> QED
    BY <1>2, <1>3 DEF Moves, HandlerShape, GoodHandler

LEMMA SpawnedKept ==
    ASSUME Inv, Moves
    PROVE  Spawned'
<1> USE DEF Inv
<1>1. turn \in [Turns -> TurnStates] /\ installed \subseteq Turns
    BY DEF TypeOK
<1>2. ASSUME NEW x \in Turns, turn[x] # "none" PROVE turn'[x] # "none"
    BY <1>1, <1>2 DEF Moves, HandlerMoves, BeginsOrEnds, OnlyCancels, Spawns, Ends
<1>3. ASSUME NEW x \in Rpcs, h'[x].pc \in Waiting PROVE turn'[x] = "none"
  <2>1. ~TakesUp(x, h'[x].turn)
      BY <1>3, ConstantTypes DEF TakesUp, GoodHandler, Waiting, TurnPcs
  <2>2. h'[x] = h[x] \/ Quiet(x)
      BY <2>1 DEF Moves, HandlerMoves, BeginsOrEnds, Quiet, TakesUp
  <2>3. turn[x] = "none" /\ x \in Turns
      BY <1>3, <2>2 DEF Quiet, Spawned, Turns
  <2>4. ASSUME NEW t \in Turns, Spawns(t), t # x PROVE turn'[x] = "none"
      BY <2>3, <2>4 DEF Spawns
  <2>5. ASSUME NEW t \in Turns, Ends(t) PROVE turn'[x] = "none"
      BY <1>1, <2>3, <2>5 DEF Ends
  <2>6. ASSUME NEW s \in Rpcs, HandlerMoves(s) PROVE turn'[x] = "none"
    <3>1. CASE TakesUp(s, s) /\ Spawns(s)
        BY <2>1, <2>4, <3>1 DEF TakesUp, Turns
    <3>2. CASE h[s].job.turn \in Continuations /\ Spawns(h[s].job.turn)
        BY <2>4, <3>2, ToolBatchAssumption DEF Turns
    <3>3. CASE Ends(h[s].turn)
        BY <2>5, <3>3 DEF Ends
    <3>4. CASE OnlyCancels \/ UNCHANGED turn
        BY <2>3, <3>4 DEF OnlyCancels
    <3> QED
        BY <2>6, <3>1, <3>2, <3>3, <3>4 DEF HandlerMoves, BeginsOrEnds
  <2>7. CASE OnlyCancels \/ UNCHANGED turn
      BY <2>3, <2>7 DEF OnlyCancels
  <2> QED
      BY <2>5, <2>6, <2>7 DEF Moves
<1>4. ASSUME NEW x \in Rpcs, h'[x].turn # Nobody PROVE turn'[h'[x].turn] # "none"
  <2>1. CASE h'[x].turn = h[x].turn
      BY <1>2, <1>4, <2>1, RegisteredType DEF Spawned
  <2>2. ASSUME NEW t \in Turns, TakesUp(x, t), Spawns(t) PROVE turn'[h'[x].turn] # "none"
      BY <2>2 DEF TakesUp, Spawns
  <2>3. ASSUME NEW s \in Rpcs, HandlerMoves(s), h'[x].turn # h[x].turn
        PROVE  \E t \in Turns : TakesUp(x, t) /\ Spawns(t)
    <3>1. \/ Quiet(s)
          \/ TakesUp(s, s) /\ Spawns(s)
          \/ TakesUp(s, h[s].turn)
          \/ TakesUp(s, h[s].job.turn) /\ Spawns(h[s].job.turn)
        BY <2>3 DEF HandlerMoves, BeginsOrEnds
    <3>2. x = s
        BY <2>3, <3>1 DEF Quiet, TakesUp
    <3> QED
        BY <1>4, <2>3, <3>1, <3>2 DEF Quiet, TakesUp
  <2> QED
      BY <2>1, <2>2, <2>3 DEF Moves
<1>5. ASSUME NEW t \in installed' PROVE turn'[t] # "none"
  <2>1. CASE t \in installed
      BY <1>1, <1>2, <2>1 DEF Spawned
  <2>2. CASE t \notin installed
    <3>1. PICK s \in Rpcs : HandlerMoves(s) /\ ~NoTurnBegins
        BY <1>5, <2>2 DEF Moves, NoTurnBegins, Ends
    <3>2. h'[s].turn = t
        BY <1>5, <2>2, <3>1 DEF HandlerMoves, BeginsOrEnds, Begins, TakesUp, Ends
    <3> QED
        BY <1>4, <1>5, <3>2, <3>1, ConstantTypes, <2>2
        DEF HandlerMoves, BeginsOrEnds, Begins, Ends
  <2> QED
      BY <2>1, <2>2
<1> QED
    BY <1>3, <1>4, <1>5 DEF Spawned

LEMMA LaneKept ==
    ASSUME Inv, Moves
    PROVE  LaneOwner'
<1> USE DEF Inv
<1> SUFFICES ASSUME NEW x \in Rpcs, h'[x].turn \in Continuations
             PROVE  lane' # <<>> /\ Head(lane') = x
    BY DEF LaneOwner
<1>1. lane \in Seq(Rpcs) /\ Nobody \notin Continuations
    BY ConstantTypes DEF TypeOK
<1>2. CASE UNCHANGED <<h, lane>>
    BY <1>2 DEF LaneOwner
<1>3. ASSUME NEW s \in Rpcs, HandlerMoves(s) PROVE lane' # <<>> /\ Head(lane') = x
  <2>1. ASSUME h[x].turn \in Continuations PROVE lane # <<>> /\ Head(lane) = x
      BY <2>1 DEF LaneOwner
  <2>2. x # s => h'[x] = h[x]
      BY <1>3 DEF HandlerMoves, BeginsOrEnds, Quiet, TakesUp
  <2>3. CASE h[x].turn \in Continuations /\ lane' = lane
      BY <2>1, <2>3
  <2>4. CASE h[x].turn \in Continuations /\ Joins(s)
      BY <1>1, <2>1, <2>4 DEF Joins
  <2>5. CASE /\ h'[s].turn = Nobody /\ lane' = Tail(lane)
             /\ lane # <<>> /\ Head(lane) = s
      BY <1>1, <2>1, <2>2, <2>5
  <2>6. CASE h'[s].turn = Nobody /\ Leaves(s)
    <3>1. CASE lane' = lane
        BY <1>1, <2>1, <2>2, <2>6, <3>1
    <3>2. CASE h[s].turn \in Continuations
        BY <1>1, <2>1, <2>2, <2>6, <3>2 DEF LaneOwner
    <3> QED
        BY <2>6, <3>1, <3>2 DEF Leaves
  <2>7. CASE TakesUp(s, s) /\ lane' = lane
      BY <1>1, <2>1, <2>2, <2>7, ToolBatchAssumption DEF TakesUp
  <2>8. CASE TakesUp(s, h[s].job.turn) /\ lane' = lane /\ lane # <<>> /\ Head(lane) = s
      BY <2>1, <2>2, <2>8
  <2>9. CASE TakesUp(s, h[s].turn) /\ lane' = lane
      BY <2>1, <2>2, <2>9 DEF TakesUp
  <2>10. CASE Quiet(s) /\ (Joins(s) \/ lane' = lane)
      BY <1>1, <2>2, <2>3, <2>4, <2>10 DEF Quiet
  <2> QED
      BY <1>3, <2>5, <2>6, <2>7, <2>8, <2>9, <2>10 DEF HandlerMoves, BeginsOrEnds
<1> QED
    BY <1>2, <1>3 DEF Moves

LEMMA GraphKept ==
    ASSUME Inv, Moves
    PROVE  GraphOwner'
<1> USE DEF Inv
<1> SUFFICES ASSUME NEW t \in installed', turn'[t] # "over" PROVE active' = t
    BY DEF GraphOwner
<1>1. turn \in [Turns -> TurnStates] /\ installed \subseteq Turns
    BY DEF TypeOK
<1>2. t \in installed => turn[t] # "none"
    BY DEF Spawned
<1>3. ASSUME t \in installed, turn[t] # "over" PROVE active = t
    BY <1>3 DEF GraphOwner
<1>4. ASSUME t \in installed PROVE turn[t] # "over"
    BY <1>1, <1>2, <1>4 DEF Moves, HandlerMoves, BeginsOrEnds, OnlyCancels, Spawns, Ends
<1>5. CASE NoTurnBegins
    BY <1>3, <1>4, <1>5 DEF NoTurnBegins
<1>6. ASSUME NEW x, Begins(x) PROVE active' = t
    BY <1>1, <1>3, <1>4, <1>6, ConstantTypes DEF Begins
<1>7. ASSUME NEW x, Ends(x) PROVE active' = t
    BY <1>1, <1>3, <1>4, <1>7 DEF Ends
<1> QED
    BY <1>5, <1>6, <1>7 DEF Moves, HandlerMoves, BeginsOrEnds

LEMMA InitInv == Init => Inv
<1> SUFFICES ASSUME Init PROVE Inv
    OBVIOUS
<1>1. h \in [Rpcs -> HandlerType] /\ \A s \in Rpcs : GoodHandler(s, h[s])
    BY UnreadType, ConstantTypes DEF Init, GoodHandler, TurnPcs
<1>2. lane \in Seq(Rpcs) /\ stops \in 0..MaxStops
    BY ToolBatchAssumption DEF Init
<1>3. call \in [Calls -> CallType]
    BY DEF Init, CallType
<1>4. RestOK
    BY <1>2, <1>3, ConstantTypes DEF Init, RestOK, TurnStates
<1>5. Spawned
    BY UnreadType DEF Init, Spawned, Turns
<1>6. LaneOwner /\ GraphOwner /\ ParkedShape
    BY UnreadType, ConstantTypes DEF Init, LaneOwner, GraphOwner, ParkedShape
<1> QED
    BY <1>1, <1>4, <1>5, <1>6, RestTypes DEF Inv, HandlerShape

LEMMA StepInv == Inv /\ [Next]_vars => Inv'
<1> SUFFICES ASSUME Inv, [Next]_vars PROVE Inv'
    OBVIOUS
<1>1. Moves /\ RestOK' /\ ParkedShape'
    BY StepMoves
<1>2. h' \in [Rpcs -> HandlerType] /\ HandlerShape'
    BY <1>1, HandlersStayGood
<1>3. TypeOK'
    BY <1>1, <1>2 DEF TypeOK, RestOK
<1> QED
    BY <1>1, <1>2, <1>3, SpawnedKept, LaneKept, GraphKept DEF Inv

(* What a handler carries, the lane, fresh names and the owner of the graph  *)
(* turn stay consistent in every behaviour.                                  *)
THEOREM InvHolds == Spec => []Inv
BY InitInv, StepInv, PTL DEF Spec

(* The variables of the conversation keep their types, for any RPCs, calls   *)
(* and stops.                                                                *)
THEOREM TypeCorrect == Spec => []TypeOK
BY InvHolds, PTL DEF Inv

(* Whatever turns are superseded, detached or stopped, a turn that has begun *)
(* and is not over owns the graph turn.                                      *)
THEOREM BegunTurnsOwnTheGraph == Spec => []GraphOwner
BY InvHolds, PTL DEF Inv

(* One continuation turn at a time, first in the lane until its terminal.    *)
THEOREM ContinuationsTakeTurns == Spec => []LaneOwner
BY InvHolds, PTL DEF Inv
=============================================================================
