-------------------------- MODULE InboundPumpProofs --------------------------
(***************************************************************************)
(* Proofs about InboundPump: type correctness, that a run which is not cut *)
(* short ends as terminal only when it owes nothing and loses no answer    *)
(* then, that it never stays open without a reason, and that it keeps the  *)
(* promise of RunRpc.                                                      *)
(***************************************************************************)
EXTENDS InboundPump, TLAPS

-----------------------------------------------------------------------------
(* What the scheduler's operations return.                                 *)

LEMMA EnqueueType ==
    ASSUME NEW C, NEW s \in SchedulerOf(C), NEW c \in C
    PROVE  Enqueue(s, c) \in SchedulerOf(C)
BY DEF SchedulerOf, Enqueue

LEMMA RequestEndType ==
    ASSUME NEW C, NEW s \in SchedulerOf(C), NEW r \in EndReasons
    PROVE  RequestEnd(s, r) \in SchedulerOf(C)
<1>1. <<>> \in Seq(C)
  OBVIOUS
<1> QED BY <1>1 DEF SchedulerOf, RequestEnd, Accepting

LEMMA EvaluateIdleType ==
    ASSUME NEW C, NEW s \in SchedulerOf(C), NEW owed
    PROVE  EvaluateIdle(s, owed) \in SchedulerOf(C)
BY RequestEndType DEF EvaluateIdle, EndReasons

LEMMA FinishType ==
    ASSUME NEW C, NEW s \in SchedulerOf(C), NEW owed
    PROVE  Finish(s, owed) \in SchedulerOf(C)
<1>1. CASE s.queue # <<>> /\ Accepting(s)
  <2>1. s.queue \in Seq(C) /\ s.queue # <<>>
    BY <1>1 DEF SchedulerOf
  <2>2. Head(s.queue) \in C /\ Tail(s.queue) \in Seq(C)
    BY <2>1
  <2> QED BY <1>1, <2>2 DEF SchedulerOf, Finish
<1>2. CASE ~(s.queue # <<>> /\ Accepting(s))
  <2>1. [s EXCEPT !.active = Nothing] \in SchedulerOf(C)
    BY DEF SchedulerOf
  <2> QED BY <1>2, <2>1, EvaluateIdleType DEF Finish
<1> QED BY <1>1, <1>2

\* requestEnd after the first is without effect; the first empties the FIFO.
LEMMA RequestEndEffect ==
    ASSUME NEW C, NEW s \in SchedulerOf(C), NEW r \in EndReasons
    PROVE  /\ ~Accepting(RequestEnd(s, r))
           /\ RequestEnd(s, r).active = s.active
           /\ ~Accepting(s) => RequestEnd(s, r) = s
           /\ Accepting(s) => RequestEnd(s, r).end = r /\ RequestEnd(s, r).queue = <<>>
BY DEF SchedulerOf, RequestEnd, Accepting, EndReasons

\* The idle edge ends the run exactly when nothing runs, waits or is owed.
LEMMA EvaluateIdleEffect ==
    ASSUME NEW C, NEW s \in SchedulerOf(C), NEW owed
    PROVE  LET e == EvaluateIdle(s, owed)
           IN  /\ e.active = s.active
               /\ ~Accepting(s) => e = s
               /\ ~IsIdle(s) => e = s
               /\ owed # {} => e = s
               /\ Accepting(s) /\ IsIdle(s) /\ owed = {} =>
                      e.end = "turn-terminal" /\ e.queue = <<>>
BY RequestEndEffect DEF EvaluateIdle, EndReasons

\* The next continuation starts, or the idle edge is evaluated.
LEMMA FinishEffect ==
    ASSUME NEW C, NEW s \in SchedulerOf(C), NEW owed
    PROVE  LET f == Finish(s, owed)
           IN  /\ s.queue # <<>> /\ Accepting(s) =>
                      f = [s EXCEPT !.active = Head(s.queue), !.queue = Tail(@)]
               /\ ~Accepting(s) => f = [s EXCEPT !.active = Nothing]
               /\ Accepting(s) /\ s.queue = <<>> /\ owed # {} =>
                      f = [s EXCEPT !.active = Nothing]
               /\ Accepting(s) /\ s.queue = <<>> /\ owed = {} =>
                      /\ f.active = Nothing /\ f.queue = <<>>
                      /\ f.end = "turn-terminal"
<1> DEFINE z == [s EXCEPT !.active = Nothing]
<1>1. z \in SchedulerOf(C) /\ z.active = Nothing /\ z.queue = s.queue /\ z.end = s.end
  BY DEF SchedulerOf
<1>2. /\ Accepting(z) <=> Accepting(s)
      /\ s.queue = <<>> => IsIdle(z)
  BY <1>1 DEF Accepting, IsIdle
<1> HIDE DEF z
<1>3. CASE s.queue # <<>> /\ Accepting(s)
  BY <1>3 DEF Finish
<1>4. CASE ~(s.queue # <<>> /\ Accepting(s))
  <2>1. Finish(s, owed) = EvaluateIdle(z, owed)
    BY <1>4 DEF Finish, z
  <2>2. ~Accepting(s) \/ owed # {} => EvaluateIdle(z, owed) = z
    BY <1>2 DEF EvaluateIdle
  <2>3. Accepting(s) /\ s.queue = <<>> /\ owed = {} =>
            EvaluateIdle(z, owed) = [z EXCEPT !.end = "turn-terminal", !.queue = <<>>]
    BY <1>2 DEF EvaluateIdle, RequestEnd
  <2> QED BY <1>1, <1>4, <2>1, <2>2, <2>3 DEF z, SchedulerOf
<1> QED BY <1>3, <1>4

-----------------------------------------------------------------------------
(* Type correctness.                                                       *)

LEMMA SettleType ==
    ASSUME TypeOK, NEW T
    PROVE  /\ Settle(T) \in [Tools -> ToolStates]
           /\ OwedIn(Settle(T)) = Owed \ T
           /\ \A t \in Tools : Settle(T)[t] # "none" <=> tool[t] # "none"
           /\ \A t \in Tools : Settle(T)[t] \in PendingStates => Settle(T)[t] = tool[t]
BY DEF TypeOK, Settle, Owed, OwedIn, PendingStates, ToolStates

LEMMA SettleNothing == TypeOK => Settle({}) = tool
BY DEF TypeOK, Settle

\* A continuation goes on, which changes its stage and settles calls.
LEMMA GoesType ==
    ASSUME TypeOK, NEW c \in Continuations, NEW T,
           NEW s \in {"new", "grace", "model", "passive", "cut"}, Goes(c, s, T),
           sched' \in SchedulerOf(Continuations)
    PROVE  TypeOK'
BY SettleType DEF Goes, TypeOK

LEMMA StepKeepsTypes == TypeOK /\ [Next]_vars => TypeOK'
<1> SUFFICES ASSUME TypeOK, [Next]_vars PROVE TypeOK'
  OBVIOUS
<1> USE DistinctAssumption
<1>1. ASSUME NEW c \in Continuations, Admit(c), tool' \in [Tools -> ToolStates],
             answer' \in [Tools -> AnswerKinds \cup {"none"}]
      PROVE  TypeOK'
  BY <1>1, EnqueueType DEF TypeOK, Admit
<1>2. ASSUME NEW c \in Chats \cup Controls, NEW R, ReadMessage(c, R) PROVE TypeOK'
  BY <1>1, <1>2, SettleType DEF ReadMessage, Continuations, TypeOK
<1>3. ASSUME NEW t \in Tools,
             ReadResponse(t) \/ \E kind \in {"result", "throw"} : ReadResult(t, kind)
      PROVE  TypeOK'
  <2>1. tool' \in [Tools -> ToolStates]
    BY <1>3 DEF ReadResult, ReadResponse, TypeOK, ToolStates, PendingStates
  <2>2. answer' \in [Tools -> AnswerKinds \cup {"none"}]
    BY <1>3 DEF ReadResult, ReadResponse, TypeOK, AnswerKinds
  <2> QED BY <1>1, <1>3, <2>1, <2>2 DEF ReadResult, ReadResponse, Continuations
<1>4. ASSUME NEW t \in Tools, ReadChildAnswer(t) \/ ReadUnmatchedResponse(t) PROVE TypeOK'
  BY <1>4, SettleType, EvaluateIdleType
     DEF ReadChildAnswer, ReadUnmatchedResponse, TypeOK, Continuations
<1>5. ASSUME NEW t \in Tools, QueryExpires(t) \/ BackgroundCalls(t) PROVE TypeOK'
  BY <1>5 DEF QueryExpires, BackgroundCalls, TypeOK, ToolStates, PendingStates
<1>6. ASSUME NEW T, PumpLeaves(T) PROVE TypeOK'
  BY <1>6, RequestEndType, SettleType DEF PumpLeaves, TypeOK, EndReasons
<1>7. ASSUME ForwarderExits PROVE TypeOK'
  BY <1>7, RequestEndType DEF ForwarderExits, TypeOK, EndReasons
<1>8. ASSUME NEW c \in Continuations, Begin(c) PROVE TypeOK'
  <2>1. RequestEnd(sched, "turn-terminal") \in SchedulerOf(Continuations)
    BY RequestEndType DEF TypeOK, EndReasons
  <2>2. CASE DeferMessage(c) \/ ResumePassively(c) \/ AbortByThrow(c)
    BY <2>1, <2>2, GoesType DEF DeferMessage, ResumePassively, AbortByThrow, TypeOK
  <2>3. CASE GraceOver(c) \/ BeginControl(c) \/ BeginAnswer(c)
    BY <2>3, GoesType DEF GraceOver, BeginControl, BeginAnswer, TypeOK
  <2>4. CASE BeginChat(c)
    BY <2>4 DEF BeginChat, TypeOK, ToolStates, PendingStates
  <2> QED BY <1>8, <2>2, <2>3, <2>4 DEF Begin
<1>9. ASSUME NEW c \in Continuations, NEW t \in Tools, NEW kind, CallTool(c, t, kind)
      PROVE  TypeOK'
  BY <1>9 DEF CallTool, TypeOK, ToolStates, PendingStates
<1>10. ASSUME ChildAnswered \/ AwaitIdle PROVE TypeOK'
  BY <1>10 DEF ChildAnswered, AwaitIdle, TypeOK
<1>11. ASSUME NEW c \in Continuations, NEW ok \in BOOLEAN, Ends(c, ok) PROVE TypeOK'
  <2>1. /\ RequestEnd(sched, "continuation-failed") \in SchedulerOf(Continuations)
        /\ RequestEnd(sched, "turn-terminal") \in SchedulerOf(Continuations)
    BY RequestEndType DEF TypeOK, EndReasons
  <2>2. sched' \in SchedulerOf(Continuations)
    BY <1>11, <2>1, FinishType DEF Ends, TypeOK
  <2>3. botched' \subseteq Tools
    BY <1>11 DEF Ends, TypeOK
  <2> QED BY <1>11, <2>2, <2>3 DEF Ends, TypeOK
<1>12. CASE UNCHANGED vars
  BY <1>12 DEF vars, TypeOK
<1> QED BY <1>2, <1>3, <1>4, <1>5, <1>6, <1>7, <1>8, <1>9, <1>10, <1>11, <1>12
        DEF Next, ReadAnswer, Progress, PumpEnds, RefuseResponse

LEMMA InitHasTypes == Init => TypeOK
<1>1. <<>> \in Seq(Continuations)
  OBVIOUS
<1>2. Init => tool \in [Tools -> ToolStates]
  BY DEF Init, ToolStates, PendingStates
<1> QED BY <1>1, <1>2 DEF Init, TypeOK, SchedulerOf, FreshScheduler

\* Type correctness for any number of messages and tool calls.
THEOREM TypeCorrect == Spec => []TypeOK
BY InitHasTypes, StepKeepsTypes, PTL DEF Spec

-----------------------------------------------------------------------------
(* The end of a run.                                                       *)

\* The FIFO: nothing waits behind nothing, and nothing after the end.
FifoInv ==
    /\ sched.active = Nothing => sched.queue = <<>>
    /\ ~Accepting(sched) => sched.queue = <<>>

\* Once the pump or the forwarder is through, the end has been requested, and
\* a returned RPC leaves nothing running.
DetachInv ==
    /\ rpc # "open" \/ pump = "ended" => ~Accepting(sched)
    /\ rpc = "returned" => sched.active = Nothing

\* Only a running continuation waits; as long as the run accepts, it is what a
\* sub-agent's pending call belongs to.
WaitInv ==
    /\ waitsFor # Nothing => sched.active # Nothing
    /\ \A t \in Tools : tool[t] = "child" /\ Accepting(sched) => waitsFor = t

\* A terminal run has nothing in line, and owes nothing unless it was cut
\* short; what still runs then is what declared the end.
TerminalInv ==
    sched.end = "turn-terminal" =>
        /\ sched.queue = <<>>
        /\ sched.active # Nothing => stage[sched.active] \in {"cut", "passive"}
        /\ Owed = {} \/ CutShort

\* An answer that was read belongs to a call that was made.
AnswersAreCalled == \A t \in sent \cap Tools : tool[t] # "none"

PumpInv ==
    /\ TypeOK /\ FifoInv /\ DetachInv /\ WaitInv /\ TerminalInv /\ AnswersAreCalled
    /\ IdleRunHasEnded /\ AnswersSurviveTerminal

\* Calls are settled or left alone; none is made.
OnlySettled ==
    /\ Owed' \subseteq Owed
    /\ \A t \in Tools : /\ tool[t] # "none" => tool'[t] # "none"
                        /\ tool'[t] = "child" => tool[t] = "child"

LEMMA SettleOnlySettles ==
    ASSUME TypeOK, NEW T, tool' = Settle(T)
    PROVE  OnlySettled /\ Owed' = Owed \ T
<1>1. Owed' = OwedIn(tool')
  BY DEF Owed
<1>2. Owed' = Owed \ T
  BY <1>1, SettleType
<1>3. \A t \in Tools : tool'[t] = "child" => tool[t] = "child"
  BY SettleType DEF PendingStates
<1> QED BY <1>2, <1>3, SettleType DEF OnlySettled

\* What was cut short stays so.
LEMMA CutStays ==
    ASSUME CutShort, \A c \in Continuations : stage[c] = "cut" => stage'[c] = "cut"
    PROVE  CutShort'
BY DEF CutShort

\* A step that leaves the scheduler alone, makes no call owed, settles one only
\* under a running continuation, and reads nothing.  A terminal run's
\* continuation does not move on.
LEMMA QuietKeepsPumpInv ==
    ASSUME PumpInv, TypeOK', UNCHANGED <<sched, sent, finished, pump>>,
           rpc' = rpc \/ (rpc # "open" /\ rpc' = "waiting")
                      \/ (rpc # "open" /\ rpc' = "returned" /\ sched.active = Nothing),
           OnlySettled, Owed' = Owed \/ sched.active # Nothing,
           sched.end = "turn-terminal" => stage' = stage,
           \A c \in Continuations : stage[c] = "cut" => stage'[c] = "cut",
           WaitInv'
    PROVE  PumpInv'
<1>1. FifoInv' /\ DetachInv' /\ AnswersAreCalled'
  BY DEF PumpInv, FifoInv, DetachInv, AnswersAreCalled, TypeOK, OnlySettled
<1>2. TerminalInv'
  BY CutStays DEF PumpInv, TerminalInv, OnlySettled
<1>3. IdleRunHasEnded'
  BY DEF PumpInv, IdleRunHasEnded, IsIdle
<1>4. AnswersSurviveTerminal'
  BY CutStays DEF PumpInv, AnswersSurviveTerminal, OnlySettled
<1> QED BY <1>1, <1>2, <1>3, <1>4 DEF PumpInv

\* Admitting a continuation never ends the run, and keeps what was admitted.
LEMMA EnqueueEffect ==
    ASSUME NEW C, NEW s \in SchedulerOf(C), NEW c \in C, Nothing \notin C,
           s.active = Nothing => s.queue = <<>>
    PROVE  LET e == Enqueue(s, c)
           IN  /\ e.end = s.end /\ e.active # Nothing
               /\ Admitted(s) \subseteq Admitted(e) /\ c \in Admitted(e)
<1>1. CASE s.active = Nothing
  <2>1. Enqueue(s, c).active = c /\ Enqueue(s, c).queue = <<>> /\ Enqueue(s, c).end = s.end
    BY <1>1 DEF Enqueue, SchedulerOf
  <2>2. Range(<<>>) = {}
    BY DEF Range
  <2> QED BY <1>1, <2>1, <2>2 DEF Admitted
<1>2. CASE s.active # Nothing
  <2>1. /\ Enqueue(s, c).active = s.active /\ Enqueue(s, c).end = s.end
        /\ Enqueue(s, c).queue = Append(s.queue, c)
    BY <1>2 DEF Enqueue, SchedulerOf
  <2>2. s.queue \in Seq(C)
    BY DEF SchedulerOf
  <2>3. Range(s.queue) \cup {c} \subseteq Range(Append(s.queue, c))
    <3>1. \A i \in 1..Len(s.queue) : Append(s.queue, c)[i] = s.queue[i]
      BY <2>2
    <3>2. Append(s.queue, c)[Len(s.queue) + 1] = c
      BY <2>2
    <3>3. /\ DOMAIN Append(s.queue, c) = 1..(Len(s.queue) + 1)
          /\ DOMAIN s.queue = 1..Len(s.queue) /\ Len(s.queue) \in Nat
      BY <2>2
    <3> QED BY <3>1, <3>2, <3>3 DEF Range
  <2> QED BY <1>2, <2>1, <2>3 DEF Admitted
<1> QED BY <1>1, <1>2

LEMMA AdmitKeepsPumpInv ==
    ASSUME PumpInv, TypeOK', NEW c \in Continuations, Admit(c), OnlySettled,
           c \in Tools => tool'[c] # "none"
    PROVE  PumpInv'
<1>1. /\ sched'.end = sched.end /\ sched'.active # Nothing
      /\ Admitted(sched) \subseteq Admitted(sched') /\ c \in Admitted(sched')
  BY EnqueueEffect, DistinctAssumption DEF PumpInv, TypeOK, FifoInv, Admit
<1>2. /\ Accepting(sched) /\ Accepting(sched') /\ sched'.end = "none"
      /\ sent' = sent \cup {c} /\ UNCHANGED <<waitsFor, stage, finished, pump, rpc>>
  BY <1>1 DEF Admit, CanAdmit, Accepting
<1>3. FifoInv' /\ DetachInv' /\ WaitInv' /\ TerminalInv' /\ AnswersAreCalled'
  BY <1>1, <1>2 DEF PumpInv, FifoInv, DetachInv, WaitInv, TerminalInv, AnswersAreCalled,
                    OnlySettled
<1>4. IdleRunHasEnded' /\ AnswersSurviveTerminal'
  BY <1>1, <1>2 DEF PumpInv, IdleRunHasEnded, AnswersSurviveTerminal, IsIdle, OnlySettled,
                    CutShort
<1> QED BY <1>3, <1>4 DEF PumpInv

\* A frame that is handled on the pump: calls are settled, then the idle edge
\* is evaluated.
LEMMA InlineKeepsPumpInv ==
    ASSUME PumpInv, TypeOK', NEW t \in Tools, CanAdmit, OnlySettled,
           sched' = EvaluateIdle(sched, Owed'), sent' = sent \cup {t},
           UNCHANGED <<waitsFor, stage, finished, pump, rpc>>,
           t \notin Owed', tool[t] # "none"
    PROVE  PumpInv'
<1>1. Accepting(sched) /\ pump = "reading" /\ rpc = "open"
  BY DEF CanAdmit, PumpInv, DetachInv, TypeOK
<1>2. CASE sched' = sched
  <2>1. FifoInv' /\ DetachInv' /\ WaitInv' /\ TerminalInv' /\ AnswersAreCalled'
    BY <1>1, <1>2 DEF PumpInv, FifoInv, DetachInv, WaitInv, TerminalInv, AnswersAreCalled,
                      Accepting, OnlySettled
  <2>2. IdleRunHasEnded'
    <3>1. sched \in SchedulerOf(Continuations)
      BY DEF PumpInv, TypeOK
    <3>2. IsIdle(sched) /\ Owed' = {} => EvaluateIdle(sched, Owed').end = "turn-terminal"
      BY <1>1, <3>1, EvaluateIdleEffect
    <3>3. ~(IsIdle(sched) /\ Owed' = {})
      BY <1>1, <1>2, <3>2 DEF Accepting
    <3> QED BY <1>2, <3>3 DEF IdleRunHasEnded
  <2>3. AnswersSurviveTerminal'
    BY <1>2 DEF PumpInv, AnswersSurviveTerminal, OnlySettled, CutShort
  <2> QED BY <2>1, <2>2, <2>3 DEF PumpInv
<1>3. CASE sched' # sched
  <2>1. /\ IsIdle(sched) /\ Owed' = {}
        /\ sched'.active = Nothing /\ sched'.queue = <<>> /\ sched'.end = "turn-terminal"
    <3>1. sched \in SchedulerOf(Continuations)
      BY DEF PumpInv, TypeOK
    <3>2. IsIdle(sched) /\ Owed' = {}
      BY <1>3 DEF EvaluateIdle
    <3> QED BY <1>1, <3>1, <3>2, EvaluateIdleEffect DEF IsIdle
  <2>2. ~Accepting(sched') /\ IsIdle(sched')
    BY <2>1 DEF Accepting, IsIdle
  <2>3. FifoInv' /\ DetachInv' /\ WaitInv' /\ TerminalInv' /\ AnswersAreCalled'
    BY <1>1, <2>1, <2>2
       DEF PumpInv, FifoInv, DetachInv, WaitInv, TerminalInv, AnswersAreCalled, IsIdle,
           OnlySettled
  <2>4. IdleRunHasEnded' /\ AnswersSurviveTerminal'
    BY <2>1, <2>2 DEF IdleRunHasEnded, AnswersSurviveTerminal
  <2> QED BY <2>3, <2>4 DEF PumpInv
<1> QED BY <1>2, <1>3

\* The end is requested because the input or the consumer is gone; calls may
\* be settled.
LEMMA DetachKeepsPumpInv ==
    ASSUME PumpInv, TypeOK', ForwarderExits \/ \E T : PumpLeaves(T)
    PROVE  PumpInv'
<1>1. PICK r \in {"input-ended", "consumer-closed"} : sched' = RequestEnd(sched, r)
  BY DEF PumpLeaves, ForwarderExits
<1>2. sched \in SchedulerOf(Continuations) /\ r \in EndReasons
  BY <1>1 DEF PumpInv, TypeOK, EndReasons
<1>3. /\ ~Accepting(sched') /\ sched'.active = sched.active
      /\ sched' = sched \/ (sched'.end = r /\ sched'.queue = <<>>)
  BY <1>1, <1>2, RequestEndEffect
<1>4. UNCHANGED <<waitsFor, sent, stage, finished>> /\ (rpc' = "returned" => rpc = "returned")
  BY DEF PumpLeaves, ForwarderExits
<1>5. OnlySettled
  <2>1. ASSUME NEW T, PumpLeaves(T) PROVE OnlySettled
    BY <2>1, SettleOnlySettles DEF PumpLeaves, PumpInv
  <2>2. CASE ForwarderExits
    <3>1. tool' = tool /\ Owed' = Owed
      BY <2>2 DEF ForwarderExits, Owed
    <3> QED BY <3>1 DEF OnlySettled
  <2> QED BY <2>1, <2>2
<1>6. FifoInv' /\ DetachInv' /\ WaitInv' /\ AnswersAreCalled'
  BY <1>1, <1>3, <1>4, <1>5
     DEF PumpInv, FifoInv, DetachInv, WaitInv, AnswersAreCalled, OnlySettled
<1>7. TerminalInv' /\ IdleRunHasEnded' /\ AnswersSurviveTerminal'
  BY <1>1, <1>3, <1>4, <1>5
     DEF PumpInv, TerminalInv, IdleRunHasEnded, AnswersSurviveTerminal, OnlySettled, CutShort
<1> QED BY <1>6, <1>7 DEF PumpInv

\* The running continuation declares the end: it owes nothing, or it cuts the
\* run short.
LEMMA DeclareKeepsPumpInv ==
    ASSUME PumpInv, TypeOK', NEW c \in Continuations, Runs({c}), stage[c] = "new",
           NEW s \in {"cut", "passive"}, NEW T, Goes(c, s, T),
           sched' = RequestEnd(sched, "turn-terminal"), Owed = {} \/ s = "cut"
    PROVE  PumpInv'
<1>1. /\ sched \in SchedulerOf(Continuations) /\ "turn-terminal" \in EndReasons
      /\ sched.active = c /\ c # Nothing /\ waitsFor = Nothing
      /\ UNCHANGED <<waitsFor, sent, finished, pump, rpc>>
  BY DistinctAssumption DEF PumpInv, TypeOK, EndReasons, Runs, Goes
<1>2. /\ ~Accepting(sched') /\ sched'.active = c
      /\ ~Accepting(sched) => sched' = sched
      /\ Accepting(sched) => sched'.end = "turn-terminal" /\ sched'.queue = <<>>
  BY <1>1, RequestEndEffect
<1>3. OnlySettled
  BY SettleOnlySettles DEF Goes, PumpInv
<1>4. /\ stage'[c] = s
      /\ \A d \in Continuations : stage[d] = "cut" => stage'[d] = "cut"
      /\ s = "cut" => CutShort'
  BY DEF Goes, PumpInv, TypeOK, CutShort
<1>5. Owed' = {} \/ CutShort'
  BY <1>3, <1>4 DEF OnlySettled
<1>6. sched.end # "turn-terminal"
  BY <1>1 DEF PumpInv, TerminalInv
<1>7. FifoInv' /\ DetachInv' /\ WaitInv' /\ TerminalInv' /\ AnswersAreCalled'
  BY <1>1, <1>2, <1>3, <1>4, <1>5, <1>6
     DEF PumpInv, FifoInv, DetachInv, WaitInv, TerminalInv, AnswersAreCalled, OnlySettled
<1>8. IdleRunHasEnded' /\ AnswersSurviveTerminal'
  BY <1>1, <1>2, <1>5, <1>6 DEF IdleRunHasEnded, AnswersSurviveTerminal, IsIdle, Accepting
<1> QED BY <1>7, <1>8 DEF PumpInv

\* A continuation ends: the next one starts, or the FIFO is empty and the idle
\* edge decides.
LEMMA EndsKeepsPumpInv ==
    ASSUME PumpInv, TypeOK', NEW c \in Continuations, NEW ok \in BOOLEAN, Ends(c, ok)
    PROVE  PumpInv'
<1> DEFINE logged == c \in Tools /\ answer[c] = "result"
           failed == ~ok /\ ~logged
           ends   == c \in Controls \/ (c \in Tools /\ answer[c] = "throw" /\ stage[c] = "model")
           asked  == ok /\ Owed = {} /\ ends
           s == IF failed THEN RequestEnd(sched, "continuation-failed")
                ELSE IF asked THEN RequestEnd(sched, "turn-terminal") ELSE sched
<1>1. /\ sched' = Finish(s, Owed) /\ sched.active = c /\ waitsFor' = Nothing
      /\ finished' = finished \cup {c} /\ UNCHANGED <<tool, sent, stage, pump>>
      /\ rpc' = rpc \/ (rpc = "waiting" /\ rpc' = "returned" /\ IsIdle(sched'))
      /\ waitsFor = Nothing \/ Sealed
  BY DEF Ends
<1>2. sched \in SchedulerOf(Continuations) /\ c # Nothing /\ Owed' = Owed
  BY <1>1, DistinctAssumption DEF PumpInv, TypeOK, Owed
<1>3. /\ s \in SchedulerOf(Continuations)
      /\ s.active = c
      /\ Accepting(s) => s = sched
      /\ ~Accepting(s) => s.queue = <<>>
      /\ s.end = "turn-terminal" /\ s.end # sched.end => Owed = {}
      /\ s.end # "none" => s.end = sched.end \/ Accepting(sched)
      /\ ~Accepting(sched) => s = sched
  <2>1. /\ RequestEnd(sched, "continuation-failed") \in SchedulerOf(Continuations)
        /\ RequestEnd(sched, "turn-terminal") \in SchedulerOf(Continuations)
    BY <1>2, RequestEndType DEF EndReasons
  <2>2. CASE failed
    <3>1. "continuation-failed" \in EndReasons
      BY DEF EndReasons
    <3>2. s = RequestEnd(sched, "continuation-failed")
      BY <2>2
    <3> HIDE DEF s, failed, asked, ends, logged
    <3> QED BY <1>1, <1>2, <2>1, <3>1, <3>2, RequestEndEffect DEF PumpInv, FifoInv
  <2>3. CASE ~failed /\ asked
    <3>1. "turn-terminal" \in EndReasons /\ Owed = {}
      BY <2>3 DEF EndReasons
    <3>2. s = RequestEnd(sched, "turn-terminal")
      BY <2>3
    <3> HIDE DEF s, failed, asked, ends, logged
    <3> QED BY <1>1, <1>2, <2>1, <3>1, <3>2, RequestEndEffect DEF PumpInv, FifoInv
  <2>4. CASE ~failed /\ ~asked
    <3>1. s = sched
      BY <2>4
    <3> HIDE DEF s, failed, asked, ends, logged
    <3> QED BY <1>1, <1>2, <3>1 DEF PumpInv, FifoInv, Accepting
  <2> QED BY <2>2, <2>3, <2>4
<1> HIDE DEF s, failed, asked, ends, logged
<1>5. CASE Accepting(s) /\ s.queue # <<>>
  <2>1. s = sched /\ sched' = [sched EXCEPT !.active = Head(sched.queue), !.queue = Tail(@)]
    BY <1>1, <1>2, <1>3, <1>5, FinishEffect
  <2>2. sched.queue \in Seq(Continuations) /\ sched.queue # <<>> /\ sched.end = "none"
    BY <1>2, <1>5, <2>1 DEF SchedulerOf, Accepting
  <2>3. /\ sched'.active = Head(sched.queue) /\ sched'.queue = Tail(sched.queue)
        /\ sched'.end = "none" /\ Head(sched.queue) \in Continuations
    BY <1>2, <2>1, <2>2 DEF SchedulerOf
  <2>4. sched'.active # Nothing /\ Accepting(sched') /\ rpc' = rpc
    BY <1>1, <2>3, DistinctAssumption DEF Accepting, IsIdle
  <2>5. Range(sched.queue) \subseteq Range(sched'.queue) \cup {sched'.active}
    <3>1. \A i \in DOMAIN sched.queue : i = 1 \/ i - 1 \in DOMAIN Tail(sched.queue)
      BY <2>2
    <3>2. \A i \in DOMAIN sched.queue : i # 1 => sched.queue[i] = Tail(sched.queue)[i - 1]
      BY <2>2
    <3>3. Head(sched.queue) = sched.queue[1]
      BY <2>2
    <3> QED BY <2>3, <3>1, <3>2, <3>3 DEF Range
  <2>6. FifoInv' /\ DetachInv' /\ TerminalInv' /\ AnswersAreCalled' /\ IdleRunHasEnded'
    <3>1. Accepting(sched) /\ sched'.end # "turn-terminal" /\ ~IsIdle(sched')
      BY <2>2, <2>3, <2>4 DEF Accepting, IsIdle
    <3>2. rpc = "open" /\ pump = "reading"
      BY <3>1 DEF PumpInv, DetachInv, TypeOK
    <3>3. FifoInv' /\ DetachInv'
      BY <1>1, <2>4, <3>2 DEF FifoInv, DetachInv
    <3>4. TerminalInv' /\ AnswersAreCalled' /\ IdleRunHasEnded'
      BY <1>1, <3>1 DEF PumpInv, TerminalInv, AnswersAreCalled, IdleRunHasEnded
    <3> QED BY <3>3, <3>4
  <2>7. WaitInv'
    <3>1. Accepting(sched) /\ ~Sealed
      BY <1>5, <2>1, <2>2 DEF PumpInv, DetachInv, Sealed, Accepting
    <3> QED BY <1>1, <2>4, <3>1 DEF PumpInv, WaitInv
  <2>8. AnswersSurviveTerminal'
    BY <1>1, <1>2, <2>2, <2>4, <2>5 DEF PumpInv, AnswersSurviveTerminal, Admitted, CutShort
  <2> QED BY <2>6, <2>7, <2>8 DEF PumpInv
<1>6. CASE ~(Accepting(s) /\ s.queue # <<>>)
  <2>1. /\ sched'.active = Nothing /\ sched'.queue = <<>>
        /\ IF Accepting(s) /\ Owed = {} THEN sched'.end = "turn-terminal"
                                        ELSE sched'.end = s.end
    <3>1. s.queue = <<>>
      BY <1>3, <1>6
    <3>2. CASE Accepting(s) /\ Owed = {}
      <4>1. /\ Finish(s, Owed).active = Nothing /\ Finish(s, Owed).queue = <<>>
            /\ Finish(s, Owed).end = "turn-terminal"
        BY <1>3, <3>1, <3>2, FinishEffect
      <4> QED BY <1>1, <3>2, <4>1
    <3>3. CASE ~(Accepting(s) /\ Owed = {})
      <4>1. sched' = [s EXCEPT !.active = Nothing]
        BY <1>1, <1>3, <3>1, <3>3, FinishEffect
      <4> QED BY <1>3, <3>1, <3>3, <4>1 DEF SchedulerOf
    <3> QED BY <3>2, <3>3
  <2>2. IsIdle(sched') /\ (~Accepting(s) => ~Accepting(sched'))
    BY <2>1 DEF IsIdle, Accepting
  <2>3. sched'.end = "turn-terminal" => Owed = {} \/ CutShort'
    BY <1>1, <1>3, <2>1 DEF PumpInv, TerminalInv, CutShort
  <2>4. FifoInv' /\ TerminalInv' /\ AnswersAreCalled'
    BY <1>1, <1>2, <2>1, <2>2, <2>3
       DEF PumpInv, FifoInv, TerminalInv, AnswersAreCalled
  <2>5. ~Accepting(sched) => ~Accepting(sched')
    BY <1>3, <2>2
  <2>6. DetachInv'
    BY <1>1, <2>1, <2>5 DEF PumpInv, DetachInv
  <2>7. WaitInv'
    <3>1. ASSUME Accepting(sched') PROVE Accepting(sched) /\ waitsFor = Nothing
      BY <1>1, <2>5, <3>1 DEF PumpInv, DetachInv, Sealed
    <3> QED BY <1>1, <3>1 DEF PumpInv, WaitInv
  <2>8. IdleRunHasEnded'
    BY <1>2, <2>1, <2>2 DEF IdleRunHasEnded, Accepting
  <2>9. AnswersSurviveTerminal'
    <3>1. CASE sched'.end = "turn-terminal"
      BY <1>2, <2>3, <3>1 DEF AnswersSurviveTerminal
    <3>2. CASE sched'.end = "none"
      <4>1. Accepting(s) /\ s = sched /\ sched.queue = <<>>
        BY <1>3, <1>6, <2>2, <3>2 DEF Accepting
      <4>2. Admitted(sched) \subseteq {c}
        BY <1>1, <4>1 DEF Admitted, Range
      <4> QED BY <1>1, <1>2, <4>1, <4>2
              DEF PumpInv, AnswersSurviveTerminal, Accepting, CutShort
    <3> QED BY <3>1, <3>2 DEF AnswersSurviveTerminal
  <2> QED BY <2>4, <2>6, <2>7, <2>8, <2>9 DEF PumpInv
<1> QED BY <1>5, <1>6

\* A tool call is made: only by a running continuation of an attached run, or
\* in the background of an open one.
LEMMA CallKeepsPumpInv ==
    ASSUME PumpInv, TypeOK', NEW t \in Tools, tool[t] = "none",
           NEW kind \in {"exec", "query", "child", "background"},
           tool' = [tool EXCEPT ![t] = kind],
           UNCHANGED <<sched, sent, stage, finished, pump, rpc>>,
           sched.end # "turn-terminal", sched.active # Nothing \/ Owed # {}, WaitInv'
    PROVE  PumpInv'
<1>1. \A u \in Tools : u # t => tool'[u] = tool[u]
  BY DEF PumpInv, TypeOK
<1>2. tool'[t] = kind /\ t \notin sent
  BY DEF PumpInv, TypeOK, AnswersAreCalled
<1>3. Owed' \subseteq Owed \cup {t} /\ Owed \subseteq Owed'
  BY <1>1 DEF Owed, OwedIn, PendingStates
<1>4. FifoInv' /\ DetachInv' /\ TerminalInv'
  BY DEF PumpInv, FifoInv, DetachInv, TerminalInv
<1>5. IdleRunHasEnded'
  BY <1>3 DEF PumpInv, IdleRunHasEnded, IsIdle
<1>6. AnswersAreCalled' /\ AnswersSurviveTerminal'
  BY <1>1, <1>2, <1>3 DEF PumpInv, AnswersAreCalled, AnswersSurviveTerminal, CutShort
<1> QED BY <1>4, <1>5, <1>6 DEF PumpInv

\* Every step: frames that are admitted, frames handled at once, the ends of
\* the pump and the forwarder, and what the running continuation does.
LEMMA StepKeepsPumpInv == PumpInv /\ [Next]_vars => PumpInv'
<1> SUFFICES ASSUME PumpInv, [Next]_vars PROVE PumpInv'
  OBVIOUS
<1>0. TypeOK /\ TypeOK'
  BY StepKeepsTypes DEF PumpInv
<1>1. ASSUME NEW c \in Chats \cup Controls, NEW R, ReadMessage(c, R) PROVE PumpInv'
  <2>1. c \in Continuations /\ c \notin Tools /\ Admit(c) /\ tool' = Settle(R)
    BY <1>1, DistinctAssumption DEF ReadMessage, Continuations
  <2> QED BY <1>0, <2>1, SettleOnlySettles, AdmitKeepsPumpInv
<1>2. ASSUME NEW t \in Tools,
             ReadResponse(t) \/ \E kind \in {"result", "throw"} : ReadResult(t, kind)
      PROVE  PumpInv'
  <2>1. t \in Continuations /\ Admit(t)
    BY <1>2 DEF ReadResult, ReadResponse, Continuations
  <2>2. /\ tool[t] \in {"exec", "restored", "query"}
        /\ tool' = tool \/ (tool' = [tool EXCEPT ![t] = "closed"])
    BY <1>2 DEF ReadResult, ReadResponse
  <2>3. /\ tool'[t] \in {"exec", "restored", "closed", "query"}
        /\ \A u \in Tools : u # t => tool'[u] = tool[u]
    BY <1>0, <2>2 DEF TypeOK
  <2>4. OnlySettled
    BY <2>2, <2>3 DEF OnlySettled, Owed, OwedIn, PendingStates
  <2> QED BY <1>0, <2>1, <2>3, <2>4, AdmitKeepsPumpInv
<1>3. ASSUME NEW t \in Tools, ReadChildAnswer(t) \/ ReadUnmatchedResponse(t) PROVE PumpInv'
  <2>1. PICK T : tool' = Settle(T) /\ (T = {t} \/ (T = Owed /\ tool[t] \in {"closed", "astray"}))
    BY <1>3 DEF ReadChildAnswer, ReadUnmatchedResponse
  <2>2. OnlySettled /\ Owed' = Owed \ T /\ Owed' = OwedIn(tool')
    BY <1>0, <2>1, SettleOnlySettles DEF Owed
  <2>3. t \notin Owed' /\ tool[t] # "none"
    BY <1>3, <2>1, <2>2 DEF ReadChildAnswer, ReadUnmatchedResponse
  <2>4. /\ CanAdmit /\ sched' = EvaluateIdle(sched, Owed') /\ sent' = sent \cup {t}
        /\ UNCHANGED <<waitsFor, stage, finished, pump, rpc>>
    BY <1>3, <2>2 DEF ReadChildAnswer, ReadUnmatchedResponse
  <2> QED BY <1>0, <2>2, <2>3, <2>4, InlineKeepsPumpInv
<1>4. ASSUME ForwarderExits \/ \E T : PumpLeaves(T) PROVE PumpInv'
  BY <1>0, <1>4, DetachKeepsPumpInv
<1>5. ASSUME NEW t \in Tools, QueryExpires(t) PROVE PumpInv'
  <2>1. /\ tool[t] \in {"query", "child"}
        /\ tool' = [tool EXCEPT ![t] = IF @ = "query" THEN "closed" ELSE "settled"]
        /\ UNCHANGED <<sched, waitsFor, sent, stage, finished, botched, pump, rpc>>
    BY <1>5 DEF QueryExpires
  <2>2. /\ tool'[t] = IF tool[t] = "query" THEN "closed" ELSE "settled"
        /\ \A u \in Tools : u # t => tool'[u] = tool[u]
    BY <1>0, <2>1 DEF TypeOK
  <2>3. Owed' = IF tool[t] = "query" THEN Owed ELSE Owed \ {t}
    BY <2>1, <2>2 DEF Owed, OwedIn, PendingStates
  <2>4. WaitInv' /\ OnlySettled
    BY <2>1, <2>2, <2>3 DEF PumpInv, WaitInv, OnlySettled
  <2>5. FifoInv' /\ DetachInv' /\ TerminalInv' /\ AnswersAreCalled' /\ AnswersSurviveTerminal'
    BY <2>1, <2>4 DEF PumpInv, FifoInv, DetachInv, TerminalInv, AnswersAreCalled,
                      AnswersSurviveTerminal, OnlySettled, CutShort
  <2>6. IdleRunHasEnded'
    <3>1. CASE tool[t] = "query"
      BY <2>1, <2>3, <3>1 DEF PumpInv, IdleRunHasEnded
    <3>2. CASE tool[t] = "child"
      <4>1. Accepting(sched) => waitsFor = t /\ t # Nothing /\ sched.active # Nothing
        BY <3>2, DistinctAssumption DEF PumpInv, WaitInv, Continuations
      <4> QED BY <2>1, <4>1 DEF IdleRunHasEnded, IsIdle
    <3> QED BY <2>1, <3>1, <3>2
  <2> QED BY <1>0, <2>4, <2>5, <2>6 DEF PumpInv
<1>6. ASSUME NEW c \in Continuations, Begin(c) PROVE PumpInv'
  <2>1. /\ sched.active = c /\ sched.active # Nothing /\ waitsFor = Nothing
        /\ stage[c] \in {"new", "grace"}
    BY <1>6, DistinctAssumption
       DEF Begin, DeferMessage, ResumePassively, BeginChat, GraceOver, BeginControl,
           BeginAnswer, AbortByThrow, Starts, Runs, Continuations
  <2>2. ASSUME NEW s, NEW T, Goes(c, s, T), sched' = sched PROVE PumpInv'
    <3>1. OnlySettled /\ UNCHANGED <<waitsFor, sent, finished, pump, rpc>>
      BY <1>0, <2>2, SettleOnlySettles DEF Goes
    <3>2. /\ sched.end # "turn-terminal"
          /\ \A d \in Continuations : stage[d] = "cut" => stage'[d] = "cut"
      BY <1>0, <2>1, <2>2 DEF PumpInv, TerminalInv, Goes, TypeOK
    <3>3. WaitInv'
      BY <2>1, <2>2, <3>1 DEF PumpInv, WaitInv, OnlySettled
    <3> QED BY <1>0, <2>1, <2>2, <3>1, <3>2, <3>3, QuietKeepsPumpInv
  <2>3. CASE DeferMessage(c) \/ AbortByThrow(c)
    <3>1. \E T : Goes(c, "cut", T)
      BY <2>3 DEF DeferMessage, AbortByThrow
    <3> QED BY <1>0, <2>3, <3>1, DeclareKeepsPumpInv DEF DeferMessage, AbortByThrow, Starts
  <2>4. CASE ResumePassively(c)
    <3>1. CASE Owed = {}
      BY <1>0, <2>4, <3>1, DeclareKeepsPumpInv DEF ResumePassively, Starts
    <3>2. CASE Owed # {}
      BY <2>2, <2>4, <3>2 DEF ResumePassively
    <3> QED BY <3>1, <3>2
  <2>5. CASE GraceOver(c) \/ BeginControl(c) \/ BeginAnswer(c)
    BY <2>2, <2>5 DEF GraceOver, BeginControl, BeginAnswer
  <2>6. CASE BeginChat(c)
    <3>1. /\ tool' = [t \in Tools |-> IF tool[t] = "query" THEN "closed" ELSE tool[t]]
          /\ stage' = [stage EXCEPT ![c] = "grace"]
          /\ UNCHANGED <<sched, waitsFor, sent, finished, pump, rpc>>
      BY <2>6 DEF BeginChat
    <3>2. OnlySettled /\ \A u \in Tools : tool'[u] = "child" <=> tool[u] = "child"
      BY <3>1 DEF OnlySettled, Owed, OwedIn, PendingStates
    <3>3. WaitInv'
      BY <3>1, <3>2 DEF PumpInv, WaitInv
    <3>4. /\ sched.end # "turn-terminal"
          /\ \A d \in Continuations : stage[d] = "cut" => stage'[d] = "cut"
      BY <1>0, <2>1, <3>1 DEF PumpInv, TerminalInv, TypeOK
    <3> QED BY <1>0, <2>1, <3>1, <3>2, <3>3, <3>4, QuietKeepsPumpInv
  <2> QED BY <1>6, <2>3, <2>4, <2>5, <2>6 DEF Begin
<1>7. ASSUME NEW c \in Continuations, NEW t \in Tools, NEW kind \in {"exec", "query", "child"},
             CallTool(c, t, kind)
      PROVE  PumpInv'
  <2>1. /\ sched.active = c /\ waitsFor = Nothing /\ tool[t] = "none" /\ c # Nothing
        /\ stage[c] = "model"
        /\ tool' = [tool EXCEPT ![t] = kind]
        /\ waitsFor' = IF kind = "child" THEN t ELSE Nothing
        /\ UNCHANGED <<sched, sent, stage, finished, pump, rpc>>
    BY <1>7, DistinctAssumption DEF CallTool, Runs
  <2>2. sched.end # "turn-terminal"
    BY <2>1 DEF PumpInv, TerminalInv
  <2>3. WaitInv'
    <3>1. \A u \in Tools : tool[u] = "child" /\ Accepting(sched) => FALSE
      BY <2>1, DistinctAssumption DEF PumpInv, WaitInv, Continuations
    <3>2. \A u \in Tools : u # t => tool'[u] = tool[u]
      BY <1>0, <2>1 DEF TypeOK
    <3>3. tool'[t] = kind
      BY <1>0, <2>1 DEF TypeOK
    <3> QED BY <2>1, <3>1, <3>2, <3>3 DEF WaitInv
  <2> QED BY <1>0, <2>1, <2>2, <2>3, CallKeepsPumpInv
<1>8. ASSUME NEW t \in Tools, BackgroundCalls(t) PROVE PumpInv'
  <2>1. /\ tool[t] = "none" /\ tool' = [tool EXCEPT ![t] = "background"]
        /\ UNCHANGED <<sched, waitsFor, sent, stage, finished, pump, rpc>>
        /\ sched.end # "turn-terminal" /\ (sched.active # Nothing \/ Owed # {})
    BY <1>8 DEF BackgroundCalls, Accepting, IsIdle, PumpInv, FifoInv
  <2>2. WaitInv'
    BY <1>0, <2>1 DEF PumpInv, WaitInv, TypeOK
  <2> QED BY <1>0, <2>1, <2>2, CallKeepsPumpInv
<1>9. ASSUME ChildAnswered PROVE PumpInv'
  <2>1. /\ UNCHANGED <<sched, tool, sent, stage, finished, pump, rpc>> /\ waitsFor' = Nothing
        /\ waitsFor \notin Owed /\ Owed' = Owed
    BY <1>9 DEF ChildAnswered, Owed
  <2>2. WaitInv'
    <3>1. \A u \in Tools : tool[u] = "child" => u \in Owed
      BY DEF Owed, OwedIn, PendingStates
    <3> QED BY <2>1, <3>1 DEF PumpInv, WaitInv
  <2> QED BY <1>0, <2>1, <2>2, QuietKeepsPumpInv DEF OnlySettled
<1>10. ASSUME AwaitIdle PROVE PumpInv'
  <2>1. /\ UNCHANGED <<sched, waitsFor, tool, sent, stage, finished, pump>> /\ Owed' = Owed
        /\ rpc # "open" /\ (rpc' = "waiting" \/ (rpc' = "returned" /\ sched.active = Nothing))
    BY <1>10 DEF AwaitIdle, Owed, IsIdle
  <2>2. WaitInv'
    BY <2>1 DEF PumpInv, WaitInv
  <2> QED BY <1>0, <2>1, <2>2, QuietKeepsPumpInv DEF OnlySettled
<1>11. ASSUME NEW c \in Continuations, NEW ok \in BOOLEAN, Ends(c, ok) PROVE PumpInv'
  BY <1>0, <1>11, EndsKeepsPumpInv
<1>12. CASE UNCHANGED vars
  <2>1. Owed' = Owed /\ WaitInv'
    BY <1>12 DEF vars, Owed, WaitInv, PumpInv
  <2> QED BY <1>0, <1>12, <2>1, QuietKeepsPumpInv DEF vars, OnlySettled
<1> QED BY <1>1, <1>2, <1>3, <1>4, <1>5, <1>6, <1>7, <1>8, <1>9, <1>10, <1>11, <1>12
        DEF Next, ReadAnswer, Progress, PumpEnds, RefuseResponse

LEMMA InitHasPumpInv == Init => PumpInv
<1> SUFFICES ASSUME Init PROVE PumpInv
  OBVIOUS
<1>1. TypeOK /\ \A t \in Tools : tool[t] # "child"
  BY InitHasTypes DEF Init
<1> QED BY <1>1, DistinctAssumption
        DEF Init, PumpInv, FreshScheduler, FifoInv, DetachInv, WaitInv, TerminalInv,
            AnswersAreCalled, IdleRunHasEnded, AnswersSurviveTerminal, IsIdle, Accepting

LEMMA AlwaysPumpInv == Spec => []PumpInv
BY InitHasPumpInv, StepKeepsPumpInv, PTL DEF Spec

\* However frames, deadlines and continuations interleave, a run that ended as
\* terminal leaves no tool call to a client that may close its stream, unless
\* the client's error or a message met by calls of before a restart cut it
\* short.
THEOREM TerminalRunsOweNothing == Spec => []TerminalOwesNothing
<1>1. PumpInv => TerminalOwesNothing
  BY DEF PumpInv, TerminalInv, TerminalOwesNothing
<1> QED BY <1>1, AlwaysPumpInv, PTL

\* An answer that was read before a terminal end is not lost by it, unless the
\* run was cut short.
THEOREM AnswersAreNotLost == Spec => []AnswersSurviveTerminal
<1>1. PumpInv => AnswersSurviveTerminal
  BY DEF PumpInv
<1> QED BY <1>1, AlwaysPumpInv, PTL

\* Whoever settles the last call, the idle edge is not missed.
THEOREM IdleEdgesAreSeen == Spec => []IdleRunHasEnded
<1>1. PumpInv => IdleRunHasEnded
  BY DEF PumpInv
<1> QED BY <1>1, AlwaysPumpInv, PTL

-----------------------------------------------------------------------------
(* The promise about the run.                                              *)

\* Calls are made only before the end: what still runs after it runs behind a
\* sealed attachment, or has declared the end and calls nothing.
EndedIsSealed ==
    sched.active # Nothing /\ ~Accepting(sched) =>
        Sealed \/ stage[sched.active] \in {"cut", "passive"}

\* A response is read once.
QueriesUnread ==
    \A t \in Tools : tool[t] \in {"query", "child", "background"} => t \notin sent

\* What was enqueued for a call was read.
AnswersWereRead == \A t \in Tools : answer[t] # "none" => t \in sent

RunInv == PumpInv /\ EndedIsSealed /\ QueriesUnread /\ AnswersWereRead

Made   == {t \in Tools : tool[t] # "none"}
Old    == {t \in Tools : tool[t] = "restored"}
Thrown == {t \in Tools : answer[t] = "throw"}

LEMMA SeenIs ==
    /\ Seen = [runs |-> sched.active, line |-> sched.queue, taken |-> sent, over |-> finished,
               thrown |-> Thrown, made |-> Made, open |-> Owed, old |-> Old,
               end |-> sched.end, back |-> rpc = "returned"]
    /\ Seen' = [runs |-> sched'.active, line |-> sched'.queue, taken |-> sent',
                over |-> finished', thrown |-> Thrown', made |-> Made', open |-> Owed',
                old |-> Old', end |-> sched'.end, back |-> rpc' = "returned"]
BY DEF Seen, Made, Old, Thrown

LEMMA SeenHas ==
    /\ Seen.runs = sched.active /\ Seen.line = sched.queue /\ Seen.taken = sent
    /\ Seen.over = finished /\ Seen.thrown = Thrown
    /\ Seen.made = Made /\ Seen.open = Owed /\ Seen.old = Old
    /\ Seen.end = sched.end /\ Seen.back = (rpc = "returned")
BY SeenIs

\* The calls lose their pending ones at most.
CallsSettled == Made' = Made /\ Owed' \subseteq Owed /\ Old' = Old \ (Owed \ Owed')

LEMMA SettlingSettles ==
    ASSUME TypeOK, NEW T, tool' = Settle(T)
    PROVE  CallsSettled /\ Owed' = Owed \ T
<1>1. Owed' = Owed \ T
  BY SettleOnlySettles
<1>2. Made' = Made
  BY SettleType DEF Made
<1>3. Old' = Old \ (Owed \ Owed')
  <2>1. \A t \in Tools : t \in Old => t \in Owed
    BY DEF Old, Owed, OwedIn, PendingStates
  <2>2. \A t \in Tools : tool'[t] = IF t \notin T \cap Owed THEN tool[t]
                                    ELSE IF tool[t] \in {"query", "closed"} /\ t \notin sent
                                           THEN "astray" ELSE "settled"
    BY DEF Settle
  <2> QED BY <1>1, <2>1, <2>2 DEF Old
<1> QED BY <1>1, <1>2, <1>3 DEF CallsSettled

\* No call changes but t, which stays pending or is settled.
LEMMA OneSettles ==
    ASSUME TypeOK, NEW t \in Tools, tool[t] \in {"query", "child"},
           NEW s \in {"closed", "settled"}, tool' = [tool EXCEPT ![t] = s]
    PROVE  CallsSettled /\ Owed' = IF s = "closed" THEN Owed ELSE Owed \ {t}
<1>1. tool'[t] = s /\ \A u \in Tools : u # t => tool'[u] = tool[u]
  BY DEF TypeOK
<1>2. Owed' = IF s = "closed" THEN Owed ELSE Owed \ {t}
  BY <1>1 DEF Owed, OwedIn, PendingStates
<1>3. Made' = Made /\ Old' = Old
  BY <1>1 DEF Made, Old
<1>4. t \notin Old
  BY DEF Old
<1> QED BY <1>2, <1>3, <1>4 DEF CallsSettled

\* What the end of a continuation makes of the FIFO.
LEMMA EndsEffect ==
    ASSUME PumpInv, NEW c \in Continuations, NEW ok \in BOOLEAN, Ends(c, ok)
    PROVE  \/ /\ Accepting(sched) /\ sched.queue # <<>>
              /\ sched'.active = Head(sched.queue) /\ sched'.queue = Tail(sched.queue)
              /\ sched'.end = "none"
           \/ /\ sched'.active = Nothing /\ sched'.queue = <<>>
              /\ \/ Accepting(sched) /\ Owed = {} /\ sched'.end = "turn-terminal"
                 \/ Accepting(sched) /\ sched'.end = "continuation-failed"
                 \/ /\ sched.queue = <<>> /\ sched'.end = sched.end
                    /\ Accepting(sched) => Owed # {}
<1>1. PICK s : /\ sched' = Finish(s, Owed)
               /\ \/ s = RequestEnd(sched, "continuation-failed")
                  \/ Owed = {} /\ s = RequestEnd(sched, "turn-terminal")
                  \/ s = sched
  BY DEF Ends
<1>2. sched \in SchedulerOf(Continuations)
  BY DEF PumpInv, TypeOK
<1>3. \/ s = sched
      \/ /\ Accepting(sched) /\ ~Accepting(s) /\ s.queue = <<>> /\ s \in SchedulerOf(Continuations)
         /\ s.end = "continuation-failed" \/ (Owed = {} /\ s.end = "turn-terminal")
  <2>1. ASSUME NEW r \in EndReasons, s = RequestEnd(sched, r),
               r = "continuation-failed" \/ (Owed = {} /\ r = "turn-terminal")
        PROVE  \/ s = sched
               \/ /\ Accepting(sched) /\ ~Accepting(s) /\ s.queue = <<>>
                  /\ s \in SchedulerOf(Continuations)
                  /\ s.end = "continuation-failed" \/ (Owed = {} /\ s.end = "turn-terminal")
    BY <1>2, <2>1, RequestEndEffect, RequestEndType
  <2>2. "continuation-failed" \in EndReasons /\ "turn-terminal" \in EndReasons
    BY DEF EndReasons
  <2> QED BY <1>1, <2>1, <2>2
<1>4. CASE s = sched
  <2>1. CASE Accepting(sched) /\ sched.queue # <<>>
    <3>1. sched' = [sched EXCEPT !.active = Head(sched.queue), !.queue = Tail(@)]
      BY <1>1, <1>2, <1>4, <2>1, FinishEffect
    <3> QED BY <1>2, <2>1, <3>1 DEF SchedulerOf, Accepting
  <2>2. CASE ~(Accepting(sched) /\ sched.queue # <<>>)
    <3>1. sched.queue = <<>>
      BY <2>2 DEF PumpInv, FifoInv
    <3>2. CASE Accepting(sched) /\ Owed = {}
      <4>1. /\ Finish(sched, Owed).active = Nothing /\ Finish(sched, Owed).queue = <<>>
            /\ Finish(sched, Owed).end = "turn-terminal"
        BY <1>2, <3>1, <3>2, FinishEffect
      <4> QED BY <1>1, <1>4, <3>2, <4>1
    <3>3. CASE ~(Accepting(sched) /\ Owed = {})
      <4>1. sched' = [sched EXCEPT !.active = Nothing]
        BY <1>1, <1>2, <1>4, <3>1, <3>3, FinishEffect
      <4> QED BY <1>2, <3>1, <3>3, <4>1 DEF SchedulerOf
    <3> QED BY <3>2, <3>3
  <2> QED BY <2>1, <2>2
<1>5. CASE s # sched
  <2>1. sched' = [s EXCEPT !.active = Nothing]
    BY <1>1, <1>3, <1>5, FinishEffect
  <2> QED BY <1>3, <1>5, <2>1 DEF SchedulerOf
<1> QED BY <1>4, <1>5

\* A frame that is admitted, which may settle calls.
LEMMA AdmitShows ==
    ASSUME RunInv, NEW c \in Continuations, Admit(c), c \notin sent, CallsSettled,
           Thrown' = Thrown \/ (c \in Tools /\ Thrown' = Thrown \cup {c})
    PROVE  Promise!Taken(Seen, Seen')
<1> DEFINE S == Owed \ Owed'
<1>1. /\ sched.end = "none" /\ sched' = Enqueue(sched, c) /\ sent' = sent \cup {c}
      /\ UNCHANGED <<finished, rpc>>
  BY DEF Admit, CanAdmit, Accepting
<1>2. /\ sched'.active = IF sched.active = Nothing THEN c ELSE sched.active
      /\ sched'.queue = IF sched.active = Nothing THEN sched.queue ELSE Append(sched.queue, c)
      /\ sched'.end = "none"
  BY <1>1 DEF Enqueue, RunInv, PumpInv, TypeOK, SchedulerOf
<1>3. /\ S \in SUBSET Owed /\ Owed' = Owed \ S /\ Old' = Old \ S /\ Made' = Made
  BY DEF CallsSettled
<1>4. PICK G \in {{}, {c} \cap Tools} : Thrown' = Thrown \cup G
  OBVIOUS
<1> HIDE DEF S
<1>5. Seen' = [runs |-> IF sched.active = Nothing THEN c ELSE sched.active,
               line |-> IF sched.active = Nothing THEN sched.queue ELSE Append(sched.queue, c),
               taken |-> sent \cup {c}, over |-> finished, thrown |-> Thrown \cup G,
               made |-> Made, open |-> Owed \ S, old |-> Old \ S,
               end |-> "none", back |-> rpc = "returned"]
  BY <1>1, <1>2, <1>3, <1>4, SeenIs
<1>6. Seen' = [Seen EXCEPT !.runs = IF @ = Nothing THEN c ELSE @,
                           !.line = IF Seen.runs = Nothing THEN @ ELSE Append(@, c),
                           !.taken = @ \cup {c}, !.thrown = @ \cup G,
                           !.open = @ \ S, !.old = @ \ S]
  <2> DEFINE q == [Seen EXCEPT !.runs = IF @ = Nothing THEN c ELSE @,
                               !.line = IF Seen.runs = Nothing THEN @ ELSE Append(@, c),
                               !.taken = @ \cup {c}, !.thrown = @ \cup G,
                               !.open = @ \ S, !.old = @ \ S]
  <2>1. q \in [runs : {IF sched.active = Nothing THEN c ELSE sched.active},
               line : {IF sched.active = Nothing THEN sched.queue ELSE Append(sched.queue, c)},
               taken : {sent \cup {c}}, over : {finished}, thrown : {Thrown \cup G},
               made : {Made}, open : {Owed \ S}, old : {Old \ S},
               end : {"none"}, back : {rpc = "returned"}]
    BY <1>1, SeenIs
  <2> HIDE DEF q
  <2>2. Seen' = q
    BY <1>5, <2>1
  <2> QED BY <2>2 DEF q
<1> QED BY <1>1, <1>3, <1>6, SeenHas DEF Promise!Taken

\* A step that settles calls, at most by an answer that is handled at once.
LEMMA SettledShows ==
    ASSUME RunInv, UNCHANGED <<finished, answer, rpc>>, CallsSettled,
           \/ sched' = EvaluateIdle(sched, Owed')
           \/ sched' = sched /\ (sched.active # Nothing \/ Owed' # {} \/ ~Accepting(sched)),
           sent' = sent \/ \E t \in Made \ sent : Accepting(sched) /\ sent' = sent \cup {t}
    PROVE  Promise!Settled(Seen, Seen')
<1> DEFINE S == Owed \ Owed'
           e == IF sched.end = "none" /\ sched.active = Nothing /\ Owed \ S = {}
                  THEN "turn-terminal" ELSE sched.end
<1>1. Owed' = Owed \ S /\ S \in SUBSET Owed /\ Old' = Old \ S /\ Made' = Made
  BY DEF CallsSettled
<1>2. sched \in SchedulerOf(Continuations) /\ (sched.active = Nothing => sched.queue = <<>>)
  BY DEF RunInv, PumpInv, TypeOK, FifoInv
<1>3. sched'.active = sched.active /\ sched'.queue = sched.queue /\ sched'.end = e
  <2>1. CASE sched' = EvaluateIdle(sched, Owed')
    <3>1. CASE Accepting(sched) /\ IsIdle(sched) /\ Owed' = {}
      <4>1. /\ sched'.active = sched.active /\ sched'.end = "turn-terminal"
            /\ sched'.queue = <<>>
        BY <1>2, <2>1, <3>1, EvaluateIdleEffect
      <4> QED BY <1>1, <3>1, <4>1 DEF IsIdle, Accepting
    <3>2. CASE ~(Accepting(sched) /\ IsIdle(sched) /\ Owed' = {})
      <4>1. sched' = sched
        BY <2>1, <3>2 DEF EvaluateIdle
      <4> QED BY <1>1, <1>2, <3>2, <4>1 DEF IsIdle, Accepting
    <3> QED BY <3>1, <3>2
  <2>2. CASE sched' = sched /\ sched.active # Nothing
    BY <2>2
  <2>3. CASE sched' = sched /\ (Owed' # {} \/ ~Accepting(sched))
    BY <1>1, <2>3 DEF Accepting
  <2> QED BY <2>1, <2>2, <2>3
<1>4. PICK T \in {{}} \cup {{t} : t \in Made \ sent} :
          sent' = sent \cup T /\ (T # {} => sched.end = "none")
  BY DEF Accepting
<1>5. Seen' = [runs |-> sched.active, line |-> sched.queue, taken |-> sent \cup T,
               over |-> finished, thrown |-> Thrown, made |-> Made, open |-> Owed \ S,
               old |-> Old \ S, end |-> e, back |-> rpc = "returned"]
  BY <1>1, <1>3, <1>4, SeenIs DEF Thrown
<1> HIDE DEF S, e
<1>6. Seen' = [Seen EXCEPT !.taken = @ \cup T, !.open = @ \ S, !.old = @ \ S, !.end = e]
  <2> DEFINE q == [Seen EXCEPT !.taken = @ \cup T, !.open = @ \ S, !.old = @ \ S, !.end = e]
  <2>1. q \in [runs : {sched.active}, line : {sched.queue}, taken : {sent \cup T},
               over : {finished}, thrown : {Thrown}, made : {Made}, open : {Owed \ S},
               old : {Old \ S}, end : {e}, back : {rpc = "returned"}]
    BY SeenIs
  <2> HIDE DEF q
  <2>2. Seen' = q
    BY <1>5, <2>1
  <2> QED BY <2>2 DEF q
<1>7. e = IF Seen.end = "none" /\ Seen.runs = Nothing /\ Seen.open \ S = {}
            THEN "turn-terminal" ELSE Seen.end
  BY SeenHas DEF e
<1> QED BY <1>1, <1>4, <1>6, <1>7, SeenHas DEF Promise!Settled

\* The end is requested by what runs, or by a side that is gone; calls may be
\* settled in the same step.
LEMMA RequestShows ==
    ASSUME RunInv, UNCHANGED <<sent, answer, finished>>, CallsSettled,
           (rpc' = "returned") = (rpc = "returned"),
           Accepting(sched), NEW r \in EndReasons, sched' = RequestEnd(sched, r)
    PROVE  LET S == Owed \ Owed'
           IN  /\ S \in SUBSET Seen.open /\ Seen.end = "none" /\ Seen.open \ S = Owed'
               /\ Seen' = [Seen EXCEPT !.line = <<>>, !.open = @ \ S, !.old = @ \ S,
                                       !.end = r]
<1> DEFINE S == Owed \ Owed'
<1>1. Owed' = Owed \ S /\ S \in SUBSET Owed /\ Old' = Old \ S /\ Made' = Made
  BY DEF CallsSettled
<1>2. sched \in SchedulerOf(Continuations)
  BY DEF RunInv, PumpInv, TypeOK
<1>3. sched'.active = sched.active /\ sched'.queue = <<>> /\ sched'.end = r
  BY <1>2, RequestEndEffect
<1>4. Seen' = [runs |-> sched.active, line |-> <<>>, taken |-> sent, over |-> finished,
               thrown |-> Thrown, made |-> Made, open |-> Owed \ S, old |-> Old \ S,
               end |-> r, back |-> rpc = "returned"]
  BY <1>1, <1>3, SeenIs DEF Thrown
<1> HIDE DEF S
<1>5. Seen' = [Seen EXCEPT !.line = <<>>, !.open = @ \ S, !.old = @ \ S, !.end = r]
  <2> DEFINE q == [Seen EXCEPT !.line = <<>>, !.open = @ \ S, !.old = @ \ S, !.end = r]
  <2>1. q \in [runs : {sched.active}, line : {<<>>}, taken : {sent},
               over : {finished}, thrown : {Thrown}, made : {Made}, open : {Owed \ S},
               old : {Old \ S}, end : {r}, back : {rpc = "returned"}]
    BY SeenIs
  <2> HIDE DEF q
  <2>2. Seen' = q
    BY <1>4, <2>1
  <2> QED BY <2>2 DEF q
<1> QED BY <1>1, <1>5, SeenHas DEF Accepting, S

\* The end of a continuation.
LEMMA EndsShow ==
    ASSUME RunInv, NEW c \in Continuations, NEW ok \in BOOLEAN, Ends(c, ok)
    PROVE  Promise!Step(Seen, Seen')
<1>1. /\ sched.active = c /\ finished' = finished \cup {c} /\ UNCHANGED <<tool, sent, answer>>
      /\ rpc' = IF rpc = "waiting" /\ IsIdle(sched') THEN "returned" ELSE rpc
  BY DEF Ends
<1>2. c # Nothing /\ Owed' = Owed /\ Made' = Made /\ Old' = Old /\ Thrown' = Thrown
  BY <1>1, DistinctAssumption DEF Owed, Made, Old, Thrown
<1>3. /\ sched.active = Nothing => sched.queue = <<>>
      /\ rpc # "open" => ~Accepting(sched)
      /\ rpc # "returned"
  BY <1>1, <1>2 DEF RunInv, PumpInv, FifoInv, DetachInv
<1>4. ~Accepting(sched) => ~Accepting(sched')
  BY <1>3, EndsEffect DEF Accepting, RunInv, PumpInv, FifoInv
<1>5. (rpc' = "returned") \in {rpc = "returned", sched'.end # "none" /\ sched'.active = Nothing}
  BY <1>1, <1>3, <1>4 DEF Accepting, IsIdle
<1>6. Promise!Over(Seen, Seen', sched'.active, sched'.queue, sched'.end)
  <2>1. PICK b \in {rpc = "returned", sched'.end # "none" /\ sched'.active = Nothing} :
            (rpc' = "returned") = b
    BY <1>5
  <2>2. Seen' = [runs |-> sched'.active, line |-> sched'.queue, taken |-> sent,
                 over |-> finished \cup {c}, thrown |-> Thrown, made |-> Made,
                 open |-> Owed, old |-> Old, end |-> sched'.end, back |-> b]
    BY <1>1, <1>2, <2>1, SeenIs
  <2>3. Seen' = [Seen EXCEPT !.runs = sched'.active, !.line = sched'.queue,
                             !.over = @ \cup {Seen.runs}, !.end = sched'.end, !.back = b]
    <3> DEFINE q == [Seen EXCEPT !.runs = sched'.active, !.line = sched'.queue,
                                 !.over = @ \cup {Seen.runs}, !.end = sched'.end, !.back = b]
    <3>1. q \in [runs : {sched'.active}, line : {sched'.queue}, taken : {sent},
                 over : {finished \cup {c}}, thrown : {Thrown}, made : {Made},
                 open : {Owed}, old : {Old}, end : {sched'.end}, back : {b}]
      BY <1>1, SeenIs
    <3> HIDE DEF q
    <3>2. Seen' = q
      BY <2>2, <3>1
    <3> QED BY <3>2 DEF q
  <2> QED BY <1>1, <1>2, <2>1, <2>3, SeenHas DEF Promise!Over
<1>7. CASE /\ Accepting(sched) /\ sched.queue # <<>>
           /\ sched'.active = Head(sched.queue) /\ sched'.queue = Tail(sched.queue)
           /\ sched'.end = "none"
  <2>1. Promise!NextServed(Seen, Seen')
    BY <1>6, <1>7, SeenHas DEF Promise!NextServed, Accepting
  <2> QED BY <2>1 DEF Promise!Step
<1>8. CASE /\ sched'.active = Nothing /\ sched'.queue = <<>>
           /\ \/ Accepting(sched) /\ Owed = {} /\ sched'.end = "turn-terminal"
              \/ Accepting(sched) /\ sched'.end = "continuation-failed"
  <2>1. Promise!EndedBy(Seen, Seen')
    BY <1>6, <1>8, SeenHas DEF Promise!EndedBy, Accepting
  <2> QED BY <2>1 DEF Promise!Step
<1>9. CASE /\ sched'.active = Nothing /\ sched'.queue = <<>>
           /\ sched.queue = <<>> /\ sched'.end = sched.end
           /\ Accepting(sched) => Owed # {}
  <2>1. Promise!LastServed(Seen, Seen')
    BY <1>6, <1>9, SeenHas DEF Promise!LastServed, Accepting
  <2> QED BY <2>1 DEF Promise!Step
<1> QED BY <1>7, <1>8, <1>9, EndsEffect DEF RunInv

\* Every step of the run is one the promise allows, or shows nothing.
LEMMA StepShows ==
    ASSUME RunInv, [Next]_vars
    PROVE  Promise!Step(Seen, Seen') \/ Seen' = Seen
<1>t. TypeOK /\ TypeOK'
  BY StepKeepsTypes DEF RunInv, PumpInv
<1>s. tool' = tool => CallsSettled
  BY DEF CallsSettled, Made, Owed, Old
<1>1. ASSUME NEW c \in Chats \cup Controls, NEW R, ReadMessage(c, R)
      PROVE  Promise!Taken(Seen, Seen')
  <2>1. c \in Continuations /\ Admit(c) /\ c \notin sent /\ Thrown' = Thrown
    BY <1>1 DEF ReadMessage, Continuations, Thrown
  <2>2. CallsSettled
    BY <1>t, <1>1, SettlingSettles DEF ReadMessage
  <2> QED BY <2>1, <2>2, AdmitShows
<1>2. ASSUME NEW t \in Tools,
             ReadResponse(t) \/ \E kind \in {"result", "throw"} : ReadResult(t, kind)
      PROVE  Promise!Taken(Seen, Seen')
  <2>1. t \in Continuations /\ Admit(t) /\ t \notin sent
    BY <1>2 DEF ReadResult, ReadResponse, Continuations, RunInv, QueriesUnread
  <2>2. CallsSettled
    BY <1>t, <1>s, <1>2, OneSettles DEF ReadResult, ReadResponse
  <2>3. PICK kind \in AnswerKinds : answer' = [answer EXCEPT ![t] = kind]
    BY <1>2 DEF ReadResult, ReadResponse, AnswerKinds
  <2>4. answer[t] = "none"
    BY <2>1 DEF RunInv, AnswersWereRead
  <2>5. answer'[t] = kind /\ \A u \in Tools : u # t => answer'[u] = answer[u]
    BY <1>t, <2>3 DEF TypeOK
  <2>6. Thrown' = Thrown \/ Thrown' = Thrown \cup {t}
    BY <2>4, <2>5 DEF Thrown
  <2> QED BY <2>1, <2>2, <2>6, AdmitShows
<1>3. ASSUME NEW t \in Tools, ReadChildAnswer(t) \/ ReadUnmatchedResponse(t)
      PROVE  Promise!Settled(Seen, Seen')
  <2>1. /\ Accepting(sched) /\ sched' = EvaluateIdle(sched, Owed') /\ sent' = sent \cup {t}
        /\ UNCHANGED <<finished, answer, rpc>> /\ \E T : tool' = Settle(T)
    BY <1>3 DEF ReadChildAnswer, ReadUnmatchedResponse, CanAdmit, Owed
  <2>2. t \in Made \ sent
    BY <1>3 DEF ReadChildAnswer, ReadUnmatchedResponse, RunInv, QueriesUnread, Made
  <2> QED BY <1>t, <2>1, <2>2, SettlingSettles, SettledShows
<1>4. ASSUME NEW t \in Tools, QueryExpires(t) PROVE Promise!Settled(Seen, Seen')
  <2>1. /\ tool[t] \in {"query", "child"}
        /\ tool' = [tool EXCEPT ![t] = IF @ = "query" THEN "closed" ELSE "settled"]
        /\ UNCHANGED <<sched, sent, finished, answer, rpc>>
    BY <1>4 DEF QueryExpires
  <2>2. PICK s \in {"closed", "settled"} : /\ tool' = [tool EXCEPT ![t] = s]
                                           /\ s = "closed" <=> tool[t] = "query"
    BY <1>t, <2>1 DEF TypeOK
  <2>3. CallsSettled /\ Owed' = IF s = "closed" THEN Owed ELSE Owed \ {t}
    BY <1>t, <2>1, <2>2, OneSettles
  <2>4. sched.active # Nothing \/ Owed' # {} \/ ~Accepting(sched)
    <3>1. CASE tool[t] = "query"
      BY <2>2, <2>3, <3>1 DEF Owed, OwedIn, PendingStates
    <3>2. CASE tool[t] = "child"
      BY <3>2, DistinctAssumption DEF RunInv, PumpInv, WaitInv, Continuations
    <3> QED BY <2>1, <3>1, <3>2
  <2> QED BY <2>1, <2>3, <2>4, SettledShows
<1>5. ASSUME NEW c \in Continuations, Begin(c)
      PROVE  Promise!Settled(Seen, Seen') \/ Promise!Declared(Seen, Seen')
  <2>1. /\ sched.active = c /\ c # Nothing
        /\ UNCHANGED <<sent, finished, answer, rpc>>
    BY <1>5, DistinctAssumption
       DEF Begin, DeferMessage, ResumePassively, BeginChat, GraceOver, BeginControl,
           BeginAnswer, AbortByThrow, Starts, Runs, Goes
  <2>2. CallsSettled
    <3>1. CASE BeginChat(c)
      <4>1. \A t \in Tools : /\ tool'[t] # "none" <=> tool[t] # "none"
                             /\ tool'[t] \in PendingStates <=> tool[t] \in PendingStates
                             /\ tool'[t] = "restored" <=> tool[t] = "restored"
        BY <3>1 DEF BeginChat, PendingStates
      <4>2. Made' = Made /\ Owed' = Owed /\ Old' = Old
        BY <4>1 DEF Made, Owed, OwedIn, Old
      <4> QED BY <4>2 DEF CallsSettled
    <3>2. CASE ~BeginChat(c)
      <4>1. \E T : tool' = Settle(T)
        BY <1>5, <3>2 DEF Begin, DeferMessage, ResumePassively, GraceOver, BeginControl,
                          BeginAnswer, AbortByThrow, Goes
      <4> QED BY <1>t, <4>1, SettlingSettles
    <3> QED BY <3>1, <3>2
  <2>3. CASE sched' = sched
    BY <2>1, <2>2, <2>3, SettledShows
  <2>4. CASE sched' # sched
    <3>1. Accepting(sched) /\ sched' = RequestEnd(sched, "turn-terminal")
      BY <1>5, <2>4 DEF Begin, DeferMessage, ResumePassively, BeginChat, GraceOver,
                        BeginControl, BeginAnswer, AbortByThrow, RequestEnd
    <3>2. LET S == Owed \ Owed'
          IN  /\ S \in SUBSET Seen.open /\ Seen.end = "none" /\ Seen.open \ S = Owed'
              /\ Seen' = [Seen EXCEPT !.line = <<>>, !.open = @ \ S, !.old = @ \ S,
                                      !.end = "turn-terminal"]
      BY <2>1, <2>2, <3>1, RequestShows DEF EndReasons
    <3>3. \/ Owed' = {}
          \/ Seen.runs \in Seen.thrown
          \/ Seen.runs \notin Tools /\ Seen.old \ (Owed \ Owed') # {}
      <4>1. CASE DeferMessage(c)
        <5>1. tool' = tool
          BY <1>t, <4>1, SettleNothing DEF DeferMessage, Goes
        <5>2. c \notin Tools /\ Old # {}
          BY <4>1, DistinctAssumption DEF DeferMessage, Starts, AwaitsRecovery, Old
        <5> QED BY <2>1, <5>1, <5>2, SeenHas DEF Owed
      <4>2. CASE ResumePassively(c)
        <5>1. tool' = tool
          BY <1>t, <4>2, SettleNothing DEF ResumePassively, Goes
        <5> QED BY <2>4, <4>2, <5>1 DEF ResumePassively, Owed
      <4>3. CASE AbortByThrow(c)
        BY <2>1, <4>3, SeenHas DEF AbortByThrow, Starts, Thrown
      <4> QED BY <1>5, <2>4, <4>1, <4>2, <4>3
              DEF Begin, BeginChat, GraceOver, BeginControl, BeginAnswer
    <3>4. Seen.runs # Nothing
      BY <2>1, SeenHas
    <3> QED BY <3>2, <3>3, <3>4 DEF Promise!Declared
  <2> QED BY <2>3, <2>4
<1>6. ASSUME NEW t \in Tools, NEW kind \in PendingStates \ {"restored"}, tool[t] = "none",
             tool' = [tool EXCEPT ![t] = kind], Accepting(sched),
             sched.active # Nothing \/ Owed # {},
             UNCHANGED <<sched, sent, finished, answer, rpc>>
      PROVE  Promise!Called(Seen, Seen')
  <2>1. tool'[t] = kind /\ \A u \in Tools : u # t => tool'[u] = tool[u]
    BY <1>t, <1>6 DEF TypeOK
  <2>2. /\ t \in Tools \ Made /\ Made' = Made \cup {t} /\ Owed' = Owed \cup {t}
        /\ Old' = Old /\ Thrown' = Thrown
    BY <1>6, <2>1 DEF Made, Owed, OwedIn, PendingStates, Old, Thrown
  <2>3. Seen' = [runs |-> sched.active, line |-> sched.queue, taken |-> sent,
                 over |-> finished, thrown |-> Thrown, made |-> Made \cup {t},
                 open |-> Owed \cup {t}, old |-> Old, end |-> sched.end,
                 back |-> rpc = "returned"]
    BY <1>6, <2>2, SeenIs
  <2>4. Seen' = [Seen EXCEPT !.made = @ \cup {t}, !.open = @ \cup {t}]
    <3> DEFINE q == [Seen EXCEPT !.made = @ \cup {t}, !.open = @ \cup {t}]
    <3>1. q \in [runs : {sched.active}, line : {sched.queue}, taken : {sent},
                 over : {finished}, thrown : {Thrown}, made : {Made \cup {t}},
                 open : {Owed \cup {t}}, old : {Old}, end : {sched.end},
                 back : {rpc = "returned"}]
      BY SeenIs
    <3> HIDE DEF q
    <3>2. Seen' = q
      BY <2>3, <3>1
    <3> QED BY <3>2 DEF q
  <2> QED BY <1>6, <2>2, <2>4, SeenHas DEF Promise!Called, Accepting
<1>7. ASSUME NEW c \in Continuations, NEW t \in Tools, NEW kind \in {"exec", "query", "child"},
             CallTool(c, t, kind)
      PROVE  Promise!Called(Seen, Seen')
  <2>1. /\ sched.active = c /\ c # Nothing /\ stage[c] = "model" /\ ~Sealed
    BY <1>7, DistinctAssumption DEF CallTool, Runs
  <2>2. Accepting(sched)
    BY <2>1 DEF RunInv, EndedIsSealed
  <2> QED BY <1>6, <1>7, <2>1, <2>2 DEF CallTool, PendingStates
<1>8. ASSUME NEW t \in Tools, BackgroundCalls(t) PROVE Promise!Called(Seen, Seen')
  <2>1. sched.active # Nothing \/ Owed # {}
    BY <1>8 DEF BackgroundCalls, IsIdle, RunInv, PumpInv, FifoInv
  <2> QED BY <1>6, <1>8, <2>1 DEF BackgroundCalls, PendingStates
<1>9. ASSUME NEW c \in Continuations, NEW ok \in BOOLEAN, Ends(c, ok)
      PROVE  Promise!Step(Seen, Seen')
  BY <1>9, EndsShow
<1>10. ASSUME ForwarderExits \/ \E T : PumpLeaves(T)
       PROVE  Promise!SideGone(Seen, Seen') \/ Promise!Settled(Seen, Seen') \/ Seen' = Seen
  <2>1. PICK r \in {"input-ended", "consumer-closed"} : sched' = RequestEnd(sched, r)
    BY <1>10 DEF PumpLeaves, ForwarderExits
  <2>2. /\ UNCHANGED <<sent, finished, answer>> /\ CallsSettled
        /\ (rpc' = "returned") = (rpc = "returned")
    BY <1>t, <1>s, <1>10, SettlingSettles DEF PumpLeaves, ForwarderExits
  <2>3. CASE Accepting(sched)
    <3>1. LET S == Owed \ Owed'
          IN  /\ S \in SUBSET Seen.open /\ Seen.end = "none" /\ Seen.open \ S = Owed'
              /\ Seen' = [Seen EXCEPT !.line = <<>>, !.open = @ \ S, !.old = @ \ S,
                                      !.end = r]
      BY <2>1, <2>2, <2>3, RequestShows DEF EndReasons
    <3> QED BY <3>1 DEF Promise!SideGone
  <2>4. CASE ~Accepting(sched) /\ rpc' = rpc
    BY <2>1, <2>2, <2>4, SettledShows DEF RequestEnd
  <2>5. CASE ~Accepting(sched) /\ rpc' # rpc
    <3>1. UNCHANGED <<sched, tool, sent, finished, answer>>
      BY <1>10, <2>1, <2>5 DEF PumpLeaves, ForwarderExits, RequestEnd
    <3> QED BY <2>2, <3>1 DEF Seen, Owed
  <2> QED BY <2>3, <2>4, <2>5
<1>11. ASSUME AwaitIdle PROVE Promise!Returned(Seen, Seen') \/ Seen' = Seen
  <2>1. /\ UNCHANGED <<sched, tool, sent, finished, answer>>
        /\ rpc = "draining" /\ rpc' = IF IsIdle(sched) THEN "returned" ELSE "waiting"
    BY <1>11 DEF AwaitIdle
  <2>2. CASE IsIdle(sched)
    <3>1. sched.end # "none" /\ sched.active = Nothing
      BY <2>1, <2>2 DEF RunInv, PumpInv, DetachInv, Accepting, IsIdle
    <3>2. Seen' = [runs |-> sched.active, line |-> sched.queue, taken |-> sent,
                   over |-> finished, thrown |-> Thrown, made |-> Made, open |-> Owed,
                   old |-> Old, end |-> sched.end, back |-> TRUE]
      BY <2>1, <2>2 DEF Seen, Owed, Made, Old, Thrown
    <3>3. Seen' = [Seen EXCEPT !.back = TRUE]
      <4> DEFINE q == [Seen EXCEPT !.back = TRUE]
      <4>1. q \in [runs : {sched.active}, line : {sched.queue}, taken : {sent},
                   over : {finished}, thrown : {Thrown}, made : {Made}, open : {Owed},
                   old : {Old}, end : {sched.end}, back : {TRUE}]
        BY SeenIs
      <4> HIDE DEF q
      <4>2. Seen' = q
        BY <3>2, <4>1
      <4> QED BY <4>2 DEF q
    <3> QED BY <3>1, <3>3, SeenHas DEF Promise!Returned
  <2>3. CASE ~IsIdle(sched)
    BY <2>1, <2>3 DEF Seen, Owed
  <2> QED BY <2>2, <2>3
<1>12. CASE UNCHANGED <<sched, tool, sent, finished, answer, rpc>>
  BY <1>12 DEF Seen, Owed
<1> QED BY <1>1, <1>2, <1>3, <1>4, <1>5, <1>7, <1>8, <1>9, <1>10, <1>11, <1>12
        DEF Next, vars, ReadAnswer, Progress, ChildAnswered, PumpEnds, RefuseResponse,
            Promise!Step

LEMMA StepKeepsRunInv == RunInv /\ [Next]_vars => RunInv'
<1> SUFFICES ASSUME RunInv, [Next]_vars PROVE RunInv'
  OBVIOUS
<1>0. PumpInv' /\ TypeOK
  BY StepKeepsPumpInv DEF RunInv, PumpInv
<1>1. EndedIsSealed'
  <2>1. ASSUME NEW c \in Continuations, Admit(c) PROVE EndedIsSealed'
    BY <2>1 DEF Admit, CanAdmit, Enqueue, Accepting, EndedIsSealed, RunInv, PumpInv, TypeOK,
                SchedulerOf
  <2>2. ASSUME NEW t \in Tools, ReadChildAnswer(t) \/ ReadUnmatchedResponse(t)
        PROVE  EndedIsSealed'
    <3>1. PICK owed : sched' = EvaluateIdle(sched, owed)
      BY <2>2 DEF ReadChildAnswer, ReadUnmatchedResponse
    <3>2. sched' = sched \/ sched'.active = Nothing
      BY <1>0, <3>1, EvaluateIdleEffect DEF TypeOK, EvaluateIdle, IsIdle
    <3> QED BY <2>2, <3>2 DEF ReadChildAnswer, ReadUnmatchedResponse, RunInv, EndedIsSealed, Sealed
  <2>3. ASSUME ForwarderExits \/ \E T : PumpLeaves(T) PROVE EndedIsSealed'
    BY <2>3 DEF PumpLeaves, ForwarderExits, EndedIsSealed, Sealed
  <2>4. ASSUME NEW c \in Continuations, NEW ok \in BOOLEAN, Ends(c, ok) PROVE EndedIsSealed'
    BY <2>4, EndsEffect DEF RunInv, EndedIsSealed, Accepting
  <2>5. ASSUME UNCHANGED <<sched, stage, pump>>, rpc' = rpc \/ rpc' # "open"
        PROVE  EndedIsSealed'
    BY <2>5 DEF RunInv, EndedIsSealed, Sealed
  <2>6. CASE AwaitIdle
    BY <2>5, <2>6 DEF AwaitIdle
  <2>7. ASSUME NEW t \in Tools, ReadAnswer(t) PROVE EndedIsSealed'
    BY <2>1, <2>2, <2>3, <2>7
       DEF ReadAnswer, ReadResult, ReadResponse, RefuseResponse, Continuations
  <2>8. ASSUME NEW c \in Chats \cup Controls, NEW R, ReadMessage(c, R) PROVE EndedIsSealed'
    BY <2>1, <2>8 DEF ReadMessage, Continuations
  <2>9. ASSUME NEW c \in Continuations, Begin(c) PROVE EndedIsSealed'
    <3>1. sched.active = c /\ UNCHANGED <<pump, rpc>>
      BY <2>9 DEF Begin, DeferMessage, ResumePassively, BeginChat, GraceOver, BeginControl,
                  BeginAnswer, AbortByThrow, Starts, Runs, Goes
    <3>2. CASE sched' = sched
      <4>1. stage[c] \notin {"cut", "passive"}
        BY <2>9 DEF Begin, DeferMessage, ResumePassively, BeginChat, GraceOver, BeginControl,
                    BeginAnswer, AbortByThrow, Starts
      <4> QED BY <3>1, <3>2, <4>1 DEF RunInv, EndedIsSealed, Sealed
    <3>3. CASE sched' # sched
      <4>1. sched' = RequestEnd(sched, "turn-terminal") /\ stage'[c] \in {"cut", "passive"}
        BY <1>0, <2>9, <3>3
           DEF Begin, DeferMessage, ResumePassively, BeginChat, GraceOver, BeginControl,
               BeginAnswer, AbortByThrow, Goes, TypeOK
      <4>2. sched'.active = c
        BY <1>0, <3>1, <4>1, RequestEndEffect DEF TypeOK, EndReasons
      <4> QED BY <4>1, <4>2 DEF EndedIsSealed
    <3> QED BY <3>2, <3>3
  <2> QED BY <2>3, <2>4, <2>5, <2>6, <2>7, <2>8, <2>9
          DEF Next, vars, Progress, PumpEnds, QueryExpires, BackgroundCalls, CallTool,
              ChildAnswered
<1>2. QueriesUnread'
  <2> SUFFICES ASSUME NEW t \in Tools, tool'[t] \in {"query", "child", "background"}
               PROVE  t \notin sent'
    BY DEF QueriesUnread
  <2>1. CASE tool[t] = tool'[t]
    <3>1. t \notin sent
      BY <2>1 DEF RunInv, QueriesUnread
    <3>2. CASE sent' = sent
      BY <3>1, <3>2
    <3>3. ASSUME NEW u \in Tools, ReadAnswer(u) PROVE t \notin sent'
      <4>1. u # t \/ sent' = sent
        <5> SUFFICES ASSUME u = t PROVE sent' = sent
          OBVIOUS
        <5>1. tool[t] \in {"query", "child", "background"}
          BY <2>1
        <5>2. ~ReadChildAnswer(t)
          BY <1>0, <2>1, <5>1
             DEF ReadChildAnswer, Settle, Owed, OwedIn, PendingStates
        <5>3. ~ReadResponse(t)
          BY <1>0, <2>1, <5>1 DEF ReadResponse, TypeOK
        <5> QED BY <3>3, <5>1, <5>2, <5>3
                DEF ReadAnswer, ReadResult, ReadUnmatchedResponse, RefuseResponse, PumpLeaves
      <4>2. sent' \subseteq sent \cup {u}
        BY <3>3 DEF ReadAnswer, ReadResult, ReadResponse, ReadChildAnswer,
                    ReadUnmatchedResponse, RefuseResponse, PumpLeaves, Admit
      <4> QED BY <3>1, <4>1, <4>2
    <3>4. ASSUME NEW c \in Chats \cup Controls, NEW R, ReadMessage(c, R) PROVE t \notin sent'
      BY <3>1, <3>4, DistinctAssumption DEF ReadMessage, Admit
    <3>5. ASSUME NEW c \in Continuations, Begin(c) PROVE t \notin sent'
      BY <3>1, <3>5 DEF Begin, DeferMessage, ResumePassively, BeginChat, GraceOver,
                        BeginControl, BeginAnswer, AbortByThrow, Goes
    <3> QED BY <3>2, <3>3, <3>4, <3>5
            DEF Next, vars, Progress, QueryExpires, BackgroundCalls, CallTool,
                ChildAnswered, Ends, PumpEnds, PumpLeaves, ForwarderExits, AwaitIdle
  <2>2. CASE tool[t] # tool'[t]
    <3>1. ASSUME NEW T, tool' = Settle(T) PROVE FALSE
      BY <2>2, <3>1 DEF Settle
    <3>2. ASSUME NEW c \in Continuations, Begin(c) PROVE FALSE
      BY <2>2, <3>1, <3>2
         DEF Begin, DeferMessage, ResumePassively, BeginChat, GraceOver, BeginControl,
             BeginAnswer, AbortByThrow, Goes
    <3>3. ASSUME NEW u \in Tools, ReadAnswer(u) PROVE FALSE
      BY <1>0, <2>2, <3>1, <3>3
         DEF ReadAnswer, ReadResult, ReadResponse, ReadChildAnswer, ReadUnmatchedResponse,
             RefuseResponse, PumpLeaves, TypeOK
    <3>4. ASSUME NEW u \in Tools, QueryExpires(u) PROVE FALSE
      BY <1>0, <2>2, <3>4 DEF QueryExpires, TypeOK
    <3>5. PICK u \in Tools : /\ tool[u] = "none" /\ sent' = sent
                             /\ \E kind : tool' = [tool EXCEPT ![u] = kind]
      BY <2>2, <3>1, <3>2, <3>3, <3>4
         DEF Next, vars, ReadMessage, Progress, BackgroundCalls, CallTool, ChildAnswered, Ends,
             PumpEnds, PumpLeaves, ForwarderExits, AwaitIdle
    <3>6. t = u
      BY <1>0, <2>2, <3>5 DEF TypeOK
    <3> QED BY <3>5, <3>6 DEF RunInv, PumpInv, AnswersAreCalled
  <2> QED BY <2>1, <2>2
<1>3. AnswersWereRead'
  <2> SUFFICES ASSUME NEW t \in Tools, answer'[t] # "none" PROVE t \in sent'
    BY DEF AnswersWereRead
  <2>1. sent \subseteq sent'
    BY DEF Next, vars, ReadMessage, ReadAnswer, ReadResult, ReadResponse, ReadChildAnswer,
           ReadUnmatchedResponse, RefuseResponse, Admit, QueryExpires, BackgroundCalls,
           CallTool, Progress, Begin, DeferMessage, ResumePassively, BeginChat, GraceOver,
           BeginControl, BeginAnswer, AbortByThrow, Goes, ChildAnswered, Ends, PumpEnds,
           PumpLeaves, ForwarderExits, AwaitIdle
  <2>2. CASE answer' = answer
    BY <2>1, <2>2 DEF RunInv, AnswersWereRead
  <2>3. CASE answer' # answer
    <3>1. PICK u \in Tools : /\ sent' = sent \cup {u}
                             /\ \E kind : answer' = [answer EXCEPT ![u] = kind]
      BY <2>3 DEF Next, vars, ReadMessage, ReadAnswer, ReadResult, ReadResponse,
             ReadChildAnswer, ReadUnmatchedResponse, RefuseResponse, Admit, QueryExpires,
             BackgroundCalls, CallTool, Progress, Begin, DeferMessage, ResumePassively,
             BeginChat, GraceOver, BeginControl, BeginAnswer, AbortByThrow, Goes,
             ChildAnswered, Ends, PumpEnds, PumpLeaves, ForwarderExits, AwaitIdle
    <3>2. t = u \/ answer'[t] = answer[t]
      BY <1>0, <3>1 DEF TypeOK
    <3> QED BY <3>1, <3>2 DEF RunInv, AnswersWereRead
  <2> QED BY <2>2, <2>3
<1> QED BY <1>0, <1>1, <1>2, <1>3 DEF RunInv

\* The pump, the FIFO and the forwarder keep the promise for any frames and
\* tool calls: order and single service, one end with its reason, nothing
\* begun or called after it, and calls left open at a terminal end only where
\* RunRpc names the exception.
THEOREM RunsArePromised == Spec => RunKeepsPromise
<1>1. Init => RunInv
  BY InitHasPumpInv DEF Init, RunInv, EndedIsSealed, QueriesUnread, AnswersWereRead,
                        FreshScheduler
<1>2. Init => Promise!Init
  <2> SUFFICES ASSUME Init PROVE Promise!Init
    OBVIOUS
  <2>1. PICK left \in {"exec", "restored"} : tool \in [Tools -> {"none", left}]
    BY DEF Init
  <2>2. Made = Owed /\ Old \in {{}, Owed} /\ Owed \subseteq Tools /\ Thrown = {}
    BY <2>1 DEF Init, Made, Old, Owed, OwedIn, PendingStates, Thrown
  <2>3. Seen = [runs |-> Nothing, line |-> <<>>, taken |-> {}, over |-> {}, thrown |-> {},
                made |-> Owed, open |-> Owed, old |-> Old, end |-> "none", back |-> FALSE]
    BY <2>2, SeenIs DEF Init, FreshScheduler
  <2> QED BY <2>2, <2>3 DEF Promise!Init
<1>3. RunInv /\ [Next]_vars => [Promise!Next]_Seen
  BY StepShows DEF Promise!Next
<1> QED BY <1>1, <1>2, <1>3, StepKeepsRunInv, PTL DEF Spec, RunKeepsPromise, Promise!Spec
=============================================================================
