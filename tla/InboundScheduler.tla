-------------------------- MODULE InboundScheduler --------------------------
(***************************************************************************)
(* The FIFO of continuations of one BiDi attachment                        *)
(* (bidi/bidi-inbound-continuation-scheduler.ts), as a value: what runs,   *)
(* what waits, and why the attachment's Run RPC was asked to end, if it    *)
(* was.  accepting is the negation of having an end reason.  The promises  *)
(* of whenEndRequested and awaitIdle belong to the pump (InboundPump).     *)
(***************************************************************************)
EXTENDS Sequences, Functions

CONSTANT Nothing  \* no continuation

EndReasons == {"turn-terminal", "continuation-failed", "input-ended", "consumer-closed"}

SchedulerOf(C) == [active : C \cup {Nothing}, queue : Seq(C),
                   end : EndReasons \cup {"none"}]

FreshScheduler == [active |-> Nothing, queue |-> <<>>, end |-> "none"]

Accepting(s) == s.end = "none"
IsIdle(s)    == s.active = Nothing /\ s.queue = <<>>

\* A continuation that is running or will run.
Admitted(s) == Range(s.queue) \cup ({s.active} \ {Nothing})

\* Mutant: the newest waits in front.
EnqueueFirst(s, c) ==
    IF s.active = Nothing THEN [s EXCEPT !.active = c]
                          ELSE [s EXCEPT !.queue = <<c>> \o @]

\* enqueue() throws when the scheduler no longer accepts: see Accepting.
Enqueue(s, c) ==
    IF s.active = Nothing THEN [s EXCEPT !.active = c]
                          ELSE [s EXCEPT !.queue = Append(@, c)]

\* The first reason wins; whatever is still queued is thrown away.
RequestEnd(s, reason) ==
    IF Accepting(s) THEN [s EXCEPT !.end = reason, !.queue = <<>>] ELSE s

\* Mutant: owed work is not asked about.
EvaluateIdleAlways(s, owed) ==
    IF Accepting(s) /\ IsIdle(s) THEN RequestEnd(s, "turn-terminal") ELSE s

\* Ends the run at an idle edge, if shouldEndWhenIdle() agrees: nothing owed.
EvaluateIdle(s, owed) ==
    IF Accepting(s) /\ IsIdle(s) /\ owed = {}
      THEN RequestEnd(s, "turn-terminal") ELSE s

\* Mutant: the end of a continuation ends the run, whatever is queued.
FinishEndsRun(s, owed) == RequestEnd([s EXCEPT !.active = Nothing], "turn-terminal")

\* Mutant: the next continuation is not started.
FinishWithoutNext(s, owed) == EvaluateIdle([s EXCEPT !.active = Nothing], owed)

\* The .finally of start(): the next continuation starts at once, and the
\* idle edge is evaluated only when there is none.
Finish(s, owed) ==
    IF s.queue # <<>> /\ Accepting(s)
      THEN [s EXCEPT !.active = Head(s.queue), !.queue = Tail(@)]
      ELSE EvaluateIdle([s EXCEPT !.active = Nothing], owed)
=============================================================================
