-------------------------- MODULE SubagentRunsProofs --------------------------
(***************************************************************************)
(* Theorems of SubagentRuns, for any set of runs, of await_task calls and  *)
(* any number of restarts.                                                 *)
(***************************************************************************)
EXTENDS SubagentRuns, TLAPS

(* Type correctness, in three parts: what is durable, the turns, the parent. *)

DurableOK ==
    /\ status \in [Runs -> Statuses]
    /\ mode \in [Runs -> {"foreground", "background"}]
    /\ delivery \in [Runs -> Routes]
    /\ edge \in [Runs -> {"none", "open", "closed", "aborted"}]

TurnsOK ==
    /\ fg \in [Runs -> FgStates]
    /\ bg \in [Runs -> BgStates]
    /\ aborted \in [Runs -> SUBSET {"fg", "bg"}]
    /\ starter \in [Runs -> Starters]
    /\ gate \in [Runs -> GateOf]

ParentOK ==
    /\ wait \in [Waits -> Waitings]
    /\ notice \in SUBSET Runs
    /\ restarts \in Nat

LEMMA TypeParts ==
    /\ TypeOK <=> DurableOK /\ TurnsOK /\ ParentOK
    /\ TypeOK' <=> DurableOK' /\ TurnsOK' /\ ParentOK'
BY DEF TypeOK, DurableOK, TurnsOK, ParentOK

LEMMA GateTypes ==
    ASSUME NEW g \in GateOf
    PROVE  /\ Acquired(g) \in GateOf
           /\ HandoffBegun(g) \in GateOf
           /\ LeaseSettled(g) \in GateOf
           /\ HandoffClosed(g) \in GateOf
           /\ FreeGate \in GateOf
BY DEF GateOf, Acquired, HandoffBegun, LeaseSettled, HandoffClosed, FreeGate

\* What every action consists of.
LEMMA SameDurable == DurableOK /\ UNCHANGED durable => DurableOK'
BY DEF DurableOK, durable

LEMMA SameTurns == TurnsOK /\ UNCHANGED turns => TurnsOK'
BY DEF TurnsOK, turns

LEMMA SameParent == ParentOK /\ UNCHANGED <<parent, restarts>> => ParentOK'
BY DEF ParentOK, parent

LEMMA TransactionTypes ==
    ASSUME DurableOK, NEW r \in Runs, NEW o \in Outcomes
    PROVE  /\ ReportToParent(r, o) => DurableOK'
           /\ EndInBackground(r, o) => DurableOK'
BY DEF DurableOK, ReportToParent, EndInBackground, Outcomes, Statuses, Routes

LEMMA AbortTypes == ASSUME DurableOK, NEW E, AbortTasks(E) PROVE DurableOK'
BY DEF DurableOK, AbortTasks, Outcomes, Statuses, Routes

LEMMA DeliverTypes ==
    ASSUME DurableOK, NEW S, NEW l \in Routes, Deliver(S, l) PROVE DurableOK'
BY DEF DurableOK, Deliver

LEMMA FgGoesTypes ==
    ASSUME TurnsOK, ParentOK, NEW r \in Runs, NEW pc \in FgStates, FgGoes(r, pc)
    PROVE  TurnsOK' /\ ParentOK'
<1>1. gate' \in [Runs -> GateOf]
  BY GateTypes DEF TurnsOK, FgGoes
<1>2. fg' \in [Runs -> FgStates] /\ aborted' \in [Runs -> SUBSET {"fg", "bg"}]
  BY DEF TurnsOK, FgGoes
<1> QED BY <1>1, <1>2, SameParent DEF TurnsOK, FgGoes

LEMMA BgGoesTypes ==
    ASSUME TurnsOK, ParentOK, NEW r \in Runs, NEW pc \in BgStates, BgGoes(r, pc)
    PROVE  TurnsOK' /\ ParentOK'
BY SameParent DEF TurnsOK, BgGoes

LEMMA StartKeepsTypes ==
    ASSUME TypeOK, NEW r \in Runs,
           Dispatch(r) \/ RejectTask(r) \/ AdmitForeground(r) \/ SpawnBackground(r)
    PROVE  TypeOK'
<1> USE DEF FgStates, BgStates, Starters, Statuses
<1>1. DurableOK /\ TurnsOK /\ ParentOK
  BY TypeParts
<1>2. CASE Dispatch(r)
  <2>1. DurableOK' /\ TurnsOK' BY <1>1, <1>2 DEF Dispatch, DurableOK, TurnsOK
  <2> QED BY <1>1, <1>2, <2>1, SameParent, TypeParts DEF Dispatch
<1>3. CASE RejectTask(r)
  <2>1. DurableOK' /\ TurnsOK' BY <1>1, <1>3 DEF RejectTask, DurableOK, TurnsOK
  <2> QED BY <1>1, <1>3, <2>1, SameParent, TypeParts DEF RejectTask
<1>4. CASE AdmitForeground(r)
  <2>1. DurableOK' /\ TurnsOK' BY <1>1, <1>4 DEF AdmitForeground, DurableOK, TurnsOK
  <2> QED BY <1>1, <1>4, <2>1, SameParent, TypeParts DEF AdmitForeground
<1>5. CASE SpawnBackground(r)
  <2>1. DurableOK' /\ TurnsOK' BY <1>1, <1>5 DEF SpawnBackground, DurableOK, TurnsOK
  <2> QED BY <1>1, <1>5, <2>1, SameParent, TypeParts DEF SpawnBackground
<1> QED BY <1>2, <1>3, <1>4, <1>5

LEMMA ForegroundKeepsTypes ==
    ASSUME TypeOK, NEW r \in Runs, Foreground(r)
    PROVE  TypeOK'
<1>1. DurableOK /\ TurnsOK /\ ParentOK
  BY TypeParts
<1>2. ASSUME NEW pc \in FgStates, FgGoes(r, pc), UNCHANGED durable PROVE TypeOK'
  BY <1>1, <1>2, FgGoesTypes, SameDurable, TypeParts
<1>3. ASSUME NEW pc \in FgStates, NEW o \in Outcomes, FgGoes(r, pc), ReportToParent(r, o)
      PROVE  TypeOK'
  BY <1>1, <1>3, FgGoesTypes, TransactionTypes, TypeParts
<1> USE DEF FgStates
<1>4. CASE Acquire(r)
  <2>1. CASE "fg" \notin aborted[r] /\ CanAcquire(gate[r])
    <3>1. UNCHANGED <<durable, parent, restarts>>
      BY <1>4, <2>1 DEF Acquire
    <3>2. TurnsOK'
      BY <1>1, <1>4, <2>1, GateTypes DEF Acquire, TurnsOK
    <3> QED BY <1>1, <3>1, <3>2, SameDurable, SameParent, TypeParts
  <2>2. CASE ~("fg" \notin aborted[r] /\ CanAcquire(gate[r]))
    <3>1. PICK pc \in {"settled", "refused"} : FgGoes(r, pc) /\ UNCHANGED durable
      BY <1>4, <2>2 DEF Acquire
    <3> QED BY <3>1, <1>2
  <2> QED BY <2>1, <2>2
<1>5. CASE HandoffOver(r)
  <2>1. PICK pc \in {"settled", "ready"} : FgGoes(r, pc) /\ UNCHANGED durable
    BY <1>5 DEF HandoffOver
  <2> QED BY <2>1, <1>2
<1>6. CASE \/ SpawnForeground(r) \/ SpawnFails(r) \/ FgAsks(r)
         \/ FgThrows(r) \/ AttemptEnds(r) \/ FgFollowUp(r) \/ FgFails(r)
  <2>1. PICK pc \in {"ready", "failing", "asking", "stopping", "exhausted", "settled", "none"} :
             FgGoes(r, pc) /\ UNCHANGED durable
    BY <1>6 DEF SpawnForeground, SpawnFails, FgAsks, FgThrows, AttemptEnds, FgFollowUp, FgFails
  <2> QED BY <2>1, <1>2
<1>7. CASE FgFinalizes(r)
  <2>1. PICK pc \in {"unwinding", "none"} : FgGoes(r, pc) /\ UNCHANGED durable
    BY <1>7 DEF FgFinalizes
  <2> QED BY <2>1, <1>2
<1>8. ASSUME NEW o \in Outcomes, FgCommits(r, o) PROVE TypeOK'
  BY <1>3, <1>8 DEF FgCommits
<1> QED BY <1>4, <1>5, <1>6, <1>7, <1>8 DEF Foreground

LEMMA HandoffKeepsTypes ==
    ASSUME TypeOK, NEW r \in Runs, Handoff(r)
    PROVE  TypeOK'
<1> USE DEF BgStates, Starters
<1>1. DurableOK /\ TurnsOK /\ ParentOK
  BY TypeParts
<1>2. CASE BackgroundAction(r)
  <2>1. TurnsOK'
    BY <1>1, <1>2, GateTypes DEF BackgroundAction, TurnsOK
  <2>2. DurableOK'
    BY <1>1, <1>2, SameDurable DEF BackgroundAction
  <2> QED BY <1>1, <1>2, <2>1, <2>2, SameParent, TypeParts DEF BackgroundAction
<1>3. CASE AbandonHandoff(r)
  <2>1. TurnsOK'
    BY <1>1, <1>3, GateTypes DEF AbandonHandoff, TurnsOK
  <2>2. DurableOK'
    BY <1>1, <1>3, SameDurable DEF AbandonHandoff
  <2> QED BY <1>1, <1>3, <2>1, <2>2, SameParent, TypeParts DEF AbandonHandoff
<1>4. CASE Switch(r)
  <2>1. TurnsOK'
    BY <1>1, <1>4, GateTypes DEF Switch, TurnsOK
  <2>2. DurableOK'
    BY <1>1, <1>4 DEF Switch, DurableOK
  <2> QED BY <1>1, <1>4, <2>1, <2>2, SameParent, TypeParts DEF Switch
<1>5. CASE Ack(r)
  <2>1. TurnsOK'
    BY <1>1, <1>5, GateTypes DEF Ack, TurnsOK
  <2>2. DurableOK'
    BY <1>1, <1>5 DEF Ack, DurableOK
  <2> QED BY <1>1, <1>5, <2>1, <2>2, SameParent, TypeParts DEF Ack
<1>6. CASE AckFails(r)
  <2>1. TurnsOK'
    BY <1>1, <1>6, GateTypes DEF AckFails, RejectTurn, TurnsOK
  <2>2. DurableOK'
    BY <1>1, <1>6, SameDurable DEF AckFails
  <2> QED BY <1>1, <1>6, <2>1, <2>2, SameParent, TypeParts DEF AckFails, RejectTurn
<1>7. CASE Release(r)
  <2>1. TurnsOK'
    BY <1>1, <1>7, GateTypes DEF Release, TurnsOK
  <2>2. DurableOK'
    BY <1>1, <1>7, SameDurable DEF Release
  <2> QED BY <1>1, <1>7, <2>1, <2>2, SameParent, TypeParts DEF Release
<1>8. CASE Rejected(r)
  <2>1. TurnsOK'
    BY <1>1, <1>8, GateTypes DEF Rejected, TurnsOK
  <2>2. DurableOK'
    BY <1>1, <1>8, SameDurable DEF Rejected
  <2> QED BY <1>1, <1>8, <2>1, <2>2, SameParent, TypeParts DEF Rejected
<1>9. CASE SwitchFails(r)
  <2>1. TurnsOK'
    BY <1>1, <1>9 DEF SwitchFails, TurnsOK
  <2>2. DurableOK'
    BY <1>1, <1>9 DEF SwitchFails, DurableOK
  <2> QED BY <1>1, <1>9, <2>1, <2>2, SameParent, TypeParts DEF SwitchFails
<1> QED BY <1>2, <1>3, <1>4, <1>5, <1>6, <1>7, <1>8, <1>9 DEF Handoff

LEMMA BackgroundKeepsTypes ==
    ASSUME TypeOK, NEW r \in Runs, Background(r)
    PROVE  TypeOK'
<1> USE DEF BgStates
<1>1. DurableOK /\ TurnsOK /\ ParentOK
  BY TypeParts
<1>2. CASE BgStops(r) \/ BgFails(r) \/ BgFollowUp(r)
  <2>1. PICK pc \in BgStates : BgGoes(r, pc) /\ UNCHANGED durable
    BY <1>2 DEF BgStops, BgFails, BgFollowUp
  <2> QED BY <1>1, <2>1, BgGoesTypes, SameDurable, TypeParts
<1>3. ASSUME NEW o \in Outcomes, BgCommits(r, o) PROVE TypeOK'
  BY <1>1, <1>3, BgGoesTypes, TransactionTypes, TypeParts DEF BgCommits
<1>4. ASSUME NEW o \in Outcomes, BgFinalizes(r, o) PROVE TypeOK'
  <2>1. DurableOK'
    BY <1>1, <1>4, SameDurable, TransactionTypes DEF BgFinalizes
  <2>2. BgGoes(r, "none")
    BY <1>4 DEF BgFinalizes
  <2> QED BY <1>1, <2>1, <2>2, BgGoesTypes, TypeParts
<1> QED BY <1>2, <1>3, <1>4 DEF Background

LEMMA CancelKeepsTypes ==
    ASSUME TypeOK, NEW E, Cancel(E) \/ InterruptTasks(E) \/ CloseAttachment
    PROVE  TypeOK'
<1>1. DurableOK /\ TurnsOK /\ ParentOK
  BY TypeParts
<1>2. CASE Cancel(E)
  <2>1. aborted' \in [Runs -> SUBSET {"fg", "bg"}]
    BY <1>1, <1>2 DEF Cancel, Abort, TurnsOK
  <2>2. gate' \in [Runs -> GateOf] /\ starter' \in [Runs -> Starters]
    BY <1>1, <1>2, GateTypes DEF Cancel, TurnsOK, Starters
  <2>3. TurnsOK'
    BY <1>1, <1>2, <2>1, <2>2 DEF Cancel, TurnsOK
  <2> QED BY <1>1, <1>2, <2>3, AbortTypes, SameParent, TypeParts DEF Cancel
<1>3. CASE InterruptTasks(E)
  BY <1>1, <1>3, AbortTypes, SameTurns, SameParent, TypeParts DEF InterruptTasks
<1>4. CASE CloseAttachment
  <2>1. TurnsOK'
    BY <1>1, <1>4 DEF CloseAttachment, TurnsOK
  <2> QED BY <1>1, <1>4, <2>1, SameDurable, SameParent, TypeParts DEF CloseAttachment
<1> QED BY <1>2, <1>3, <1>4

LEMMA ParentKeepsTypes ==
    ASSUME TypeOK,
           \/ \E w \in Waits : Awaiting(w)
           \/ \E S \in SUBSET Runs : Notify(S)
           \/ NoticeCommits \/ NoticeDropped
    PROVE  TypeOK'
<1>1. DurableOK /\ TurnsOK /\ ParentOK
  BY TypeParts
<1>2. NoWait \in Waitings /\ \A r \in Runs : Claims(r) \in WaitPcs
  BY DEF NoWait, Waitings, WaitPcs, Claims
<1>3. ASSUME NEW w \in Waits, Awaiting(w) PROVE TypeOK'
  <2>1. CASE \E r \in Runs, h \in Runs \cup {NoRun} : AwaitTask(w, r, h)
    <3>1. PICK r \in Runs, h \in Runs \cup {NoRun} : AwaitTask(w, r, h)
      BY <2>1
    <3>2. [pc |-> IF status[r] = "running" THEN "waiting" ELSE Claims(r),
           run |-> r, within |-> h] \in Waitings
      BY <1>2 DEF Waitings, WaitPcs
    <3>3. ParentOK'
      BY <1>1, <3>1, <3>2 DEF AwaitTask, ParentOK
    <3> QED BY <1>1, <3>1, <3>3, SameDurable, SameTurns, TypeParts DEF AwaitTask
  <2>2. CASE AwaitReads(w)
    <3>1. wait[w] \in Waitings /\ wait[w].run \in Runs \cup {NoRun}
      BY <1>1 DEF ParentOK, Waitings
    <3>2. Claims(wait[w].run) \in WaitPcs
      BY DEF Claims, WaitPcs
    <3>3. ParentOK'
      BY <1>1, <2>2, <3>1, <3>2 DEF AwaitReads, ParentOK, Waitings
    <3> QED BY <1>1, <2>2, <3>3, SameDurable, SameTurns, TypeParts DEF AwaitReads
  <2>3. CASE AwaitDeadline(w)
    <3>1. ParentOK'
      BY <1>1, <2>3 DEF AwaitDeadline, ParentOK, Waitings, WaitPcs
    <3> QED BY <1>1, <2>3, <3>1, SameDurable, SameTurns, TypeParts DEF AwaitDeadline
  <2>4. CASE AwaitCommit(w)
    <3>1. DurableOK'
      <4>1. w \in Routes
        BY DEF Routes
      <4> QED BY <1>1, <2>4, <4>1, SameDurable, DeliverTypes DEF AwaitCommit
    <3>2. ParentOK'
      BY <1>1, <1>2, <2>4 DEF AwaitCommit, ParentOK
    <3> QED BY <1>1, <2>4, <3>1, <3>2, SameTurns, TypeParts DEF AwaitCommit
  <2>5. CASE AwaitAborted(w)
    <3>1. ParentOK'
      BY <1>1, <1>2, <2>5 DEF AwaitAborted, ParentOK
    <3> QED BY <1>1, <2>5, <3>1, SameDurable, SameTurns, TypeParts DEF AwaitAborted
  <2> QED BY <1>3, <2>1, <2>2, <2>3, <2>4, <2>5 DEF Awaiting
<1>4. ASSUME NEW S \in SUBSET Runs, Notify(S) PROVE TypeOK'
  <2>1. ParentOK'
    BY <1>1, <1>4 DEF Notify, ParentOK
  <2> QED BY <1>1, <1>4, <2>1, SameDurable, SameTurns, TypeParts DEF Notify
<1>5. CASE NoticeCommits
  <2>1. DurableOK'
    <3>1. "notice" \in Routes
      BY DEF Routes
    <3> QED BY <1>1, <1>5, <3>1, SameDurable, DeliverTypes DEF NoticeCommits
  <2>2. ParentOK'
    BY <1>1, <1>5 DEF NoticeCommits, ParentOK
  <2> QED BY <1>1, <1>5, <2>1, <2>2, SameTurns, TypeParts DEF NoticeCommits
<1>6. CASE NoticeDropped
  <2>1. ParentOK'
    BY <1>1, <1>6 DEF NoticeDropped, ParentOK
  <2> QED BY <1>1, <1>6, <2>1, SameDurable, SameTurns, TypeParts DEF NoticeDropped
<1> QED BY <1>3, <1>4, <1>5, <1>6

LEMMA RestartKeepsTypes == TypeOK /\ Restart => TypeOK'
<1> SUFFICES ASSUME TypeOK, Restart PROVE TypeOK'
  OBVIOUS
<1>1. DurableOK /\ TurnsOK /\ ParentOK
  BY TypeParts
<1>2. TurnsOK'
  BY <1>1, GateTypes DEF Restart, ColdStart, TurnsOK, FgStates, BgStates, Starters, FreeGate, GateOf
<1>3. ParentOK'
  BY <1>1 DEF Restart, ColdStart, ParentOK, NoWait, Waitings, WaitPcs
<1>4. DurableOK'
  BY <1>1 DEF Restart, DurableOK, Outcomes, Statuses, Routes
<1> QED BY <1>2, <1>3, <1>4, TypeParts

LEMMA InitTypes == Init => TypeOK
BY DEF Init, TypeOK, Statuses, Outcomes, Routes, FgStates, BgStates, Starters,
       FreeGate, GateOf, NoWait, Waitings, WaitPcs

LEMMA StepKeepsTypes == TypeOK /\ [Next]_vars => TypeOK'
<1> SUFFICES ASSUME TypeOK, [Next]_vars PROVE TypeOK'
  OBVIOUS
<1>1. ASSUME NEW r \in Runs, Kill(r) PROVE TypeOK'
  <2>1. DurableOK /\ TurnsOK /\ ParentOK
    BY TypeParts
  <2>2. TurnsOK'
    BY <1>1, <2>1 DEF Kill, TurnsOK
  <2> QED BY <1>1, <2>1, <2>2, SameDurable, SameParent, TypeParts DEF Kill
<1>2. CASE UNCHANGED vars
  <2>1. UNCHANGED <<durable, turns, parent, restarts>>
    BY <1>2 DEF vars
  <2> QED BY <2>1, SameDurable, SameTurns, SameParent, TypeParts
<1> QED BY <1>1, <1>2, StartKeepsTypes, ForegroundKeepsTypes, HandoffKeepsTypes,
           BackgroundKeepsTypes, CancelKeepsTypes, ParentKeepsTypes, RestartKeepsTypes
        DEF Next

\* Every piece of a run's state has its type, whatever handlers, turns and
\* restarts interleave: a turn, its handler and its gate are never mixed up.
THEOREM TypeCorrect == Spec => []TypeOK
BY InitTypes, StepKeepsTypes, PTL DEF Spec

-----------------------------------------------------------------------------
(* The invariant, run by run. *)

\* A run that does not exist has no turn and no gate.
Unborn(r) == status[r] = "none" =>
    /\ delivery[r] = "pending" /\ mode[r] = "foreground"
    /\ fg[r] = "none" /\ bg[r] = "none"
    /\ starter[r] \in {"none", "dispatching"}

\* A run that is running is not told; its parent's call is open, or closed by
\* the acknowledgement of a background run; one that waits to be told is of
\* the second kind; an open call has no outcome yet.
Routed(r) ==
    /\ status[r] = "running" => /\ delivery[r] = "pending"
                                /\ \/ edge[r] = "open"
                                   \/ edge[r] = "closed" /\ mode[r] = "background"
    /\ Terminal(r) /\ delivery[r] = "pending" => mode[r] = "background" /\ edge[r] = "closed"
    /\ edge[r] = "none" => status[r] = "none"
    /\ edge[r] = "open" => status[r] \in {"none", "running"}

\* The gate: the lease is the foreground attempt's, the handoff the handler's;
\* a token excludes a lease.
Gated(r) ==
    /\ gate[r].active <=> HoldsLease(fg[r])
    /\ gate[r].handoff # "none" =>
          starter[r] \in {"draining", "switching", "continuing", "rejecting"}
    /\ gate[r].handoff = "held" => ~gate[r].active
    /\ starter[r] \in {"draining", "switching", "continuing"} => gate[r].handoff # "none"

\* Where the foreground execution asks whose run it is before it goes on.
AsksFirst(pc) == pc \in {"none", "admitted", "failing", "settled"}

\* Once the run is in the background, what is left of the foreground execution
\* is aborted or asks first, and gets no lease any more.
Superseded(r) ==
    /\ mode[r] = "background" => /\ ~HoldsLease(fg[r])
                                 /\ ~AsksFirst(fg[r]) => "fg" \in aborted[r]
    /\ bg[r] # "none" => mode[r] = "background"

\* The handler that starts a turn and the turn it starts.
Started(r) ==
    /\ starter[r] = "dispatching" => status[r] = "none"
    /\ starter[r] = "draining" => mode[r] = "foreground"
    /\ starter[r] \in {"switching", "acking", "acked", "continuing"} =>
          bg[r] = "gated" /\ mode[r] = "background"
    /\ starter[r] \in {"acking", "acked", "continuing"} => fg[r] = "none"
    /\ starter[r] = "rejecting" => bg[r] \in {"settled", "none"} /\ mode[r] = "background"
    /\ bg[r] \in {"working", "stopping"} => fg[r] = "none"

\* A running run is attended.
Attended(r) == status[r] = "running" =>
    IF mode[r] = "foreground" THEN fg[r] # "none" ELSE bg[r] # "none"

RunInv(r) == Unborn(r) /\ Routed(r) /\ Gated(r) /\ Superseded(r) /\ Started(r) /\ Attended(r)

IInv == TypeOK /\ \A r \in Runs : RunInv(r)

\* What the gate's operations do to its two fields.
LEMMA GateEffects ==
    ASSUME NEW g \in GateOf
    PROVE  /\ g.active \in BOOLEAN /\ g.handoff \in {"none", "waiting", "held"}
           /\ Acquired(g).active /\ Acquired(g).handoff = g.handoff
           /\ HandoffBegun(g).active = g.active
           /\ HandoffBegun(g).handoff = IF g.active THEN "waiting" ELSE "held"
           /\ ~LeaseSettled(g).active
           /\ LeaseSettled(g).handoff = IF g.handoff = "waiting" THEN "held" ELSE g.handoff
           /\ HandoffClosed(g).active = g.active /\ HandoffClosed(g).handoff = "none"
           /\ ~FreeGate.active /\ FreeGate.handoff = "none"
BY DEF GateOf, Acquired, HandoffBegun, LeaseSettled, HandoffClosed, FreeGate

\* An action on one run leaves the others as they are.
Untouched(r) ==
    /\ status'[r] = status[r] /\ mode'[r] = mode[r] /\ delivery'[r] = delivery[r]
    /\ edge'[r] = edge[r] /\ fg'[r] = fg[r] /\ bg'[r] = bg[r]
    /\ aborted'[r] = aborted[r] /\ starter'[r] = starter[r] /\ gate'[r] = gate[r]

LEMMA UntouchedKeepsRun ==
    ASSUME NEW r \in Runs, RunInv(r), Untouched(r) PROVE RunInv(r)'
BY DEF Untouched, RunInv, Unborn, Routed, Gated, Superseded, Started, Attended,
       Terminal, HoldsLease, AsksFirst

LEMMA OneRun ==
    ASSUME IInv, NEW r \in Runs, RunInv(r)', \A s \in Runs \ {r} : Untouched(s)
    PROVE  \A s \in Runs : RunInv(s)'
BY UntouchedKeepsRun DEF IInv

LEMMA StartKeepsRuns ==
    ASSUME IInv, NEW r \in Runs,
           Dispatch(r) \/ RejectTask(r) \/ AdmitForeground(r) \/ SpawnBackground(r)
    PROVE  \A s \in Runs : RunInv(s)'
<1>1. RunInv(r)
  BY DEF IInv
<1>2. CASE Dispatch(r)
  <2>1. RunInv(r)'
    BY <1>1, <1>2 DEF Dispatch, IInv, TypeOK, RunInv, Unborn, Routed, Gated, Superseded,
       Started, Attended, Terminal, Outcomes
  <2>2. \A s \in Runs \ {r} : Untouched(s)
    BY <1>2 DEF Dispatch, IInv, TypeOK, Untouched
  <2> QED BY <2>1, <2>2, OneRun
<1>3. CASE RejectTask(r)
  <2>1. RunInv(r)'
    BY <1>1, <1>3 DEF RejectTask, IInv, TypeOK, RunInv, Unborn, Routed, Gated, Superseded,
       Started, Attended, Terminal, Outcomes
  <2>2. \A s \in Runs \ {r} : Untouched(s)
    BY <1>3 DEF RejectTask, IInv, TypeOK, Untouched
  <2> QED BY <2>1, <2>2, OneRun
<1>4. CASE AdmitForeground(r)
  <2>1. RunInv(r)'
    BY <1>1, <1>4 DEF AdmitForeground, IInv, TypeOK, RunInv, Unborn, Routed, Gated, Superseded,
       Started, Attended, Terminal, Outcomes, HoldsLease, AsksFirst
  <2>2. \A s \in Runs \ {r} : Untouched(s)
    BY <1>4 DEF AdmitForeground, IInv, TypeOK, Untouched
  <2> QED BY <2>1, <2>2, OneRun
<1>5. CASE SpawnBackground(r)
  <2>1. RunInv(r)'
    BY <1>1, <1>5 DEF SpawnBackground, IInv, TypeOK, RunInv, Unborn, Routed, Gated, Superseded,
       Started, Attended, Terminal, Outcomes, HoldsLease, AsksFirst
  <2>2. \A s \in Runs \ {r} : Untouched(s)
    BY <1>5 DEF SpawnBackground, IInv, TypeOK, Untouched
  <2> QED BY <2>1, <2>2, OneRun
<1> QED BY <1>2, <1>3, <1>4, <1>5

\* The two turns and the two transactions that end a run, at the run and beside it.
LEMMA FgGoesEffect ==
    ASSUME TypeOK, NEW r \in Runs, NEW pc \in FgStates, FgGoes(r, pc)
    PROVE  /\ fg'[r] = pc /\ bg'[r] = bg[r] /\ starter'[r] = starter[r]
           /\ gate'[r] = IF HoldsLease(fg[r]) /\ ~HoldsLease(pc)
                           THEN LeaseSettled(gate[r]) ELSE gate[r]
           /\ aborted'[r] = IF Reached(pc) THEN aborted[r] ELSE aborted[r] \ {"fg"}
           /\ \A s \in Runs \ {r} :
                 /\ fg'[s] = fg[s] /\ bg'[s] = bg[s] /\ starter'[s] = starter[s]
                 /\ gate'[s] = gate[s] /\ aborted'[s] = aborted[s]
BY DEF TypeOK, FgGoes

LEMMA BgGoesEffect ==
    ASSUME TypeOK, NEW r \in Runs, NEW pc \in BgStates, BgGoes(r, pc)
    PROVE  /\ bg'[r] = pc /\ fg'[r] = fg[r] /\ starter'[r] = starter[r] /\ gate'[r] = gate[r]
           /\ aborted'[r] = IF pc = "none" THEN aborted[r] \ {"bg"} ELSE aborted[r]
           /\ \A s \in Runs \ {r} :
                 /\ fg'[s] = fg[s] /\ bg'[s] = bg[s] /\ starter'[s] = starter[s]
                 /\ gate'[s] = gate[s] /\ aborted'[s] = aborted[s]
BY DEF TypeOK, BgGoes

SameRows(R) ==
    \A s \in R : /\ status'[s] = status[s] /\ mode'[s] = mode[s]
                            /\ delivery'[s] = delivery[s] /\ edge'[s] = edge[s]

LEMMA ReportEffect ==
    ASSUME TypeOK, NEW r \in Runs, NEW o \in Outcomes, ReportToParent(r, o)
    PROVE  /\ status'[r] = o /\ mode'[r] = mode[r]
           /\ delivery'[r] = "parent" /\ edge'[r] = "closed"
           /\ SameRows(Runs \ {r})
BY DEF TypeOK, ReportToParent, SameRows

LEMMA OutboxEffect ==
    ASSUME TypeOK, NEW r \in Runs, NEW o \in Outcomes, EndInBackground(r, o)
    PROVE  /\ status'[r] = o /\ mode'[r] = mode[r]
           /\ delivery'[r] = delivery[r] /\ edge'[r] = edge[r]
           /\ SameRows(Runs \ {r})
BY DEF TypeOK, EndInBackground, SameRows

LEMMA SameRow == UNCHANGED durable => SameRows(Runs)
BY DEF SameRows, durable

LEMMA ForegroundKeepsRuns ==
    ASSUME IInv, NEW r \in Runs, Foreground(r)
    PROVE  \A s \in Runs : RunInv(s)'
<1>1. RunInv(r) /\ TypeOK /\ gate[r] \in GateOf
  BY DEF IInv, TypeOK
<1> DEFINE Kept == \A s \in Runs : RunInv(s)'
<1> SUFFICES Kept
  OBVIOUS
\* The turn moves on, and the run's row stays as it is; a turn that is to ask
\* whose run it is has asked.
<1>2. ASSUME NEW pc \in FgStates, FgGoes(r, pc), UNCHANGED durable,
             pc # "none" \/ ~Owns(r), HoldsLease(pc) => HoldsLease(fg[r]), fg[r] # "none",
             AsksFirst(pc) \/ ~AsksFirst(fg[r]) \/ Owns(r)
      PROVE  Kept
  <2>1. \A s \in Runs \ {r} : Untouched(s)
    BY <1>1, <1>2, FgGoesEffect, SameRow DEF Untouched, SameRows
  <2>2. /\ fg'[r] = pc /\ bg'[r] = bg[r] /\ starter'[r] = starter[r]
        /\ AsksFirst(pc) \/ aborted'[r] = aborted[r]
    BY <1>1, <1>2, FgGoesEffect DEF Reached, AsksFirst
  <2>3. /\ gate'[r].active <=> HoldsLease(pc)
        /\ gate'[r].handoff = "held" => ~gate'[r].active
        /\ gate'[r].handoff # "none" <=> gate[r].handoff # "none"
    <3>1. gate'[r] = IF HoldsLease(fg[r]) /\ ~HoldsLease(pc)
                       THEN LeaseSettled(gate[r]) ELSE gate[r]
      BY <1>1, <1>2, FgGoesEffect
    <3>2. gate[r].active <=> HoldsLease(fg[r])
      BY <1>1 DEF RunInv, Gated
    <3>3. gate[r].handoff = "held" => ~gate[r].active
      BY <1>1 DEF RunInv, Gated
    <3> QED BY <1>1, <1>2, <3>1, <3>2, <3>3, GateEffects
  <2>4. SameRows(Runs)
    BY <1>2, SameRow
  <2>5. /\ status'[r] = status[r] /\ mode'[r] = mode[r]
        /\ delivery'[r] = delivery[r] /\ edge'[r] = edge[r]
    BY <2>4 DEF SameRows
  <2>6. Superseded(r)'
    BY <1>1, <1>2, <2>2, <2>5 DEF Owns, RunInv, Superseded, HoldsLease, AsksFirst
  <2>7. Gated(r)'
    BY <1>1, <2>2, <2>3 DEF RunInv, Gated, HoldsLease
  <2>8. Unborn(r)' /\ Routed(r)'
    BY <1>1, <1>2, <2>2, <2>5 DEF RunInv, Unborn, Routed, Terminal
  <2>9. Started(r)' /\ Attended(r)'
    BY <1>1, <1>2, <2>2, <2>5 DEF Owns, RunInv, Started, Attended
  <2>10. RunInv(r)'
    BY <2>6, <2>7, <2>8, <2>9 DEF RunInv
  <2> QED BY <2>1, <2>10, OneRun
\* The turn moves on with the outcome of its run.
<1>3. ASSUME NEW pc \in FgStates, NEW o \in Outcomes, FgGoes(r, pc), ReportToParent(r, o),
             pc \in {"settled", "none"}, fg[r] # "none"
      PROVE  Kept
  <2>1. /\ fg'[r] = pc /\ bg'[r] = bg[r] /\ starter'[r] = starter[r]
        /\ gate'[r] = IF HoldsLease(fg[r]) THEN LeaseSettled(gate[r]) ELSE gate[r]
    BY <1>1, <1>3, FgGoesEffect DEF HoldsLease
  <2>2. /\ status'[r] = o /\ mode'[r] = mode[r] /\ delivery'[r] = "parent"
        /\ edge'[r] = "closed" /\ SameRows(Runs \ {r})
    BY <1>1, <1>3, ReportEffect
  <2>3. \A s \in Runs \ {r} : Untouched(s)
    BY <1>1, <1>3, <2>2, FgGoesEffect DEF Untouched, SameRows
  <2>4. RunInv(r)'
    BY <1>1, <1>3, <2>1, <2>2, GateEffects
    DEF ReportToParent, RunInv, Unborn, Routed, Gated, Superseded,
       Started, Attended, Terminal, Outcomes, HoldsLease, AsksFirst
  <2> QED BY <2>3, <2>4, OneRun
<1> HIDE DEF Kept
<1> USE DEF FgStates
<1>4. CASE Acquire(r)
  <2>1. CASE "fg" \notin aborted[r] /\ CanAcquire(gate[r])
    <3>1. \A s \in Runs \ {r} : Untouched(s)
      BY <1>1, <1>4, <2>1 DEF Acquire, TypeOK, Untouched, durable
    <3>2. gate'[r] = Acquired(gate[r]) /\ gate[r].handoff = "none"
      BY <1>1, <1>4, <2>1 DEF Acquire, TypeOK, CanAcquire
    <3>3. RunInv(r)'
      BY <1>1, <1>4, <2>1, <3>2, GateEffects
      DEF Acquire, TypeOK, durable, RunInv, Unborn, Routed, Gated, Superseded,
       Started, Attended, Terminal, Outcomes, HoldsLease, AsksFirst
    <3> QED BY <3>1, <3>3, OneRun DEF Kept
  <2>2. CASE ~("fg" \notin aborted[r] /\ CanAcquire(gate[r]))
    <3>1. PICK pc \in {"settled", "refused"} : FgGoes(r, pc) /\ UNCHANGED durable
      BY <1>4, <2>2 DEF Acquire
    <3> QED BY <1>2, <1>4, <3>1 DEF Acquire, HoldsLease, AsksFirst
  <2> QED BY <2>1, <2>2
<1>5. CASE HandoffOver(r)
  <2>1. PICK pc \in {"settled", "ready"} : FgGoes(r, pc) /\ UNCHANGED durable
    BY <1>5 DEF HandoffOver
  <2> QED BY <1>2, <1>5, <2>1 DEF HandoffOver, HoldsLease, AsksFirst
<1>6. CASE AttemptEnds(r)
  <2>1. PICK pc \in {"ready", "stopping", "exhausted", "settled"} :
             FgGoes(r, pc) /\ UNCHANGED durable
    BY <1>6 DEF AttemptEnds
  <2> QED BY <1>2, <1>6, <2>1 DEF AttemptEnds, HoldsLease, AsksFirst
<1>7. CASE FgThrows(r) \/ FgFollowUp(r)
  <2>1. PICK pc \in {"settled", "ready"} : FgGoes(r, pc) /\ UNCHANGED durable
    BY <1>7 DEF FgThrows, FgFollowUp
  <2> QED BY <1>2, <1>7, <2>1 DEF FgThrows, FgFollowUp, HoldsLease, AsksFirst
<1>8. CASE FgFails(r)
  <2>1. CASE fg[r] \notin {"unwinding", "failing"}
    BY <1>2, <1>8, <2>1 DEF FgFails, HoldsLease, AsksFirst
  \* A refused commit means that the run has ended or is in the background.
  <2>2. CASE fg[r] \in {"unwinding", "failing"}
    <3>1. FgGoes(r, "none") /\ UNCHANGED durable /\ ~(status[r] = "running" /\ edge[r] = "open")
      BY <1>8, <2>2 DEF FgFails
    <3>2. ~Owns(r)
      BY <1>1, <3>1 DEF Owns, RunInv, Routed
    <3> QED BY <1>2, <2>2, <3>1, <3>2 DEF HoldsLease, AsksFirst
  <2> QED BY <2>1, <2>2
<1>9. CASE FgFinalizes(r)
  <2>1. PICK pc \in {"unwinding", "none"} :
             FgGoes(r, pc) /\ UNCHANGED durable /\ (pc # "none" \/ ~Owns(r))
    BY <1>9 DEF FgFinalizes
  <2> QED BY <1>2, <1>9, <2>1 DEF FgFinalizes, HoldsLease, AsksFirst
<1>10. ASSUME NEW o \in Outcomes, FgCommits(r, o) PROVE Kept
  <2>1. PICK pc \in {"settled", "none"} : FgGoes(r, pc) /\ ReportToParent(r, o) /\ fg[r] # "none"
    BY <1>10 DEF FgCommits
  <2> QED BY <1>3, <2>1 DEF HoldsLease, AsksFirst
<1>11. CASE SpawnForeground(r) \/ SpawnFails(r)
  <2>1. PICK pc \in {"ready", "settled", "failing", "none"} :
             /\ FgGoes(r, pc) /\ UNCHANGED durable
             /\ pc \in {"ready", "failing"} <=> Owns(r)
    BY <1>11 DEF SpawnForeground, SpawnFails
  <2> QED BY <1>2, <1>11, <2>1 DEF SpawnForeground, SpawnFails, HoldsLease, AsksFirst
<1>12. CASE FgAsks(r)
  BY <1>2, <1>12 DEF FgAsks, HoldsLease, AsksFirst
<1> QED
  BY <1>4, <1>5, <1>6, <1>7, <1>8, <1>9, <1>10, <1>11, <1>12 DEF Foreground

LEMMA BgTypes == {"none", "working", "stopping", "settled"} \subseteq BgStates
BY DEF BgStates

LEMMA BackgroundKeepsRuns ==
    ASSUME IInv, NEW r \in Runs, Background(r)
    PROVE  \A s \in Runs : RunInv(s)'
<1>1. RunInv(r) /\ TypeOK
  BY DEF IInv
<1> DEFINE Kept == \A s \in Runs : RunInv(s)'
<1> SUFFICES Kept
  OBVIOUS
<1>2. CASE BgStops(r) \/ BgFails(r) \/ BgFollowUp(r)
  <2>1. PICK pc \in BgStates \ {"none", "gated"} : BgGoes(r, pc) /\ UNCHANGED durable
    BY <1>2 DEF BgStops, BgFails, BgFollowUp, BgStates
  <2>2. bg[r] \in {"working", "stopping"}
    BY <1>2 DEF BgStops, BgFails, BgFollowUp
  <2>3. \A s \in Runs \ {r} : Untouched(s)
    BY <1>1, <2>1, BgGoesEffect, BgTypes, SameRow DEF Untouched, SameRows
  <2>4. RunInv(r)'
    BY <1>1, <2>1, <2>2, BgGoesEffect, BgTypes, SameRow
    DEF SameRows, BgStates, RunInv, Unborn, Routed, Gated, Superseded,
       Started, Attended, Terminal, Outcomes, HoldsLease, AsksFirst
  <2> QED BY <2>3, <2>4, OneRun
<1>3. ASSUME NEW o \in Outcomes, BgCommits(r, o) PROVE Kept
  <2>1. BgGoes(r, "settled") /\ EndInBackground(r, o) /\ bg[r] = "stopping"
    BY <1>3 DEF BgCommits
  <2>2. /\ status'[r] = o /\ mode'[r] = mode[r] /\ delivery'[r] = delivery[r]
        /\ edge'[r] = edge[r] /\ SameRows(Runs \ {r})
    BY <1>1, <2>1, OutboxEffect
  <2>3. \A s \in Runs \ {r} : Untouched(s)
    BY <1>1, <2>1, <2>2, BgGoesEffect, BgTypes DEF Untouched, SameRows
  <2>4. RunInv(r)'
    BY <1>1, <2>1, <2>2, BgGoesEffect, BgTypes
    DEF EndInBackground, RunInv, Unborn, Routed, Gated, Superseded,
       Started, Attended, Terminal, Outcomes, HoldsLease, AsksFirst
  <2> QED BY <2>3, <2>4, OneRun
<1>4. ASSUME NEW o \in Outcomes, BgFinalizes(r, o) PROVE Kept
  <2>1. BgGoes(r, "none") /\ bg[r] = "settled"
    BY <1>4 DEF BgFinalizes
  <2>2. /\ bg'[r] = "none" /\ fg'[r] = fg[r] /\ starter'[r] = starter[r]
        /\ gate'[r] = gate[r] /\ aborted'[r] = aborted[r] \ {"bg"}
    BY <1>1, <2>1, BgGoesEffect, BgTypes
  <2>3. CASE status[r] # "running" /\ UNCHANGED durable
    <3>1. SameRows(Runs)
      BY <2>3, SameRow
    <3>2. \A s \in Runs \ {r} : Untouched(s)
      BY <1>1, <2>1, <3>1, BgGoesEffect, BgTypes DEF Untouched, SameRows
    <3>3. RunInv(r)'
      BY <1>1, <2>1, <2>2, <2>3, <3>1
      DEF SameRows, RunInv, Unborn, Routed, Gated, Superseded,
       Started, Attended, Terminal, Outcomes, HoldsLease, AsksFirst
    <3> QED BY <3>2, <3>3, OneRun
  <2>4. CASE ReportToParent(r, o)
    <3>1. /\ status'[r] = o /\ mode'[r] = mode[r] /\ delivery'[r] = "parent"
          /\ edge'[r] = "closed" /\ SameRows(Runs \ {r})
      BY <1>1, <2>4, ReportEffect
    <3>2. \A s \in Runs \ {r} : Untouched(s)
      BY <1>1, <2>1, <3>1, BgGoesEffect, BgTypes DEF Untouched, SameRows
    <3>3. RunInv(r)'
      BY <1>1, <2>1, <2>2, <2>4, <3>1
      DEF ReportToParent, RunInv, Unborn, Routed, Gated, Superseded,
       Started, Attended, Terminal, Outcomes, HoldsLease, AsksFirst
    <3> QED BY <3>2, <3>3, OneRun
  <2>5. CASE EndInBackground(r, o)
    <3>1. /\ status'[r] = o /\ mode'[r] = mode[r] /\ delivery'[r] = delivery[r]
          /\ edge'[r] = edge[r] /\ SameRows(Runs \ {r})
      BY <1>1, <2>5, OutboxEffect
    <3>2. \A s \in Runs \ {r} : Untouched(s)
      BY <1>1, <2>1, <3>1, BgGoesEffect, BgTypes DEF Untouched, SameRows
    <3>3. RunInv(r)'
      BY <1>1, <2>1, <2>2, <2>5, <3>1
      DEF EndInBackground, RunInv, Unborn, Routed, Gated, Superseded,
       Started, Attended, Terminal, Outcomes, HoldsLease, AsksFirst
    <3> QED BY <3>2, <3>3, OneRun
  <2> QED BY <1>4, <2>3, <2>4, <2>5 DEF BgFinalizes
<1> QED BY <1>2, <1>3, <1>4 DEF Background

LEMMA HandoffKeepsRuns ==
    ASSUME IInv, NEW r \in Runs, Handoff(r)
    PROVE  \A s \in Runs : RunInv(s)'
<1>1. RunInv(r) /\ TypeOK /\ gate[r] \in GateOf
  BY DEF IInv, TypeOK
<1>2. CASE BackgroundAction(r)
  <2>1. \A s \in Runs \ {r} : Untouched(s)
    BY <1>1, <1>2 DEF BackgroundAction, TypeOK, Untouched, durable
  <2>2. gate'[r] = HandoffBegun(gate[r])
    BY <1>1, <1>2 DEF BackgroundAction, TypeOK
  <2>3. RunInv(r)'
    BY <1>1, <1>2, <2>2, GateEffects
    DEF BackgroundAction, CanBeginHandoff, Owns, durable, TypeOK, RunInv, Unborn, Routed, Gated, Superseded,
       Started, Attended, Terminal, Outcomes, HoldsLease, AsksFirst
  <2> QED BY <2>1, <2>3, OneRun
<1>3. CASE AbandonHandoff(r)
  <2>1. \A s \in Runs \ {r} : Untouched(s)
    BY <1>1, <1>3 DEF AbandonHandoff, TypeOK, Untouched, durable
  <2>2. gate'[r] = HandoffClosed(gate[r])
    BY <1>1, <1>3 DEF AbandonHandoff, TypeOK
  <2>3. RunInv(r)'
    BY <1>1, <1>3, <2>2, GateEffects
    DEF AbandonHandoff, durable, TypeOK, RunInv, Unborn, Routed, Gated, Superseded,
       Started, Attended, Terminal, Outcomes, HoldsLease, AsksFirst
  <2> QED BY <2>1, <2>3, OneRun
<1>4. CASE Switch(r)
  <2>1. \A s \in Runs \ {r} : Untouched(s)
    BY <1>1, <1>4 DEF Switch, TypeOK, Untouched
  <2>2. gate'[r] = gate[r]
    BY <1>1, <1>4 DEF Switch, TypeOK
  <2>3. RunInv(r)'
    BY <1>1, <1>4, <2>2, GateEffects
    DEF Switch, MaySwitch, Owns, TypeOK, RunInv, Unborn, Routed, Gated, Superseded,
       Started, Attended, Terminal, Outcomes, HoldsLease, AsksFirst
  <2> QED BY <2>1, <2>3, OneRun
<1>5. CASE Ack(r)
  <2>1. \A s \in Runs \ {r} : Untouched(s)
    BY <1>1, <1>5 DEF Ack, TypeOK, Untouched
  <2>2. gate'[r] = gate[r]
    BY <1>1, <1>5 DEF Ack, TypeOK
  <2>3. RunInv(r)'
    BY <1>1, <1>5, <2>2, GateEffects
    DEF Ack, MayAck, TypeOK, RunInv, Unborn, Routed, Gated, Superseded,
       Started, Attended, Terminal, Outcomes, HoldsLease, AsksFirst
  <2> QED BY <2>1, <2>3, OneRun
<1>6. CASE AckFails(r)
  <2>1. \A s \in Runs \ {r} : Untouched(s)
    BY <1>1, <1>6 DEF AckFails, TypeOK, Untouched, RejectTurn, durable
  <2>2. gate'[r] = gate[r]
    BY <1>1, <1>6 DEF AckFails, TypeOK, RejectTurn, durable
  <2>3. RunInv(r)'
    BY <1>1, <1>6, <2>2, GateEffects
    DEF AckFails, MayAck, RejectTurn, durable, TypeOK, RunInv, Unborn, Routed, Gated, Superseded,
       Started, Attended, Terminal, Outcomes, HoldsLease, AsksFirst
  <2> QED BY <2>1, <2>3, OneRun
<1>7. CASE Release(r)
  <2>1. \A s \in Runs \ {r} : Untouched(s)
    BY <1>1, <1>7 DEF Release, TypeOK, Untouched, durable
  <2>2. gate'[r] = HandoffClosed(gate[r])
    BY <1>1, <1>7 DEF Release, TypeOK
  <2>3. RunInv(r)'
    BY <1>1, <1>7, <2>2, GateEffects
    DEF Release, MayRelease, durable, TypeOK, RunInv, Unborn, Routed, Gated, Superseded,
       Started, Attended, Terminal, Outcomes, HoldsLease, AsksFirst
  <2> QED BY <2>1, <2>3, OneRun
<1>8. CASE Rejected(r)
  <2>1. \A s \in Runs \ {r} : Untouched(s)
    BY <1>1, <1>8 DEF Rejected, TypeOK, Untouched, durable
  <2>2. gate'[r] = HandoffClosed(gate[r])
    BY <1>1, <1>8 DEF Rejected, TypeOK
  <2>3. RunInv(r)'
    BY <1>1, <1>8, <2>2, GateEffects
    DEF Rejected, durable, TypeOK, RunInv, Unborn, Routed, Gated, Superseded,
       Started, Attended, Terminal, Outcomes, HoldsLease, AsksFirst
  <2> QED BY <2>1, <2>3, OneRun
<1>9. CASE SwitchFails(r)
  <2>1. \A s \in Runs \ {r} : Untouched(s)
    BY <1>1, <1>9 DEF SwitchFails, TypeOK, Untouched
  <2>2. gate'[r] = gate[r]
    BY <1>1, <1>9 DEF SwitchFails, TypeOK
  <2>3. RunInv(r)'
    BY <1>1, <1>9, <2>2, GateEffects
    DEF SwitchFails, MaySwitch, Owns, Registered, TypeOK, RunInv, Unborn, Routed, Gated,
       Superseded, Started, Attended, Terminal, Outcomes, HoldsLease, AsksFirst
  <2> QED BY <2>1, <2>3, OneRun
<1> QED BY <1>2, <1>3, <1>4, <1>5, <1>6, <1>7, <1>8, <1>9 DEF Handoff

\* Steps that concern any number of runs, one of them at a time.
LEMMA AbortKeepsRun ==
    ASSUME IInv, NEW E, AbortTasks(E), NEW r \in Runs,
           fg'[r] = fg[r], bg'[r] = bg[r], aborted[r] \subseteq aborted'[r],
           \/ starter'[r] = starter[r] /\ gate'[r] = gate[r]
           \/ starter[r] = "draining" /\ starter'[r] = "none"
              /\ gate'[r] = HandoffClosed(gate[r])
    PROVE  RunInv(r)'
<1>1. RunInv(r) /\ TypeOK /\ gate[r] \in GateOf
  BY DEF IInv, TypeOK
<1>2. /\ mode'[r] = mode[r]
      /\ \/ edge'[r] = edge[r] /\ status'[r] = status[r] /\ delivery'[r] = delivery[r]
         \/ /\ edge[r] = "open" /\ edge'[r] = "aborted"
            /\ status'[r] = IF status[r] = "running" THEN "interrupted" ELSE status[r]
            /\ delivery'[r] = IF status[r] # "none" THEN "parent" ELSE delivery[r]
  BY <1>1 DEF AbortTasks, TypeOK
<1>3. CASE starter'[r] = starter[r] /\ gate'[r] = gate[r]
  BY <1>1, <1>2, <1>3
  DEF RunInv, Unborn, Routed, Gated, Superseded,
       Started, Attended, Terminal, Outcomes, HoldsLease, AsksFirst
<1>4. CASE starter[r] = "draining" /\ starter'[r] = "none" /\ gate'[r] = HandoffClosed(gate[r])
  BY <1>1, <1>2, <1>4, GateEffects
  DEF RunInv, Unborn, Routed, Gated, Superseded,
       Started, Attended, Terminal, Outcomes, HoldsLease, AsksFirst
<1> QED BY <1>3, <1>4

LEMMA CancelKeepsRuns ==
    ASSUME IInv, NEW E, Cancel(E) \/ InterruptTasks(E) \/ CloseAttachment
    PROVE  \A s \in Runs : RunInv(s)'
<1> SUFFICES ASSUME NEW r \in Runs PROVE RunInv(r)'
  OBVIOUS
<1>1. RunInv(r) /\ TypeOK
  BY DEF IInv
<1>2. CASE Cancel(E)
  <2>1. fg'[r] = fg[r] /\ bg'[r] = bg[r] /\ aborted[r] \subseteq aborted'[r]
    BY <1>2 DEF Cancel, Abort
  <2>2. \/ starter'[r] = starter[r] /\ gate'[r] = gate[r]
        \/ starter[r] = "draining" /\ starter'[r] = "none"
           /\ gate'[r] = HandoffClosed(gate[r])
    BY <1>2 DEF Cancel
  <2>3. AbortTasks(E)
    BY <1>2 DEF Cancel
  <2> QED BY <2>1, <2>2, <2>3, AbortKeepsRun
<1>3. CASE InterruptTasks(E)
  <2>1. AbortTasks(E) /\ UNCHANGED turns
    BY <1>3 DEF InterruptTasks
  <2> QED BY <2>1, AbortKeepsRun DEF turns
<1>4. CASE CloseAttachment
  <2>1. /\ status' = status /\ mode' = mode /\ delivery' = delivery /\ edge' = edge
        /\ fg' = fg /\ bg' = bg /\ starter' = starter /\ gate' = gate
        /\ aborted[r] \subseteq aborted'[r]
    BY <1>4 DEF CloseAttachment, durable
  <2> QED BY <1>1, <2>1
      DEF RunInv, Unborn, Routed, Gated, Superseded,
       Started, Attended, Terminal, Outcomes, HoldsLease, AsksFirst
<1> QED BY <1>2, <1>3, <1>4

LEMMA DeliverKeepsRuns ==
    ASSUME IInv, NEW S, NEW l, CanDeliver(S), Deliver(S, l), UNCHANGED turns
    PROVE  \A s \in Runs : RunInv(s)'
<1> SUFFICES ASSUME NEW r \in Runs PROVE RunInv(r)'
  OBVIOUS
<1>1. RunInv(r) /\ TypeOK
  BY DEF IInv
<1>2. CASE r \in S
  <2>1. delivery'[r] = l /\ Terminal(r) /\ delivery[r] = "pending"
    BY <1>2 DEF CanDeliver, Deliver
  <2>2. status' = status /\ mode' = mode /\ edge' = edge
    BY DEF Deliver
  <2> QED BY <1>1, <2>1, <2>2
      DEF turns, RunInv, Unborn, Routed, Gated, Superseded,
       Started, Attended, Terminal, Outcomes, HoldsLease, AsksFirst
<1>3. CASE r \notin S
  <2>1. status' = status /\ mode' = mode /\ edge' = edge /\ delivery'[r] = delivery[r]
    BY <1>3 DEF Deliver
  <2> QED BY <1>1, <2>1
      DEF turns, RunInv, Unborn, Routed, Gated, Superseded,
       Started, Attended, Terminal, Outcomes, HoldsLease, AsksFirst
<1> QED BY <1>2, <1>3

LEMMA StutterKeepsRuns ==
    ASSUME IInv, UNCHANGED <<durable, turns>> PROVE \A s \in Runs : RunInv(s)'
BY UntouchedKeepsRun DEF IInv, Untouched, durable, turns

LEMMA ParentKeepsRuns ==
    ASSUME IInv,
           \/ \E w \in Waits : Awaiting(w)
           \/ \E S \in SUBSET Runs : Notify(S)
           \/ NoticeCommits \/ NoticeDropped
    PROVE  \A s \in Runs : RunInv(s)'
<1>1. CASE \E S \in SUBSET Runs : Notify(S)
  BY <1>1, StutterKeepsRuns DEF Notify
<1>2. CASE NoticeDropped
  BY <1>2, StutterKeepsRuns DEF NoticeDropped
<1>3. CASE NoticeCommits
  <2>1. UNCHANGED turns /\ (UNCHANGED durable \/ (CanDeliver(notice) /\ Deliver(notice, "notice")))
    BY <1>3 DEF NoticeCommits
  <2> QED BY <2>1, StutterKeepsRuns, DeliverKeepsRuns
<1>4. ASSUME NEW w \in Waits, Awaiting(w) PROVE \A s \in Runs : RunInv(s)'
  <2>1. CASE AwaitCommit(w)
    <3> DEFINE r == wait[w].run
    <3>1. UNCHANGED turns /\ (UNCHANGED durable \/ (CanDeliver({r}) /\ Deliver({r}, w)))
      BY <2>1 DEF AwaitCommit
    <3> QED BY <3>1, StutterKeepsRuns, DeliverKeepsRuns
  <2>2. CASE \/ \E r \in Runs, h \in Runs \cup {NoRun} : AwaitTask(w, r, h)
             \/ AwaitReads(w) \/ AwaitDeadline(w) \/ AwaitAborted(w)
    BY <2>2, StutterKeepsRuns DEF AwaitTask, AwaitReads, AwaitDeadline, AwaitAborted
  <2> QED BY <1>4, <2>1, <2>2 DEF Awaiting
<1> QED BY <1>1, <1>2, <1>3, <1>4

LEMMA RestartKeepsRuns ==
    ASSUME IInv, Restart PROVE \A s \in Runs : RunInv(s)'
<1> SUFFICES ASSUME NEW r \in Runs PROVE RunInv(r)'
  OBVIOUS
<1>1. RunInv(r) /\ TypeOK
  BY DEF IInv
<1>2. /\ fg'[r] = "none" /\ bg'[r] = "none" /\ aborted'[r] = {} /\ starter'[r] = "none"
      /\ gate'[r].active = FALSE /\ gate'[r].handoff = "none"
  BY DEF Restart, ColdStart, FreeGate
<1> DEFINE owed == status[r] # "none" /\ delivery[r] = "pending" /\ edge[r] = "open"
<1>3. /\ status'[r] = IF status[r] = "running" THEN "interrupted" ELSE status[r]
      /\ delivery'[r] = IF owed THEN "parent" ELSE delivery[r]
      /\ edge'[r] = IF owed THEN "closed" ELSE edge[r]
      /\ mode'[r] = mode[r]
  BY DEF Restart
<1> QED BY <1>1, <1>2, <1>3
    DEF RunInv, Unborn, Routed, Gated, Superseded,
       Started, Attended, Terminal, Outcomes, HoldsLease, AsksFirst

LEMMA KillKeepsRuns ==
    ASSUME IInv, NEW r \in Runs, Kill(r) PROVE \A s \in Runs : RunInv(s)'
<1>1. RunInv(r) /\ TypeOK
  BY DEF IInv
<1>2. \A s \in Runs \ {r} : Untouched(s)
  BY <1>1 DEF Kill, TypeOK, Untouched, durable
<1>3. aborted[r] \subseteq aborted'[r] /\ UNCHANGED <<durable, fg, bg, starter, gate>>
  BY <1>1 DEF Kill, TypeOK
<1>4. RunInv(r)'
  BY <1>1, <1>3
  DEF durable, RunInv, Unborn, Routed, Gated, Superseded,
       Started, Attended, Terminal, Outcomes, HoldsLease, AsksFirst
<1> QED BY <1>2, <1>4, OneRun

LEMMA InitIInv == Init => IInv
<1> SUFFICES ASSUME Init PROVE IInv
  OBVIOUS
<1>1. TypeOK
  BY InitTypes
<1>2. ASSUME NEW r \in Runs PROVE RunInv(r)
  BY DEF Init, FreeGate, RunInv, Unborn, Routed, Gated, Superseded,
       Started, Attended, Terminal, Outcomes, HoldsLease, AsksFirst
<1> QED BY <1>1, <1>2 DEF IInv

LEMMA StepIInv == IInv /\ [Next]_vars => IInv'
<1> SUFFICES ASSUME IInv, [Next]_vars PROVE IInv'
  OBVIOUS
<1>1. TypeOK'
  BY StepKeepsTypes DEF IInv
<1>2. CASE UNCHANGED vars
  BY <1>1, <1>2, StutterKeepsRuns DEF vars, IInv
<1>3. CASE Next
  BY <1>1, <1>3, StartKeepsRuns, ForegroundKeepsRuns, HandoffKeepsRuns, BackgroundKeepsRuns,
     KillKeepsRuns, CancelKeepsRuns, ParentKeepsRuns, RestartKeepsRuns DEF Next, IInv
<1> QED BY <1>2, <1>3

LEMMA IInvAlways == Spec => []IInv
BY InitIInv, StepIInv, PTL DEF Spec

-----------------------------------------------------------------------------
(* The safety properties. *)

\* After a crash at any point the conversation can be mounted again: no
\* interleaving of handoff, answer, abort and end leaves a run without a route.
THEOREM NeverUnmountable == Spec => []AlwaysMountable
<1>1. IInv => AlwaysMountable
  BY DEF IInv, TypeOK, RunInv, Routed, Terminal, Statuses, AlwaysMountable, CanMount
<1> QED BY <1>1, IInvAlways, PTL

\* An outcome that nobody was told of belongs to an acknowledged background run.
THEOREM OutcomesAreRouted == Spec => []OutcomeHasRoute
<1>1. IInv => OutcomeHasRoute
  BY DEF IInv, RunInv, Routed, OutcomeHasRoute
<1> QED BY <1>1, IInvAlways, PTL

\* A handoff never takes a run away under an attempt that works on it.
THEOREM WorkersOwnTheirRuns == Spec => []WorkerOwnsRun
<1>1. IInv => WorkerOwnsRun
  BY DEF IInv, TypeOK, RunInv, Superseded, WorkerOwnsRun
<1> QED BY <1>1, IInvAlways, PTL

\* The background turn of a run works only after its foreground turn is gone.
THEOREM TurnsDoNotOverlap == Spec => []OneTurnWorks
<1>1. IInv => OneTurnWorks
  BY DEF IInv, RunInv, Started, OneTurnWorks
<1> QED BY <1>1, IInvAlways, PTL

\* No run is durably running without its turn, or the handler that spawns it
\* or failed to: somebody will end it, also where a handoff meets a run whose
\* turn is not registered.
THEOREM RunningRunsAreAttended == Spec => []RunningRunIsAttended
<1>1. IInv => RunningRunIsAttended
  BY DEF IInv, RunInv, Attended, RunningRunIsAttended
<1> QED BY <1>1, IInvAlways, PTL

\* No lease and no handoff token outlives the attempt or handler that took it.
THEOREM GatesAreOwned == Spec => []GateHasOwner
<1>1. IInv => GateHasOwner
  BY DEF IInv, RunInv, Gated, GateHasOwner
<1> QED BY <1>1, IInvAlways, PTL

-----------------------------------------------------------------------------
(* The promise to the parent. *)

\* What a step shows the parent of run r.
Kept(r) == Seen'[r] = Seen[r] \/ Promise!Step(Seen[r], Seen'[r])

LEMMA SeenRow ==
    ASSUME NEW r \in Runs
    PROVE  /\ Seen[r] = [call |-> edge[r], fate |-> status[r], told |-> delivery[r]]
           /\ Seen'[r] = [call |-> edge'[r], fate |-> status'[r], told |-> delivery'[r]]
BY DEF Seen

LEMMA SameRowIsKept ==
    ASSUME NEW r \in Runs, edge'[r] = edge[r], status'[r] = status[r], delivery'[r] = delivery[r]
    PROVE  Kept(r)
BY SeenRow DEF Kept

LEMMA SameDurableIsKept == UNCHANGED durable => \A r \in Runs : Kept(r)
BY SameRowIsKept DEF durable

\* The transitions of a row that the promise knows.
LEMMA CalledIsKept ==
    ASSUME NEW r \in Runs, edge[r] = "none", edge'[r] = "open",
           status'[r] = status[r], delivery'[r] = delivery[r]
    PROVE  Kept(r)
<1> DEFINE p == [call |-> edge[r], fate |-> status[r], told |-> delivery[r]]
<1> DEFINE q == [call |-> edge'[r], fate |-> status'[r], told |-> delivery'[r]]
<1>1. Promise!Called(p, q)
  BY DEF Promise!Called
<1>2. Promise!Step(p, q)
  BY <1>1 DEF Promise!Step
<1> QED BY <1>2, SeenRow DEF Kept

LEMMA StartedIsKept ==
    ASSUME NEW r \in Runs, edge[r] = "open", edge'[r] = edge[r], status[r] = "none",
           status'[r] = "running", delivery'[r] = delivery[r]
    PROVE  Kept(r)
<1> DEFINE p == [call |-> edge[r], fate |-> status[r], told |-> delivery[r]]
<1> DEFINE q == [call |-> edge'[r], fate |-> status'[r], told |-> delivery'[r]]
<1>1. Promise!Started(p, q)
  BY DEF Promise!Started
<1>2. Promise!Step(p, q)
  BY <1>1 DEF Promise!Step
<1> QED BY <1>2, SeenRow DEF Kept

LEMMA AnsweredIsKept ==
    ASSUME NEW r \in Runs, edge[r] = "open", status'[r] = status[r], delivery'[r] = delivery[r],
           \/ status[r] = "none" /\ edge'[r] \in {"closed", "aborted"}
           \/ status[r] = "running" /\ edge'[r] = "closed"
    PROVE  Kept(r)
<1> DEFINE p == [call |-> edge[r], fate |-> status[r], told |-> delivery[r]]
<1> DEFINE q == [call |-> edge'[r], fate |-> status'[r], told |-> delivery'[r]]
<1>1. Promise!Answered(p, q)
  BY DEF Promise!Answered
<1>2. Promise!Step(p, q)
  BY <1>1 DEF Promise!Step
<1> QED BY <1>2, SeenRow DEF Kept

LEMMA ReportedIsKept ==
    ASSUME NEW r \in Runs, edge[r] = "open", status[r] = "running",
           status'[r] \in Outcomes, edge'[r] \in {"closed", "aborted"}, delivery'[r] = "parent"
    PROVE  Kept(r)
<1> DEFINE p == [call |-> edge[r], fate |-> status[r], told |-> delivery[r]]
<1> DEFINE q == [call |-> edge'[r], fate |-> status'[r], told |-> delivery'[r]]
<1>1. Promise!Reported(p, q)
  BY DEF Promise!Reported, Promise!Outcomes, Outcomes
<1>2. Promise!Step(p, q)
  BY <1>1 DEF Promise!Step
<1> QED BY <1>2, SeenRow DEF Kept

LEMMA EndedIsKept ==
    ASSUME NEW r \in Runs, edge[r] = "closed", edge'[r] = edge[r], status[r] = "running",
           status'[r] \in Outcomes, delivery'[r] = delivery[r]
    PROVE  Kept(r)
<1> DEFINE p == [call |-> edge[r], fate |-> status[r], told |-> delivery[r]]
<1> DEFINE q == [call |-> edge'[r], fate |-> status'[r], told |-> delivery'[r]]
<1>1. Promise!Ended(p, q)
  BY DEF Promise!Ended, Promise!Outcomes, Outcomes
<1>2. Promise!Step(p, q)
  BY <1>1 DEF Promise!Step
<1> QED BY <1>2, SeenRow DEF Kept

LEMMA ToldIsKept ==
    ASSUME NEW r \in Runs, edge[r] = "closed", edge'[r] = edge[r], status[r] \in Outcomes,
           status'[r] = status[r], delivery[r] = "pending",
           delivery'[r] \in {"notice"} \cup Waits
    PROVE  Kept(r)
<1> DEFINE p == [call |-> edge[r], fate |-> status[r], told |-> delivery[r]]
<1> DEFINE q == [call |-> edge'[r], fate |-> status'[r], told |-> delivery'[r]]
<1>1. Promise!Told(p, q)
  BY DEF Promise!Told, Promise!Outcomes, Outcomes
<1>2. Promise!Step(p, q)
  BY <1>1 DEF Promise!Step
<1> QED BY <1>2, SeenRow DEF Kept

LEMMA ReportKeeps ==
    ASSUME IInv, NEW r \in Runs, NEW o \in Outcomes, ReportToParent(r, o)
    PROVE  \A s \in Runs : Kept(s)
<1>1. /\ status'[r] = o /\ delivery'[r] = "parent" /\ edge'[r] = "closed"
      /\ SameRows(Runs \ {r})
  BY ReportEffect DEF IInv
<1>2. Kept(r)
  BY <1>1, ReportedIsKept DEF ReportToParent
<1>3. \A s \in Runs \ {r} : Kept(s)
  BY <1>1, SameRowIsKept DEF SameRows
<1> QED BY <1>2, <1>3

LEMMA OutboxKeeps ==
    ASSUME IInv, NEW r \in Runs, NEW o \in Outcomes, EndInBackground(r, o)
    PROVE  \A s \in Runs : Kept(s)
<1>1. /\ status'[r] = o /\ delivery'[r] = delivery[r] /\ edge'[r] = edge[r]
      /\ SameRows(Runs \ {r})
  BY OutboxEffect DEF IInv
<1>2. Kept(r)
  BY <1>1, EndedIsKept DEF EndInBackground
<1>3. \A s \in Runs \ {r} : Kept(s)
  BY <1>1, SameRowIsKept DEF SameRows
<1> QED BY <1>2, <1>3

\* An aborted call either had no run or ends it.
LEMMA AbortKeeps ==
    ASSUME IInv, NEW E, AbortTasks(E)
    PROVE  \A s \in Runs : Kept(s)
<1> SUFFICES ASSUME NEW r \in Runs PROVE Kept(r)
  OBVIOUS
<1>1. RunInv(r)
  BY DEF IInv
<1>2. CASE r \notin E
  BY <1>2, SameRowIsKept DEF AbortTasks
<1>3. CASE r \in E
  <2>1. edge[r] = "open" /\ edge'[r] = "aborted" /\ status[r] \in {"none", "running"}
    BY <1>1, <1>3 DEF AbortTasks, RunInv, Routed
  <2>2. CASE status[r] = "none"
    <3>1. status'[r] = status[r] /\ delivery'[r] = delivery[r]
      BY <1>3, <2>2 DEF AbortTasks
    <3> QED BY <2>1, <2>2, <3>1, AnsweredIsKept
  <2>3. CASE status[r] = "running"
    <3>1. status'[r] = "interrupted" /\ delivery'[r] = "parent"
      BY <1>3, <2>3 DEF AbortTasks
    <3> QED BY <2>1, <2>3, <3>1, ReportedIsKept DEF Outcomes
  <2> QED BY <2>1, <2>2, <2>3
<1> QED BY <1>2, <1>3

LEMMA DeliverKeeps ==
    ASSUME IInv, NEW S, NEW l \in {"notice"} \cup Waits, CanDeliver(S), Deliver(S, l)
    PROVE  \A s \in Runs : Kept(s)
<1> SUFFICES ASSUME NEW r \in Runs PROVE Kept(r)
  OBVIOUS
<1>1. RunInv(r) /\ status' = status /\ edge' = edge
  BY DEF IInv, Deliver
<1>2. CASE r \notin S
  BY <1>1, <1>2, SameRowIsKept DEF Deliver
<1>3. CASE r \in S
  <2>1. status[r] \in Outcomes /\ delivery[r] = "pending" /\ delivery'[r] = l
    BY <1>3 DEF CanDeliver, Deliver, Terminal
  <2>2. edge[r] = "closed"
    BY <1>1, <2>1 DEF RunInv, Routed, Terminal
  <2> QED BY <1>1, <2>1, <2>2, ToldIsKept
<1> QED BY <1>2, <1>3

LEMMA StartKeeps ==
    ASSUME IInv, NEW r \in Runs,
           Dispatch(r) \/ RejectTask(r) \/ AdmitForeground(r) \/ SpawnBackground(r) \/ Ack(r)
    PROVE  \A s \in Runs : Kept(s)
<1>1. RunInv(r) /\ TypeOK
  BY DEF IInv
<1>2. \A s \in Runs \ {r} :
         edge'[s] = edge[s] /\ status'[s] = status[s] /\ delivery'[s] = delivery[s]
  BY <1>1 DEF TypeOK, Dispatch, RejectTask, AdmitForeground, SpawnBackground, Ack
<1>3. Kept(r)
  <2>1. CASE Dispatch(r)
    BY <1>1, <2>1, CalledIsKept DEF Dispatch, TypeOK
  <2>2. CASE RejectTask(r)
    <3>1. status[r] = "none" /\ status' = status /\ delivery' = delivery
      BY <1>1, <2>2 DEF RejectTask, RunInv, Started
    <3>2. CASE edge[r] = "open"
      BY <1>1, <2>2, <3>1, <3>2, AnsweredIsKept DEF RejectTask, TypeOK
    <3>3. CASE edge[r] # "open"
      BY <2>2, <3>1, <3>3, SameRowIsKept DEF RejectTask
    <3> QED BY <3>2, <3>3
  <2>3. CASE AdmitForeground(r) \/ SpawnBackground(r)
    <3>1. status[r] = "none"
      BY <1>1, <2>3 DEF AdmitForeground, SpawnBackground, RunInv, Started
    <3> QED BY <1>1, <2>3, <3>1, StartedIsKept DEF AdmitForeground, SpawnBackground, TypeOK
  <2>4. CASE Ack(r)
    <3>1. status[r] = "running"
      BY <1>1, <2>4 DEF Ack, MayAck, RunInv, Routed, Unborn
    <3> QED BY <1>1, <2>4, <3>1, AnsweredIsKept DEF Ack, TypeOK
  <2> QED BY <2>1, <2>2, <2>3, <2>4
<1> QED BY <1>2, <1>3, SameRowIsKept

LEMMA RestartKeeps ==
    ASSUME IInv, Restart PROVE \A s \in Runs : Kept(s)
<1> SUFFICES ASSUME NEW r \in Runs PROVE Kept(r)
  OBVIOUS
<1>1. RunInv(r) /\ status[r] \in Statuses
  BY DEF IInv, TypeOK
<1> DEFINE owed == status[r] # "none" /\ delivery[r] = "pending" /\ edge[r] = "open"
<1>2. /\ status'[r] = IF status[r] = "running" THEN "interrupted" ELSE status[r]
      /\ delivery'[r] = IF owed THEN "parent" ELSE delivery[r]
      /\ edge'[r] = IF owed THEN "closed" ELSE edge[r]
  BY DEF Restart
<1>3. CASE status[r] = "running" /\ edge[r] = "open"
  <2>1. owed
    BY <1>1, <1>3 DEF RunInv, Routed
  <2> QED BY <1>2, <1>3, <2>1, ReportedIsKept DEF Outcomes
<1>4. CASE status[r] = "running" /\ edge[r] # "open"
  <2>1. edge[r] = "closed"
    BY <1>1, <1>4 DEF RunInv, Routed
  <2> QED BY <1>2, <1>4, <2>1, EndedIsKept DEF Outcomes
<1>5. CASE status[r] # "running"
  <2>1. ~owed
    BY <1>1, <1>5 DEF RunInv, Routed
  <2> QED BY <1>2, <1>5, <2>1, SameRowIsKept
<1> QED BY <1>3, <1>4, <1>5

LEMMA StepKeeps ==
    ASSUME IInv, Next PROVE \A s \in Runs : Kept(s)
<1> DEFINE AllKept == \A s \in Runs : Kept(s)
<1> SUFFICES AllKept
  OBVIOUS
<1> HIDE DEF AllKept
<1>0. UNCHANGED durable => AllKept
  BY SameDurableIsKept DEF AllKept
<1>1. ASSUME NEW r \in Runs,
             \/ Dispatch(r) \/ RejectTask(r) \/ AdmitForeground(r) \/ SpawnBackground(r)
             \/ Kill(r)
      PROVE  AllKept
  BY <1>0, <1>1, StartKeeps DEF AllKept, Kill
<1>2. ASSUME NEW r \in Runs, Foreground(r) PROVE AllKept
  <2>1. CASE \E o \in Outcomes : FgCommits(r, o)
    BY <2>1, ReportKeeps DEF FgCommits, AllKept
  <2>2. CASE \/ SpawnForeground(r) \/ SpawnFails(r) \/ FgAsks(r)
             \/ Acquire(r) \/ HandoffOver(r) \/ FgThrows(r) \/ AttemptEnds(r)
             \/ FgFollowUp(r) \/ FgFails(r) \/ FgFinalizes(r)
    <3>1. UNCHANGED durable
      BY <2>2 DEF SpawnForeground, SpawnFails, FgAsks, Acquire, HandoffOver, FgThrows,
                  AttemptEnds, FgFollowUp, FgFails, FgFinalizes
    <3> QED BY <1>0, <3>1
  <2> QED BY <1>2, <2>1, <2>2 DEF Foreground
<1>3. ASSUME NEW r \in Runs, Handoff(r) PROVE AllKept
  <2>1. CASE Ack(r)
    BY <2>1, StartKeeps DEF AllKept
  <2>2. CASE Switch(r) \/ SwitchFails(r)
    <3>1. \A s \in Runs :
             edge'[s] = edge[s] /\ status'[s] = status[s] /\ delivery'[s] = delivery[s]
      BY <2>2 DEF Switch, SwitchFails
    <3> QED BY <3>1, SameRowIsKept DEF AllKept
  <2>3. CASE \/ BackgroundAction(r) \/ AbandonHandoff(r) \/ AckFails(r) \/ Release(r)
             \/ Rejected(r)
    BY <1>0, <2>3 DEF BackgroundAction, AbandonHandoff, AckFails, Release, Rejected
  <2> QED BY <1>3, <2>1, <2>2, <2>3 DEF Handoff
<1>4. ASSUME NEW r \in Runs, Background(r) PROVE AllKept
  <2>1. CASE BgStops(r) \/ BgFails(r) \/ BgFollowUp(r)
    BY <1>0, <2>1 DEF BgStops, BgFails, BgFollowUp
  <2>2. ASSUME NEW o \in Outcomes, BgCommits(r, o) PROVE AllKept
    BY <2>2, OutboxKeeps DEF BgCommits, AllKept
  <2>3. ASSUME NEW o \in Outcomes, BgFinalizes(r, o) PROVE AllKept
    <3>1. UNCHANGED durable \/ ReportToParent(r, o) \/ EndInBackground(r, o)
      BY <2>3 DEF BgFinalizes
    <3> QED BY <1>0, <3>1, ReportKeeps, OutboxKeeps DEF AllKept
  <2> QED BY <1>4, <2>1, <2>2, <2>3 DEF Background
<1>5. ASSUME NEW E, Cancel(E) \/ InterruptTasks(E) PROVE AllKept
  BY <1>5, AbortKeeps DEF Cancel, InterruptTasks, AllKept
<1>6. CASE \/ CloseAttachment \/ NoticeDropped \/ \E S \in SUBSET Runs : Notify(S)
  BY <1>0, <1>6 DEF CloseAttachment, NoticeDropped, Notify
<1>7. CASE NoticeCommits
  <2>1. UNCHANGED durable \/ (CanDeliver(notice) /\ Deliver(notice, "notice"))
    BY <1>7 DEF NoticeCommits
  <2> QED BY <1>0, <2>1, DeliverKeeps DEF AllKept
<1>8. ASSUME NEW w \in Waits, Awaiting(w) PROVE AllKept
  <2>1. CASE AwaitCommit(w)
    <3> DEFINE r == wait[w].run
    <3>1. UNCHANGED durable \/ (CanDeliver({r}) /\ Deliver({r}, w))
      BY <2>1 DEF AwaitCommit
    <3> QED BY <1>0, <3>1, DeliverKeeps DEF AllKept
  <2>2. CASE \/ \E r \in Runs, h \in Runs \cup {NoRun} : AwaitTask(w, r, h)
             \/ AwaitReads(w) \/ AwaitDeadline(w) \/ AwaitAborted(w)
    BY <1>0, <2>2 DEF AwaitTask, AwaitReads, AwaitDeadline, AwaitAborted
  <2> QED BY <1>8, <2>1, <2>2 DEF Awaiting
<1>9. CASE Restart
  BY <1>9, RestartKeeps DEF AllKept
<1> QED BY <1>1, <1>2, <1>3, <1>4, <1>5, <1>6, <1>7, <1>8, <1>9 DEF Next

\* The sub-agents keep the promise, for any number of runs, waits and restarts
\* and also where two waits compete for one delivery: of every run the parent
\* is told by one route, once, and its call is answered at most once.
THEOREM PromiseKept == Spec => ParentIsToldOnce
<1>1. Init => Promise!Init
  BY DEF Init, Promise!Init, Seen
<1>2. IInv /\ [Next]_vars => [Promise!Next]_Seen
  <2> SUFFICES ASSUME IInv, [Next]_vars PROVE [Promise!Next]_Seen
    OBVIOUS
  <2>1. CASE UNCHANGED vars
    BY <2>1 DEF vars, durable, Seen
  <2>2. CASE Next
    <3>1. \A r \in Runs : Kept(r)
      BY <2>2, StepKeeps
    <3>2. DOMAIN Seen' = Runs
      BY DEF Seen
    <3> QED BY <3>1, <3>2 DEF Kept, Promise!Next
  <2> QED BY <2>1, <2>2
<1> QED BY <1>1, <1>2, IInvAlways, PTL DEF Spec, ParentIsToldOnce, Promise!Spec
=============================================================================
