------------------------- MODULE ExecScheduleProofs -------------------------
(***************************************************************************)
(* Proofs about the schedules of ExecDispatch, for any calls, attachments  *)
(* and restarts: the state keeps its type, the client has at most one      *)
(* unanswered frame of an attachment, and no schedule waits without one.   *)
(*                                                                         *)
(* They rest on what ExecDispatchProofs shows of the rows.                 *)
(***************************************************************************)
EXTENDS ExecDispatchProofs

-----------------------------------------------------------------------------
(* Filtering a sequence.                                                   *)

\* One step of the recursion of Keep.
KeepStep(s, T, f, i) ==
    IF i = 0 THEN <<>> ELSE IF s[i] \in T THEN Append(f[i - 1], s[i]) ELSE f[i - 1]

KeepSolved(S, s, T, n) ==
    \E f \in [0..n -> Seq(S)] : \A i \in 0..n : f[i] = KeepStep(s, T, f, i)

\* The recursion has a solution, up to every length.
LEMMA KeepDefined ==
    ASSUME NEW S, NEW s \in Seq(S), NEW T, NEW n \in Nat, n <= Len(s)
    PROVE  KeepSolved(S, s, T, n)
<1> DEFINE Step(f, i) == KeepStep(s, T, f, i)
           Ok(k) == \E f \in [0..k -> Seq(S)] : \A i \in 0..k : f[i] = Step(f, i)
           Bad == {k \in Nat : k <= Len(s) /\ ~ Ok(k)}
<1>1. ASSUME NEW k \in Bad PROVE \E m \in Bad : m < k
  <2>1. k # 0
    <3> DEFINE f == [i \in 0..0 |-> <<>>]
    <3>1. f \in [0..0 -> Seq(S)] /\ \A i \in 0..0 : f[i] = Step(f, i)
      BY DEF KeepStep
    <3> HIDE DEF f
    <3>2. Ok(0)
      BY <3>1
    <3> QED BY <3>2
  <2>2. k - 1 \in Nat /\ k - 1 < k /\ k - 1 <= Len(s)
    BY <2>1
  <2>3. ASSUME Ok(k - 1) PROVE FALSE
    <3>1. PICK f \in [0..(k - 1) -> Seq(S)] : \A i \in 0..(k - 1) : f[i] = Step(f, i)
      BY <2>3
    <3> DEFINE last == IF s[k] \in T THEN Append(f[k - 1], s[k]) ELSE f[k - 1]
               g == [i \in 0..k |-> IF i = k THEN last ELSE f[i]]
    <3>2. k \in 1..Len(s) /\ s[k] \in S /\ f[k - 1] \in Seq(S)
      BY <2>2
    <3>3. last \in Seq(S)
      BY <3>2
    <3>4. \A i \in 0..(k - 1) : g[i] = f[i]
      BY <2>2
    <3>5. g[k] = last
      OBVIOUS
    <3>6. g \in [0..k -> Seq(S)]
      <4> HIDE DEF last
      <4>1. ASSUME NEW i \in 0..k PROVE (IF i = k THEN last ELSE f[i]) \in Seq(S)
        BY <3>3, <4>1
      <4> QED BY <4>1
    <3>7. ASSUME NEW i \in 0..k PROVE g[i] = Step(g, i)
      <4>1. CASE i = k
        <5>1. g[k - 1] = f[k - 1]
          BY <3>4, <2>2
        <5> QED BY <4>1, <5>1, <3>5, <2>1 DEF KeepStep
      <4>2. CASE i # k /\ i = 0
        <5>1. g[0] = f[0] /\ f[0] = Step(f, 0)
          BY <3>1, <3>4, <4>2, <2>2
        <5> QED BY <4>2, <5>1 DEF KeepStep
      <4>3. CASE i # k /\ i # 0
        <5>1. i \in 0..(k - 1) /\ i - 1 \in 0..(k - 1)
          BY <4>3
        <5>2. g[i] = f[i] /\ g[i - 1] = f[i - 1] /\ f[i] = Step(f, i)
          BY <5>1, <3>1, <3>4
        <5> HIDE DEF g
        <5> QED BY <4>3, <5>2 DEF KeepStep
      <4> QED BY <4>1, <4>2, <4>3
    <3> HIDE DEF g
    <3>8. Ok(k)
      BY <3>6, <3>7
    <3> QED BY <3>8
  <2>4. k - 1 \in Bad
    BY <2>2, <2>3
  <2> QED BY <2>2, <2>4
<1>2. Bad = {}
  <2> SUFFICES ASSUME Bad # {} PROVE FALSE
    OBVIOUS
  <2>1. Bad \subseteq Nat
    OBVIOUS
  <2> HIDE DEF Bad
  <2>2. PICK m \in Bad : \A y \in Bad : <<y, m>> \notin OpToRel(<, Nat)
    BY <2>1, NatLessThanWellFounded, WFMin
  <2>3. PICK y \in Bad : y < m
    BY <1>1
  <2> QED BY <2>1, <2>2, <2>3 DEF OpToRel
<1>3. Ok(n)
  BY <1>2
<1> QED BY <1>3 DEF KeepSolved

\* What is kept of a sequence over S is one, and nothing is kept of nothing.
LEMMA KeepTypes ==
    ASSUME NEW S, NEW s \in Seq(S), NEW T
    PROVE  Keep(s, T) \in Seq(S)
<1> DEFINE n == Len(s)
           Step(f, i) == KeepStep(s, T, f, i)
           F == CHOOSE f : f = [i \in 0..n |-> Step(f, i)]
<1>1. PICK f \in [0..n -> Seq(S)] : \A i \in 0..n : f[i] = Step(f, i)
  <2>1. n \in Nat /\ n <= Len(s)
    OBVIOUS
  <2>2. KeepSolved(S, s, T, n)
    BY <2>1, KeepDefined
  <2> QED BY <2>2 DEF KeepSolved
<1>2. f = [i \in 0..n |-> Step(f, i)]
  BY <1>1
<1>3. F = [i \in 0..n |-> Step(F, i)]
  BY <1>2
<1> HIDE DEF F
<1> DEFINE Bad == {k \in 0..n : F[k] \notin Seq(S)}
<1>4. ASSUME NEW k \in Bad PROVE \E m \in Bad : m < k
  <2>1. F[k] = Step(F, k)
    BY <1>3
  <2>2. k # 0
    BY <2>1 DEF KeepStep
  <2>3. k - 1 \in 0..n /\ k - 1 < k /\ s[k] \in S
    BY <2>2
  <2>4. F[k - 1] \notin Seq(S)
    BY <2>1, <2>2, <2>3 DEF KeepStep
  <2> QED BY <2>3, <2>4
<1>5. Bad = {}
  <2> SUFFICES ASSUME Bad # {} PROVE FALSE
    OBVIOUS
  <2>1. Bad \subseteq Nat
    OBVIOUS
  <2> HIDE DEF Bad
  <2>2. PICK m \in Bad : \A y \in Bad : <<y, m>> \notin OpToRel(<, Nat)
    BY <2>1, NatLessThanWellFounded, WFMin
  <2>3. PICK y \in Bad : y < m
    BY <1>4
  <2> QED BY <2>1, <2>2, <2>3 DEF OpToRel
<1>6. Keep(s, T) = F[n]
  BY DEF Keep, F, KeepStep
<1> QED BY <1>5, <1>6

LEMMA KeepNothing == ASSUME NEW T PROVE Keep(<<>>, T) = <<>>
<1> DEFINE s == <<>>
           Step(f, i) == KeepStep(s, T, f, i)
           F == CHOOSE f : f = [i \in 0..Len(s) |-> Step(f, i)]
<1>1. PICK f \in [0..Len(s) -> Seq({})] : \A i \in 0..Len(s) : f[i] = Step(f, i)
  <2>1. s \in Seq({}) /\ Len(s) \in Nat /\ Len(s) <= Len(s)
    OBVIOUS
  <2>2. KeepSolved({}, s, T, Len(s))
    BY <2>1, KeepDefined
  <2> QED BY <2>2 DEF KeepSolved
<1>2. f = [i \in 0..Len(s) |-> Step(f, i)]
  BY <1>1
<1>3. F = [i \in 0..Len(s) |-> Step(F, i)]
  BY <1>2
<1> HIDE DEF F
<1>4. F[0] = <<>>
  BY <1>3 DEF KeepStep
<1>5. Keep(<<>>, T) = F[0]
  BY DEF Keep, F, KeepStep
<1> QED BY <1>4, <1>5

-----------------------------------------------------------------------------
(* The schedule of one attachment.                                         *)

SlotType(b) ==
    /\ b.slot \in [Epochs -> [inFlight : Calls \cup {Nobody}, queue : Seq(Calls)]]
    /\ b.order \in Seq(Calls)

\* The client has the frame of c on e, and has neither answered nor closed it.
Unanswered(b, cl, c, e) == b.row[c][e] \in Sent /\ b.writes[c][e] > 0 /\ <<c, e>> \notin cl

NoneUnanswered(b, cl, e) == \A c \in Calls : ~ Unanswered(b, cl, c, e)

OneUnanswered(b, cl, e) ==
    \A c, d \in Calls : Unanswered(b, cl, c, e) /\ Unanswered(b, cl, d, e) => c = d

\* The schedule of e, an attachment in state a: it waits behind a frame that
\* was written and is not closed, and whoever is unanswered is that frame.
\* Without its attachment there is no schedule.
EpochInv(b, cl, a, e) ==
    /\ OneUnanswered(b, cl, e)
    /\ a \in Attached => \A c \in Calls : Unanswered(b, cl, c, e) => b.slot[e].inFlight = c
    /\ a \notin Attached => b.slot[e] = EmptySlot
    /\ b.slot[e].queue # <<>> => b.slot[e].inFlight # Nobody
    /\ b.slot[e].inFlight # Nobody =>
          b.writes[b.slot[e].inFlight][e] > 0 /\ <<b.slot[e].inFlight, e>> \notin cl

ClosedWritten(b, cl) == \A c \in Calls, e \in Epochs : <<c, e>> \in cl => b.writes[c][e] > 0

\* The boxes agree on what is not e's.
SameElsewhere(b, n, e) ==
    \A d \in Epochs \ {e} :
        /\ n.slot[d] = b.slot[d]
        /\ \A c \in Calls : n.row[c][d] = b.row[c][d] /\ n.writes[c][d] = b.writes[c][d]

\* From b the serializer of e has come to n.
Serves(b, n, cl, a, e) ==
    SlotType(n) /\ ClosedWritten(n, cl) /\ EpochInv(n, cl, a, e) /\ SameElsewhere(b, n, e)

LEMMA EmptySlotType == EmptySlot \in [inFlight : Calls \cup {Nobody}, queue : Seq(Calls)]
BY DEF EmptySlot

\* A box whose unanswered frames on d were unanswered before.
LEMMA EpochStays ==
    ASSUME NEW b, NEW n, NEW cl, NEW cn, NEW a, NEW d, EpochInv(b, cl, a, d),
           n.slot[d] = b.slot[d],
           \A c \in Calls : /\ n.writes[c][d] = b.writes[c][d]
                            /\ n.row[c][d] \in Sent => b.row[c][d] \in Sent
                            /\ <<c, d>> \in cn <=> <<c, d>> \in cl,
           b.slot[d].inFlight \in Calls \cup {Nobody}
    PROVE  EpochInv(n, cn, a, d)
<1>1. \A c \in Calls : Unanswered(n, cn, c, d) => Unanswered(b, cl, c, d)
  BY DEF Unanswered
<1>2. OneUnanswered(n, cn, d)
  BY <1>1 DEF EpochInv, OneUnanswered
<1> QED BY <1>1, <1>2 DEF EpochInv

\* Nothing is scheduled, and nothing is unanswered.
LEMMA IdleSchedule ==
    ASSUME NEW b, NEW cl, NEW a, NEW e, b.slot[e] = EmptySlot, NoneUnanswered(b, cl, e)
    PROVE  EpochInv(b, cl, a, e)
BY DEF EpochInv, NoneUnanswered, OneUnanswered, EmptySlot

LEMMA DropsServes ==
    ASSUME NEW b, Shape(b), SlotType(b), NEW cl, ClosedWritten(b, cl), NEW e \in Epochs, NEW a,
           NoneUnanswered(b, cl, e),
           NEW n, Shape(n), n.row = b.row, n.writes = b.writes,
           n.slot = [b.slot EXCEPT ![e] = EmptySlot], n.order \in Seq(Calls)
    PROVE  Serves(b, n, cl, a, e)
<1>1. SlotType(n)
  BY EmptySlotType DEF SlotType
<1>2. ClosedWritten(n, cl)
  BY DEF ClosedWritten
<1>3. NoneUnanswered(n, cl, e) /\ n.slot[e] = EmptySlot
  BY DEF NoneUnanswered, Unanswered, SlotType
<1>4. SameElsewhere(b, n, e)
  BY DEF SameElsewhere, SlotType
<1> QED BY <1>1, <1>2, <1>3, <1>4, IdleSchedule DEF Serves

\* An offer while nothing is unanswered: c becomes the one that is, or the
\* schedule is dropped.
LEMMA OfferServes ==
    ASSUME NEW b, BoxInv(b), SlotType(b), NEW cl, ClosedWritten(b, cl),
           NEW c \in Calls, NEW e \in Epochs, NoneUnanswered(b, cl, e)
    PROVE  Serves(b, Offer(b, c, e), cl, att[e], e)
<1>0. Shape(b)
  BY DEF BoxInv
<1>1. CASE b.row[c][e] # "queued"
  <2> DEFINE n == [b EXCEPT !.slot[e] = EmptySlot]
  <2>1. Offer(b, c, e) = n
    BY <1>1 DEF Offer
  <2>2. /\ Shape(n) /\ n.row = b.row /\ n.writes = b.writes
        /\ n.slot = [b.slot EXCEPT ![e] = EmptySlot] /\ n.order \in Seq(Calls)
    BY <1>0 DEF Shape, SlotType
  <2> HIDE DEF n
  <2> QED BY <1>0, <2>1, <2>2, DropsServes
<1>2. CASE b.row[c][e] = "queued" /\ att[e] # "open"
  <2> DEFINE o == Append(Without(b.order, c), c)
             n == [b EXCEPT !.slot[e] = EmptySlot, !.order = o]
  <2>1. Offer(b, c, e) = n
    BY <1>2 DEF Offer
  <2>2. o \in Seq(Calls)
    BY KeepTypes DEF Without, SlotType
  <2> HIDE DEF o
  <2>3. /\ Shape(n) /\ n.row = b.row /\ n.writes = b.writes
        /\ n.slot = [b.slot EXCEPT ![e] = EmptySlot] /\ n.order \in Seq(Calls)
    BY <1>0, <2>2 DEF Shape, SlotType
  <2> HIDE DEF n
  <2> QED BY <1>0, <2>1, <2>3, DropsServes
<1>3. CASE b.row[c][e] = "queued" /\ att[e] = "open"
  <2> DEFINE n == [b EXCEPT !.row[c][e] = "dispatched", !.writes[c][e] = @ + 1,
                            !.slot[e].inFlight = c]
  <2>1. Offer(b, c, e) = n
    BY <1>3 DEF Offer
  <2>2. /\ n.row = [b.row EXCEPT ![c][e] = "dispatched"]
        /\ n.writes = [b.writes EXCEPT ![c][e] = @ + 1]
        /\ n.slot = [b.slot EXCEPT ![e].inFlight = c]
        /\ n.order = b.order
    BY <1>0 DEF Shape
  <2> HIDE DEF n
  <2>3. b.writes[c][e] = 0 /\ <<c, e>> \notin cl
    BY <1>3 DEF BoxInv, Unwritten, ClosedWritten
  <2>4. ASSUME NEW x \in Calls, NEW y \in Epochs
        PROVE  /\ n.row[x][y] = IF x = c /\ y = e THEN "dispatched" ELSE b.row[x][y]
               /\ n.writes[x][y] = IF x = c /\ y = e THEN 1 ELSE b.writes[x][y]
    BY <1>0, <2>2, <2>3 DEF Shape
  <2>5. /\ n.slot[e].inFlight = c /\ n.slot[e].queue = b.slot[e].queue
        /\ \A d \in Epochs \ {e} : n.slot[d] = b.slot[d]
    BY <2>2 DEF SlotType
  <2>6. SlotType(n)
    BY <2>2 DEF SlotType
  <2>7. ClosedWritten(n, cl)
    BY <2>4 DEF ClosedWritten
  <2>8. \A x \in Calls : Unanswered(n, cl, x, e) => x = c
    BY <2>4 DEF NoneUnanswered, Unanswered
  <2>9. OneUnanswered(n, cl, e)
    BY <2>8 DEF OneUnanswered
  <2>10. n.writes[c][e] > 0
    BY <2>4
  <2>11. EpochInv(n, cl, att[e], e)
    BY <1>3, <2>3, <2>5, <2>8, <2>9, <2>10, NobodyAssumption DEF EpochInv, Attached
  <2>12. SameElsewhere(b, n, e)
    BY <2>4, <2>5 DEF SameElsewhere
  <2> QED BY <2>1, <2>6, <2>7, <2>11, <2>12 DEF Serves
<1> QED BY <1>1, <1>2, <1>3

LEMMA OfferFirstServes ==
    ASSUME NEW b, BoxInv(b), SlotType(b), NEW cl, ClosedWritten(b, cl),
           NEW q \in Seq(Calls), NEW e \in Epochs, NoneUnanswered(b, cl, e)
    PROVE  Serves(b, OfferFirst(b, q, e), cl, att[e], e)
<1>0. Shape(b)
  BY DEF BoxInv
<1>1. CASE q = <<>>
  <2> DEFINE n == [b EXCEPT !.slot[e] = EmptySlot]
  <2>1. OfferFirst(b, q, e) = n
    BY <1>1 DEF OfferFirst
  <2>2. /\ Shape(n) /\ n.row = b.row /\ n.writes = b.writes
        /\ n.slot = [b.slot EXCEPT ![e] = EmptySlot] /\ n.order \in Seq(Calls)
    BY <1>0 DEF Shape, SlotType
  <2> HIDE DEF n
  <2> QED BY <1>0, <2>1, <2>2, DropsServes
<1>2. CASE q # <<>>
  <2> DEFINE s == [inFlight |-> Nobody, queue |-> Tail(q)]
             n == [b EXCEPT !.slot[e] = s]
  <2>1. OfferFirst(b, q, e) = Offer(n, Head(q), e)
    BY <1>2 DEF OfferFirst
  <2>2. Tail(q) \in Seq(Calls) /\ Head(q) \in Calls
    BY <1>2
  <2>3. s \in [inFlight : Calls \cup {Nobody}, queue : Seq(Calls)]
    BY <2>2
  <2> HIDE DEF s
  <2>4. /\ Shape(n) /\ n.row = b.row /\ n.writes = b.writes
        /\ n.slot = [b.slot EXCEPT ![e] = s] /\ n.order = b.order
    BY <1>0 DEF Shape
  <2> HIDE DEF n
  <2>5. BoxInv(n) /\ SlotType(n) /\ ClosedWritten(n, cl) /\ NoneUnanswered(n, cl, e)
    BY <2>3, <2>4 DEF BoxInv, Unwritten, SlotType, ClosedWritten, NoneUnanswered, Unanswered
  <2>6. Serves(n, Offer(n, Head(q), e), cl, att[e], e)
    BY <2>2, <2>5, OfferServes
  <2>7. SameElsewhere(b, n, e)
    BY <2>4 DEF SameElsewhere, SlotType
  <2> QED BY <2>1, <2>6, <2>7 DEF Serves, SameElsewhere
<1> QED BY <1>1, <1>2

\* c is over on e: whatever holds the schedule of e, but c, is as it was.
OverOn(b, cl, a, c, e) ==
    /\ ~ Unanswered(b, cl, c, e)
    /\ OneUnanswered(b, cl, e)
    /\ a \in Attached => \A x \in Calls : Unanswered(b, cl, x, e) => b.slot[e].inFlight = x
    /\ a \notin Attached => b.slot[e] = EmptySlot
    /\ b.slot[e].queue # <<>> => b.slot[e].inFlight # Nobody
    /\ b.slot[e].inFlight \notin {Nobody, c} =>
          b.writes[b.slot[e].inFlight][e] > 0 /\ <<b.slot[e].inFlight, e>> \notin cl

LEMMA ReleaseServes ==
    ASSUME NEW b, BoxInv(b), SlotType(b), NEW cl, ClosedWritten(b, cl),
           NEW c \in Calls, NEW e \in Epochs, OverOn(b, cl, att[e], c, e)
    PROVE  Serves(b, Release(b, c, e), cl, att[e], e)
<1>1. CASE b.slot[e].inFlight = c
  <2>1. att[e] \in Attached
    BY <1>1, NobodyAssumption DEF OverOn, EmptySlot
  <2>2. NoneUnanswered(b, cl, e)
    BY <1>1, <2>1 DEF OverOn, NoneUnanswered
  <2>3. b.slot[e].queue \in Seq(Calls)
    BY DEF SlotType
  <2> QED BY <1>1, <2>2, <2>3, OfferFirstServes DEF Release
<1>2. CASE b.slot[e].inFlight # c
  <2>1. EpochInv(b, cl, att[e], e)
    BY <1>2 DEF OverOn, EpochInv
  <2> QED BY <1>2, <2>1 DEF Release, Serves, SameElsewhere
<1> QED BY <1>1, <1>2

LEMMA UnscheduleServes ==
    ASSUME NEW b, BoxInv(b), SlotType(b), NEW cl, ClosedWritten(b, cl),
           NEW c \in Calls, NEW e \in Epochs, OverOn(b, cl, att[e], c, e)
    PROVE  Serves(b, Unschedule(b, c, e), cl, att[e], e)
<1> DEFINE q == Without(b.slot[e].queue, c)
           n == [b EXCEPT !.slot[e].queue = q]
<1>1. Unschedule(b, c, e) = Release(n, c, e)
  BY DEF Unschedule
<1>2. q \in Seq(Calls) /\ (b.slot[e].queue = <<>> => q = <<>>)
  BY KeepTypes, KeepNothing DEF Without, SlotType
<1> HIDE DEF q
<1>3. /\ Shape(n) /\ n.row = b.row /\ n.writes = b.writes
      /\ n.slot = [b.slot EXCEPT ![e].queue = q] /\ n.order = b.order
  BY DEF BoxInv, Shape
<1> HIDE DEF n
<1>4. /\ n.slot[e].queue = q /\ n.slot[e].inFlight = b.slot[e].inFlight
      /\ \A d \in Epochs \ {e} : n.slot[d] = b.slot[d]
      /\ b.slot[e] = EmptySlot => n.slot[e] = EmptySlot
  BY <1>2, <1>3 DEF SlotType, EmptySlot
<1>5. BoxInv(n) /\ SlotType(n) /\ ClosedWritten(n, cl)
  BY <1>2, <1>3 DEF BoxInv, Unwritten, SlotType, ClosedWritten
<1>6. OverOn(n, cl, att[e], c, e)
  <2>1. \A x \in Calls : Unanswered(n, cl, x, e) <=> Unanswered(b, cl, x, e)
    BY <1>3 DEF Unanswered
  <2>2. OneUnanswered(n, cl, e)
    BY <2>1 DEF OverOn, OneUnanswered
  <2> QED BY <1>2, <1>3, <1>4, <2>1, <2>2 DEF OverOn
<1>7. Serves(n, Release(n, c, e), cl, att[e], e)
  BY <1>5, <1>6, ReleaseServes
<1>8. SameElsewhere(b, n, e)
  BY <1>3, <1>4 DEF SameElsewhere
<1> QED BY <1>1, <1>7, <1>8 DEF Serves, SameElsewhere

LEMMA ScheduleServes ==
    ASSUME NEW b, BoxInv(b), SlotType(b), NEW cl, ClosedWritten(b, cl),
           NEW c \in Calls, NEW e \in Epochs, att[e] \in Attached, EpochInv(b, cl, att[e], e)
    PROVE  Serves(b, Schedule(b, c, e), cl, att[e], e)
<1>1. CASE b.slot[e].inFlight # Nobody
  <2> DEFINE q == Append(b.slot[e].queue, c)
             n == [b EXCEPT !.slot[e].queue = q]
  <2>1. Schedule(b, c, e) = n
    BY <1>1 DEF Schedule
  <2>2. q \in Seq(Calls)
    BY DEF SlotType
  <2> HIDE DEF q
  <2>3. /\ n.row = b.row /\ n.writes = b.writes
        /\ n.slot = [b.slot EXCEPT ![e].queue = q] /\ n.order = b.order
    BY DEF BoxInv, Shape
  <2> HIDE DEF n
  <2>4. /\ n.slot[e].inFlight = b.slot[e].inFlight
        /\ \A d \in Epochs \ {e} : n.slot[d] = b.slot[d]
    BY <2>3 DEF SlotType
  <2>5. SlotType(n) /\ ClosedWritten(n, cl) /\ SameElsewhere(b, n, e)
    BY <2>2, <2>3, <2>4 DEF SlotType, ClosedWritten, SameElsewhere
  <2>6. EpochInv(n, cl, att[e], e)
    <3>1. \A x \in Calls : Unanswered(n, cl, x, e) <=> Unanswered(b, cl, x, e)
      BY <2>3 DEF Unanswered
    <3>2. OneUnanswered(n, cl, e)
      BY <3>1 DEF EpochInv, OneUnanswered
    <3> QED BY <1>1, <2>3, <2>4, <3>1, <3>2 DEF EpochInv
  <2> QED BY <2>1, <2>5, <2>6 DEF Serves
<1>2. CASE b.slot[e].inFlight = Nobody
  <2>1. NoneUnanswered(b, cl, e)
    BY <1>2, NobodyAssumption DEF EpochInv, NoneUnanswered
  <2> QED BY <1>2, <2>1, OfferServes DEF Schedule
<1> QED BY <1>1, <1>2

LEMMA ReplayServes ==
    ASSUME NEW b, BoxInv(b), SlotType(b), NEW cl, ClosedWritten(b, cl),
           NEW e \in Epochs, att[e] \in Attached, EpochInv(b, cl, att[e], e)
    PROVE  Serves(b, Replay(b, e), cl, att[e], e)
<1>1. CASE b.slot[e] # EmptySlot
  BY <1>1 DEF Replay, Serves, SameElsewhere
<1>2. CASE b.slot[e] = EmptySlot
  <2>1. NoneUnanswered(b, cl, e)
    BY <1>2, NobodyAssumption DEF EpochInv, NoneUnanswered, EmptySlot
  <2>2. Keep(b.order, {c \in Calls : b.row[c][e] = "queued"}) \in Seq(Calls)
    BY KeepTypes DEF SlotType
  <2> QED BY <1>2, <2>1, <2>2, OfferFirstServes DEF Replay
<1> QED BY <1>1, <1>2

-----------------------------------------------------------------------------
(* Every step keeps the schedules.                                         *)

\* An attachment that was not opened has no rows.
NewUnused(b) == \A e \in Epochs : att[e] = "new" => \A c \in Calls : b.row[c][e] = "none"

SchedInv ==
    /\ RowInv
    /\ SlotType(box)
    /\ closed \subseteq Calls \X Epochs
    /\ ClosedWritten(box, closed)
    /\ att \in [Epochs -> AttStates]
    /\ NewUnused(box)
    /\ \A e \in Epochs : EpochInv(box, closed, att[e], e)

\* A handler changes the box to b, without touching a schedule or sending
\* anything, and then the serializer of e serves it.
Prepared(b) ==
    /\ b.slot = box.slot /\ b.writes = box.writes
    /\ \A c \in Calls, d \in Epochs : b.row[c][d] \in Sent => box.row[c][d] \in Sent
    /\ NewUnused(b)

LEMMA ServedStep ==
    ASSUME SchedInv, RowInv', NEW b, Prepared(b), NEW e \in Epochs,
           Kept(b, box'), Serves(b, box', closed', att[e], e), att' = att,
           closed' \subseteq Calls \X Epochs,
           \A c \in Calls, d \in Epochs \ {e} : <<c, d>> \in closed' <=> <<c, d>> \in closed
    PROVE  SchedInv'
<1>1. NewUnused(box)'
  <2> SUFFICES ASSUME NEW d \in Epochs, att[d] = "new", NEW c \in Calls
               PROVE  box'.row[c][d] = "none"
    BY DEF NewUnused
  <2>1. b.row[c][d] = "none"
    BY DEF Prepared, NewUnused
  <2>2. \/ box'.row[c][d] = b.row[c][d]
        \/ b.row[c][d] = "queued" /\ box'.row[c][d] = "dispatched"
    BY DEF Kept
  <2> QED BY <2>1, <2>2
<1>2. ASSUME NEW d \in Epochs PROVE EpochInv(box', closed', att[d], d)
  <2>1. CASE d = e
    BY <2>1 DEF Serves
  <2>2. CASE d # e
    <3>1. /\ box'.slot[d] = box.slot[d]
          /\ \A c \in Calls : /\ box'.writes[c][d] = box.writes[c][d]
                              /\ box'.row[c][d] \in Sent => box.row[c][d] \in Sent
                              /\ <<c, d>> \in closed' <=> <<c, d>> \in closed
      BY <2>2 DEF Serves, SameElsewhere, Prepared
    <3>2. EpochInv(box, closed, att[d], d) /\ box.slot[d].inFlight \in Calls \cup {Nobody}
      BY DEF SchedInv, SlotType
    <3> QED BY <3>1, <3>2, EpochStays
  <2> QED BY <2>1, <2>2
<1>3. SlotType(box') /\ ClosedWritten(box', closed')
  BY DEF Serves
<1> QED BY <1>1, <1>2, <1>3 DEF SchedInv, SlotType, ClosedWritten

LEMMA PreparedEpoch ==
    ASSUME SchedInv, NEW b, Prepared(b), NEW e \in Epochs
    PROVE  EpochInv(b, closed, att[e], e) /\ ClosedWritten(b, closed)
<1>1. EpochInv(box, closed, att[e], e) /\ box.slot[e].inFlight \in Calls \cup {Nobody}
  BY DEF SchedInv, SlotType
<1>2. b.slot[e] = box.slot[e] /\ \A c \in Calls : b.writes[c][e] = box.writes[c][e]
  BY DEF Prepared
<1>3. \A c \in Calls : b.row[c][e] \in Sent => box.row[c][e] \in Sent
  BY DEF Prepared
<1>4. EpochInv(b, closed, att[e], e)
  BY <1>1, <1>2, <1>3, EpochStays
<1>5. ClosedWritten(b, closed)
  BY DEF SchedInv, ClosedWritten, Prepared
<1> QED BY <1>4, <1>5

LEMMA PreparedOver ==
    ASSUME SchedInv, NEW b, Prepared(b), NEW c \in Calls, NEW e \in Epochs,
           b.row[c][e] \notin Sent
    PROVE  OverOn(b, closed, att[e], c, e)
<1>1. EpochInv(b, closed, att[e], e)
  BY PreparedEpoch
<1>2. ~ Unanswered(b, closed, c, e)
  BY DEF Unanswered
<1> QED BY <1>1, <1>2 DEF EpochInv, OverOn

\* Moving the active rows of a call sends nothing, and leaves it none.
LEMMA MoveActivePrepared ==
    ASSUME SchedInv, NEW c \in Calls, NEW s \in {"cancelled", "settled"}
    PROVE  /\ Prepared(MoveActive(c, s)) /\ SlotType(MoveActive(c, s))
           /\ \A e \in Epochs : MoveActive(c, s).row[c][e] \notin Sent
<1> DEFINE b == MoveActive(c, s)
<1>1. /\ b.row = [box.row EXCEPT ![c] = [e \in Epochs |->
                     IF box.row[c][e] \in Active THEN s ELSE box.row[c][e]]]
      /\ b.writes = box.writes /\ b.slot = box.slot /\ b.order = box.order
  BY DEF SchedInv, RowInv, BoxInv, Shape, MoveActive
<1> HIDE DEF b
<1>2. ASSUME NEW x \in Calls, NEW y \in Epochs
      PROVE  b.row[x][y] = IF x = c /\ box.row[x][y] \in Active THEN s ELSE box.row[x][y]
  BY <1>1 DEF SchedInv, RowInv, BoxInv, Shape
<1>3. Prepared(b)
  <2>1. \A x \in Calls, y \in Epochs : b.row[x][y] \in Sent => box.row[x][y] \in Sent
    BY <1>2 DEF Sent
  <2>2. NewUnused(b)
    BY <1>2 DEF SchedInv, NewUnused, Active, Sent
  <2> QED BY <1>1, <2>1, <2>2 DEF Prepared
<1>4. \A e \in Epochs : b.row[c][e] \notin Sent
  BY <1>2 DEF Active, Sent
<1>5. SlotType(b)
  BY <1>1 DEF SchedInv, SlotType
<1> QED BY <1>3, <1>4, <1>5 DEF b

\* The bridge comes back from b without schedules and attachments.
LEMMA RestartKeepsSchedules ==
    ASSUME SchedInv, RowInv', NEW b, BoxInv(b), RestartWith(b),
           b.order \in Seq(Calls), NewUnused(b), ClosedWritten(b, closed'),
           closed' \subseteq Calls \X Epochs,
           \A e \in Epochs : OneUnanswered(b, closed', e)
    PROVE  SchedInv'
<1> DEFINE n == Park(b)
           Going == {"dispatching", "dispatched"}
<1>1. /\ n.row = [c \in Calls |-> [e \in Epochs |->
                     IF edge[c] = "open" /\ b.row[c][e] \in Going
                       THEN "awaiting" ELSE b.row[c][e]]]
      /\ n.writes = b.writes /\ n.order = b.order
      /\ DOMAIN n = {"row", "writes", "slot", "order"}
  BY DEF BoxInv, Shape, Park
<1>2. box' = [n EXCEPT !.slot = [e \in Epochs |-> EmptySlot]]
  BY DEF RestartWith
<1> HIDE DEF n
<1>3. /\ box'.row = n.row /\ box'.writes = b.writes /\ box'.order = b.order
      /\ box'.slot = [e \in Epochs |-> EmptySlot]
  BY <1>1, <1>2
<1>4. ASSUME NEW c \in Calls, NEW e \in Epochs
      PROVE  /\ box'.row[c][e] \in Sent => b.row[c][e] \in Sent
             /\ b.row[c][e] = "none" => box'.row[c][e] = "none"
  BY <1>1, <1>3 DEF Sent
<1>5. att' \in [Epochs -> AttStates] /\ \A e \in Epochs : att'[e] \in {"new", "gone"}
  BY DEF RestartWith, AttStates
<1>6. \A e \in Epochs : att'[e] = "new" => att[e] = "new"
  BY DEF RestartWith
<1>7. SlotType(box')
  BY <1>3, EmptySlotType DEF SlotType
<1>8. ClosedWritten(box', closed')
  BY <1>3 DEF ClosedWritten
<1>9. NewUnused(box)'
  BY <1>4, <1>6 DEF NewUnused
<1>10. ASSUME NEW e \in Epochs PROVE EpochInv(box', closed', att'[e], e)
  <2>1. \A c \in Calls : Unanswered(box', closed', c, e) => Unanswered(b, closed', c, e)
    BY <1>3, <1>4 DEF Unanswered
  <2>2. OneUnanswered(box', closed', e)
    BY <2>1 DEF OneUnanswered
  <2>3. box'.slot[e] = EmptySlot /\ att'[e] \notin Attached
    BY <1>3, <1>5 DEF Attached
  <2> QED BY <2>2, <2>3 DEF EpochInv, EmptySlot
<1> QED BY <1>5, <1>7, <1>8, <1>9, <1>10 DEF SchedInv, SlotType, ClosedWritten

LEMMA StepKeepsSchedules == SchedInv /\ [Next]_vars => SchedInv'
<1> SUFFICES ASSUME SchedInv, [Next]_vars PROVE SchedInv'
  OBVIOUS
<1>r. RowInv'
  BY StepKeepsRows DEF SchedInv
<1>b. BoxInv(box) /\ SlotType(box)
  BY DEF SchedInv, RowInv
<1>1. ASSUME NEW c \in Calls, NEW e \in Epochs, CallTool(c, e) PROVE SchedInv'
  <2> DEFINE o == Append(box.order, c)
             b == [box EXCEPT !.row[c][e] = "queued", !.order = o]
  <2>1. /\ box' = Schedule(b, c, e) /\ att' = att /\ closed' = closed
        /\ att[e] \in {"open", "refusing"}
    BY <1>1 DEF CallTool
  <2>2. BoxInv(b)
    BY <1>1, CallToolRows DEF CallTool, SchedInv
  <2>3. o \in Seq(Calls)
    BY <1>b DEF SlotType
  <2> HIDE DEF o
  <2>4. /\ b.row = [box.row EXCEPT ![c][e] = "queued"] /\ b.writes = box.writes
        /\ b.slot = box.slot /\ b.order = o
    BY <1>b DEF BoxInv, Shape
  <2> HIDE DEF b
  <2>5. ASSUME NEW x \in Calls, NEW y \in Epochs
        PROVE  b.row[x][y] = IF x = c /\ y = e THEN "queued" ELSE box.row[x][y]
    BY <1>b, <2>4 DEF BoxInv, Shape
  <2>6. Prepared(b)
    <3>1. \A x \in Calls, y \in Epochs : b.row[x][y] \in Sent => box.row[x][y] \in Sent
      BY <2>5 DEF Sent
    <3>2. NewUnused(b)
      BY <2>1, <2>5 DEF SchedInv, NewUnused
    <3> QED BY <2>4, <3>1, <3>2 DEF Prepared
  <2>7. SlotType(b)
    BY <1>b, <2>3, <2>4 DEF SlotType
  <2>8. EpochInv(b, closed, att[e], e) /\ ClosedWritten(b, closed)
    BY <2>6, PreparedEpoch
  <2>9. Serves(b, box', closed', att[e], e)
    BY <2>1, <2>2, <2>7, <2>8, ScheduleServes DEF Attached
  <2>10. Kept(b, box')
    BY <2>1, <2>2, SerializerKeeps
  <2> QED BY <1>r, <2>1, <2>6, <2>9, <2>10, ServedStep DEF SchedInv
<1>2. ASSUME NEW c \in Calls, NEW e \in Epochs, Result(c, e) PROVE SchedInv'
  <2> DEFINE b == [box EXCEPT !.row[c][e] = "settled"]
  <2>1. box' = Release(b, c, e) /\ att' = att /\ closed' = closed
    BY <1>2 DEF Result
  <2>2. BoxInv(b)
    BY <1>2, ResultRows DEF Result, SchedInv
  <2>4. /\ b.row = [box.row EXCEPT ![c][e] = "settled"] /\ b.writes = box.writes
        /\ b.slot = box.slot /\ b.order = box.order
    BY <1>b DEF BoxInv, Shape
  <2> HIDE DEF b
  <2>5. ASSUME NEW x \in Calls, NEW y \in Epochs
        PROVE  b.row[x][y] = IF x = c /\ y = e THEN "settled" ELSE box.row[x][y]
    BY <1>b, <2>4 DEF BoxInv, Shape
  <2>6. Prepared(b)
    <3>1. \A x \in Calls, y \in Epochs : b.row[x][y] \in Sent => box.row[x][y] \in Sent
      BY <2>5 DEF Sent
    <3>2. box.row[c][e] # "none"
      BY <1>2 DEF Result, Sent
    <3>3. NewUnused(b)
      BY <2>5, <3>2 DEF SchedInv, NewUnused
    <3> QED BY <2>4, <3>1, <3>3 DEF Prepared
  <2>7. SlotType(b)
    BY <1>b, <2>4 DEF SlotType
  <2>8. ClosedWritten(b, closed)
    BY <2>6, PreparedEpoch
  <2>9. b.row[c][e] \notin Sent
    BY <2>5 DEF Sent
  <2>10. OverOn(b, closed, att[e], c, e)
    BY <2>6, <2>9, PreparedOver
  <2>11. Serves(b, box', closed', att[e], e)
    BY <2>1, <2>2, <2>7, <2>8, <2>10, ReleaseServes
  <2>12. Kept(b, box')
    BY <2>1, <2>2, SerializerKeeps
  <2> QED BY <1>r, <2>1, <2>6, <2>11, <2>12, ServedStep DEF SchedInv
<1>3. ASSUME NEW c \in Calls, NEW e \in Epochs, StreamClose(c, e) PROVE SchedInv'
  <2>1. /\ box' = Release(box, c, e) /\ att' = att /\ closed' = closed \cup {<<c, e>>}
        /\ box.writes[c][e] > 0 /\ att[e] \in Attached
    BY <1>3 DEF StreamClose
  <2>2. Prepared(box)
    BY DEF SchedInv, Prepared
  <2>3. ClosedWritten(box, closed')
    BY <2>1 DEF SchedInv, ClosedWritten
  <2>4. \A x \in Calls : Unanswered(box, closed', x, e) => Unanswered(box, closed, x, e) /\ x # c
    BY <2>1 DEF Unanswered
  <2>5. EpochInv(box, closed, att[e], e) /\ box.slot[e].inFlight \in Calls \cup {Nobody}
    BY <1>b DEF SchedInv, SlotType
  <2>6. OneUnanswered(box, closed', e)
    BY <2>4, <2>5 DEF EpochInv, OneUnanswered
  <2>7. OverOn(box, closed', att[e], c, e)
    BY <2>1, <2>4, <2>5, <2>6 DEF EpochInv, OverOn
  <2>8. Serves(box, box', closed', att[e], e)
    BY <1>b, <2>1, <2>3, <2>7, ReleaseServes
  <2>9. Kept(box, box')
    BY <1>b, <2>1, SerializerKeeps
  <2>10. /\ closed' \subseteq Calls \X Epochs
         /\ \A x \in Calls, d \in Epochs \ {e} : <<x, d>> \in closed' <=> <<x, d>> \in closed
    BY <2>1 DEF SchedInv
  <2> QED BY <1>r, <2>1, <2>2, <2>8, <2>9, <2>10, ServedStep
<1>4. ASSUME NEW c \in Calls, Abort(c) PROVE SchedInv'
  <2>1. att' = att /\ closed' = closed /\ edge[c] = "open"
    BY <1>4 DEF Abort
  <2>2. CASE UNCHANGED box
    BY <1>r, <2>1, <2>2 DEF SchedInv, SlotType, ClosedWritten, NewUnused, EpochInv,
                            OneUnanswered, Unanswered
  <2>3. ASSUME NEW e \in ActiveEpochs(c), box' = Unschedule(MoveActive(c, "cancelled"), c, e)
        PROVE  SchedInv'
    <3> DEFINE b == MoveActive(c, "cancelled")
    <3>1. e \in Epochs
      BY DEF ActiveEpochs
    <3>2. BoxInv(b)
      BY <2>1, MoveActiveRows DEF SchedInv
    <3>3. Prepared(b) /\ SlotType(b) /\ b.row[c][e] \notin Sent
      BY <3>1, MoveActivePrepared
    <3> HIDE DEF b
    <3>4. ClosedWritten(b, closed) /\ OverOn(b, closed, att[e], c, e)
      BY <3>1, <3>3, PreparedEpoch, PreparedOver
    <3>5. box' = Unschedule(b, c, e)
      BY <2>3 DEF b
    <3>6. Serves(b, box', closed', att[e], e)
      BY <2>1, <3>1, <3>2, <3>3, <3>4, <3>5, UnscheduleServes
    <3>7. Kept(b, box')
      BY <3>1, <3>2, <3>5, SerializerKeeps
    <3> QED BY <1>r, <2>1, <3>1, <3>3, <3>6, <3>7, ServedStep DEF SchedInv
  <2> QED BY <1>4, <2>2, <2>3 DEF Abort
<1>5. ASSUME NEW c \in Calls, Verdict(c) PROVE SchedInv'
  <2>1. att' = att /\ closed' = closed /\ edge[c] = "open"
    BY <1>5 DEF Verdict
  <2> DEFINE b == MoveActive(c, "settled")
  <2>2. PICK e \in ActiveEpochs(c) : box' = Release(b, c, e)
    BY <1>5 DEF Verdict
  <2>3. e \in Epochs
    BY DEF ActiveEpochs
  <2>4. BoxInv(b)
    BY <2>1, MoveActiveRows DEF SchedInv
  <2>5. Prepared(b) /\ SlotType(b) /\ b.row[c][e] \notin Sent
    BY <2>3, MoveActivePrepared
  <2> HIDE DEF b
  <2>6. ClosedWritten(b, closed) /\ OverOn(b, closed, att[e], c, e)
    BY <2>3, <2>5, PreparedEpoch, PreparedOver
  <2>7. Serves(b, box', closed', att[e], e)
    BY <2>1, <2>2, <2>3, <2>4, <2>5, <2>6, ReleaseServes
  <2>8. Kept(b, box')
    BY <2>2, <2>3, <2>4, SerializerKeeps
  <2> QED BY <1>r, <2>1, <2>3, <2>5, <2>7, <2>8, ServedStep DEF SchedInv
<1>6. ASSUME NEW e \in Epochs, Attach(e) PROVE SchedInv'
  <2>1. /\ att[e] = "new" /\ att' = [att EXCEPT ![e] = "open"]
        /\ UNCHANGED <<box, closed>>
    BY <1>6 DEF Attach, Becomes
  <2>2. att' \in [Epochs -> AttStates] /\ NewUnused(box)'
    BY <2>1 DEF SchedInv, NewUnused, AttStates, Attached
  <2>3. ASSUME NEW d \in Epochs PROVE EpochInv(box, closed, att'[d], d)
    <3>1. CASE d = e
      <4>1. box.slot[e] = EmptySlot
        BY <2>1 DEF SchedInv, EpochInv, Attached
      <4>2. NoneUnanswered(box, closed, e)
        BY <2>1 DEF SchedInv, NewUnused, NoneUnanswered, Unanswered, Sent
      <4> QED BY <3>1, <4>1, <4>2, IdleSchedule
    <3>2. CASE d # e
      BY <2>1, <3>2 DEF SchedInv
    <3> QED BY <3>1, <3>2
  <2>4. \A d \in Epochs : EpochInv(box', closed', att'[d], d)
    BY <2>1, <2>3
  <2> QED BY <1>r, <2>1, <2>2, <2>4 DEF SchedInv, SlotType, ClosedWritten
<1>7. ASSUME NEW e \in Epochs, Refuse(e) \/ Recover(e) \/ Seal(e) PROVE SchedInv'
  <2>1. /\ att[e] \in Attached /\ att'[e] \in Attached
        /\ \A d \in Epochs \ {e} : att'[d] = att[d]
        /\ att' \in [Epochs -> AttStates]
        /\ UNCHANGED <<box, closed>>
    BY <1>7 DEF SchedInv, Refuse, Recover, Seal, Becomes, Attached, AttStates
  <2>2. NewUnused(box)'
    BY <2>1 DEF SchedInv, NewUnused, Attached
  <2>3. \A d \in Epochs : EpochInv(box, closed, att'[d], d)
    BY <2>1 DEF SchedInv, EpochInv
  <2>4. \A d \in Epochs : EpochInv(box', closed', att'[d], d)
    BY <2>1, <2>3
  <2> QED BY <1>r, <2>1, <2>2, <2>4 DEF SchedInv, SlotType, ClosedWritten
<1>8. ASSUME NEW e \in Epochs, Detach(e) PROVE SchedInv'
  <2>1. /\ att[e] \in Attached /\ att' = [att EXCEPT ![e] = "detached"] /\ closed' = closed
        /\ box' = [box EXCEPT !.slot[e] = EmptySlot]
    BY <1>8 DEF Detach, Becomes
  <2>2. /\ box'.row = box.row /\ box'.writes = box.writes /\ box'.order = box.order
        /\ box'.slot = [box.slot EXCEPT ![e] = EmptySlot]
    BY <1>b, <2>1 DEF BoxInv, Shape
  <2>3. att' \in [Epochs -> AttStates] /\ NewUnused(box)'
    BY <2>1, <2>2 DEF SchedInv, NewUnused, AttStates, Attached
  <2>4. SlotType(box') /\ ClosedWritten(box', closed')
    BY <2>1, <2>2, EmptySlotType DEF SchedInv, SlotType, ClosedWritten
  <2>5. ASSUME NEW d \in Epochs PROVE EpochInv(box', closed', att'[d], d)
    <3>1. EpochInv(box, closed, att[d], d) /\ box.slot[d].inFlight \in Calls \cup {Nobody}
      BY DEF SchedInv, SlotType
    <3>2. CASE d = e
      <4>1. \A c \in Calls : Unanswered(box', closed', c, e) => Unanswered(box, closed, c, e)
        BY <2>1, <2>2 DEF Unanswered
      <4>2. OneUnanswered(box', closed', e)
        BY <3>1, <3>2, <4>1 DEF EpochInv, OneUnanswered
      <4>3. box'.slot[e] = EmptySlot /\ att'[e] = "detached"
        BY <2>1, <2>2 DEF SchedInv, SlotType
      <4> QED BY <3>2, <4>2, <4>3 DEF EpochInv, EmptySlot, Attached
    <3>3. CASE d # e
      <4>1. box'.slot[d] = box.slot[d] /\ att'[d] = att[d]
        BY <2>1, <2>2, <3>3 DEF SchedInv, SlotType
      <4> QED BY <2>1, <2>2, <3>1, <4>1, EpochStays
    <3> QED BY <3>2, <3>3
  <2> QED BY <1>r, <2>1, <2>3, <2>4, <2>5 DEF SchedInv, SlotType, ClosedWritten
<1>9. ASSUME NEW e \in Epochs, Resume(e) PROVE SchedInv'
  <2> DEFINE b == Reattach(e)
             Left == {"queued", "dispatching", "dispatched"}
  <2>1. /\ box' = Replay(b, e) /\ att' = att /\ closed' = closed /\ att[e] \in Attached
        /\ CanReattach(e)
    BY <1>9 DEF Resume
  <2>2. BoxInv(b)
    BY <2>1, ReattachRows DEF SchedInv
  <2>3. /\ b.row = [c \in Calls |-> [d \in Epochs |->
                     IF Replayable(c, e) /\ d = e THEN "queued"
                     ELSE IF d # e /\ box.row[c][d] \in Left THEN "reattached"
                     ELSE box.row[c][d]]]
        /\ b.writes = box.writes /\ b.slot = box.slot /\ b.order = box.order
    BY <1>b DEF BoxInv, Shape, Reattach
  <2> HIDE DEF b
  <2>4. ASSUME NEW x \in Calls, NEW y \in Epochs
        PROVE  b.row[x][y] = IF Replayable(x, e) /\ y = e THEN "queued"
                             ELSE IF y # e /\ box.row[x][y] \in Left THEN "reattached"
                             ELSE box.row[x][y]
    BY <2>3
  <2>5. Prepared(b)
    <3>1. \A x \in Calls, y \in Epochs : b.row[x][y] \in Sent => box.row[x][y] \in Sent
      BY <2>4 DEF Sent
    <3>2. NewUnused(b)
      BY <2>1, <2>4 DEF SchedInv, NewUnused, Attached
    <3> QED BY <2>3, <3>1, <3>2 DEF Prepared
  <2>6. SlotType(b)
    BY <1>b, <2>3 DEF SlotType
  <2>7. EpochInv(b, closed, att[e], e) /\ ClosedWritten(b, closed)
    BY <2>5, PreparedEpoch
  <2>8. Serves(b, box', closed', att[e], e)
    BY <2>1, <2>2, <2>6, <2>7, ReplayServes
  <2>9. Kept(b, box')
    BY <2>1, <2>2, SerializerKeeps
  <2> QED BY <1>r, <2>1, <2>5, <2>8, <2>9, ServedStep DEF SchedInv
<1>10. ASSUME Restart PROVE SchedInv'
  <2>1. RestartWith(box) /\ closed' = closed
    BY <1>10 DEF Restart
  <2>2. /\ box.order \in Seq(Calls) /\ NewUnused(box) /\ ClosedWritten(box, closed)
        /\ closed \subseteq Calls \X Epochs
        /\ \A e \in Epochs : OneUnanswered(box, closed, e)
    BY DEF SchedInv, SlotType, EpochInv
  <2> QED BY <1>b, <1>r, <2>1, <2>2, RestartKeepsSchedules
<1>11. ASSUME NEW e \in Epochs, NEW wrote \in BOOLEAN, CrashInDelivery(e, wrote)
       PROVE  SchedInv'
  <2> DEFINE c == Head(box.slot[e].queue)
             k == IF wrote THEN 1 ELSE 0
             f == box.slot[e].inFlight
             b == [box EXCEPT !.row[c][e] = "dispatching", !.writes[c][e] = @ + k]
  <2>1. /\ box.row[c][e] = "queued" /\ RestartWith(b) /\ att[e] = "open"
        /\ box.slot[e].queue # <<>> /\ closed' = closed \cup {<<f, e>>}
    BY <1>11 DEF CrashInDelivery
  <2>2. k \in {0, 1}
    OBVIOUS
  <2>3. c \in Calls /\ f \in Calls \cup {Nobody}
    BY <1>b, <2>1 DEF SlotType
  <2>4. /\ f \in Calls /\ box.writes[f][e] > 0
        /\ \A x \in Calls : Unanswered(box, closed, x, e) => x = f
    BY <2>1, <2>3 DEF SchedInv, EpochInv, Attached
  <2> HIDE DEF c, k, f
  <2>5. BoxInv(b)
    BY <2>1, <2>2, CrashRows DEF SchedInv
  <2>6. /\ b.row = [box.row EXCEPT ![c][e] = "dispatching"]
        /\ b.writes = [box.writes EXCEPT ![c][e] = @ + k]
        /\ b.order = box.order
    BY <1>b DEF BoxInv, Shape
  <2> HIDE DEF b
  <2>7. ASSUME NEW x \in Calls, NEW y \in Epochs
        PROVE  /\ b.row[x][y] = IF x = c /\ y = e THEN "dispatching" ELSE box.row[x][y]
               /\ x # c \/ y # e => b.writes[x][y] = box.writes[x][y]
               /\ box.writes[x][y] \in Nat /\ b.writes[x][y] >= box.writes[x][y]
    <3>1. box.row \in [Calls -> [Epochs -> RowStates]] /\ box.writes \in [Calls -> [Epochs -> Nat]]
      BY <1>b DEF BoxInv, Shape
    <3>2. b.writes[x][y] = IF x = c /\ y = e THEN box.writes[x][y] + k ELSE box.writes[x][y]
      BY <2>3, <2>6, <3>1
    <3>3. box.writes[x][y] \in Nat
      BY <3>1
    <3> QED BY <2>2, <2>3, <2>6, <3>1, <3>2, <3>3
  <2>8. NewUnused(b)
    BY <2>1, <2>7 DEF SchedInv, NewUnused
  <2>9. ClosedWritten(b, closed')
    <3> SUFFICES ASSUME NEW x \in Calls, NEW y \in Epochs, <<x, y>> \in closed'
                 PROVE  b.writes[x][y] > 0
      BY DEF ClosedWritten
    <3>1. box.writes[x][y] > 0
      BY <2>1, <2>4 DEF SchedInv, ClosedWritten
    <3>2. b.writes[x][y] \in Nat
      BY <2>5 DEF BoxInv, Shape
    <3> QED BY <2>7, <3>1, <3>2
  <2>10. ASSUME NEW d \in Epochs PROVE OneUnanswered(b, closed', d)
    <3>1. CASE d = e
      <4>1. ASSUME NEW x \in Calls, x # c, Unanswered(b, closed', x, e) PROVE FALSE
        <5>1. Unanswered(box, closed, x, e)
          BY <2>1, <2>7, <4>1 DEF Unanswered
        <5>2. x = f
          BY <2>4, <5>1
        <5> QED BY <2>1, <4>1, <5>2 DEF Unanswered
      <4> QED BY <3>1, <4>1 DEF OneUnanswered
    <3>2. CASE d # e
      <4>1. \A x \in Calls : Unanswered(b, closed', x, d) => Unanswered(box, closed, x, d)
        BY <2>1, <2>7, <3>2 DEF Unanswered
      <4> QED BY <4>1 DEF SchedInv, EpochInv, OneUnanswered
    <3> QED BY <3>1, <3>2
  <2>11. closed' \subseteq Calls \X Epochs
    BY <2>1, <2>4 DEF SchedInv
  <2>12. b.order \in Seq(Calls)
    BY <1>b, <2>6 DEF SlotType
  <2> QED BY <1>r, <2>1, <2>5, <2>8, <2>9, <2>10, <2>11, <2>12, RestartKeepsSchedules
<1>12. CASE UNCHANGED vars
  BY <1>r, <1>12 DEF vars, SchedInv, SlotType, ClosedWritten, NewUnused, EpochInv,
                     OneUnanswered, Unanswered
<1> QED BY <1>1, <1>2, <1>3, <1>4, <1>5, <1>6, <1>7, <1>8, <1>9, <1>10, <1>11, <1>12
        DEF Next

LEMMA InitSchedules == Init => SchedInv
<1> SUFFICES ASSUME Init PROVE SchedInv
  OBVIOUS
<1>1. /\ box.row = [c \in Calls |-> [e \in Epochs |-> "none"]]
      /\ box.slot = [e \in Epochs |-> EmptySlot] /\ box.order = <<>>
  BY DEF Init
<1>2. SlotType(box)
  BY <1>1, EmptySlotType DEF SlotType
<1>3. \A e \in Epochs : EpochInv(box, closed, att[e], e)
  <2> SUFFICES ASSUME NEW e \in Epochs PROVE EpochInv(box, closed, att[e], e)
    OBVIOUS
  <2>1. box.slot[e] = EmptySlot
    BY <1>1
  <2>2. NoneUnanswered(box, closed, e)
    BY <1>1 DEF NoneUnanswered, Unanswered, Sent
  <2> QED BY <2>1, <2>2, IdleSchedule
<1>4. closed = {} /\ att \in [Epochs -> AttStates]
  BY DEF Init, AttStates, Attached
<1>5. NewUnused(box) /\ ClosedWritten(box, closed)
  BY <1>1, <1>4 DEF NewUnused, ClosedWritten
<1> QED BY <1>2, <1>3, <1>4, <1>5, InitRows DEF SchedInv

THEOREM SchedulesStayLawful == Spec => []SchedInv
BY InitSchedules, StepKeepsSchedules, PTL DEF Spec

\* No schedule waits without a frame in flight whose answer or close advances
\* it, whatever was cancelled, refused or replayed meanwhile.
THEOREM SchedulesAreHeld == Spec => []ScheduleHasHolder
<1>1. SchedInv => ScheduleHasHolder
  BY DEF SchedInv, EpochInv, ScheduleHasHolder
<1> QED BY <1>1, SchedulesStayLawful, PTL

\* The client never has two frames of an attachment to work on.
THEOREM FramesGoOneByOne == Spec => []OneUnansweredFrame
<1>1. SchedInv => OneUnansweredFrame
  <2> SUFFICES ASSUME SchedInv, NEW e \in Epochs
               PROVE  Cardinality({c \in Calls : Unanswered(box, closed, c, e)}) <= 1
    BY DEF OneUnansweredFrame, Unanswered
  <2> DEFINE U == {c \in Calls : Unanswered(box, closed, c, e)}
  <2>1. CASE U = {}
    BY <2>1, FS_EmptySet
  <2>2. CASE U # {}
    <3>1. PICK c \in U : TRUE
      BY <2>2
    <3>2. U = {c}
      BY <3>1 DEF SchedInv, EpochInv, OneUnanswered
    <3> HIDE DEF U
    <3>3. Cardinality(U) = 1
      BY <3>2, FS_Singleton
    <3> QED BY <3>3 DEF U
  <2> QED BY <2>1, <2>2
<1> QED BY <1>1, SchedulesStayLawful, PTL

LEMMA StepKeepsRestarts ==
    restarts \in 0..MaxRestarts /\ [Next]_vars => restarts' \in 0..MaxRestarts
<1> SUFFICES ASSUME restarts \in 0..MaxRestarts, [Next]_vars
             PROVE  restarts' \in 0..MaxRestarts
  OBVIOUS
<1>1. ASSUME NEW b, RestartWith(b) PROVE restarts' \in 0..MaxRestarts
  BY <1>1, RestartAssumption DEF RestartWith
<1>2. CASE Restart
  BY <1>1, <1>2 DEF Restart
<1>3. ASSUME NEW e \in Epochs, NEW wrote \in BOOLEAN, CrashInDelivery(e, wrote)
      PROVE  restarts' \in 0..MaxRestarts
  BY <1>1, <1>3 DEF CrashInDelivery
<1>4. ASSUME NEW c \in Calls, NEW e \in Epochs, CallTool(c, e) \/ Result(c, e) \/ StreamClose(c, e)
      PROVE  restarts' = restarts
  BY <1>4 DEF CallTool, Result, StreamClose
<1>5. ASSUME NEW c \in Calls, Abort(c) \/ Verdict(c) PROVE restarts' = restarts
  BY <1>5 DEF Abort, Verdict
<1>6. ASSUME NEW e \in Epochs, Attach(e) \/ Refuse(e) \/ Recover(e) \/ Seal(e) \/ Detach(e)
      PROVE  restarts' = restarts
  BY <1>6 DEF Attach, Refuse, Recover, Seal, Detach, Becomes
<1>7. ASSUME NEW e \in Epochs, Resume(e) PROVE restarts' = restarts
  BY <1>7 DEF Resume
<1>8. CASE UNCHANGED vars
  BY <1>8 DEF vars
<1> QED BY <1>2, <1>3, <1>4, <1>5, <1>6, <1>7, <1>8 DEF Next

\* Every state of the outbox, the serializer and the ledger has its type.
THEOREM TypeCorrect == Spec => []TypeOK
<1> DEFINE I == SchedInv /\ IdInv /\ restarts \in 0..MaxRestarts
<1>1. Init => I
  BY InitSchedules, RestartAssumption DEF Init, IdInv, ExecIdsUnique
<1>2. I /\ [Next]_vars => I'
  BY StepKeepsSchedules, StepKeepsIds, StepKeepsRestarts
<1>3. I => TypeOK
  BY DEF TypeOK, SchedInv, SlotType, RowInv, BoxInv, Shape, CallsInv, IdInv
<1> HIDE DEF I
<1> QED BY <1>1, <1>2, <1>3, PTL DEF Spec
=============================================================================
