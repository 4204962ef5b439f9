------------------------- MODULE ExecDispatchProofs -------------------------
(***************************************************************************)
(* Proofs about ExecDispatch, for any calls, attachments and restarts:     *)
(* a call has at most one live envelope, an envelope is written at most    *)
(* once, and execIds are never reused.                                     *)
(*                                                                         *)
(* The invariants need nothing of the queues: whatever the serializer      *)
(* offers next, an offer only turns a queued row into a dispatched one.    *)
(***************************************************************************)
EXTENDS ExecDispatch, FiniteSetTheorems, WellFoundedInduction, TLAPS

\* The part of the type of the box the proofs need; slots and order are free.
Shape(b) ==
    b \in [row : [Calls -> [Epochs -> RowStates]], writes : [Calls -> [Epochs -> Nat]],
           slot : {b.slot}, order : {b.order}]

\* A row that waits was not written, and none was written twice.
Unwritten(b) ==
    \A c \in Calls, e \in Epochs :
        /\ b.row[c][e] \in {"none", "queued"} => b.writes[c][e] = 0
        /\ b.writes[c][e] <= 1

BoxInv(b) == Shape(b) /\ Unwritten(b)

\* Live envelopes belong to open calls, one to each; a call that was not made
\* has no row.
CallsInv(b, ed) ==
    /\ ed \in [Calls -> {"none", "open", "closed"}]
    /\ \A c \in Calls, e \in Epochs :
          /\ ed[c] = "none" => b.row[c][e] = "none"
          /\ b.row[c][e] \in Active => ed[c] = "open"
    /\ \A c \in Calls, d, e \in Epochs :
          b.row[c][d] \in Active /\ b.row[c][e] \in Active => d = e

RowInv == BoxInv(box) /\ CallsInv(box, edge)

\* The counter is ahead of every id in use.
IdInv ==
    /\ execId \in [Calls -> Nat] /\ nextId \in Nat \ {0}
    /\ \A c \in Calls : execId[c] < nextId
    /\ ExecIdsUnique

\* What the serializer does to the rows: it dispatches queued ones.
Kept(b, n) ==
    /\ BoxInv(n)
    /\ \A c \in Calls, e \in Epochs :
          \/ n.row[c][e] = b.row[c][e] /\ n.writes[c][e] = b.writes[c][e]
          \/ b.row[c][e] = "queued" /\ n.row[c][e] = "dispatched" /\ n.writes[c][e] = 1

-----------------------------------------------------------------------------
(* The serializer.                                                         *)

\* Replacing slots and the order leaves rows and writes alone.
LEMMA SameRowsKept ==
    ASSUME NEW b, BoxInv(b), NEW n, Shape(n), n.row = b.row, n.writes = b.writes
    PROVE  Kept(b, n)
BY DEF Kept, BoxInv, Unwritten

LEMMA KeptTwice ==
    ASSUME NEW b, NEW m, NEW n, Kept(b, m), Kept(m, n)
    PROVE  Kept(b, n)
<1> DEFINE Step(x, y, c, e) ==
             \/ y.row[c][e] = x.row[c][e] /\ y.writes[c][e] = x.writes[c][e]
             \/ x.row[c][e] = "queued" /\ y.row[c][e] = "dispatched" /\ y.writes[c][e] = 1
<1> SUFFICES ASSUME NEW c \in Calls, NEW e \in Epochs
             PROVE  Step(b, n, c, e)
  BY DEF Kept
<1>1. Step(b, m, c, e)
  BY Kept(b, m) DEF Kept
<1>2. Step(m, n, c, e)
  BY Kept(m, n) DEF Kept
<1> QED BY <1>1, <1>2

LEMMA OfferKeeps ==
    ASSUME NEW b, BoxInv(b), NEW c, NEW e \in Epochs
    PROVE  Kept(b, Offer(b, c, e))
<1>1. CASE b.row[c][e] # "queued"
  <2> DEFINE n == [b EXCEPT !.slot[e] = EmptySlot]
  <2>1. Offer(b, c, e) = n
    BY <1>1 DEF Offer
  <2>2. Shape(n) /\ n.row = b.row /\ n.writes = b.writes
    BY DEF BoxInv, Shape
  <2> HIDE DEF n
  <2> QED BY <2>1, <2>2, SameRowsKept
<1>2. CASE b.row[c][e] = "queued" /\ att[e] # "open"
  <2> DEFINE n == [b EXCEPT !.slot[e] = EmptySlot, !.order = Append(Without(@, c), c)]
  <2>1. Offer(b, c, e) = n
    BY <1>2 DEF Offer
  <2>2. Shape(n) /\ n.row = b.row /\ n.writes = b.writes
    BY DEF BoxInv, Shape
  <2> HIDE DEF n
  <2> QED BY <2>1, <2>2, SameRowsKept
<1>3. CASE b.row[c][e] = "queued" /\ att[e] = "open"
  <2> DEFINE n == [b EXCEPT !.row[c][e] = "dispatched", !.writes[c][e] = @ + 1,
                            !.slot[e].inFlight = c]
             r == [b.row EXCEPT ![c][e] = "dispatched"]
             w == [b.writes EXCEPT ![c][e] = @ + 1]
  <2>1. Offer(b, c, e) = n
    BY <1>3 DEF Offer
  <2>2. n.row = r /\ n.writes = w
    BY DEF BoxInv, Shape
  <2>3. r \in [Calls -> [Epochs -> RowStates]] /\ w \in [Calls -> [Epochs -> Nat]]
    <3> HIDE DEF n
    <3>1. b.row \in [Calls -> [Epochs -> RowStates]]
      BY DEF BoxInv, Shape
    <3>2. b.writes \in [Calls -> [Epochs -> Nat]]
      BY DEF BoxInv, Shape
    <3>3. r \in [Calls -> [Epochs -> RowStates]]
      BY <3>1 DEF RowStates, Active, Sent
    <3>4. w \in [Calls -> [Epochs -> Nat]]
      <4>1. ASSUME NEW g \in [Epochs -> Nat]
            PROVE  [g EXCEPT ![e] = g[e] + 1] \in [Epochs -> Nat]
        OBVIOUS
      <4> QED BY <3>2, <4>1
    <3> QED BY <3>3, <3>4
  <2>4. Shape(n)
    BY <2>2, <2>3 DEF BoxInv, Shape
  <2>5. ASSUME NEW x \in Calls, NEW y \in Epochs
        PROVE  \/ n.row[x][y] = b.row[x][y] /\ n.writes[x][y] = b.writes[x][y]
               \/ /\ b.row[x][y] = "queued" /\ n.row[x][y] = "dispatched"
                  /\ n.writes[x][y] = 1
    <3>1. b.row[x][y] = "queued" => b.writes[x][y] = 0
      BY DEF BoxInv, Unwritten
    <3> QED BY <1>3, <2>2, <3>1 DEF BoxInv, Shape
  <2> HIDE DEF n
  <2>6. Unwritten(n)
    BY <2>4, <2>5 DEF BoxInv, Unwritten, Shape
  <2> QED BY <2>1, <2>4, <2>5, <2>6 DEF Kept, BoxInv
<1> QED BY <1>1, <1>2, <1>3

LEMMA OfferFirstKeeps ==
    ASSUME NEW b, BoxInv(b), NEW q, NEW e \in Epochs
    PROVE  Kept(b, OfferFirst(b, q, e))
<1>1. CASE q = <<>>
  <2> DEFINE n == [b EXCEPT !.slot[e] = EmptySlot]
  <2>1. OfferFirst(b, q, e) = n
    BY <1>1 DEF OfferFirst
  <2>2. Shape(n) /\ n.row = b.row /\ n.writes = b.writes
    BY DEF BoxInv, Shape
  <2> HIDE DEF n
  <2> QED BY <2>1, <2>2, SameRowsKept
<1>2. CASE q # <<>>
  <2> DEFINE n == [b EXCEPT !.slot[e] = [inFlight |-> Nobody, queue |-> Tail(q)]]
  <2>1. OfferFirst(b, q, e) = Offer(n, Head(q), e)
    BY <1>2 DEF OfferFirst
  <2>2. Shape(n) /\ n.row = b.row /\ n.writes = b.writes
    BY DEF BoxInv, Shape
  <2> HIDE DEF n
  <2>3. Kept(b, n)
    BY <2>2, SameRowsKept
  <2>4. Kept(n, Offer(n, Head(q), e))
    BY <2>3, OfferKeeps DEF Kept
  <2> QED BY <2>1, <2>3, <2>4, KeptTwice
<1> QED BY <1>1, <1>2

LEMMA SerializerKeeps ==
    ASSUME NEW b, BoxInv(b), NEW e \in Epochs, NEW c
    PROVE  /\ Kept(b, Schedule(b, c, e))
           /\ Kept(b, Release(b, c, e))
           /\ Kept(b, Unschedule(b, c, e))
           /\ Kept(b, Replay(b, e))
<1>1. Kept(b, Schedule(b, c, e))
  <2> DEFINE n == [b EXCEPT !.slot[e].queue = Append(@, c)]
  <2>1. Shape(n) /\ n.row = b.row /\ n.writes = b.writes
    BY DEF BoxInv, Shape
  <2>2. Schedule(b, c, e) \in {n, Offer(b, c, e)}
    BY DEF Schedule
  <2> HIDE DEF n
  <2> QED BY <2>1, <2>2, SameRowsKept, OfferKeeps
<1>2. Kept(b, b)
  BY SameRowsKept DEF BoxInv
<1>3. ASSUME NEW m, BoxInv(m) PROVE Kept(m, Release(m, c, e))
  <2>1. Kept(m, m)
    BY <1>3, SameRowsKept DEF BoxInv
  <2> QED BY <1>3, <2>1, OfferFirstKeeps DEF Release
<1>4. Kept(b, Unschedule(b, c, e))
  <2> DEFINE n == [b EXCEPT !.slot[e].queue = Without(@, c)]
  <2>1. Shape(n) /\ n.row = b.row /\ n.writes = b.writes
    BY DEF BoxInv, Shape
  <2>2. Unschedule(b, c, e) = Release(n, c, e)
    BY DEF Unschedule
  <2> HIDE DEF n
  <2>3. Kept(b, n)
    BY <2>1, SameRowsKept
  <2>4. Kept(n, Release(n, c, e))
    BY <2>3, <1>3 DEF Kept
  <2> QED BY <2>2, <2>3, <2>4, KeptTwice
<1>5. Kept(b, Replay(b, e))
  BY <1>2, OfferFirstKeeps DEF Replay
<1> QED BY <1>1, <1>3, <1>4, <1>5
\* The serializer never revives a row and never touches one that is not there.
LEMMA KeptCallsInv ==
    ASSUME NEW b, NEW n, NEW ed, CallsInv(b, ed), Kept(b, n)
    PROVE  BoxInv(n) /\ CallsInv(n, ed)
<1>1. ASSUME NEW c \in Calls, NEW e \in Epochs
      PROVE  /\ b.row[c][e] = "none" => n.row[c][e] = "none"
             /\ n.row[c][e] \in Active => b.row[c][e] \in Active
  <2>1. \/ n.row[c][e] = b.row[c][e]
        \/ b.row[c][e] = "queued" /\ n.row[c][e] = "dispatched"
    BY DEF Kept
  <2> QED BY <2>1 DEF Active
<1>2. BoxInv(n)
  BY DEF Kept
<1> QED BY <1>1, <1>2 DEF CallsInv

-----------------------------------------------------------------------------
(* One lemma per way the rows change before the serializer acts.           *)

LEMMA CallToolRows ==
    ASSUME RowInv, NEW c \in Calls, NEW e \in Epochs, edge[c] = "none", NEW o
    PROVE  LET b == [box EXCEPT !.row[c][e] = "queued", !.order = o]
           IN  BoxInv(b) /\ CallsInv(b, [edge EXCEPT ![c] = "open"])
<1> DEFINE b == [box EXCEPT !.row[c][e] = "queued", !.order = o]
<1>1. b.row = [box.row EXCEPT ![c][e] = "queued"] /\ b.writes = box.writes
  BY DEF RowInv, BoxInv, Shape
<1>2. b.row \in [Calls -> [Epochs -> RowStates]]
  BY <1>1 DEF RowInv, BoxInv, Shape, RowStates, Active
<1>3. Shape(b)
  BY <1>1, <1>2 DEF RowInv, BoxInv, Shape
<1>4. ASSUME NEW x \in Calls, NEW y \in Epochs
      PROVE  /\ b.row[x][y] = IF x = c /\ y = e THEN "queued" ELSE box.row[x][y]
             /\ b.writes[x][y] = box.writes[x][y]
             /\ x = c => box.row[x][y] = "none"
  BY <1>1 DEF RowInv, BoxInv, Shape, CallsInv
<1> HIDE DEF b
<1>5. Unwritten(b)
  BY <1>4 DEF RowInv, BoxInv, Unwritten
<1>6. CallsInv(b, [edge EXCEPT ![c] = "open"])
  BY <1>4 DEF RowInv, CallsInv, Active, Sent
<1> QED BY <1>3, <1>5, <1>6 DEF BoxInv, b

\* Closing a call's edge together with its row.
LEMMA ResultRows ==
    ASSUME RowInv, NEW c \in Calls, NEW e \in Epochs, box.row[c][e] \in Sent
    PROVE  LET b == [box EXCEPT !.row[c][e] = "settled"]
           IN  BoxInv(b) /\ CallsInv(b, [edge EXCEPT ![c] = "closed"])
<1> DEFINE b == [box EXCEPT !.row[c][e] = "settled"]
<1>1. b.row = [box.row EXCEPT ![c][e] = "settled"] /\ b.writes = box.writes
  BY DEF RowInv, BoxInv, Shape
<1>2. b.row \in [Calls -> [Epochs -> RowStates]]
  BY <1>1 DEF RowInv, BoxInv, Shape, RowStates
<1>3. Shape(b)
  BY <1>1, <1>2 DEF RowInv, BoxInv, Shape
<1>4. ASSUME NEW x \in Calls, NEW y \in Epochs
      PROVE  /\ b.row[x][y] = IF x = c /\ y = e THEN "settled" ELSE box.row[x][y]
             /\ b.writes[x][y] = box.writes[x][y]
             /\ x = c /\ y # e => box.row[x][y] \notin Active
             /\ edge[c] = "open"
  BY <1>1 DEF RowInv, BoxInv, Shape, CallsInv, Active
<1> HIDE DEF b
<1>5. Unwritten(b)
  BY <1>4 DEF RowInv, BoxInv, Unwritten
<1>6. CallsInv(b, [edge EXCEPT ![c] = "closed"])
  BY <1>4 DEF RowInv, CallsInv, Active, Sent
<1> QED BY <1>3, <1>5, <1>6 DEF BoxInv, b

LEMMA MoveActiveRows ==
    ASSUME RowInv, NEW c \in Calls, edge[c] = "open", NEW s \in {"cancelled", "settled"}
    PROVE  /\ BoxInv(MoveActive(c, s))
           /\ CallsInv(MoveActive(c, s), [edge EXCEPT ![c] = "closed"])
<1> DEFINE b == MoveActive(c, s)
<1>1. /\ b.row = [box.row EXCEPT ![c] = [e \in Epochs |->
                     IF box.row[c][e] \in Active THEN s ELSE box.row[c][e]]]
      /\ b.writes = box.writes
  BY DEF RowInv, BoxInv, Shape, MoveActive
<1>2. b.row \in [Calls -> [Epochs -> RowStates]]
  BY <1>1 DEF RowInv, BoxInv, Shape, RowStates
<1>3. Shape(b)
  BY <1>1, <1>2 DEF RowInv, BoxInv, Shape, MoveActive
<1>4. ASSUME NEW x \in Calls, NEW y \in Epochs
      PROVE  /\ b.row[x][y] = IF x = c /\ box.row[x][y] \in Active THEN s ELSE box.row[x][y]
             /\ b.writes[x][y] = box.writes[x][y]
  BY <1>1 DEF RowInv, BoxInv, Shape
<1> HIDE DEF b
<1>5. Unwritten(b)
  BY <1>4 DEF RowInv, BoxInv, Unwritten
<1>6. CallsInv(b, [edge EXCEPT ![c] = "closed"])
  BY <1>4 DEF RowInv, CallsInv, Active, Sent
<1> QED BY <1>3, <1>5, <1>6 DEF BoxInv, b

\* A reattached call gives up the rows it leaves.
LEMMA ReattachRows ==
    ASSUME RowInv, NEW e \in Epochs, CanReattach(e)
    PROVE  BoxInv(Reattach(e)) /\ CallsInv(Reattach(e), edge)
<1> DEFINE b == Reattach(e)
           Left == {"queued", "dispatching", "dispatched"}
<1>1. /\ b.row = [c \in Calls |-> [d \in Epochs |->
                     IF Replayable(c, e) /\ d = e THEN "queued"
                     ELSE IF d # e /\ box.row[c][d] \in Left THEN "reattached"
                     ELSE box.row[c][d]]]
      /\ b.writes = box.writes
  BY DEF RowInv, BoxInv, Shape, Reattach
<1>2. b.row \in [Calls -> [Epochs -> RowStates]]
  BY <1>1 DEF RowInv, BoxInv, Shape, RowStates, Active
<1>3. Shape(b)
  BY <1>1, <1>2 DEF RowInv, BoxInv, Shape, Reattach
<1>4. ASSUME NEW x \in Calls, NEW y \in Epochs
      PROVE  /\ b.row[x][y] = IF Replayable(x, e) /\ y = e THEN "queued"
                              ELSE IF y # e /\ box.row[x][y] \in Left THEN "reattached"
                              ELSE box.row[x][y]
             /\ b.writes[x][y] = box.writes[x][y]
  BY <1>1 DEF RowInv, BoxInv, Shape
<1> HIDE DEF b
<1>5. ASSUME NEW x \in Calls, Replayable(x, e)
      PROVE  /\ edge[x] = "open" /\ box.row[x][e] = "none"
             /\ \A y \in Epochs : box.row[x][y] \in Active => box.row[x][y] \in Left
  <2>1. PICK d \in Epochs \ {e} : box.row[x][d] \in Left
    BY <1>5 DEF Replayable
  <2>2. box.row[x][d] \in Active
    BY <2>1 DEF Active, Sent
  <2>3. edge[x] = "open" /\ \A y \in Epochs : box.row[x][y] \in Active => y = d
    BY <2>2 DEF RowInv, CallsInv
  <2> QED BY <1>5, <2>1, <2>3 DEF CanReattach
<1>6. Unwritten(b)
  BY <1>4, <1>5 DEF RowInv, BoxInv, Unwritten
<1>7. CallsInv(b, edge)
  <2>1. ASSUME NEW x \in Calls, NEW y \in Epochs
        PROVE  /\ edge[x] = "none" => b.row[x][y] = "none"
               /\ b.row[x][y] \in Active => edge[x] = "open"
    BY <1>4, <1>5 DEF RowInv, CallsInv, Active, Sent
  <2>2. ASSUME NEW x \in Calls, NEW y \in Epochs, NEW z \in Epochs,
               b.row[x][y] \in Active, b.row[x][z] \in Active
        PROVE  y = z
    <3>1. CASE Replayable(x, e)
      BY <1>4, <1>5, <2>2, <3>1 DEF Active, Sent
    <3>2. CASE ~ Replayable(x, e)
      BY <1>4, <2>2, <3>2 DEF RowInv, CallsInv, Active, Sent
    <3> QED BY <3>1, <3>2
  <2> QED BY <2>1, <2>2 DEF RowInv, CallsInv
<1> QED BY <1>3, <1>6, <1>7 DEF BoxInv, b

\* Parking and dying change what was sent, never what waits.
LEMMA ParkRows ==
    ASSUME NEW b, BoxInv(b), CallsInv(b, edge)
    PROVE  BoxInv(Park(b)) /\ CallsInv(Park(b), edge)
<1> DEFINE n == Park(b)
           Going == {"dispatching", "dispatched"}
<1>1. /\ n.row = [c \in Calls |-> [e \in Epochs |->
                     IF edge[c] = "open" /\ b.row[c][e] \in Going
                       THEN "awaiting" ELSE b.row[c][e]]]
      /\ n.writes = b.writes
  BY DEF BoxInv, Shape, Park
<1>2. n.row \in [Calls -> [Epochs -> RowStates]]
  BY <1>1 DEF BoxInv, Shape, RowStates, Active, Sent
<1>3. Shape(n)
  BY <1>1, <1>2 DEF BoxInv, Shape, Park
<1>4. ASSUME NEW x \in Calls, NEW y \in Epochs
      PROVE  /\ n.row[x][y] = IF edge[x] = "open" /\ b.row[x][y] \in Going
                                THEN "awaiting" ELSE b.row[x][y]
             /\ n.writes[x][y] = b.writes[x][y]
  BY <1>1 DEF BoxInv, Shape
<1> HIDE DEF n
<1>5. Unwritten(n)
  BY <1>4 DEF BoxInv, Unwritten
<1>6. CallsInv(n, edge)
  BY <1>4 DEF CallsInv, Active, Sent
<1> QED BY <1>3, <1>5, <1>6 DEF BoxInv, n

LEMMA CrashRows ==
    ASSUME RowInv, NEW c, NEW e \in Epochs, box.row[c][e] = "queued", NEW k \in {0, 1}
    PROVE  LET b == [box EXCEPT !.row[c][e] = "dispatching", !.writes[c][e] = @ + k]
           IN  BoxInv(b) /\ CallsInv(b, edge)
<1> DEFINE b == [box EXCEPT !.row[c][e] = "dispatching", !.writes[c][e] = @ + k]
<1>1. /\ b.row = [box.row EXCEPT ![c][e] = "dispatching"]
      /\ b.writes = [box.writes EXCEPT ![c][e] = @ + k]
  BY DEF RowInv, BoxInv, Shape
<1>2. b.row \in [Calls -> [Epochs -> RowStates]]
  BY <1>1 DEF RowInv, BoxInv, Shape, RowStates, Active, Sent
<1>3. b.writes \in [Calls -> [Epochs -> Nat]]
  <2> HIDE DEF b
  <2>1. box.writes \in [Calls -> [Epochs -> Nat]]
    BY DEF RowInv, BoxInv, Shape
  <2>2. ASSUME NEW g \in [Epochs -> Nat]
        PROVE  [g EXCEPT ![e] = g[e] + k] \in [Epochs -> Nat]
    OBVIOUS
  <2>3. [box.writes EXCEPT ![c][e] = @ + k] \in [Calls -> [Epochs -> Nat]]
    BY <2>1, <2>2
  <2> QED BY <1>1, <2>3
<1>4. Shape(b)
  BY <1>1, <1>2, <1>3 DEF RowInv, BoxInv, Shape
<1>5. ASSUME NEW x \in Calls, NEW y \in Epochs
      PROVE  \/ b.row[x][y] = box.row[x][y] /\ b.writes[x][y] = box.writes[x][y]
             \/ /\ box.row[x][y] = "queued" /\ b.row[x][y] = "dispatching"
                /\ b.writes[x][y] = box.writes[x][y] + k
  BY <1>1 DEF RowInv, BoxInv, Shape
<1> HIDE DEF b
<1>6. Unwritten(b)
  BY <1>5 DEF RowInv, BoxInv, Unwritten, Shape
<1>7. CallsInv(b, edge)
  BY <1>5 DEF RowInv, CallsInv, Active, Sent
<1> QED BY <1>4, <1>6, <1>7 DEF BoxInv, b

LEMMA RestartKeepsRows ==
    ASSUME NEW b, BoxInv(b), CallsInv(b, edge), RestartWith(b)
    PROVE  RowInv'
<1>1. Shape(box') /\ box'.row = Park(b).row /\ box'.writes = Park(b).writes
  BY ParkRows DEF RestartWith, BoxInv, Shape
<1>2. Kept(Park(b), box')
  BY <1>1, ParkRows, SameRowsKept
<1>3. edge' = edge
  BY DEF RestartWith
<1> QED BY <1>2, <1>3, ParkRows, KeptCallsInv DEF RowInv

-----------------------------------------------------------------------------
(* Every step keeps the rows.                                              *)

LEMMA StepKeepsRows == RowInv /\ [Next]_vars => RowInv'
<1> SUFFICES ASSUME RowInv, [Next]_vars PROVE RowInv'
  OBVIOUS
<1>0. ASSUME UNCHANGED <<box, edge>> PROVE RowInv'
  BY <1>0 DEF RowInv, BoxInv, Shape, Unwritten, CallsInv
<1>a. ASSUME NEW b, BoxInv(b), CallsInv(b, edge'), Kept(b, box') PROVE RowInv'
  BY <1>a, KeptCallsInv DEF RowInv
<1>1. ASSUME NEW c \in Calls, NEW e \in Epochs, CallTool(c, e) PROVE RowInv'
  <2> DEFINE b == [box EXCEPT !.row[c][e] = "queued", !.order = Append(@, c)]
  <2>1. BoxInv(b) /\ CallsInv(b, edge')
    BY <1>1, CallToolRows DEF CallTool
  <2>2. box' = Schedule(b, c, e)
    BY <1>1 DEF CallTool
  <2> HIDE DEF b
  <2> QED BY <1>a, <2>1, <2>2, SerializerKeeps
<1>2. ASSUME NEW c \in Calls, NEW e \in Epochs, Result(c, e) PROVE RowInv'
  <2> DEFINE b == [box EXCEPT !.row[c][e] = "settled"]
  <2>1. BoxInv(b) /\ CallsInv(b, edge')
    BY <1>2, ResultRows DEF Result
  <2>2. box' = Release(b, c, e)
    BY <1>2 DEF Result
  <2> HIDE DEF b
  <2> QED BY <1>a, <2>1, <2>2, SerializerKeeps
<1>3. ASSUME NEW c \in Calls, NEW e \in Epochs, StreamClose(c, e) PROVE RowInv'
  BY <1>a, <1>3, SerializerKeeps DEF StreamClose, RowInv
<1>4. ASSUME NEW c \in Calls, Abort(c) PROVE RowInv'
  <2>1. CASE ActiveEpochs(c) = {} /\ box' = box
    <3>1. edge' = [edge EXCEPT ![c] = "closed"] /\ edge[c] = "open"
      BY <1>4 DEF Abort
    <3>2. \A e \in Epochs : box.row[c][e] \notin Active
      BY <2>1 DEF ActiveEpochs
    <3>3. CallsInv(box, edge')
      BY <3>1, <3>2 DEF RowInv, CallsInv
    <3> QED BY <2>1, <3>3 DEF RowInv
  <2>2. ASSUME NEW e \in ActiveEpochs(c), box' = Unschedule(MoveActive(c, "cancelled"), c, e)
        PROVE  RowInv'
    <3>1. /\ BoxInv(MoveActive(c, "cancelled"))
          /\ CallsInv(MoveActive(c, "cancelled"), edge')
      BY <1>4, MoveActiveRows DEF Abort
    <3> QED BY <1>a, <2>2, <3>1, SerializerKeeps DEF ActiveEpochs
  <2> QED BY <1>4, <2>1, <2>2 DEF Abort
<1>5. ASSUME NEW c \in Calls, Verdict(c) PROVE RowInv'
  <2>1. /\ BoxInv(MoveActive(c, "settled"))
        /\ CallsInv(MoveActive(c, "settled"), edge')
    BY <1>5, MoveActiveRows DEF Verdict
  <2>2. PICK e \in ActiveEpochs(c) : box' = Release(MoveActive(c, "settled"), c, e)
    BY <1>5 DEF Verdict
  <2> QED BY <1>a, <2>1, <2>2, SerializerKeeps DEF ActiveEpochs
<1>6. ASSUME NEW e \in Epochs, Attach(e) \/ Refuse(e) \/ Recover(e) \/ Seal(e) PROVE RowInv'
  BY <1>0, <1>6 DEF Attach, Refuse, Recover, Seal, Becomes
<1>7. ASSUME NEW e \in Epochs, Detach(e) PROVE RowInv'
  <2>1. box' = [box EXCEPT !.slot[e] = EmptySlot] /\ edge' = edge
    BY <1>7 DEF Detach, Becomes
  <2>2. Shape(box') /\ box'.row = box.row /\ box'.writes = box.writes
    BY <2>1 DEF RowInv, BoxInv, Shape
  <2> QED BY <1>a, <2>1, <2>2, SameRowsKept DEF RowInv
<1>8. ASSUME NEW e \in Epochs, Resume(e) PROVE RowInv'
  <2>1. BoxInv(Reattach(e)) /\ CallsInv(Reattach(e), edge')
    BY <1>8, ReattachRows DEF Resume
  <2>2. box' = Replay(Reattach(e), e)
    BY <1>8 DEF Resume
  <2> QED BY <1>a, <2>1, <2>2, SerializerKeeps
<1>9. ASSUME Restart PROVE RowInv'
  BY <1>9, RestartKeepsRows DEF Restart, RowInv
<1>10. ASSUME NEW e \in Epochs, NEW wrote \in BOOLEAN, CrashInDelivery(e, wrote) PROVE RowInv'
  <2> DEFINE c == Head(box.slot[e].queue)
             k == IF wrote THEN 1 ELSE 0
             b == [box EXCEPT !.row[c][e] = "dispatching", !.writes[c][e] = @ + k]
  <2>1. box.row[c][e] = "queued" /\ RestartWith(b)
    BY <1>10 DEF CrashInDelivery
  <2>2. k \in {0, 1}
    OBVIOUS
  <2> HIDE DEF c, k
  <2>3. BoxInv(b) /\ CallsInv(b, edge)
    BY <2>1, <2>2, CrashRows
  <2> HIDE DEF b
  <2> QED BY <2>1, <2>3, RestartKeepsRows
<1>11. CASE UNCHANGED vars
  BY <1>0, <1>11 DEF vars
<1> QED BY <1>1, <1>2, <1>3, <1>4, <1>5, <1>6, <1>7, <1>8, <1>9, <1>10, <1>11 DEF Next

LEMMA InitRows == Init => RowInv
<1> SUFFICES ASSUME Init PROVE RowInv
  OBVIOUS
<1>1. /\ box.row = [c \in Calls |-> [e \in Epochs |-> "none"]]
      /\ box.writes = [c \in Calls |-> [e \in Epochs |-> 0]]
  BY DEF Init
<1>2. Shape(box)
  BY DEF Init, Shape, RowStates
<1>3. Unwritten(box)
  BY <1>1 DEF Unwritten
<1>4. CallsInv(box, edge)
  BY <1>1 DEF Init, CallsInv, Active, Sent
<1> QED BY <1>2, <1>3, <1>4 DEF RowInv, BoxInv

THEOREM RowsStayLawful == Spec => []RowInv
BY InitRows, StepKeepsRows, PTL DEF Spec

\* Whatever is aborted, answered, reattached or lost with the bridge, a call
\* has at most one live envelope, and none once its edge is closed.
THEOREM EnvelopesAreSingle == Spec => []OneLiveEnvelope
<1>1. RowInv => OneLiveEnvelope
  <2> SUFFICES ASSUME RowInv, NEW c \in Calls
               PROVE  Cardinality(ActiveEpochs(c)) <= IF edge[c] = "open" THEN 1 ELSE 0
    BY DEF OneLiveEnvelope
  <2>1. CASE ActiveEpochs(c) = {}
    <3>1. Cardinality(ActiveEpochs(c)) = 0
      BY <2>1, FS_EmptySet
    <3> QED BY <3>1
  <2>2. CASE ActiveEpochs(c) # {}
    <3>1. PICK e \in Epochs : box.row[c][e] \in Active
      BY <2>2 DEF ActiveEpochs
    <3>2. ActiveEpochs(c) = {e} /\ edge[c] = "open"
      BY <3>1 DEF ActiveEpochs, RowInv, CallsInv
    <3>3. Cardinality(ActiveEpochs(c)) = 1
      BY <3>2, FS_Singleton
    <3> QED BY <3>2, <3>3
  <2> QED BY <2>1, <2>2
<1> QED BY <1>1, RowsStayLawful, PTL

\* No envelope is written twice to its attachment, over any number of failed
\* writes, resumes and crashes.
THEOREM EnvelopesAreWrittenOnce == Spec => []EnvelopeWrittenOnce
<1>1. RowInv => EnvelopeWrittenOnce
  BY DEF RowInv, BoxInv, Unwritten, EnvelopeWrittenOnce
<1> QED BY <1>1, RowsStayLawful, PTL

-----------------------------------------------------------------------------
(* ExecIds.                                                                *)

\* Max is defined on every bounded set of naturals that is not empty.
LEMMA MaxOfBounded ==
    ASSUME NEW S \in SUBSET Nat, S # {}, NEW n \in Nat, \A x \in S : x <= n
    PROVE  Max(S) \in S /\ \A x \in S : x <= Max(S)
<1> DEFINE U == {m \in Nat : \A x \in S : x <= m}
<1>1. PICK m \in U : \A y \in U : ~ (y < m)
  <2>1. n \in U
    OBVIOUS
  <2>2. PICK m \in U : \A y \in U : <<y, m>> \notin OpToRel(<, Nat)
    BY <2>1, NatLessThanWellFounded, WFMin
  <2> QED BY <2>2 DEF OpToRel
<1>2. m \in S
  <2> SUFFICES ASSUME m \notin S PROVE FALSE
    OBVIOUS
  <2>1. PICK x \in S : TRUE
    OBVIOUS
  <2>2. m # 0 /\ \A y \in S : y <= m - 1
    BY <2>1
  <2>3. m - 1 \in U
    BY <2>2
  <2> QED BY <1>1, <2>3
<1>3. \A x \in S : m >= x
  OBVIOUS
<1>4. \E x \in S : \A y \in S : x >= y
  BY <1>2, <1>3
<1>5. Max(S) \in S /\ \A y \in S : Max(S) >= y
  BY <1>4 DEF Max
<1> QED BY <1>5

LEMMA StepKeepsIds == IdInv /\ [Next]_vars => IdInv'
<1> SUFFICES ASSUME IdInv, [Next]_vars PROVE IdInv'
  OBVIOUS
<1>1. ASSUME UNCHANGED <<execId, nextId>> PROVE IdInv'
  BY <1>1 DEF IdInv, ExecIdsUnique
<1>2. ASSUME NEW c \in Calls, NEW e \in Epochs, CallTool(c, e) PROVE IdInv'
  <2>1. execId' = [execId EXCEPT ![c] = nextId] /\ nextId' = nextId + 1
    BY <1>2 DEF CallTool
  <2>2. execId' \in [Calls -> Nat] /\ nextId' \in Nat \ {0}
    BY <2>1 DEF IdInv
  <2>3. \A d \in Calls : execId'[d] < nextId'
    BY <2>1 DEF IdInv
  <2>4. ExecIdsUnique'
    BY <2>1 DEF IdInv, ExecIdsUnique
  <2> QED BY <2>2, <2>3, <2>4 DEF IdInv
<1>3. ASSUME NEW b, RestartWith(b) PROVE IdInv'
  <2> DEFINE S == {0} \cup {execId[c] : c \in Calls}
  <2>1. execId' = execId /\ nextId' = 1 + Max(S)
    BY <1>3 DEF RestartWith
  <2>2. S \in SUBSET Nat /\ S # {} /\ \A x \in S : x <= nextId /\ nextId \in Nat
    BY DEF IdInv
  <2>3. Max(S) \in Nat /\ \A c \in Calls : execId[c] <= Max(S)
    <3>1. Max(S) \in S /\ \A x \in S : x <= Max(S)
      BY <2>2, MaxOfBounded
    <3> QED BY <2>2, <3>1
  <2> QED BY <2>1, <2>3 DEF IdInv, ExecIdsUnique
<1>4. CASE \E c \in Calls, e \in Epochs : Result(c, e) \/ StreamClose(c, e)
  BY <1>1, <1>4 DEF Result, StreamClose
<1>5. CASE \E c \in Calls : Abort(c) \/ Verdict(c)
  BY <1>1, <1>5 DEF Abort, Verdict
<1>6. CASE \E e \in Epochs : Attach(e) \/ Refuse(e) \/ Recover(e) \/ Seal(e) \/ Detach(e)
  BY <1>1, <1>6 DEF Attach, Refuse, Recover, Seal, Detach, Becomes
<1>7. CASE \E e \in Epochs : Resume(e)
  BY <1>1, <1>7 DEF Resume
<1>8. CASE Restart
  BY <1>3, <1>8 DEF Restart
<1>9. CASE \E e \in Epochs, wrote \in BOOLEAN : CrashInDelivery(e, wrote)
  BY <1>3, <1>9 DEF CrashInDelivery
<1>10. CASE UNCHANGED vars
  BY <1>1, <1>10 DEF vars
<1> QED BY <1>2, <1>4, <1>5, <1>6, <1>7, <1>8, <1>9, <1>10 DEF Next

\* Two calls never share an execId, however often the counter was rebuilt.
THEOREM IdsAreUnique == Spec => []ExecIdsUnique
<1>1. Init => IdInv
  BY DEF Init, IdInv, ExecIdsUnique
<1>2. IdInv => ExecIdsUnique
  BY DEF IdInv
<1> QED BY <1>1, <1>2, StepKeepsIds, PTL DEF Spec
=============================================================================
