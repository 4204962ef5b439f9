--------------------------- MODULE ExecCallProofs ---------------------------
(***************************************************************************)
(* ExecDispatch implements ClientCall, for any calls, attachments and      *)
(* restarts.                                                               *)
(*                                                                         *)
(* To what ExecDispatchProofs says of the rows, the refinement adds that   *)
(* an open call never loses its envelope and has no settled row (OpenInv). *)
(* A step changes the rows of the calls it is about and then lets the      *)
(* serializer act; one lemma says what either makes of a call's view.      *)
(***************************************************************************)
EXTENDS ExecDispatchProofs

\* An open call has a live envelope, and nothing of it is settled yet.
OpenRow(c) ==
    edge[c] = "open" =>
        /\ \E e \in Epochs : box.row[c][e] \in Active
        /\ \A e \in Epochs : box.row[c][e] # "settled"

OpenInv == \A c \in Calls : OpenRow(c)

CallInv == RowInv /\ OpenInv

\* What is to be shown of every step and call.
Advances(c) == Seen'[c] = Seen[c] \/ Promise!Step(Seen[c], Seen'[c])

\* The rows of c are served at most: a queued one may have been shown.
Served(c) ==
    /\ edge'[c] = edge[c]
    /\ \A e \in Epochs :
          \/ box'.row[c][e] = box.row[c][e] /\ box'.writes[c][e] = box.writes[c][e]
          \/ box.row[c][e] = "queued" /\ box'.row[c][e] = "dispatched" /\ box'.writes[c][e] = 1

-----------------------------------------------------------------------------
(* One call.                                                               *)

LEMMA SeenIs ==
    ASSUME NEW c \in Calls
    PROVE  /\ Seen[c].status = Status(c)
           /\ Seen[c].holds = ActiveEpochs(c)
           /\ Seen[c].shown = {e \in Epochs : box.writes[c][e] > 0}
           /\ Seen[c] = [status |-> Status(c), holds |-> ActiveEpochs(c),
                         shown |-> {e \in Epochs : box.writes[c][e] > 0}]
           /\ Seen'[c] = [status |-> Status(c)', holds |-> ActiveEpochs(c)',
                          shown |-> {e \in Epochs : box'.writes[c][e] > 0}]
BY DEF Seen

\* Of an open call exactly one attachment is responsible.
LEMMA OpenCall ==
    ASSUME CallInv, NEW c \in Calls, edge[c] = "open"
    PROVE  \E d \in Epochs :
              /\ ActiveEpochs(c) = {d} /\ box.row[c][d] \in Active
              /\ \A e \in Epochs \ {d} : box.row[c][e] \notin Active
              /\ Status(c) = IF box.row[c][d] = "awaiting" THEN "parked" ELSE "open"
<1>1. PICK d \in Epochs : box.row[c][d] \in Active
  BY DEF CallInv, OpenInv, OpenRow
<1>2. \A e \in Epochs \ {d} : box.row[c][e] \notin Active
  BY <1>1 DEF CallInv, RowInv, CallsInv
<1>3. ActiveEpochs(c) = {d}
  BY <1>1, <1>2 DEF ActiveEpochs
<1>4. (\E e \in Epochs : box.row[c][e] = "awaiting") <=> box.row[c][d] = "awaiting"
  BY <1>2 DEF Active, Sent
<1>5. Status(c) = IF box.row[c][d] = "awaiting" THEN "parked" ELSE "open"
  BY <1>4 DEF Status, RowIn
<1> QED BY <1>1, <1>2, <1>3, <1>5

LEMMA ServedAdvances ==
    ASSUME CallInv, NEW c \in Calls, Served(c)
    PROVE  Advances(c) /\ OpenRow(c)'
<1>a. OpenRow(c)'
  <2>1. OpenRow(c)
    BY DEF CallInv, OpenInv
  <2> QED BY <2>1 DEF OpenRow, Served, Active, Sent
<1>1. CASE \A e \in Epochs : box'.row[c][e] = box.row[c][e] /\ box'.writes[c][e] = box.writes[c][e]
  <2>1. Status(c)' = Status(c)
    BY <1>1 DEF Status, RowIn, Served
  <2>2. ActiveEpochs(c)' = ActiveEpochs(c)
    BY <1>1 DEF ActiveEpochs
  <2>3. {e \in Epochs : box'.writes[c][e] > 0} = {e \in Epochs : box.writes[c][e] > 0}
    BY <1>1
  <2> QED BY <1>a, <2>1, <2>2, <2>3, SeenIs DEF Advances
<1>2. ASSUME NEW d \in Epochs, box.row[c][d] = "queued",
             box'.row[c][d] = "dispatched", box'.writes[c][d] = 1
      PROVE  Advances(c)
  <2>1. edge[c] = "open" /\ edge'[c] = "open"
    BY <1>2 DEF CallInv, RowInv, CallsInv, Active, Served
  <2>2. /\ ActiveEpochs(c) = {d} /\ Status(c) = "open"
        /\ \A e \in Epochs \ {d} : box.row[c][e] \notin Active
    BY <1>2, <2>1, OpenCall DEF Active, Sent
  <2>3. \A e \in Epochs \ {d} :
           box'.row[c][e] = box.row[c][e] /\ box'.writes[c][e] = box.writes[c][e]
    BY <2>2 DEF Served, Active
  <2>4. Status(c)' = "open" /\ ActiveEpochs(c)' = {d}
    BY <1>2, <2>1, <2>2, <2>3 DEF Status, RowIn, ActiveEpochs, Active, Sent
  <2> DEFINE S == {e \in Epochs : box.writes[c][e] > 0}
             T == {e \in Epochs : box'.writes[c][e] > 0}
  <2>5. box.writes[c][d] = 0
    BY <1>2 DEF CallInv, RowInv, BoxInv, Unwritten
  <2>6. T = S \cup {d} /\ d \notin S
    BY <1>2, <2>3, <2>5
  <2> HIDE DEF S, T
  <2>7. Seen[c] = [status |-> "open", holds |-> {d}, shown |-> S]
    BY <2>2, SeenIs DEF S
  <2>8. Seen'[c] = [status |-> "open", holds |-> {d}, shown |-> S \cup {d}]
    BY <2>4, <2>6, SeenIs DEF T
  <2>9. Promise!Shown(Seen[c], Seen'[c])
    BY <2>6, <2>7, <2>8 DEF Promise!Shown
  <2> QED BY <2>9 DEF Advances, Promise!Step
<1> QED BY <1>a, <1>1, <1>2 DEF Served
LEMMA MadeAdvances ==
    ASSUME CallInv, NEW c \in Calls, NEW e \in Epochs,
           edge[c] = "none", edge'[c] = "open",
           \A d \in Epochs \ {e} : box'.row[c][d] = "none" /\ box'.writes[c][d] = 0,
           \/ box'.row[c][e] = "queued" /\ box'.writes[c][e] = 0
           \/ box'.row[c][e] = "dispatched" /\ box'.writes[c][e] = 1
    PROVE  Advances(c) /\ OpenRow(c)'
<1> DEFINE S == {d \in Epochs : box.writes[c][d] > 0}
           T == {d \in Epochs : box'.writes[c][d] > 0}
<1>1. \A d \in Epochs : box.row[c][d] = "none" /\ box.writes[c][d] = 0
  BY DEF CallInv, RowInv, CallsInv, BoxInv, Unwritten
<1>2. S = {} /\ T \in {{}, {e}}
  BY <1>1
<1>3. ActiveEpochs(c)' = {e} /\ Status(c) = "unmade" /\ Status(c)' = "open"
  BY DEF ActiveEpochs, Status, RowIn, Active, Sent
<1> HIDE DEF S, T
<1>4. /\ Seen[c].status = "unmade" /\ Seen[c].shown = S
      /\ Seen'[c] = [status |-> "open", holds |-> {e}, shown |-> T]
  BY <1>3, SeenIs DEF S, T
<1>5. Promise!ComesTo(e, Seen[c], Seen'[c])
  BY <1>2, <1>4 DEF Promise!ComesTo
<1>6. OpenRow(c)'
  BY DEF OpenRow, Active, Sent
<1> QED BY <1>4, <1>5, <1>6 DEF Advances, Promise!Step, Promise!Made

\* A live envelope is given up and becomes a queued one of e, which may be shown.
LEMMA MovedAdvances ==
    ASSUME CallInv, NEW c \in Calls, NEW e \in Epochs,
           edge'[c] = edge[c], Replayable(c, e), box.row[c][e] = "none",
           \A d \in Epochs \ {e} :
              /\ box'.row[c][d] = IF box.row[c][d] \in {"queued", "dispatching", "dispatched"}
                                    THEN "reattached" ELSE box.row[c][d]
              /\ box'.writes[c][d] = box.writes[c][d],
           \/ box'.row[c][e] = "queued" /\ box'.writes[c][e] = 0
           \/ box'.row[c][e] = "dispatched" /\ box'.writes[c][e] = 1
    PROVE  Advances(c) /\ OpenRow(c)'
<1> DEFINE S == {d \in Epochs : box.writes[c][d] > 0}
           T == {d \in Epochs : box'.writes[c][d] > 0}
<1>1. PICK d \in Epochs \ {e} : box.row[c][d] \in {"queued", "dispatching", "dispatched"}
  BY DEF Replayable
<1>2. box.row[c][d] \in Active
  BY <1>1 DEF Active, Sent
<1>3. edge[c] = "open"
  BY <1>1, <1>2 DEF CallInv, RowInv, CallsInv
<1>4. /\ ActiveEpochs(c) = {d} /\ Status(c) = "open"
      /\ \A x \in Epochs \ {d} : box.row[c][x] \notin Active
  BY <1>1, <1>2, <1>3, OpenCall DEF Active, Sent
<1>5. \A x \in Epochs \ {e} : box'.row[c][x] \notin Active /\ box'.row[c][x] # "awaiting"
  BY <1>1, <1>4 DEF Active, Sent
<1>6. ActiveEpochs(c)' = {e} /\ Status(c)' = "open"
  BY <1>3, <1>5 DEF ActiveEpochs, Status, RowIn, Active, Sent
<1>7. box.writes[c][e] = 0
  BY DEF CallInv, RowInv, BoxInv, Unwritten
<1>8. e \notin S /\ T \in {S, S \cup {e}}
  BY <1>7
<1> HIDE DEF S, T
<1>9. /\ Seen[c].status = "open" /\ Seen[c].holds = {d} /\ Seen[c].shown = S
      /\ Seen'[c] = [status |-> "open", holds |-> {e}, shown |-> T]
  BY <1>4, <1>6, SeenIs DEF S, T
<1>10. Promise!ComesTo(e, Seen[c], Seen'[c])
  BY <1>8, <1>9 DEF Promise!ComesTo
<1>11. OpenRow(c)'
  <2>1. OpenRow(c)
    BY DEF CallInv, OpenInv
  <2> QED BY <1>3, <2>1 DEF OpenRow, Active, Sent
<1> QED BY <1>1, <1>9, <1>10, <1>11 DEF Advances, Promise!Step, Promise!Moved

LEMMA ParkedAdvances ==
    ASSUME CallInv, NEW c \in Calls, NEW e \in Epochs,
           edge'[c] = edge[c], box.row[c][e] \in {"queued", "dispatching", "dispatched"},
           box'.row[c][e] = "awaiting",
           box'.writes[c][e] \in {box.writes[c][e], 1},
           \A d \in Epochs \ {e} :
              box.row[c][d] \notin Active =>
                 box'.row[c][d] = box.row[c][d] /\ box'.writes[c][d] = box.writes[c][d]
    PROVE  Advances(c) /\ OpenRow(c)'
<1> DEFINE S == {d \in Epochs : box.writes[c][d] > 0}
           T == {d \in Epochs : box'.writes[c][d] > 0}
<1>1. box.row[c][e] \in Active
  BY DEF Active, Sent
<1>2. edge[c] = "open"
  BY <1>1 DEF CallInv, RowInv, CallsInv
<1>3. /\ ActiveEpochs(c) = {e} /\ Status(c) = "open"
      /\ \A x \in Epochs \ {e} : box.row[c][x] \notin Active
  BY <1>1, <1>2, OpenCall DEF Active, Sent
<1>4. ActiveEpochs(c)' = {e} /\ Status(c)' = "parked"
  BY <1>2, <1>3 DEF ActiveEpochs, Status, RowIn, Active, Sent
<1>5. T \in {S, S \cup {e}}
  BY <1>3
<1> HIDE DEF S, T
<1>6. /\ Seen[c].status = "open" /\ Seen[c].holds = {e} /\ Seen[c].shown = S
      /\ Seen'[c] = [status |-> "parked", holds |-> {e}, shown |-> T]
  BY <1>3, <1>4, SeenIs DEF S, T
<1>7. Promise!Parked(Seen[c], Seen'[c])
  BY <1>5, <1>6 DEF Promise!Parked
<1>8. OpenRow(c)'
  <2>1. OpenRow(c)
    BY DEF CallInv, OpenInv
  <2> QED BY <1>2, <1>3, <2>1 DEF OpenRow, Active, Sent
<1> QED BY <1>7, <1>8 DEF Advances, Promise!Step

\* The live envelope is settled, of a call that was shown, or cancelled.
LEMMA ClosedAdvances ==
    ASSUME CallInv, NEW c \in Calls, NEW s \in {"cancelled", "settled"},
           edge[c] = "open", edge'[c] = "closed",
           s = "settled" => \E e \in Epochs : box.writes[c][e] > 0,
           \A e \in Epochs :
              /\ box'.row[c][e] = IF box.row[c][e] \in Active THEN s ELSE box.row[c][e]
              /\ box'.writes[c][e] = box.writes[c][e]
    PROVE  Advances(c) /\ OpenRow(c)'
<1> DEFINE S == {d \in Epochs : box.writes[c][d] > 0}
<1>1. PICK d \in Epochs : box.row[c][d] \in Active
  BY DEF CallInv, OpenInv, OpenRow
<1>2. Status(c) \in {"open", "parked"}
  BY DEF Status
<1>3. \A e \in Epochs : box.row[c][e] # "settled"
  BY DEF CallInv, OpenInv, OpenRow
<1>4. Status(c)' = (IF s = "settled" THEN "answered" ELSE "withdrawn")
  BY <1>1, <1>3 DEF Status, RowIn
<1>5. ActiveEpochs(c)' = {}
  BY DEF ActiveEpochs, Active, Sent
<1>6. {e \in Epochs : box'.writes[c][e] > 0} = S
  OBVIOUS
<1>7. s = "settled" => S # {}
  OBVIOUS
<1> HIDE DEF S
<1>8. /\ Seen[c].status \in {"open", "parked"} /\ Seen[c].shown = S
      /\ Seen'[c] = [status |-> IF s = "settled" THEN "answered" ELSE "withdrawn",
                     holds |-> {}, shown |-> S]
  BY <1>2, <1>4, <1>5, <1>6, SeenIs DEF S
<1>9. Promise!Answered(Seen[c], Seen'[c]) \/ Promise!Withdrawn(Seen[c], Seen'[c])
  BY <1>7, <1>8 DEF Promise!Answered, Promise!Withdrawn
<1>10. OpenRow(c)'
  BY DEF OpenRow
<1> QED BY <1>9, <1>10 DEF Advances, Promise!Step
-----------------------------------------------------------------------------
(* Every step.                                                             *)

\* What a step with the serializer leaves of the rows it began with.
LEMMA KeptFrom ==
    ASSUME NEW b, Kept(b, box'), NEW c \in Calls, NEW e \in Epochs
    PROVE  /\ \/ box'.row[c][e] = b.row[c][e] /\ box'.writes[c][e] = b.writes[c][e]
              \/ /\ b.row[c][e] = "queued" /\ box'.row[c][e] = "dispatched"
                 /\ box'.writes[c][e] = 1
           /\ b.row[c][e] # "queued" =>
                 box'.row[c][e] = b.row[c][e] /\ box'.writes[c][e] = b.writes[c][e]
<1>1. \/ box'.row[c][e] = b.row[c][e] /\ box'.writes[c][e] = b.writes[c][e]
      \/ b.row[c][e] = "queued" /\ box'.row[c][e] = "dispatched" /\ box'.writes[c][e] = 1
  BY DEF Kept
<1> QED BY <1>1

LEMMA KeptAdvances ==
    ASSUME CallInv, NEW b, NEW c \in Calls, Kept(b, box'), edge'[c] = edge[c],
           \A e \in Epochs : b.row[c][e] = box.row[c][e] /\ b.writes[c][e] = box.writes[c][e]
    PROVE  Advances(c) /\ OpenRow(c)'
<1>1. Served(c)
  BY KeptFrom DEF Served
<1> QED BY <1>1, ServedAdvances

LEMMA CallToolAdvances ==
    ASSUME CallInv, NEW c \in Calls, NEW e \in Epochs, CallTool(c, e), NEW x \in Calls
    PROVE  Advances(x) /\ OpenRow(x)'
<1> DEFINE b == [box EXCEPT !.row[c][e] = "queued", !.order = Append(@, c)]
<1>1. RowInv /\ edge \in [Calls -> {"none", "open", "closed"}]
  BY DEF CallInv, RowInv, CallsInv
<1>2. edge[c] = "none" /\ edge' = [edge EXCEPT ![c] = "open"] /\ box' = Schedule(b, c, e)
  BY DEF CallTool
<1>3. \A y \in Calls, d \in Epochs :
         /\ b.row[y][d] = IF y = c /\ d = e THEN "queued" ELSE box.row[y][d]
         /\ b.writes[y][d] = box.writes[y][d]
  BY <1>1 DEF RowInv, BoxInv, Shape
<1>4. BoxInv(b)
  BY <1>1, <1>2, CallToolRows
<1> HIDE DEF b
<1>5. Kept(b, box')
  BY <1>2, <1>4, SerializerKeeps
<1>6. CASE x = c
  <2>1. \A d \in Epochs : box.row[c][d] = "none" /\ box.writes[c][d] = 0
    BY <1>1, <1>2 DEF RowInv, CallsInv, BoxInv, Unwritten
  <2>2. \A d \in Epochs \ {e} : box'.row[c][d] = "none" /\ box'.writes[c][d] = 0
    BY <1>3, <1>5, <2>1, KeptFrom
  <2>3. \/ box'.row[c][e] = "queued" /\ box'.writes[c][e] = 0
        \/ box'.row[c][e] = "dispatched" /\ box'.writes[c][e] = 1
    BY <1>3, <1>5, <2>1, KeptFrom
  <2>4. edge'[c] = "open"
    BY <1>1, <1>2
  <2> QED BY <1>2, <1>6, <2>2, <2>3, <2>4, MadeAdvances
<1>7. CASE x # c
  <2>1. edge'[x] = edge[x]
    BY <1>1, <1>2, <1>7
  <2> QED BY <1>3, <1>5, <1>7, <2>1, KeptAdvances
<1> QED BY <1>6, <1>7

\* The active rows of c take the state s.
Ended(b, c, s) ==
    \A y \in Calls, d \in Epochs :
        /\ b.row[y][d] = IF y = c /\ box.row[y][d] \in Active THEN s ELSE box.row[y][d]
        /\ b.writes[y][d] = box.writes[y][d]

\* The three ways a call ends share this.
LEMMA EndAdvances ==
    ASSUME CallInv, NEW b, NEW c \in Calls, NEW s \in {"cancelled", "settled"},
           Kept(b, box'), edge[c] = "open", edge' = [edge EXCEPT ![c] = "closed"],
           s = "settled" => \E e \in Epochs : box.writes[c][e] > 0,
           Ended(b, c, s), NEW x \in Calls
    PROVE  Advances(x) /\ OpenRow(x)'
<1>0. \A y \in Calls, d \in Epochs :
         /\ b.row[y][d] = IF y = c /\ box.row[y][d] \in Active THEN s ELSE box.row[y][d]
         /\ b.writes[y][d] = box.writes[y][d]
  BY DEF Ended
<1>1. edge \in [Calls -> {"none", "open", "closed"}]
  BY DEF CallInv, RowInv, CallsInv
<1>2. CASE x = c
  <2>1. \A d \in Epochs : b.row[c][d] # "queued"
    BY <1>0 DEF Active
  <2>2. \A d \in Epochs :
           /\ box'.row[c][d] = IF box.row[c][d] \in Active THEN s ELSE box.row[c][d]
           /\ box'.writes[c][d] = box.writes[c][d]
    BY <1>0, <2>1, KeptFrom
  <2>3. edge'[c] = "closed"
    BY <1>1
  <2> QED BY <1>2, <2>2, <2>3, ClosedAdvances
<1>3. CASE x # c
  <2>1. edge'[x] = edge[x]
    BY <1>1, <1>3
  <2> QED BY <1>0, <1>3, <2>1, KeptAdvances
<1> QED BY <1>2, <1>3

LEMMA ResultAdvances ==
    ASSUME CallInv, NEW c \in Calls, NEW e \in Epochs, Result(c, e), NEW x \in Calls
    PROVE  Advances(x) /\ OpenRow(x)'
<1> DEFINE b == [box EXCEPT !.row[c][e] = "settled"]
<1>1. RowInv
  BY DEF CallInv
<1>2. /\ box.row[c][e] \in Sent /\ box.writes[c][e] > 0
      /\ edge' = [edge EXCEPT ![c] = "closed"] /\ box' = Release(b, c, e)
  BY DEF Result
<1>3. box.row[c][e] \in Active
  BY <1>2 DEF Active
<1>4. edge[c] = "open" /\ \A d \in Epochs : box.row[c][d] \in Active => d = e
  BY <1>1, <1>3 DEF RowInv, CallsInv
<1>5. \A y \in Calls, d \in Epochs :
         /\ b.row[y][d] = IF y = c /\ d = e THEN "settled" ELSE box.row[y][d]
         /\ b.writes[y][d] = box.writes[y][d]
  BY <1>1 DEF RowInv, BoxInv, Shape
<1>6. BoxInv(b)
  BY <1>1, <1>2, ResultRows
<1> HIDE DEF b
<1>7. Kept(b, box')
  BY <1>2, <1>6, SerializerKeeps
<1>8. Ended(b, c, "settled")
  BY <1>3, <1>4, <1>5 DEF Ended
<1> QED BY <1>2, <1>4, <1>7, <1>8, EndAdvances

LEMMA MoveActiveEnds ==
    ASSUME RowInv, NEW c \in Calls, NEW s PROVE Ended(MoveActive(c, s), c, s)
BY DEF RowInv, BoxInv, Shape, MoveActive, Ended

LEMMA AbortAdvances ==
    ASSUME CallInv, NEW c \in Calls, Abort(c), NEW x \in Calls
    PROVE  Advances(x) /\ OpenRow(x)'
<1> DEFINE b == MoveActive(c, "cancelled")
<1>1. RowInv /\ edge[c] = "open" /\ edge' = [edge EXCEPT ![c] = "closed"]
  BY DEF CallInv, Abort
<1>2. PICK e \in ActiveEpochs(c) : box' = Unschedule(b, c, e)
  <2>1. ActiveEpochs(c) # {}
    BY <1>1, OpenCall
  <2> QED BY <2>1 DEF Abort
<1>3. BoxInv(b)
  BY <1>1, MoveActiveRows
<1>4. Ended(b, c, "cancelled")
  BY <1>1, MoveActiveEnds
<1> HIDE DEF b
<1>5. Kept(b, box')
  BY <1>2, <1>3, SerializerKeeps DEF ActiveEpochs
<1> QED BY <1>1, <1>4, <1>5, EndAdvances

LEMMA VerdictAdvances ==
    ASSUME CallInv, NEW c \in Calls, Verdict(c), NEW x \in Calls
    PROVE  Advances(x) /\ OpenRow(x)'
<1> DEFINE b == MoveActive(c, "settled")
<1>1. /\ RowInv /\ edge[c] = "open" /\ edge' = [edge EXCEPT ![c] = "closed"]
      /\ \E e \in Epochs : box.writes[c][e] > 0
  BY DEF CallInv, Verdict
<1>2. PICK e \in ActiveEpochs(c) : box' = Release(b, c, e)
  BY DEF Verdict
<1>3. BoxInv(b)
  BY <1>1, MoveActiveRows
<1>4. Ended(b, c, "settled")
  BY <1>1, MoveActiveEnds
<1> HIDE DEF b
<1>5. Kept(b, box')
  BY <1>2, <1>3, SerializerKeeps DEF ActiveEpochs
<1> QED BY <1>1, <1>4, <1>5, EndAdvances

LEMMA ResumeAdvances ==
    ASSUME CallInv, NEW e \in Epochs, Resume(e), NEW x \in Calls
    PROVE  Advances(x) /\ OpenRow(x)'
<1> DEFINE b == Reattach(e)
           Left == {"queued", "dispatching", "dispatched"}
<1>1. RowInv /\ CanReattach(e) /\ box' = Replay(b, e) /\ edge' = edge
  BY DEF CallInv, Resume
<1>2. BoxInv(b)
  BY <1>1, ReattachRows
<1>3. \A d \in Epochs :
         /\ b.row[x][d] = IF Replayable(x, e) /\ d = e THEN "queued"
                          ELSE IF d # e /\ box.row[x][d] \in Left THEN "reattached"
                          ELSE box.row[x][d]
         /\ b.writes[x][d] = box.writes[x][d]
  BY <1>1 DEF RowInv, BoxInv, Shape, Reattach
<1> HIDE DEF b
<1>4. Kept(b, box')
  BY <1>1, <1>2, SerializerKeeps
<1>5. CASE Replayable(x, e)
  <2>1. box.row[x][e] = "none" /\ box.writes[x][e] = 0
    BY <1>1, <1>5 DEF CanReattach, RowInv, BoxInv, Unwritten
  <2>2. \A d \in Epochs \ {e} :
           /\ box'.row[x][d] = IF box.row[x][d] \in Left THEN "reattached" ELSE box.row[x][d]
           /\ box'.writes[x][d] = box.writes[x][d]
    BY <1>3, <1>4, KeptFrom
  <2>3. \/ box'.row[x][e] = "queued" /\ box'.writes[x][e] = 0
        \/ box'.row[x][e] = "dispatched" /\ box'.writes[x][e] = 1
    BY <1>3, <1>4, <1>5, <2>1, KeptFrom
  <2> QED BY <1>1, <1>5, <2>1, <2>2, <2>3, MovedAdvances
<1>6. CASE ~ Replayable(x, e)
  <2>1. \A d \in Epochs : b.row[x][d] = box.row[x][d]
    BY <1>3, <1>6 DEF Replayable
  <2> QED BY <1>1, <1>3, <1>4, <2>1, KeptAdvances
<1> QED BY <1>5, <1>6

\* A restart that finds the rows b of the box.
LEMMA RestartedRows ==
    ASSUME NEW b, BoxInv(b), RestartWith(b), NEW x \in Calls, NEW d \in Epochs
    PROVE  /\ box'.row[x][d] = IF edge[x] = "open" /\ b.row[x][d] \in {"dispatching", "dispatched"}
                                 THEN "awaiting" ELSE b.row[x][d]
           /\ box'.writes[x][d] = b.writes[x][d]
BY DEF RestartWith, Park, BoxInv, Shape

LEMMA RestartAdvances ==
    ASSUME CallInv, Restart, NEW x \in Calls
    PROVE  Advances(x) /\ OpenRow(x)'
<1>1. /\ RowInv /\ BoxInv(box) /\ RestartWith(box) /\ edge' = edge
  BY DEF CallInv, RowInv, Restart, RestartWith
<1>2. \A d \in Epochs :
         /\ box'.row[x][d] = IF edge[x] = "open" /\ box.row[x][d] \in {"dispatching", "dispatched"}
                               THEN "awaiting" ELSE box.row[x][d]
         /\ box'.writes[x][d] = box.writes[x][d]
  BY <1>1, RestartedRows
<1>3. CASE \E d \in Epochs : edge[x] = "open" /\ box.row[x][d] \in {"dispatching", "dispatched"}
  <2>1. PICK e \in Epochs : edge[x] = "open" /\ box.row[x][e] \in {"dispatching", "dispatched"}
    BY <1>3
  <2>2. box'.row[x][e] = "awaiting" /\ box'.writes[x][e] = box.writes[x][e]
    BY <1>2, <2>1
  <2>3. \A d \in Epochs \ {e} : box.row[x][d] \notin Active =>
           box'.row[x][d] = box.row[x][d] /\ box'.writes[x][d] = box.writes[x][d]
    BY <1>2 DEF Active, Sent
  <2> QED BY <1>1, <2>1, <2>2, <2>3, ParkedAdvances
<1>4. CASE ~ \E d \in Epochs : edge[x] = "open" /\ box.row[x][d] \in {"dispatching", "dispatched"}
  <2>1. Served(x)
    BY <1>1, <1>2, <1>4 DEF Served
  <2> QED BY <2>1, ServedAdvances
<1> QED BY <1>3, <1>4

LEMMA CrashAdvances ==
    ASSUME CallInv, NEW e \in Epochs, NEW wrote \in BOOLEAN, CrashInDelivery(e, wrote),
           NEW x \in Calls
    PROVE  Advances(x) /\ OpenRow(x)'
<1> DEFINE c == Head(box.slot[e].queue)
           k == IF wrote THEN 1 ELSE 0
           b == [box EXCEPT !.row[c][e] = "dispatching", !.writes[c][e] = @ + k]
           Going == {"dispatching", "dispatched"}
<1>1. box.row[c][e] = "queued" /\ RestartWith(b)
  BY DEF CrashInDelivery
<1>2. k \in {0, 1}
  OBVIOUS
<1> HIDE DEF c, k
<1>3. RowInv /\ edge' = edge
  BY <1>1 DEF CallInv, RestartWith
<1>4. BoxInv(b)
  BY <1>1, <1>2, <1>3, CrashRows
<1>5. \A d \in Epochs :
         /\ b.row[x][d] = IF x = c /\ d = e THEN "dispatching" ELSE box.row[x][d]
         /\ b.writes[x][d] = IF x = c /\ d = e THEN box.writes[x][d] + k ELSE box.writes[x][d]
  BY <1>3 DEF RowInv, BoxInv, Shape
<1> HIDE DEF b
<1>6. \A d \in Epochs :
         /\ box'.row[x][d] = IF edge[x] = "open" /\ b.row[x][d] \in Going
                               THEN "awaiting" ELSE b.row[x][d]
         /\ box'.writes[x][d] = b.writes[x][d]
  BY <1>1, <1>4, RestartedRows
<1>7. CASE x = c
  <2>1. edge[x] = "open" /\ box.writes[x][e] = 0
    BY <1>1, <1>3, <1>7 DEF RowInv, CallsInv, BoxInv, Unwritten, Active
  <2>2. box'.row[x][e] = "awaiting" /\ box'.writes[x][e] \in {box.writes[x][e], 1}
    BY <1>2, <1>5, <1>6, <1>7, <2>1
  <2>3. \A d \in Epochs \ {e} : box.row[x][d] \notin Active =>
           box'.row[x][d] = box.row[x][d] /\ box'.writes[x][d] = box.writes[x][d]
    BY <1>5, <1>6 DEF Active, Sent
  <2> QED BY <1>1, <1>3, <1>7, <2>2, <2>3, ParkedAdvances
<1>8. CASE x # c /\ \E d \in Epochs : edge[x] = "open" /\ box.row[x][d] \in Going
  <2>1. PICK d \in Epochs : edge[x] = "open" /\ box.row[x][d] \in Going
    BY <1>8
  <2>2. box'.row[x][d] = "awaiting" /\ box'.writes[x][d] = box.writes[x][d]
    BY <1>5, <1>6, <1>8, <2>1
  <2>3. \A y \in Epochs \ {d} : box.row[x][y] \notin Active =>
           box'.row[x][y] = box.row[x][y] /\ box'.writes[x][y] = box.writes[x][y]
    BY <1>5, <1>6, <1>8 DEF Active, Sent
  <2> QED BY <1>3, <2>1, <2>2, <2>3, ParkedAdvances
<1>9. CASE x # c /\ ~ \E d \in Epochs : edge[x] = "open" /\ box.row[x][d] \in Going
  <2>1. Served(x)
    BY <1>3, <1>5, <1>6, <1>9 DEF Served
  <2> QED BY <2>1, ServedAdvances
<1> QED BY <1>7, <1>8, <1>9

LEMMA StepAdvances ==
    ASSUME CallInv, [Next]_vars, NEW x \in Calls
    PROVE  Advances(x) /\ OpenRow(x)'
<1> DEFINE Goal == Advances(x) /\ OpenRow(x)'
<1> SUFFICES Goal
  OBVIOUS
<1> HIDE DEF Goal
<1>1. ASSUME \A d \in Epochs : /\ box'.row[x][d] = box.row[x][d]
                                /\ box'.writes[x][d] = box.writes[x][d],
             edge' = edge
      PROVE  Goal
  BY <1>1, ServedAdvances DEF Served, Goal
<1>2. CASE \E c \in Calls, e \in Epochs : CallTool(c, e)
  BY <1>2, CallToolAdvances DEF Goal
<1>3. CASE \E c \in Calls, e \in Epochs : Result(c, e)
  BY <1>3, ResultAdvances DEF Goal
<1>4. ASSUME NEW c \in Calls, NEW e \in Epochs, StreamClose(c, e) PROVE Goal
  <2>1. Kept(box, box') /\ edge' = edge
    BY <1>4, SerializerKeeps DEF StreamClose, CallInv, RowInv
  <2> QED BY <2>1, KeptAdvances DEF Goal
<1>5. CASE \E c \in Calls : Abort(c) \/ Verdict(c)
  BY <1>5, AbortAdvances, VerdictAdvances DEF Goal
<1>6. CASE \E e \in Epochs : Attach(e) \/ Refuse(e) \/ Recover(e) \/ Seal(e)
  BY <1>1, <1>6 DEF Attach, Refuse, Recover, Seal, Becomes
<1>7. ASSUME NEW e \in Epochs, Detach(e) PROVE Goal
  <2>1. box' = [box EXCEPT !.slot[e] = EmptySlot] /\ edge' = edge
    BY <1>7 DEF Detach, Becomes
  <2>2. box'.row = box.row /\ box'.writes = box.writes
    BY <2>1 DEF CallInv, RowInv, BoxInv, Shape
  <2> QED BY <1>1, <2>1, <2>2
<1>8. CASE \E e \in Epochs : Resume(e)
  BY <1>8, ResumeAdvances DEF Goal
<1>9. CASE Restart
  BY <1>9, RestartAdvances DEF Goal
<1>10. CASE \E e \in Epochs, wrote \in BOOLEAN : CrashInDelivery(e, wrote)
  BY <1>10, CrashAdvances DEF Goal
<1>11. CASE UNCHANGED vars
  BY <1>1, <1>11 DEF vars
<1> QED BY <1>2, <1>3, <1>4, <1>5, <1>6, <1>7, <1>8, <1>9, <1>10, <1>11 DEF Next

\* The outbox and its serializer keep the promise for any calls, attachments
\* and restarts: an open call has one responsible attachment, what was parked
\* is not sent again, and a call ends once.
THEOREM CallsArePromised == Spec => CallsKeepPromise
<1>1. Init => CallInv
  BY InitRows DEF Init, CallInv, OpenInv, OpenRow
<1>2. CallInv /\ [Next]_vars => CallInv'
  BY StepKeepsRows, StepAdvances DEF CallInv, OpenInv
<1>3. Init => Promise!Init
  <2> SUFFICES ASSUME Init, NEW c \in Calls
               PROVE  Seen[c] = [status |-> "unmade", holds |-> {}, shown |-> {}]
    BY DEF Promise!Init, Seen
  <2>1. /\ \A e \in Epochs : box.row[c][e] = "none" /\ box.writes[c][e] = 0
        /\ edge[c] = "none"
    BY DEF Init
  <2>2. Status(c) = "unmade" /\ ActiveEpochs(c) = {}
    BY <2>1 DEF Status, ActiveEpochs, Active, Sent
  <2>3. {e \in Epochs : box.writes[c][e] > 0} = {}
    BY <2>1
  <2> QED BY <2>2, <2>3 DEF Seen
<1>4. CallInv /\ [Next]_vars => [Promise!Next]_Seen
  <2> SUFFICES ASSUME CallInv, [Next]_vars PROVE Promise!Next
    OBVIOUS
  <2>1. \A c \in Calls : Advances(c)
    BY StepAdvances
  <2>2. DOMAIN Seen' = Calls
    BY DEF Seen
  <2> QED BY <2>1, <2>2 DEF Advances, Promise!Next
<1> QED BY <1>1, <1>2, <1>3, <1>4, PTL DEF Spec, CallsKeepPromise, Promise!Spec
=============================================================================
