----------------------------- MODULE ClientCall -----------------------------
(***************************************************************************)
(* What the bridge promises about a tool call that the client executes,    *)
(* however its envelope is scheduled, moved between attachments or found   *)
(* again after a restart:                                                  *)
(*   - as long as the call is open one attachment, and no other, holds its *)
(*     envelope; the frame is shown there, and where it was shown before   *)
(*     the call is not moved back;                                         *)
(*   - a call whose frame may have been lost with the bridge is parked:    *)
(*     it is neither shown nor moved any more;                             *)
(*   - it ends once, with an answer only if its frame was shown, and       *)
(*     nothing is shown of it afterwards.                                  *)
(***************************************************************************)
CONSTANTS Calls, Attachments

VARIABLE call

\* holds: the attachments that hold the envelope; shown: those that got it.
States == [status : {"unmade", "open", "parked", "answered", "withdrawn"},
           holds  : SUBSET Attachments,
           shown  : SUBSET Attachments]

Init == call = [c \in Calls |-> [status |-> "unmade", holds |-> {}, shown |-> {}]]

\* The call comes to an attachment, which may get its frame at once.
ComesTo(e, p, q) ==
    /\ e \notin p.shown
    /\ \E S \in {p.shown, p.shown \cup {e}} :
          q = [status |-> "open", holds |-> {e}, shown |-> S]

Made(p, q)  == p.status = "unmade" /\ \E e \in Attachments : ComesTo(e, p, q)

\* A resume takes it over.
Moved(p, q) == p.status = "open" /\ \E e \in Attachments \ p.holds : ComesTo(e, p, q)

Shown(p, q) ==
    /\ p.status = "open" /\ p.holds \cap p.shown = {}
    /\ q = [p EXCEPT !.shown = @ \cup p.holds]

\* The bridge died, perhaps after it wrote the frame.
Parked(p, q) ==
    /\ p.status = "open"
    /\ \E S \in {p.shown, p.shown \cup p.holds} :
          q = [status |-> "parked", holds |-> p.holds, shown |-> S]

Answered(p, q) ==
    /\ p.status \in {"open", "parked"} /\ p.shown # {}
    /\ q = [status |-> "answered", holds |-> {}, shown |-> p.shown]

Withdrawn(p, q) ==
    /\ p.status \in {"open", "parked"}
    /\ q = [status |-> "withdrawn", holds |-> {}, shown |-> p.shown]

Step(p, q) ==
    \/ Made(p, q) \/ Moved(p, q) \/ Shown(p, q)
    \/ Parked(p, q) \/ Answered(p, q) \/ Withdrawn(p, q)

\* The end of one call lets another be shown; a resume moves several.
Next ==
    /\ DOMAIN call' = Calls
    /\ \A c \in Calls : call'[c] = call[c] \/ Step(call[c], call'[c])

Spec == Init /\ [][Next]_call
=============================================================================
