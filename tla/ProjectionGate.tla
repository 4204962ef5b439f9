---------------------------- MODULE ProjectionGate ----------------------------
(***************************************************************************)
(* The gate of one projection owner (projection-attempt-gate.service.ts):  *)
(* attempts of the owner's model loop hold a lease, one at a time; a       *)
(* handoff waits for the lease and then keeps attempts out.                *)
(*                                                                         *)
(* A gate is a value here.  The queue of waiting attempts is left out:     *)
(* a sub-agent's loop asks for one lease at a time, so nothing ever waits  *)
(* behind its own lease, and an attempt that meets a handoff is refused.   *)
(***************************************************************************)
\* OwnerGateState: the active lease, and the handoff before (waiting) and
\* after (held) its token is issued.
GateOf == [active : BOOLEAN, handoff : {"none", "waiting", "held"}]

FreeGate == [active |-> FALSE, handoff |-> "none"]

\* acquire() refuses while a handoff drains or is held.
CanAcquire(g) == g.handoff = "none" /\ ~g.active
Acquired(g)   == [g EXCEPT !.active = TRUE]

\* Mutant: the token does not wait for the lease.
HandoffAtOnce(g) == [g EXCEPT !.handoff = "held"]

\* beginHandoff(): one at a time; its token is issued at once only if no
\* attempt is active.
CanBeginHandoff(g) == g.handoff = "none"
HandoffBegun(g)    == [g EXCEPT !.handoff = IF g.active THEN "waiting" ELSE "held"]

\* settleLease(): released or aborted; a waiting handoff gets its token.
LeaseSettled(g) ==
    [active  |-> FALSE,
     handoff |-> IF g.handoff = "waiting" THEN "held" ELSE g.handoff]

\* Mutant: a token that was given back leaves a state of its own.
HandoffLeftReleased(g) == [g EXCEPT !.handoff = "released"]

\* complete(), abort() and the abort of a waiting handoff.
HandoffClosed(g) == [g EXCEPT !.handoff = "none"]
=============================================================================
