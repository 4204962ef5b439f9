----------------------------- MODULE AgentLoop -----------------------------
(***************************************************************************)
(* What the handlers of one conversation promise together, whatever the    *)
(* attachments do: the model speaks in one turn at a time, it speaks only  *)
(* when every call it made before is closed, only the turn that speaks     *)
(* makes calls, and a closed call is never opened again.                   *)
(***************************************************************************)
CONSTANTS Users, Turns, Calls

VARIABLES speaking,   \* the live turns that are reading a model response
          open,       \* the calls made and not yet closed
          closed      \* the calls answered or aborted

vars == <<speaking, open, closed>>

Init == speaking = {} /\ open = {} /\ closed = {}

Speak(t) ==
    /\ speaking = {} /\ open = {}
    /\ speaking' = {t}
    /\ UNCHANGED <<open, closed>>

(* A user message may abort the calls that are still open as it begins. *)
Interject(u) ==
    /\ speaking = {}
    /\ speaking' = {u}
    /\ open' = {}
    /\ closed' = closed \cup open

Ask(C) ==
    /\ speaking # {} /\ C \cap (open \cup closed) = {}
    /\ speaking' = {}
    /\ open' = open \cup C
    /\ UNCHANGED closed

(* Calls are closed by a result, by a sweep or by a stop, which may silence *)
(* the speaker in the same step.                                            *)
Close(C, S) ==
    /\ C \subseteq open /\ S \subseteq speaking
    /\ speaking' = speaking \ S
    /\ open' = open \ C
    /\ closed' = closed \cup C

Next ==
    \/ \E t \in Turns : Speak(t)
    \/ \E u \in Users : Interject(u)
    \/ \E C \in SUBSET Calls : Ask(C)
    \/ \E C \in SUBSET Calls, S \in SUBSET Turns : Close(C, S)

Spec == Init /\ [][Next]_vars
=============================================================================
