--------------------------- MODULE SubagentPromise ---------------------------
(***************************************************************************)
(* What the bridge promises about the sub-agent of a `task` tool call,     *)
(* whatever executes it, whoever asks for it and however often the bridge  *)
(* restarts:                                                               *)
(*   - the parent's call is answered or aborted at most once;              *)
(*   - the run gets at most one outcome, which never changes;              *)
(*   - the parent is told of it by one route only: by the answer of its    *)
(*     call or, if that call was answered before the end, by a later tool  *)
(*     result or notification.  An outcome always has a route left.        *)
(* The state is what the database shows of a run to its parent.            *)
(***************************************************************************)
CONSTANTS
    Runs,       \* `task` calls
    LateRoutes  \* the routes other than the answer of the call

VARIABLE promise

Outcomes == {"completed", "failed", "interrupted"}

\* call: the parent's call; fate: of its run; told: by which route.
Promises == [call : {"none", "open", "closed", "aborted"},
             fate : {"none", "running"} \cup Outcomes,
             told : {"pending", "parent"} \cup LateRoutes]

Init == promise = [r \in Runs |-> [call |-> "none", fate |-> "none", told |-> "pending"]]

\* The model calls the task tool.
Called(p, q) == p.call = "none" /\ q = [p EXCEPT !.call = "open"]

\* A run starts, and may at once go to the background.
Started(p, q) == p.call = "open" /\ p.fate = "none" /\ q = [p EXCEPT !.fate = "running"]

\* The call is over without an outcome: there is no run, or it goes on in the
\* background.
Answered(p, q) ==
    /\ p.call = "open"
    /\ \/ p.fate = "none" /\ q \in {[p EXCEPT !.call = "closed"], [p EXCEPT !.call = "aborted"]}
       \/ p.fate = "running" /\ q = [p EXCEPT !.call = "closed"]

\* The run ends while its call is open: the outcome ends the call.
Reported(p, q) ==
    /\ p.call = "open" /\ p.fate = "running"
    /\ \E o \in Outcomes, c \in {"closed", "aborted"} :
          q = [call |-> c, fate |-> o, told |-> "parent"]

\* The run ends after its call was answered: the outcome waits,
Ended(p, q) ==
    /\ p.call = "closed" /\ p.fate = "running"
    /\ \E o \in Outcomes : q = [p EXCEPT !.fate = o]

\* ... and is told later.
Told(p, q) ==
    /\ p.call = "closed" /\ p.fate \in Outcomes /\ p.told = "pending"
    /\ \E l \in LateRoutes : q = [p EXCEPT !.told = l]

Step(p, q) ==
    \/ Called(p, q) \/ Started(p, q) \/ Answered(p, q)
    \/ Reported(p, q) \/ Ended(p, q) \/ Told(p, q)

\* A cancel, a restart or a notification concerns several runs at once.
Next ==
    /\ DOMAIN promise' = Runs
    /\ \A r \in Runs : promise'[r] = promise[r] \/ Step(promise[r], promise'[r])

Spec == Init /\ [][Next]_promise
=============================================================================
