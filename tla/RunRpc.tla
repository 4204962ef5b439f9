------------------------------- MODULE RunRpc -------------------------------
(***************************************************************************)
(* What the bridge promises about one Run RPC, however frames, deadlines   *)
(* and continuations interleave:                                           *)
(*   - what the client sends is taken once; what needs the model is served *)
(*     one at a time and in the order it came;                             *)
(*   - the run ends once: when it has nothing to do and owes no call, by   *)
(*     the failure of what runs, or because a side is gone.  It does not   *)
(*     stay open idle with nothing owed, and the end that is called        *)
(*     terminal leaves no call open, with two exceptions: what runs is     *)
(*     about a call that the client gave up with an error, or it is a      *)
(*     message that came while calls of before a restart were open;        *)
(*   - after the end nothing is taken, started or called any more, what    *)
(*     runs may finish, and only then does the RPC return.                 *)
(***************************************************************************)
EXTENDS Sequences

CONSTANTS Jobs, Calls, Nothing

VARIABLE run

Reasons == {"turn-terminal", "continuation-failed", "input-ended", "consumer-closed"}

\* taken: what was read; thrown: the calls given up by the client; over: the
\* jobs that ran; made, open: the calls; old: those of before a restart.
States == [runs : Jobs \cup {Nothing}, line : Seq(Jobs), taken : SUBSET (Jobs \cup Calls),
           thrown : SUBSET Calls, over : SUBSET Jobs,
           made : SUBSET Calls, open : SUBSET Calls, old : SUBSET Calls,
           end  : Reasons \cup {"none"}, back : BOOLEAN]

Init == \E O \in SUBSET Calls : \E R \in {{}, O} :
    run = [runs |-> Nothing, line |-> <<>>, taken |-> {}, thrown |-> {}, over |-> {},
           made |-> O, open |-> O, old |-> R, end |-> "none", back |-> FALSE]

\* A job, perhaps one about a call that was given up; it may bring the
\* outcome of others.
Taken(p, q) ==
    /\ p.end = "none"
    /\ \E j \in Jobs \ p.taken, S \in SUBSET p.open : \E G \in {{}, {j} \cap Calls} :
          q = [p EXCEPT !.runs = IF @ = Nothing THEN j ELSE @,
                        !.line = IF p.runs = Nothing THEN @ ELSE Append(@, j),
                        !.taken = @ \cup {j}, !.thrown = @ \cup G,
                        !.open = @ \ S, !.old = @ \ S]

\* A call is made by what runs, or in the background.
Called(p, q) ==
    /\ p.end = "none"
    /\ p.runs # Nothing \/ p.open # {}
    /\ \E c \in Calls \ p.made : q = [p EXCEPT !.made = @ \cup {c}, !.open = @ \cup {c}]

\* Calls are settled, perhaps by an answer that is taken at once.  If nothing
\* is left to do, this is the end.
Settled(p, q) ==
    \E S \in SUBSET p.open, T \in {{}} \cup {{c} : c \in p.made \ p.taken} :
        /\ T # {} => p.end = "none"
        /\ q = [p EXCEPT !.taken = @ \cup T, !.open = @ \ S, !.old = @ \ S,
                         !.end = IF @ = "none" /\ p.runs = Nothing /\ p.open \ S = {}
                                   THEN "turn-terminal" ELSE @]

\* What ran is over; j and l are what runs and waits now.
Over(p, q, j, l, e) ==
    /\ p.runs # Nothing
    /\ \E b \in {p.back, e # "none" /\ j = Nothing} :
          q = [p EXCEPT !.runs = j, !.line = l, !.over = @ \cup {p.runs}, !.end = e, !.back = b]

NextServed(p, q) ==
    /\ p.end = "none" /\ p.line # <<>>
    /\ Over(p, q, Head(p.line), Tail(p.line), "none")

LastServed(p, q) ==
    /\ p.line = <<>>
    /\ p.end # "none" \/ p.open # {}
    /\ Over(p, q, Nothing, <<>>, p.end)

EndedBy(p, q) ==
    /\ p.end = "none"
    /\ \/ p.open = {} /\ Over(p, q, Nothing, <<>>, "turn-terminal")
       \/ Over(p, q, Nothing, <<>>, "continuation-failed")

\* What runs declares the end before it is over.
Declared(p, q) ==
    /\ p.end = "none" /\ p.runs # Nothing
    /\ \E S \in SUBSET p.open :
          /\ \/ p.open \ S = {}
             \/ p.runs \in p.thrown
             \/ p.runs \notin Calls /\ p.old \ S # {}
          /\ q = [p EXCEPT !.line = <<>>, !.open = @ \ S, !.old = @ \ S,
                           !.end = "turn-terminal"]

\* The input is over, which may settle calls, or the consumer is gone.
SideGone(p, q) ==
    /\ p.end = "none"
    /\ \E e \in {"input-ended", "consumer-closed"}, S \in SUBSET p.open :
          q = [p EXCEPT !.line = <<>>, !.open = @ \ S, !.old = @ \ S, !.end = e]

Returned(p, q) ==
    /\ p.end # "none" /\ p.runs = Nothing
    /\ q = [p EXCEPT !.back = TRUE]

Step(p, q) ==
    \/ Taken(p, q) \/ Called(p, q) \/ Settled(p, q)
    \/ NextServed(p, q) \/ LastServed(p, q) \/ EndedBy(p, q) \/ Declared(p, q)
    \/ SideGone(p, q) \/ Returned(p, q)

Next == Step(run, run')

Spec == Init /\ [][Next]_run
=============================================================================
