---------------------------- MODULE TurnOutbound ----------------------------
(***************************************************************************)
(* The single write path of one BiDi attachment (bidi/bidi-outbound.ts).   *)
(*                                                                         *)
(* An outbound is a value here, not a variable: the supervisor keeps one   *)
(* per attachment.  activeWriters is an array in the code, but only its    *)
(* membership is ever enforced (its order feeds diagnostics), so it is a   *)
(* set.  The bytes of a frame are left out.                                *)
(***************************************************************************)
EXTENDS FiniteSets

OutboundStates == {"open", "sealing", "sealed"}

\* The fields of class TurnOutbound that the protocol depends on.
OutboundOf(T) == [state : OutboundStates, writers : SUBSET T]

\* The constructor: open, nobody writing.
FreshOutbound == [state |-> "open", writers |-> {}]

IsOpen(o) == o.state = "open"

\* write(): the state is checked first, membership second.
MayWrite(o, t) == IsOpen(o) /\ t \in o.writers

\* pushWriter() rejects a turn that is already a writer.  It does not look
\* at the state: a writer can still join an outbound that is being sealed.
CanPush(o, t)    == t \notin o.writers
PushWriter(o, t) == [o EXCEPT !.writers = @ \cup {t}]

\* Mutant: popping one writer pops all of them.
PopEveryWriter(o, t) == [o EXCEPT !.writers = {}]

\* popWriter() rejects a turn that is not a writer.
CanPop(o, t)    == t \in o.writers
PopWriter(o, t) == [o EXCEPT !.writers = @ \ {t}]

\* beginSeal() acts once; the first reason wins.
BeginSeal(o) == IF IsOpen(o) THEN [o EXCEPT !.state = "sealing"] ELSE o

Drained(o) == o.writers = {}

\* Mutant: a state the rest of the code does not know.
FinishSealMisnamed(o) == [o EXCEPT !.state = "closed"]

\* finishSeal() refuses while a writer remains (OutboundSealViolationError);
\* forceFinishSeal() throws the remaining writers out.
CanFinishSeal(o)   == Drained(o)
FinishSeal(o)      == [o EXCEPT !.state = "sealed"]
ForceFinishSeal(o) == [state |-> "sealed", writers |-> {}]
=============================================================================
