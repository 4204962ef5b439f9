--------------------------- MODULE TurnSupervisor ---------------------------
(***************************************************************************)
(* The tree of agent turns of one conversation and the BiDi attachments    *)
(* it is shown on (turn/turn-lifecycle.service.ts, turn-handle-impl.ts,    *)
(* turn-cleanup-coordinator.service.ts).                                   *)
(*                                                                         *)
(* An attachment (b) has an umbrella turn; chat turns run under the        *)
(* umbrella, foreground sub-agents under the turn that dispatched them,    *)
(* compactions under any turn of the conversation, background sub-agents   *)
(* under nothing.  The bridge is single-threaded JavaScript: an action     *)
(* here is one run-to-completion section between two awaits.               *)
(*                                                                         *)
(* Abstracted: the audit log, phases and observers (they never decide      *)
(* anything), turn identity allocation (a turn is used once), the reason   *)
(* of a cancel and the value a turn settles with, except a failed          *)
(* finalization, and the conversation ids: every turn but an umbrella      *)
(* belongs to the one conversation.  A promise that resolves is a change   *)
(* of phase.                                                               *)
(***************************************************************************)
EXTENDS TurnOutbound

CONSTANTS
    Turns,      \* turn identities
    Bidis,      \* BiDi attachments
    SpawnKinds, \* the kinds of turn this instance spawns
    NoTurn,     \* the absent turn
    NoBidi      \* the absent attachment

VARIABLES
    info,       \* info[t]: what spawn recorded about t
    phase,      \* phase[t]: how far driveRunner has come
    aborted,    \* the turns whose AbortSignal has fired
    unfinal,    \* the terminal turns whose onFinalize threw
    umbrella,   \* umbrella[b]: umbrellaByBidi
    outbound,   \* outbound[b]: the attachment's write path
    seal,       \* seal[b]: the coordinator's unwindBidi of b
    unwind      \* unwind[t]: the coordinator's unwindTurn of t

vars == <<info, phase, aborted, unfinal, umbrella, outbound, seal, unwind>>

Kinds    == {"umbrella", "chat", "subagent", "compaction", "background"}
Detached == {"compaction", "background"}

ASSUME AbsentAssumption == NoTurn \notin Turns /\ NoBidi \notin Bidis
ASSUME KindsAssumption  == SpawnKinds \subseteq Kinds

Phases   == {"unspawned", "running", "settled", "finalizing", "done"}

NoInfo == [kind |-> "none", bidi |-> NoBidi, parent |-> NoTurn, chain |-> {}]

Init ==
    /\ info = [t \in Turns |-> NoInfo]
    /\ phase = [t \in Turns |-> "unspawned"]
    /\ aborted = {}
    /\ unfinal = {}
    /\ umbrella = [b \in Bidis |-> NoTurn]
    /\ outbound = [b \in Bidis |-> FreshOutbound]
    /\ seal = [b \in Bidis |-> [pc |-> "idle", waits |-> {}, drained |-> FALSE, errors |-> FALSE]]
    /\ unwind = [t \in Turns |-> "none"]

-----------------------------------------------------------------------------
(* Reading the registry. *)

\* The turns map: from spawn until driveRunner detaches the record.
HasTurn(t) == t \in Turns /\ phase[t] \in {"running", "settled", "finalizing"}

Aborted(t) == t \in aborted

\* turnsByBidi, and listTurnsForBidi.
TurnsOf(b) == {t \in Turns : HasTurn(t) /\ info[t].bidi = b}

\* isActiveTurnOwner: the handle may still act for the conversation.
IsActiveTurnOwner(t) ==
    /\ HasTurn(t)
    /\ info[t].bidi \in Bidis
    /\ IsOpen(outbound[info[t].bidi])
    /\ ~Aborted(t)
    /\ info[t].kind = "umbrella" => umbrella[info[t].bidi] = t

-----------------------------------------------------------------------------
(* Cancelling.                                                             *)

\* Mutant: an abort reaches the children only.
BelowOneLevel(T) == {t \in Turns : t \in T \/ info[t].parent \in T}

\* Each handle listens to its parent's AbortSignal for as long as it lives,
\* so an abort of a turn in T aborts every turn whose chain of parents meets
\* T, whether the turns in between are still registered or not.
Below(T) == {t \in Turns : t \in T \/ info[t].chain \cap T # {}}

\* cancelTurn of the registered turns of T.
CancelAll(T) == aborted' = aborted \cup Below({t \in T : HasTurn(t)})

\* Mutant: the umbrella is not among what is cancelled.
BidiRootsBelowUmbrella(b) == {t \in TurnsOf(b) : info[t].parent = umbrella[b]}

\* cancelBidi walks only the roots of the attachment; the cascade does the rest.
BidiRoots(b) == {t \in TurnsOf(b) : info[t].parent \notin TurnsOf(b)}

-----------------------------------------------------------------------------
(* Spawning.                                                               *)

\* spawn() with its guards, and the synchronous start of driveRunner, which
\* makes the turn a writer before anything else can run.
Spawn(t, kind, b, p) ==
    /\ phase[t] = "unspawned" /\ kind \in SpawnKinds
    /\ p # NoTurn => HasTurn(p)
    /\ (kind \notin Detached) <=> (b # NoBidi)
    /\ p # NoTurn /\ b # NoBidi => info[p].bidi = b
    /\ info' = [info EXCEPT ![t] =
                  [kind |-> kind, bidi |-> b, parent |-> p,
                   chain |-> IF p = NoTurn THEN {} ELSE {p} \cup info[p].chain]]
    /\ phase' = [phase EXCEPT ![t] = "running"]
    /\ aborted' = IF p \in aborted THEN aborted \cup {t} ELSE aborted
    /\ umbrella' = IF b # NoBidi /\ p = NoTurn /\ umbrella[b] = NoTurn
                     THEN [umbrella EXCEPT ![b] = t] ELSE umbrella
    /\ outbound' = IF b # NoBidi THEN [outbound EXCEPT ![b] = PushWriter(@, t)]
                                 ELSE outbound
    /\ UNCHANGED <<unfinal, seal, unwind>>

\* handleBidiStream attaches a new stream and spawns its umbrella.
AttachBidi(t, b) ==
    /\ \A u \in Turns : info[u].bidi # b
    /\ Spawn(t, "umbrella", b, NoTurn)

\* handleChatMessage and runToolContinuationParentTurn: the caller runs in
\* the context of a live turn of the attachment; the parent is the umbrella.
SpawnChat(t, caller) ==
    /\ IsActiveTurnOwner(caller)
    /\ Spawn(t, "chat", info[caller].bidi, umbrella[info[caller].bidi])

\* spawnSubAgentTurn: the parent is the live turn that runs the task tool.
SpawnSubagent(t, p) ==
    /\ IsActiveTurnOwner(p)
    /\ info[p].kind \in {"chat", "subagent"}
    /\ Spawn(t, "subagent", info[p].bidi, p)

\* runSyntheticCompactionTurn: under the context's turn while that one is
\* registered, aborted or not, and under nothing otherwise.
SpawnCompaction(t, p) ==
    /\ p # NoTurn => HasTurn(p) /\ info[p].kind # "umbrella"
    /\ Spawn(t, "compaction", NoBidi, p)

\* createDetachedBackgroundSubagentTurn names no parent.
SpawnBackground(t) == Spawn(t, "background", NoBidi, NoTurn)

-----------------------------------------------------------------------------
(* Running: driveRunner.                                                   *)

\* Mutant: an umbrella does not wait for its signal.
RunnerSettlesUnasked(t) ==
    /\ phase[t] = "running"
    /\ phase' = [phase EXCEPT ![t] = "settled"]
    /\ UNCHANGED <<info, aborted, unfinal, umbrella, outbound, seal, unwind>>

\* The runner's promise settles, with a result or by throwing.  An umbrella
\* waits for its signal; a chat turn races its body against the signal; the
\* other runners end with their body, which may or may not heed the signal.
RunnerSettles(t) ==
    /\ phase[t] = "running"
    /\ info[t].kind = "umbrella" => Aborted(t)
    /\ phase' = [phase EXCEPT ![t] = "settled"]
    /\ UNCHANGED <<info, aborted, unfinal, umbrella, outbound, seal, unwind>>

\* withWriter pops the writer; a pop that finds no writer only fails the turn.
LeaveOutbound(t) ==
    /\ phase[t] = "settled"
    /\ phase' = [phase EXCEPT ![t] = "finalizing"]
    /\ LET b == info[t].bidi
       IN  outbound' = IF b # NoBidi /\ CanPop(outbound[b], t)
                         THEN [outbound EXCEPT ![b] = PopWriter(@, t)] ELSE outbound
    /\ UNCHANGED <<info, aborted, unfinal, umbrella, seal, unwind>>

\* onFinalize has returned (ok) or thrown; commitTerminal, detach from the
\* maps, resolve the terminal promise.  Umbrellas and compactions have no
\* onFinalize.
CommitTerminal(t, ok) ==
    /\ phase[t] = "finalizing"
    /\ ok \/ info[t].kind \in {"chat", "subagent", "background"}
    /\ unfinal' = IF ok THEN unfinal ELSE unfinal \cup {t}
    /\ phase' = [phase EXCEPT ![t] = "done"]
    /\ umbrella' = [b \in Bidis |-> IF umbrella[b] = t THEN NoTurn ELSE umbrella[b]]
    /\ UNCHANGED <<info, aborted, outbound, seal, unwind>>

\* cancelTurn from the task registry or a cancelled task tool call.
CancelTurn(t) ==
    /\ HasTurn(t)
    /\ info[t].kind \in {"subagent", "background"}
    /\ CancelAll({t})
    /\ UNCHANGED <<info, phase, unfinal, umbrella, outbound, seal, unwind>>

\* cancelConversation, on a cancelAction of the client: every turn that
\* carries the conversation id, that is every one but the umbrellas.
CancelConversation ==
    /\ \E t \in Turns : HasTurn(t) /\ info[t].kind # "umbrella" /\ ~Aborted(t)
    /\ CancelAll({t \in Turns : info[t].kind # "umbrella"})
    /\ UNCHANGED <<info, phase, unfinal, umbrella, outbound, seal, unwind>>

-----------------------------------------------------------------------------
(* Closing an attachment: BidiStreamController.seal and unwindBidi.        *)

\* Mutant: only the cancelled roots are awaited.
SealBidiForRoots(b) ==
    /\ seal[b].pc = "idle"
    /\ \E t \in Turns : info[t].bidi = b
    /\ outbound' = [outbound EXCEPT ![b] = BeginSeal(@)]
    /\ seal' = [seal EXCEPT ![b].pc = "terminals", ![b].waits = BidiRoots(b)]
    /\ CancelAll(BidiRoots(b))
    /\ UNCHANGED <<info, phase, unfinal, umbrella, unwind>>

\* seal() is one-shot.  Up to the first await the coordinator stops writes,
\* remembers the registered turns and cancels the roots.
SealBidi(b) ==
    /\ seal[b].pc = "idle"
    /\ \E t \in Turns : info[t].bidi = b
    /\ outbound' = [outbound EXCEPT ![b] = BeginSeal(@)]
    /\ seal' = [seal EXCEPT ![b].pc = "terminals", ![b].waits = TurnsOf(b)]
    /\ CancelAll(BidiRoots(b))
    /\ UNCHANGED <<info, phase, unfinal, umbrella, unwind>>

\* Mutant: what a runner settles with is awaited, not its terminal.
ResultsResolve(b) ==
    /\ seal[b].pc = "terminals"
    /\ \A t \in seal[b].waits : phase[t] # "running"
    /\ seal' = [seal EXCEPT ![b].pc = "drain"]
    /\ UNCHANGED <<info, phase, aborted, unfinal, umbrella, outbound, unwind>>

\* cancelBidiAndAwait resolves once every remembered turn is terminal.
TerminalsResolve(b) ==
    /\ seal[b].pc = "terminals"
    /\ \A t \in seal[b].waits : phase[t] = "done"
    /\ seal' = [seal EXCEPT ![b].pc = "drain",
                            ![b].errors = seal[b].waits \cap unfinal # {}]
    /\ UNCHANGED <<info, phase, aborted, unfinal, umbrella, outbound, unwind>>

\* awaitWritersDrained resolves: nobody writes any more, or time is up.
WritersDrain(b, intime) ==
    /\ seal[b].pc = "drain"
    /\ intime <=> Drained(outbound[b])
    /\ seal' = [seal EXCEPT ![b].pc = "close", ![b].drained = intime,
                            ![b].errors = @ \/ ~intime]
    /\ UNCHANGED <<info, phase, aborted, unfinal, umbrella, outbound, unwind>>

\* finishSeal, or forceFinishSeal after a timeout or a seal violation.  A
\* closed BiDi is only a transport detach: nothing is swept.
CloseOutbound(b) ==
    /\ seal[b].pc = "close"
    /\ IF seal[b].drained /\ CanFinishSeal(outbound[b])
         THEN /\ outbound' = [outbound EXCEPT ![b] = FinishSeal(@)]
              /\ seal' = [seal EXCEPT ![b].pc = "closed"]
         ELSE /\ outbound' = [outbound EXCEPT ![b] = ForceFinishSeal(@)]
              /\ seal' = [seal EXCEPT ![b].pc = "closed", ![b].errors = TRUE]
    /\ UNCHANGED <<info, phase, aborted, unfinal, umbrella, unwind>>

-----------------------------------------------------------------------------
(* Superseding one chat turn: unwindTurn.                                  *)

\* Mutant: the terminal is awaited, but nobody asked for it.
BeginUnwindUncancelled(t) ==
    /\ info[t].kind = "chat"
    /\ unwind[t] = "none"
    /\ unwind' = [unwind EXCEPT ![t] = "waiting"]
    /\ UNCHANGED <<info, phase, aborted, unfinal, umbrella, outbound, seal>>

\* cancelTurnAndAwait cancels the turn if it is registered; if not, there is
\* nothing to await and its tool calls are swept at once.
BeginUnwind(t) ==
    /\ info[t].kind = "chat"
    /\ unwind[t] = "none"
    /\ unwind' = [unwind EXCEPT ![t] = IF HasTurn(t) THEN "waiting" ELSE "swept"]
    /\ CancelAll({t})
    /\ UNCHANGED <<info, phase, unfinal, umbrella, outbound, seal>>

\* ... and awaits this one terminal.  Only then are its tool calls swept and
\* the cleanup resolves; a failed finalization rejects it instead.
EndUnwind(t) ==
    /\ unwind[t] = "waiting"
    /\ phase[t] = "done"
    /\ unwind' = [unwind EXCEPT ![t] =
                    IF t \in unfinal THEN "refused" ELSE "swept"]
    /\ UNCHANGED <<info, phase, aborted, unfinal, umbrella, outbound, seal>>

-----------------------------------------------------------------------------
DriveRunner(t) ==
    \/ RunnerSettles(t)
    \/ LeaveOutbound(t)
    \/ \E ok \in BOOLEAN : CommitTerminal(t, ok)

SpawnAny(t) ==
    \/ \E b \in Bidis : AttachBidi(t, b)
    \/ \E c \in Turns : SpawnChat(t, c)
    \/ \E p \in Turns : SpawnSubagent(t, p)
    \/ \E p \in Turns \cup {NoTurn} : SpawnCompaction(t, p)
    \/ SpawnBackground(t)

UnwindBidi(b) ==
    \/ TerminalsResolve(b)
    \/ \E intime \in BOOLEAN : WritersDrain(b, intime)
    \/ CloseOutbound(b)

Next ==
    \/ \E t \in Turns : SpawnAny(t) \/ DriveRunner(t) \/ CancelTurn(t)
    \/ CancelConversation
    \/ \E b \in Bidis : SealBidi(b) \/ UnwindBidi(b)
    \/ \E t \in Turns : BeginUnwind(t) \/ EndUnwind(t)

Spec == Init /\ [][Next]_vars

\* The event loop runs every continuation whose promise has resolved, timers
\* fire, and a finalizer returns or throws.
SchedulerFairness ==
    /\ \A t \in Turns : /\ WF_vars(LeaveOutbound(t))
                        /\ WF_vars(\E ok \in BOOLEAN : CommitTerminal(t, ok))
                        /\ WF_vars(EndUnwind(t))
    /\ \A b \in Bidis : WF_vars(UnwindBidi(b))

\* An abort listener that is itself the runner: the umbrella and the race of
\* a chat turn settle by scheduling alone.
ListenersSettle ==
    \A t \in Turns : WF_vars(/\ Aborted(t) /\ info[t].kind \in {"umbrella", "chat"}
                             /\ RunnerSettles(t))

\* The other runners end with their body: this one says that every body heeds
\* its signal, which the code asks of it but cannot enforce.
BodiesHeedAbort == \A t \in Turns : WF_vars(Aborted(t) /\ RunnerSettles(t))

FairSpec        == Spec /\ SchedulerFairness /\ BodiesHeedAbort
StalledBodySpec == Spec /\ SchedulerFairness /\ ListenersSettle

-----------------------------------------------------------------------------
(* Properties.                                                             *)

TypeOK ==
    /\ info \in [Turns -> [kind : Kinds \cup {"none"}, bidi : Bidis \cup {NoBidi},
                          parent : Turns \cup {NoTurn}, chain : SUBSET Turns]]
    /\ phase \in [Turns -> Phases]
    /\ aborted \subseteq Turns
    /\ unfinal \subseteq Turns
    /\ umbrella \in [Bidis -> Turns \cup {NoTurn}]
    /\ outbound \in [Bidis -> OutboundOf(Turns)]
    /\ seal \in [Bidis -> [pc : {"idle", "terminals", "drain", "close", "closed"},
                           waits : SUBSET Turns, drained : BOOLEAN, errors : BOOLEAN]]
    /\ unwind \in [Turns -> {"none", "waiting", "swept", "refused"}]

\* An abort reaches every descendant, also across parents that are already
\* gone from the registry and also the ones spawned after the abort
\* (constructor of TurnHandleImpl, cancelTurn).
AbortReachesDescendants ==
    \A t \in Turns : \A a \in info[t].chain : Aborted(a) => Aborted(t)

\* A turn that may still act on an attachment hangs from the attachment's
\* registered umbrella, so that closing the attachment cannot miss it.
LiveTurnsHangFromUmbrella ==
    \A t \in Turns : IsActiveTurnOwner(t) =>
        LET u == umbrella[info[t].bidi]
        IN  u \in Turns /\ HasTurn(u) /\ (t = u \/ u \in info[t].chain)

\* A running turn of an open attachment can write: emit() never loses a frame
\* of it to the membership check of write().
RunningTurnsCanWrite ==
    \A t \in Turns : IsActiveTurnOwner(t) /\ phase[t] = "running"
                       => MayWrite(outbound[info[t].bidi], t)

\* The attachment is closed only after every turn that was ever spawned on it
\* is terminal: no runner is left behind a channel that is gone, and none that
\* was spawned after the coordinator took its snapshot.  AttachmentsKeepPromise
\* implies it; it is proved first.
ClosedOnlyWhenUnwound ==
    \A b \in Bidis : outbound[b].state = "sealed" =>
        \A t \in Turns : info[t].bidi = b => phase[t] = "done"

\* awaitWritersDrained always finds the writers gone: once the terminals are
\* in, the close is never forced and throws no writer out.
CloseIsNeverForced ==
    \A b \in Bidis : seal[b].pc \in {"close", "closed"} => seal[b].drained

\* What a client sees of each attachment,
Shown(b) ==
    LET members == {t \in Turns : info[t].bidi = b}
        state   == IF members = {} THEN "new" ELSE outbound[b].state
    IN  [state  |-> state,
         root   |-> IF state = "open" THEN umbrella[b] ELSE NoTurn,
         live   |-> {t \in TurnsOf(b) : ~Aborted(t)},
         ending |-> {t \in TurnsOf(b) : Aborted(t)},
         over   |-> {t \in members : phase[t] = "done"}]

Seen == [b \in Bidis |-> Shown(b)]

Promise == INSTANCE Attachment WITH Attachments <- Bidis, att <- Seen

\* ... keeps the promise: while an attachment is open its umbrella lives, the
\* first step of a close silences all turns at once although it cancels the
\* roots only, nobody joins afterwards, and it closes over finished turns
\* (handleBidiStream, cancelBidi, unwindBidi, isActiveTurnOwner).
AttachmentsKeepPromise == Promise!Spec

\* A close that has begun ends with the attachment sealed, so that the
\* consumer's frame loop in handleBidiStream can exit.
SealCompletes ==
    \A b \in Bidis : seal[b].pc = "terminals" ~> outbound[b].state = "sealed"

\* A turn that waits for a superseded one gets its answer: the sweep is done
\* or refused.
UnwindResolves ==
    \A t \in Turns : unwind[t] = "waiting" ~> unwind[t] \in {"swept", "refused"}

-----------------------------------------------------------------------------
(* What the comments promise and the code does not do.                     *)

\* bidi-outbound.ts on awaitWritersDrained: the timeout "exists for the
\* pathological case of a runner that has stalled inside its abort handler".
\* Checked under StalledBodySpec: the coordinator awaits the terminals first,
\* so the timer of a close with a stalled runner is never started.
DrainTimeoutCoversStalledRunner == SealCompletes

\* The header of turn-cleanup-coordinator.service.ts, step 3: cancelBidiAndAwait
\* "(or cancelTurnAndAwait) - fire AbortSignal, wait for every runner's
\* `finally` to run".  cancelTurnAndAwait waits for the named turn only.
SweepAwaitsEveryRunner ==
    \A t \in Turns : unwind[t] = "swept" =>
        \A d \in Turns : t \in info[d].chain /\ Aborted(d) => phase[d] = "done"
=============================================================================
