------------------------ MODULE TurnSupervisorProofs ------------------------
(***************************************************************************)
(* Proofs about TurnSupervisor: type correctness, that an abort reaches    *)
(* every descendant, that an attachment is closed only when it is unwound  *)
(* and never by force, who may act on it, and that each attachment keeps   *)
(* the promise of Attachment.                                              *)
(***************************************************************************)
EXTENDS TurnSupervisor, TLAPS

-----------------------------------------------------------------------------
(* Type correctness.                                                       *)

\* The one action every spawning handler consists of keeps the types, also of
\* a parent that is absent.
LEMMA SpawnKeepsTypes ==
    ASSUME TypeOK, NEW t \in Turns, NEW kind,
           NEW b \in Bidis \cup {NoBidi}, NEW p \in Turns \cup {NoTurn},
           Spawn(t, kind, b, p)
    PROVE  TypeOK'
<1>1. kind \in Kinds
  BY KindsAssumption DEF Spawn
<1>2. (IF p = NoTurn THEN {} ELSE {p} \cup info[p].chain) \in SUBSET Turns
  BY DEF TypeOK
<1>3. info' \in [Turns -> [kind : Kinds \cup {"none"}, bidi : Bidis \cup {NoBidi},
                           parent : Turns \cup {NoTurn}, chain : SUBSET Turns]]
  BY <1>1, <1>2 DEF TypeOK, Spawn
<1>4. phase' \in [Turns -> Phases]
  BY DEF TypeOK, Spawn, Phases
<1>5. aborted' \subseteq Turns
  BY DEF TypeOK, Spawn
<1>6. umbrella' \in [Bidis -> Turns \cup {NoTurn}]
  BY DEF TypeOK, Spawn
<1>7. outbound' \in [Bidis -> OutboundOf(Turns)]
  <2>1. \A o \in OutboundOf(Turns) : PushWriter(o, t) \in OutboundOf(Turns)
    BY DEF OutboundOf, PushWriter
  <2> QED BY <2>1 DEF TypeOK, Spawn
<1> QED BY <1>3, <1>4, <1>5, <1>6, <1>7 DEF TypeOK, Spawn

LEMMA CancelKeepsTypes ==
    ASSUME TypeOK, NEW T, CancelAll(T)
    PROVE  aborted' \subseteq Turns
BY DEF TypeOK, CancelAll, Below

\* What the actions on an outbound leave behind is an outbound.
LEMMA OutboundTypes ==
    ASSUME NEW o \in OutboundOf(Turns)
    PROVE  /\ \A t \in Turns : /\ PushWriter(o, t) \in OutboundOf(Turns)
                               /\ PopWriter(o, t) \in OutboundOf(Turns)
           /\ BeginSeal(o) \in OutboundOf(Turns)
           /\ FinishSeal(o) \in OutboundOf(Turns)
           /\ ForceFinishSeal(o) \in OutboundOf(Turns)
BY DEF OutboundOf, OutboundStates, PushWriter, PopWriter, BeginSeal, IsOpen,
       FinishSeal, ForceFinishSeal

SealRecords == [pc : {"idle", "terminals", "drain", "close", "closed"},
                waits : SUBSET Turns, drained : BOOLEAN, errors : BOOLEAN]

\* Every state of the supervisor has its type: spawning, running, cancelling
\* and closing never mix up a turn, an attachment and their absence.
LEMMA StepKeepsTypes == TypeOK /\ [Next]_vars => TypeOK'
<1> SUFFICES ASSUME TypeOK, [Next]_vars PROVE TypeOK'
  OBVIOUS
<1>1. ASSUME NEW t \in Turns, SpawnAny(t) PROVE TypeOK'
  <2>1. ASSUME NEW b \in Bidis, AttachBidi(t, b) PROVE TypeOK'
    BY <2>1, SpawnKeepsTypes DEF AttachBidi
  <2>2. ASSUME NEW c \in Turns, SpawnChat(t, c) PROVE TypeOK'
    <3>1. info[c].bidi \in Bidis /\ umbrella[info[c].bidi] \in Turns \cup {NoTurn}
      BY <2>2 DEF TypeOK, SpawnChat, IsActiveTurnOwner
    <3> QED BY <2>2, <3>1, SpawnKeepsTypes DEF SpawnChat
  <2>3. ASSUME NEW q \in Turns, SpawnSubagent(t, q) PROVE TypeOK'
    <3>1. info[q].bidi \in Bidis
      BY <2>3 DEF SpawnSubagent, IsActiveTurnOwner
    <3> QED BY <2>3, <3>1, SpawnKeepsTypes DEF SpawnSubagent
  <2>4. ASSUME NEW q \in Turns \cup {NoTurn}, SpawnCompaction(t, q) PROVE TypeOK'
    BY <2>4, SpawnKeepsTypes DEF SpawnCompaction
  <2>5. ASSUME SpawnBackground(t) PROVE TypeOK'
    BY <2>5, SpawnKeepsTypes DEF SpawnBackground
  <2> QED BY <1>1, <2>1, <2>2, <2>3, <2>4, <2>5 DEF SpawnAny
<1>2. ASSUME NEW t \in Turns, DriveRunner(t) PROVE TypeOK'
  <2>1. CASE RunnerSettles(t)
    BY <2>1 DEF TypeOK, RunnerSettles, Phases
  <2>2. CASE LeaveOutbound(t)
    <3>1. outbound' \in [Bidis -> OutboundOf(Turns)]
      BY <2>2, OutboundTypes DEF TypeOK, LeaveOutbound
    <3> QED BY <2>2, <3>1 DEF TypeOK, LeaveOutbound, Phases
  <2>3. ASSUME NEW ok \in BOOLEAN, CommitTerminal(t, ok) PROVE TypeOK'
    BY <2>3 DEF TypeOK, CommitTerminal, Phases
  <2> QED BY <1>2, <2>1, <2>2, <2>3 DEF DriveRunner
<1>3. ASSUME NEW t \in Turns, CancelTurn(t) PROVE TypeOK'
  BY <1>3, CancelKeepsTypes DEF TypeOK, CancelTurn
<1>4. ASSUME CancelConversation PROVE TypeOK'
  BY <1>4, CancelKeepsTypes DEF TypeOK, CancelConversation
<1>5. ASSUME NEW b \in Bidis, SealBidi(b) PROVE TypeOK'
  <2>1. aborted' \subseteq Turns
    BY <1>5, CancelKeepsTypes DEF SealBidi
  <2>2. outbound' \in [Bidis -> OutboundOf(Turns)]
    BY <1>5 DEF TypeOK, SealBidi, OutboundOf, OutboundStates, BeginSeal, IsOpen
  <2>3. TurnsOf(b) \subseteq Turns
    BY DEF TurnsOf
  <2>4. seal' \in [Bidis -> SealRecords]
    <3> DEFINE r == [seal[b] EXCEPT !.pc = "terminals", !.waits = TurnsOf(b)]
    <3>1. r \in SealRecords
      BY <2>3 DEF TypeOK, SealRecords
    <3>2. seal' = [seal EXCEPT ![b] = r]
      BY <1>5 DEF SealBidi, TypeOK
    <3> QED BY <3>1, <3>2 DEF TypeOK, SealRecords
  <2> QED BY <1>5, <2>1, <2>2, <2>4 DEF TypeOK, SealBidi, SealRecords
<1>6. ASSUME NEW b \in Bidis, UnwindBidi(b) PROVE TypeOK'
  <2>s. seal \in [Bidis -> SealRecords]
    BY DEF TypeOK, SealRecords
  <2>1. CASE TerminalsResolve(b)
    <3>1. (seal[b].waits \cap unfinal # {}) \in BOOLEAN
      OBVIOUS
    <3>2. seal' \in [Bidis -> SealRecords]
      BY <2>1, <3>1, <2>s DEF TerminalsResolve, SealRecords
    <3> QED BY <2>1, <3>2 DEF TypeOK, TerminalsResolve, SealRecords
  <2>2. ASSUME NEW intime \in BOOLEAN, WritersDrain(b, intime) PROVE TypeOK'
    <3>1. (seal[b].errors \/ ~intime) \in BOOLEAN
      OBVIOUS
    <3> DEFINE r == [seal[b] EXCEPT !.pc = "close", !.drained = intime,
                                    !.errors = @ \/ ~intime]
    <3>2. r \in SealRecords
      BY <3>1, <2>s DEF SealRecords
    <3>3. seal' = [seal EXCEPT ![b] = r]
      BY <2>2, <2>s DEF WritersDrain
    <3>4. seal' \in [Bidis -> SealRecords]
      BY <3>2, <3>3, <2>s
    <3> QED BY <2>2, <3>4 DEF TypeOK, WritersDrain, SealRecords
  <2>3. CASE CloseOutbound(b)
    <3>1. /\ FinishSeal(outbound[b]) \in OutboundOf(Turns)
          /\ ForceFinishSeal(outbound[b]) \in OutboundOf(Turns)
      BY OutboundTypes DEF TypeOK
    <3>2. outbound' \in [Bidis -> OutboundOf(Turns)]
      BY <2>3, <3>1 DEF TypeOK, CloseOutbound
    <3>3. seal' \in [Bidis -> SealRecords]
      BY <2>3, <2>s DEF CloseOutbound, SealRecords
    <3> QED BY <2>3, <3>2, <3>3 DEF TypeOK, CloseOutbound, SealRecords
  <2> QED BY <1>6, <2>1, <2>2, <2>3 DEF UnwindBidi
<1>7. ASSUME NEW t \in Turns, BeginUnwind(t) PROVE TypeOK'
  BY <1>7, CancelKeepsTypes DEF TypeOK, BeginUnwind
<1>8. ASSUME NEW t \in Turns, EndUnwind(t) PROVE TypeOK'
  BY <1>8 DEF TypeOK, EndUnwind
<1>9. CASE UNCHANGED vars
  BY <1>9 DEF TypeOK, vars
<1> QED BY <1>1, <1>2, <1>3, <1>4, <1>5, <1>6, <1>7, <1>8, <1>9 DEF Next

LEMMA InitHasTypes == Init => TypeOK
BY DEF Init, TypeOK, NoInfo, Phases, OutboundOf, OutboundStates, FreshOutbound

\* Type correctness for every set of turns and attachments: no handler of the
\* registry, the handles or the coordinator leaves the modelled state space.
THEOREM TypeCorrect == Spec => []TypeOK
BY InitHasTypes, StepKeepsTypes, PTL DEF Spec

-----------------------------------------------------------------------------
(* Aborts.                                                                 *)

\* The chain of parents spawn records is closed upwards and names only turns
\* that exist, so that nothing is added above a turn later.
ChainsClosed ==
    /\ \A t \in Turns : phase[t] = "unspawned" => info[t] = NoInfo
    /\ \A t \in Turns : \A a \in info[t].chain :
           phase[a] # "unspawned" /\ info[a].chain \subseteq info[t].chain

AbortInv == TypeOK /\ ChainsClosed /\ AbortReachesDescendants

\* cancelTurn and the abort listeners close the set of aborted turns downwards.
LEMMA CancelReachesDescendants ==
    ASSUME AbortInv, NEW T, CancelAll(T), NEW t \in Turns, NEW a \in info[t].chain,
           a \in aborted'
    PROVE  t \in aborted'
<1> DEFINE S == {u \in T : HasTurn(u)}
<1>1. aborted' = aborted \cup Below(S)
  BY DEF CancelAll
<1>2. CASE a \in aborted
  BY <1>1, <1>2 DEF AbortInv, AbortReachesDescendants, Aborted
<1>3. CASE a \in Below(S)
  <2>1. CASE a \in S
    BY <2>1, <1>1 DEF Below
  <2>2. CASE info[a].chain \cap S # {}
    <3>1. info[a].chain \subseteq info[t].chain
      BY DEF AbortInv, ChainsClosed
    <3> QED BY <2>2, <3>1, <1>1 DEF Below
  <2> QED BY <1>3, <2>1, <2>2 DEF Below
<1> QED BY <1>1, <1>2, <1>3

\* spawn with a parent puts the turn under the parent's whole chain, and hands
\* it the abort of the parent.
LEMMA SpawnKeepsAbortInv ==
    ASSUME AbortInv, TypeOK', NEW t \in Turns, NEW kind, NEW b,
           NEW p \in Turns \cup {NoTurn}, Spawn(t, kind, b, p)
    PROVE  AbortInv'
<1> DEFINE above == IF p = NoTurn THEN {} ELSE {p} \cup info[p].chain
<1>1. /\ info'[t].chain = above
      /\ \A u \in Turns \ {t} : info'[u] = info[u]
  BY DEF Spawn, AbortInv, TypeOK
<1>2. /\ phase'[t] = "running" /\ phase[t] = "unspawned"
      /\ \A u \in Turns \ {t} : phase'[u] = phase[u]
  BY DEF Spawn, AbortInv, TypeOK
<1>3. \A u \in Turns : info[u].chain \subseteq Turns /\ t \notin info[u].chain
  BY <1>2 DEF AbortInv, ChainsClosed, TypeOK
<1>4. above \subseteq Turns \ {t}
  <2>1. ASSUME p # NoTurn PROVE p \in Turns \ {t}
    BY <2>1, <1>2 DEF Spawn, HasTurn
  <2> QED BY <2>1, <1>3
<1>5. \A a \in above : phase[a] # "unspawned" /\ info[a].chain \subseteq above
  <2> SUFFICES ASSUME NEW a \in above PROVE phase[a] # "unspawned" /\ info[a].chain \subseteq above
    OBVIOUS
  <2>1. p # NoTurn /\ p \in Turns /\ HasTurn(p)
    BY DEF Spawn
  <2>2. CASE a = p
    BY <2>1, <2>2 DEF HasTurn
  <2>3. CASE a \in info[p].chain
    BY <2>1, <2>3 DEF AbortInv, ChainsClosed
  <2> QED BY <2>1, <2>2, <2>3
<1>6. ChainsClosed'
  <2>1. \A u \in Turns : phase'[u] = "unspawned" => info'[u] = NoInfo
    BY <1>1, <1>2 DEF AbortInv, ChainsClosed
  <2>2. ASSUME NEW u \in Turns, NEW a \in info'[u].chain
        PROVE  phase'[a] # "unspawned" /\ info'[a].chain \subseteq info'[u].chain
    <3>1. CASE u = t
      BY <3>1, <1>1, <1>2, <1>4, <1>5, <2>2
    <3>2. CASE u # t
      BY <3>2, <1>1, <1>2, <1>3, <2>2 DEF AbortInv, ChainsClosed
    <3> QED BY <3>1, <3>2
  <2> QED BY <2>1, <2>2 DEF ChainsClosed
<1>7. AbortReachesDescendants'
  <2> SUFFICES ASSUME NEW u \in Turns, NEW a \in info'[u].chain, a \in aborted'
               PROVE  u \in aborted'
    BY DEF AbortReachesDescendants, Aborted
  <2>1. aborted' = IF p \in aborted THEN aborted \cup {t} ELSE aborted
    BY DEF Spawn
  <2>2. CASE u = t
    <3>1. a \in above /\ a # t /\ a \in aborted
      BY <2>2, <1>1, <1>4, <2>1
    <3>2. p \in Turns /\ (a = p \/ a \in info[p].chain)
      BY <3>1
    <3>3. p \in aborted
      BY <3>1, <3>2 DEF AbortInv, AbortReachesDescendants, Aborted
    <3> QED BY <2>1, <2>2, <3>3
  <2>3. CASE u # t
    BY <2>3, <1>1, <1>3, <2>1 DEF AbortInv, AbortReachesDescendants, Aborted
  <2> QED BY <2>2, <2>3
<1> QED BY <1>6, <1>7 DEF AbortInv

\* A step that neither spawns nor aborts only moves phases forward.
LEMMA QuietKeepsAbortInv ==
    ASSUME AbortInv, TypeOK', UNCHANGED <<info, aborted>>,
           \A u \in Turns : phase[u] # "unspawned" <=> phase'[u] # "unspawned"
    PROVE  AbortInv'
<1>1. ChainsClosed'
  BY DEF AbortInv, ChainsClosed, TypeOK
<1>2. AbortReachesDescendants'
  BY DEF AbortInv, AbortReachesDescendants, Aborted
<1> QED BY <1>1, <1>2 DEF AbortInv

LEMMA CancelKeepsAbortInv ==
    ASSUME AbortInv, TypeOK', NEW T, CancelAll(T), UNCHANGED <<info, phase>>
    PROVE  AbortInv'
<1>1. ChainsClosed'
  BY DEF AbortInv, ChainsClosed
<1>2. AbortReachesDescendants'
  BY CancelReachesDescendants DEF AbortReachesDescendants, Aborted
<1> QED BY <1>1, <1>2 DEF AbortInv

LEMMA StepKeepsAbortInv == AbortInv /\ [Next]_vars => AbortInv'
<1> SUFFICES ASSUME AbortInv, [Next]_vars PROVE AbortInv'
  OBVIOUS
<1>0. TypeOK'
  BY StepKeepsTypes DEF AbortInv
<1>1. ASSUME NEW t \in Turns, SpawnAny(t) PROVE AbortInv'
  <2>1. ASSUME NEW kind, NEW b, NEW p \in Turns \cup {NoTurn}, Spawn(t, kind, b, p)
        PROVE  AbortInv'
    BY <1>0, <2>1, SpawnKeepsAbortInv
  <2>2. ASSUME NEW c \in Turns, SpawnChat(t, c) PROVE AbortInv'
    <3>1. umbrella[info[c].bidi] \in Turns \cup {NoTurn}
      BY <2>2 DEF AbortInv, TypeOK, SpawnChat, IsActiveTurnOwner
    <3> QED BY <2>1, <2>2, <3>1 DEF SpawnChat
  <2>3. ASSUME NEW b \in Bidis, AttachBidi(t, b) PROVE AbortInv'
    BY <2>1, <2>3 DEF AttachBidi
  <2>4. ASSUME NEW q \in Turns, SpawnSubagent(t, q) PROVE AbortInv'
    BY <2>1, <2>4 DEF SpawnSubagent
  <2>5. ASSUME NEW q \in Turns \cup {NoTurn}, SpawnCompaction(t, q) PROVE AbortInv'
    BY <2>1, <2>5 DEF SpawnCompaction
  <2>6. CASE SpawnBackground(t)
    BY <2>1, <2>6 DEF SpawnBackground
  <2> QED BY <1>1, <2>2, <2>3, <2>4, <2>5, <2>6 DEF SpawnAny
<1>2. ASSUME NEW t \in Turns, DriveRunner(t) PROVE AbortInv'
  <2>1. UNCHANGED <<info, aborted>>
    BY <1>2 DEF DriveRunner, RunnerSettles, LeaveOutbound, CommitTerminal
  <2>2. \A u \in Turns : phase[u] # "unspawned" <=> phase'[u] # "unspawned"
    BY <1>2 DEF DriveRunner, RunnerSettles, LeaveOutbound, CommitTerminal, AbortInv, TypeOK
  <2> QED BY <1>0, <2>1, <2>2, QuietKeepsAbortInv
<1>3. ASSUME NEW t \in Turns, CancelTurn(t) PROVE AbortInv'
  BY <1>0, <1>3, CancelKeepsAbortInv DEF CancelTurn
<1>4. ASSUME CancelConversation PROVE AbortInv'
  BY <1>0, <1>4, CancelKeepsAbortInv DEF CancelConversation
<1>5. ASSUME NEW b \in Bidis, SealBidi(b) PROVE AbortInv'
  BY <1>0, <1>5, CancelKeepsAbortInv DEF SealBidi
<1>6. ASSUME NEW b \in Bidis, UnwindBidi(b) PROVE AbortInv'
  BY <1>0, <1>6, QuietKeepsAbortInv
     DEF UnwindBidi, TerminalsResolve, WritersDrain, CloseOutbound
<1>7. ASSUME NEW t \in Turns, BeginUnwind(t) PROVE AbortInv'
  BY <1>0, <1>7, CancelKeepsAbortInv DEF BeginUnwind
<1>8. ASSUME NEW t \in Turns, EndUnwind(t) PROVE AbortInv'
  BY <1>0, <1>8, QuietKeepsAbortInv DEF EndUnwind
<1>9. CASE UNCHANGED vars
  BY <1>0, <1>9, QuietKeepsAbortInv DEF vars
<1> QED BY <1>1, <1>2, <1>3, <1>4, <1>5, <1>6, <1>7, <1>8, <1>9 DEF Next

\* An abort reaches every descendant, for every tree of turns and every order
\* of spawns, cancels and terminals: the cascade of TurnHandleImpl's listeners
\* has no gap, not even under parents that left the registry.
THEOREM AbortsReachDescendants == Spec => []AbortReachesDescendants
<1>1. Init => AbortInv
  BY InitHasTypes DEF Init, NoInfo, AbortInv, ChainsClosed, AbortReachesDescendants, Aborted
<1>2. AbortInv => AbortReachesDescendants
  BY DEF AbortInv
<1> QED BY <1>1, <1>2, StepKeepsAbortInv, PTL DEF Spec

-----------------------------------------------------------------------------
(* Closing an attachment.                                                  *)

UnspawnedIsBlank == \A t \in Turns : phase[t] = "unspawned" => info[t] = NoInfo

\* Writers are turns of the attachment whose runner is not past withWriter.
WritersRun ==
    \A b \in Bidis : \A t \in outbound[b].writers :
        info[t].bidi = b /\ phase[t] \in {"running", "settled"}

\* A close that has begun knows every turn of its attachment that is not done,
\* and no turn can join.
CloseKnowsTurns ==
    \A b \in Bidis : seal[b].pc # "idle" =>
        /\ ~IsOpen(outbound[b])
        /\ \E t \in Turns : info[t].bidi = b
        /\ \A t \in Turns : info[t].bidi = b /\ phase[t] # "done" => t \in seal[b].waits

\* How far a close is says what it has seen.
CloseInOrder ==
    \A b \in Bidis :
        /\ seal[b].pc \in {"drain", "close", "closed"} =>
               \A t \in seal[b].waits : phase[t] = "done"
        /\ seal[b].pc \in {"close", "closed"} => seal[b].drained
        /\ outbound[b].state = "sealed" => seal[b].pc = "closed"

CloseInv == TypeOK /\ UnspawnedIsBlank /\ WritersRun /\ CloseKnowsTurns /\ CloseInOrder

LEMMA CloseInvImplies == CloseInv => ClosedOnlyWhenUnwound /\ CloseIsNeverForced
BY DEF CloseInv, CloseKnowsTurns, CloseInOrder, ClosedOnlyWhenUnwound, CloseIsNeverForced

\* Spawning on an attachment that is not being closed.
LEMMA SpawnKeepsCloseInv ==
    ASSUME CloseInv, TypeOK', NEW t \in Turns, NEW kind,
           NEW b \in Bidis \cup {NoBidi}, NEW p, Spawn(t, kind, b, p),
           b # NoBidi => seal[b].pc = "idle"
    PROVE  CloseInv'
<1>1. /\ info'[t].bidi = b /\ phase'[t] = "running" /\ phase[t] = "unspawned"
      /\ \A u \in Turns \ {t} : info'[u] = info[u] /\ phase'[u] = phase[u]
  BY DEF Spawn, CloseInv, TypeOK
<1>2. info[t].bidi = NoBidi
  BY <1>1 DEF CloseInv, UnspawnedIsBlank, NoInfo
<1>3. /\ \A c \in Bidis : outbound'[c].state = outbound[c].state
      /\ \A c \in Bidis \ {b} : outbound'[c].writers = outbound[c].writers
      /\ b # NoBidi => outbound'[b].writers = outbound[b].writers \cup {t}
      /\ seal' = seal
  BY DEF Spawn, CloseInv, TypeOK, PushWriter, OutboundOf
<1>4. UnspawnedIsBlank'
  BY <1>1 DEF CloseInv, UnspawnedIsBlank
<1>5. WritersRun'
  <2> SUFFICES ASSUME NEW c \in Bidis, NEW u \in outbound'[c].writers
               PROVE  info'[u].bidi = c /\ phase'[u] \in {"running", "settled"}
    BY DEF WritersRun
  <2>1. CASE u \in outbound[c].writers
    <3>1. u \in Turns \ {t}
      BY <2>1, <1>1 DEF CloseInv, TypeOK, WritersRun, OutboundOf
    <3> QED BY <2>1, <3>1, <1>1 DEF CloseInv, WritersRun
  <2>2. CASE u \notin outbound[c].writers
    <3>1. c = b /\ b # NoBidi
      BY <2>2, <1>3, AbsentAssumption
    <3>2. u = t
      BY <2>2, <3>1, <1>3
    <3> QED BY <3>1, <3>2, <1>1
  <2> QED BY <2>1, <2>2
<1>6. CloseKnowsTurns'
  <2> SUFFICES ASSUME NEW c \in Bidis, seal[c].pc # "idle"
               PROVE  /\ ~IsOpen(outbound[c])'
                      /\ \E u \in Turns : info'[u].bidi = c
                      /\ \A u \in Turns : info'[u].bidi = c /\ phase'[u] # "done"
                                             => u \in seal[c].waits
    BY <1>3 DEF CloseKnowsTurns
  <2>1. c # b
    BY AbsentAssumption
  <2>2. \A u \in Turns : info'[u].bidi = c <=> info[u].bidi = c
    BY <1>1, <1>2, <2>1, AbsentAssumption
  <2>3. \A u \in Turns : info'[u].bidi = c => phase'[u] = phase[u]
    BY <1>1, <2>1
  <2> QED BY <2>2, <2>3, <1>3 DEF CloseInv, CloseKnowsTurns, IsOpen
<1>7. CloseInOrder'
  <2>1. \A u \in Turns : phase[u] = "done" => phase'[u] = "done"
    BY <1>1
  <2> QED BY <2>1, <1>3 DEF CloseInv, CloseInOrder, TypeOK
<1> QED BY <1>4, <1>5, <1>6, <1>7 DEF CloseInv

\* A runner's steps: no turn leaves an attachment or stops being done, and a
\* writer whose phase moves on is out or still runs.
LEMMA DriveKeepsCloseInv ==
    ASSUME CloseInv, TypeOK', NEW t \in Turns, DriveRunner(t)
    PROVE  CloseInv'
<1>1. UNCHANGED <<info, seal>>
  BY DEF DriveRunner, RunnerSettles, LeaveOutbound, CommitTerminal
<1>2. /\ \A u \in Turns : phase[u] = "done" => phase'[u] = "done"
      /\ \A u \in Turns : phase'[u] = "unspawned" => phase[u] = "unspawned"
      /\ \A u \in Turns \ {t} : phase'[u] = phase[u]
  BY DEF DriveRunner, RunnerSettles, LeaveOutbound, CommitTerminal, CloseInv, TypeOK
<1>3. \A b \in Bidis : /\ outbound'[b].state = outbound[b].state
                       /\ outbound'[b].writers \subseteq outbound[b].writers
  BY DEF DriveRunner, RunnerSettles, LeaveOutbound, CommitTerminal, CloseInv, TypeOK,
         PopWriter, OutboundOf
<1>4. WritersRun'
  <2> SUFFICES ASSUME NEW b \in Bidis, NEW u \in outbound'[b].writers
               PROVE  info'[u].bidi = b /\ phase'[u] \in {"running", "settled"}
    BY DEF WritersRun
  <2>1. u \in outbound[b].writers /\ u \in Turns
    BY <1>3 DEF CloseInv, TypeOK, OutboundOf
  <2>2. info[u].bidi = b /\ phase[u] \in {"running", "settled"}
    BY <2>1 DEF CloseInv, WritersRun
  <2>3. CASE u # t
    BY <2>1, <2>2, <2>3, <1>1, <1>2
  <2>4. CASE u = t /\ RunnerSettles(t)
    BY <2>2, <2>4, <1>1 DEF RunnerSettles, CloseInv, TypeOK
  <2>5. CASE u = t /\ LeaveOutbound(t)
    <3>1. info[t].bidi = b /\ b # NoBidi /\ t \in outbound[b].writers
      BY <2>1, <2>2, <2>5, AbsentAssumption
    <3>2. outbound' = [outbound EXCEPT ![b] = PopWriter(@, t)]
      BY <2>5, <3>1 DEF LeaveOutbound, CanPop
    <3>3. t \notin outbound'[b].writers
      BY <3>2 DEF PopWriter, CloseInv, TypeOK, OutboundOf
    <3> QED BY <2>5, <3>3
  <2>6. ASSUME u = t, NEW ok \in BOOLEAN, CommitTerminal(t, ok) PROVE FALSE
    BY <2>2, <2>6 DEF CommitTerminal
  <2> QED BY <2>3, <2>4, <2>5, <2>6 DEF DriveRunner
<1>5. UnspawnedIsBlank'
  BY <1>1, <1>2 DEF CloseInv, UnspawnedIsBlank
<1>6. CloseKnowsTurns'
  BY <1>1, <1>2, <1>3 DEF CloseInv, CloseKnowsTurns, IsOpen
<1>7. CloseInOrder'
  BY <1>1, <1>2, <1>3 DEF CloseInv, CloseInOrder, TypeOK
<1> QED BY <1>4, <1>5, <1>6, <1>7 DEF CloseInv

\* A step that leaves turns and attachments alone.
LEMMA QuietKeepsCloseInv ==
    ASSUME CloseInv, TypeOK', UNCHANGED <<info, phase, outbound, seal>>
    PROVE  CloseInv'
BY DEF CloseInv, UnspawnedIsBlank, WritersRun, CloseKnowsTurns, CloseInOrder, IsOpen

\* The steps of a close: each changes one attachment only.
LEMMA SealKeepsCloseInv ==
    ASSUME CloseInv, TypeOK', NEW b \in Bidis, SealBidi(b)
    PROVE  CloseInv'
<1>1. /\ seal'[b].pc = "terminals" /\ seal'[b].waits = TurnsOf(b)
      /\ \A c \in Bidis \ {b} : seal'[c] = seal[c] /\ outbound'[c] = outbound[c]
      /\ outbound'[b].writers = outbound[b].writers
      /\ outbound'[b].state # "open"
      /\ outbound'[b].state = "sealed" => outbound[b].state = "sealed"
      /\ UNCHANGED <<info, phase>>
  BY DEF SealBidi, CloseInv, TypeOK, BeginSeal, IsOpen, OutboundOf
<1>2. UnspawnedIsBlank' /\ WritersRun'
  BY <1>1 DEF CloseInv, UnspawnedIsBlank, WritersRun
<1>3. CloseKnowsTurns'
  <2>1. \A t \in Turns : info[t].bidi = b /\ phase[t] # "done" => t \in TurnsOf(b)
    <3> SUFFICES ASSUME NEW t \in Turns, info[t].bidi = b, phase[t] # "done"
                 PROVE  t \in TurnsOf(b)
      OBVIOUS
    <3>1. phase[t] # "unspawned"
      BY AbsentAssumption DEF CloseInv, UnspawnedIsBlank, NoInfo
    <3> QED BY <3>1 DEF CloseInv, TypeOK, Phases, HasTurn, TurnsOf
  <2>2. \E t \in Turns : info[t].bidi = b
    BY DEF SealBidi
  <2> QED BY <1>1, <2>1, <2>2 DEF CloseInv, CloseKnowsTurns, IsOpen
<1>4. CloseInOrder'
  <2>1. seal[b].pc = "idle" /\ outbound[b].state # "sealed"
    BY DEF SealBidi, CloseInv, CloseInOrder
  <2> SUFFICES ASSUME NEW c \in Bidis
               PROVE  /\ seal'[c].pc \in {"drain", "close", "closed"} =>
                            \A t \in seal'[c].waits : phase'[t] = "done"
                      /\ seal'[c].pc \in {"close", "closed"} => seal'[c].drained
                      /\ outbound'[c].state = "sealed" => seal'[c].pc = "closed"
    BY DEF CloseInOrder
  <2>2. CASE c = b
    BY <2>1, <2>2, <1>1
  <2>3. CASE c # b
    BY <2>3, <1>1 DEF CloseInv, CloseInOrder
  <2> QED BY <2>2, <2>3
<1> QED BY <1>2, <1>3, <1>4 DEF CloseInv

LEMMA UnwindKeepsCloseInv ==
    ASSUME CloseInv, TypeOK', NEW b \in Bidis, UnwindBidi(b)
    PROVE  CloseInv'
<1>1. UNCHANGED <<info, phase>> /\ seal[b].pc \in {"terminals", "drain", "close"}
  BY DEF UnwindBidi, TerminalsResolve, WritersDrain, CloseOutbound
<1>2. /\ seal'[b].pc # "idle" /\ seal'[b].waits = seal[b].waits
      /\ \A c \in Bidis \ {b} : seal'[c] = seal[c] /\ outbound'[c] = outbound[c]
  <2>1. CASE TerminalsResolve(b)
    BY <2>1 DEF TerminalsResolve, CloseInv, TypeOK
  <2>2. ASSUME NEW intime \in BOOLEAN, WritersDrain(b, intime)
        PROVE  /\ seal'[b].pc = "close" /\ seal'[b].waits = seal[b].waits
               /\ \A c \in Bidis \ {b} : seal'[c] = seal[c] /\ outbound'[c] = outbound[c]
    BY <2>2 DEF WritersDrain, CloseInv, TypeOK
  <2>3. CASE CloseOutbound(b)
    BY <2>3 DEF CloseOutbound, CloseInv, TypeOK
  <2> QED BY <2>1, <2>2, <2>3 DEF UnwindBidi
<1>3. /\ outbound'[b].writers \subseteq outbound[b].writers
      /\ outbound[b].state # "open" => outbound'[b].state # "open"
  <2>1. CASE UNCHANGED outbound
    BY <2>1
  <2>2. CASE CloseOutbound(b)
    <3>1. \/ outbound'[b] = FinishSeal(outbound[b])
          \/ outbound'[b] = ForceFinishSeal(outbound[b])
      BY <2>2 DEF CloseOutbound, CloseInv, TypeOK
    <3>2. outbound[b] \in OutboundOf(Turns)
      BY DEF CloseInv, TypeOK
    <3>3. outbound'[b].writers \subseteq outbound[b].writers /\ outbound'[b].state = "sealed"
      BY <3>1, <3>2 DEF FinishSeal, ForceFinishSeal, OutboundOf
    <3> QED BY <3>3
  <2> QED BY <2>1, <2>2 DEF UnwindBidi, TerminalsResolve, WritersDrain
<1>4. UnspawnedIsBlank' /\ WritersRun'
  BY <1>1, <1>2, <1>3 DEF CloseInv, UnspawnedIsBlank, WritersRun
<1>5. CloseKnowsTurns'
  BY <1>1, <1>2, <1>3 DEF CloseInv, CloseKnowsTurns, IsOpen
<1>6. CloseInOrder'
  <2>1. CASE TerminalsResolve(b)
    <3>0. seal[b].pc = "terminals" /\ outbound[b].state # "sealed"
      BY <2>1 DEF TerminalsResolve, CloseInv, CloseInOrder
    <3> DEFINE failed == seal[b].waits \cap unfinal # {}
               r      == [seal[b] EXCEPT !.pc = "drain", !.errors = failed]
    <3>a. seal' = [seal EXCEPT ![b] = r]
      BY <2>1 DEF TerminalsResolve
    <3>b. seal[b] \in SealRecords /\ b \in DOMAIN seal
      BY DEF CloseInv, TypeOK, SealRecords
    <3> HIDE DEF failed
    <3>c. r.pc = "drain"
      BY <3>b DEF SealRecords
    <3>d. seal'[b].pc = "drain"
      BY <3>a, <3>b, <3>c
    <3>1. seal'[b].pc = "drain" /\ outbound[b].state # "sealed"
      BY <3>0, <3>d
    <3>2. UNCHANGED <<phase, outbound>> /\ \A t \in seal[b].waits : phase[t] = "done"
      BY <2>1 DEF TerminalsResolve
    <3> QED BY <3>1, <3>2, <1>2 DEF CloseInv, CloseInOrder
  <2>2. ASSUME NEW intime \in BOOLEAN, WritersDrain(b, intime) PROVE CloseInOrder'
    <3>1. outbound[b].writers = {}
      <4>1. \A t \in outbound[b].writers : t \in Turns /\ info[t].bidi = b /\ phase[t] # "done"
        BY DEF CloseInv, WritersRun, TypeOK, OutboundOf
      <4>2. \A t \in Turns : info[t].bidi = b => phase[t] = "done"
        BY <2>2 DEF WritersDrain, CloseInv, CloseKnowsTurns, CloseInOrder
      <4> QED BY <4>1, <4>2
    <3>2. intime
      BY <2>2, <3>1 DEF WritersDrain, Drained
    <3>3. seal'[b].pc = "close" /\ seal'[b].drained
      BY <2>2, <3>2 DEF WritersDrain, CloseInv, TypeOK
    <3> QED BY <2>2, <3>3, <1>2 DEF WritersDrain, CloseInv, CloseInOrder, TypeOK
  <2>3. CASE CloseOutbound(b)
    <3>1. seal'[b].pc = "closed" /\ seal'[b].drained = seal[b].drained
      BY <2>3 DEF CloseOutbound, CloseInv, TypeOK
    <3> QED BY <2>3, <3>1, <1>2 DEF CloseOutbound, CloseInv, CloseInOrder
  <2> QED BY <2>1, <2>2, <2>3 DEF UnwindBidi
<1> QED BY <1>4, <1>5, <1>6 DEF CloseInv

LEMMA StepKeepsCloseInv == CloseInv /\ [Next]_vars => CloseInv'
<1> SUFFICES ASSUME CloseInv, [Next]_vars PROVE CloseInv'
  OBVIOUS
<1>0. TypeOK'
  BY StepKeepsTypes DEF CloseInv
<1>1. ASSUME NEW t \in Turns, SpawnAny(t) PROVE CloseInv'
  <2>1. ASSUME NEW kind, NEW b \in Bidis \cup {NoBidi}, NEW p, Spawn(t, kind, b, p),
               b # NoBidi => seal[b].pc = "idle"
        PROVE  CloseInv'
    BY <1>0, <2>1, SpawnKeepsCloseInv
  <2>2. ASSUME NEW b \in Bidis, AttachBidi(t, b) PROVE CloseInv'
    <3>1. seal[b].pc = "idle"
      BY <2>2 DEF AttachBidi, CloseInv, CloseKnowsTurns
    <3> QED BY <2>1, <2>2, <3>1 DEF AttachBidi
  <2>3. ASSUME NEW c \in Turns, IsActiveTurnOwner(c)
        PROVE  info[c].bidi \in Bidis /\ seal[info[c].bidi].pc = "idle"
    BY <2>3 DEF IsActiveTurnOwner, CloseInv, CloseKnowsTurns
  <2>4. ASSUME NEW c \in Turns, SpawnChat(t, c) PROVE CloseInv'
    BY <2>1, <2>3, <2>4 DEF SpawnChat
  <2>5. ASSUME NEW q \in Turns, SpawnSubagent(t, q) PROVE CloseInv'
    BY <2>1, <2>3, <2>5 DEF SpawnSubagent
  <2>6. ASSUME NEW q \in Turns \cup {NoTurn}, SpawnCompaction(t, q) PROVE CloseInv'
    BY <2>1, <2>6 DEF SpawnCompaction
  <2>7. CASE SpawnBackground(t)
    BY <2>1, <2>7 DEF SpawnBackground
  <2> QED BY <1>1, <2>2, <2>4, <2>5, <2>6, <2>7 DEF SpawnAny
<1>2. ASSUME NEW t \in Turns, DriveRunner(t) PROVE CloseInv'
  BY <1>0, <1>2, DriveKeepsCloseInv
<1>3. ASSUME NEW t \in Turns, CancelTurn(t) PROVE CloseInv'
  BY <1>0, <1>3, QuietKeepsCloseInv DEF CancelTurn
<1>4. ASSUME CancelConversation PROVE CloseInv'
  BY <1>0, <1>4, QuietKeepsCloseInv DEF CancelConversation
<1>5. ASSUME NEW b \in Bidis, SealBidi(b) PROVE CloseInv'
  BY <1>0, <1>5, SealKeepsCloseInv
<1>6. ASSUME NEW b \in Bidis, UnwindBidi(b) PROVE CloseInv'
  BY <1>0, <1>6, UnwindKeepsCloseInv
<1>7. ASSUME NEW t \in Turns, BeginUnwind(t) \/ EndUnwind(t) PROVE CloseInv'
  BY <1>0, <1>7, QuietKeepsCloseInv DEF BeginUnwind, EndUnwind
<1>8. CASE UNCHANGED vars
  BY <1>0, <1>8, QuietKeepsCloseInv DEF vars
<1> QED BY <1>1, <1>2, <1>3, <1>4, <1>5, <1>6, <1>7, <1>8 DEF Next

LEMMA InitCloseInv == Init => CloseInv
BY InitHasTypes, AbsentAssumption
   DEF Init, CloseInv, UnspawnedIsBlank, WritersRun, CloseKnowsTurns, CloseInOrder,
       FreshOutbound

\* No attachment is closed over a turn that still runs, however many turns
\* there are and whenever they were spawned, cancelled or finalized.
THEOREM AttachmentsCloseUnwound == Spec => []ClosedOnlyWhenUnwound
<1>1. CloseInv => ClosedOnlyWhenUnwound
  BY CloseInvImplies
<1> QED BY <1>1, InitCloseInv, StepKeepsCloseInv, PTL DEF Spec

\* The writers are always gone when the terminals are in: the drain timeout of
\* unwindBidi and the forced seal are never needed.
THEOREM WritersAlwaysDrain == Spec => []CloseIsNeverForced
<1>1. CloseInv => CloseIsNeverForced
  BY CloseInvImplies
<1> QED BY <1>1, InitCloseInv, StepKeepsCloseInv, PTL DEF Spec

-----------------------------------------------------------------------------
(* Who may act on an attachment.                                           *)

\* Whoever has not left withWriter is a writer as long as writing is allowed.
RunnersWrite ==
    \A t \in Turns : \A b \in Bidis :
        /\ info[t].bidi = b /\ phase[t] \in {"running", "settled"}
        /\ IsOpen(outbound[b])
        => t \in outbound[b].writers

WriteInv == TypeOK /\ UnspawnedIsBlank /\ RunnersWrite

LEMMA StepKeepsWriteInv == WriteInv /\ [Next]_vars => WriteInv'
<1> SUFFICES ASSUME WriteInv, [Next]_vars PROVE WriteInv'
  OBVIOUS
<1>0. TypeOK'
  BY StepKeepsTypes DEF WriteInv
<1> DEFINE Quiet == /\ UNCHANGED <<info, phase>>
                    /\ \A b \in Bidis : IsOpen(outbound[b])' => outbound'[b] = outbound[b]
<1>q. ASSUME Quiet PROVE WriteInv'
  <2>1. UnspawnedIsBlank'
    BY <1>q DEF WriteInv, UnspawnedIsBlank
  <2>2. RunnersWrite'
    BY <1>q DEF WriteInv, RunnersWrite, IsOpen
  <2> QED BY <1>0, <2>1, <2>2 DEF WriteInv
<1>1. ASSUME NEW t \in Turns, SpawnAny(t) PROVE WriteInv'
  <2>1. ASSUME NEW kind, NEW b \in Bidis \cup {NoBidi}, NEW p, Spawn(t, kind, b, p)
        PROVE  WriteInv'
    <3>1. /\ info'[t].bidi = b /\ phase'[t] = "running" /\ phase[t] = "unspawned"
          /\ \A u \in Turns \ {t} : info'[u] = info[u] /\ phase'[u] = phase[u]
      BY <2>1 DEF Spawn, WriteInv, TypeOK
    <3>2. /\ \A c \in Bidis : outbound'[c].state = outbound[c].state
          /\ \A c \in Bidis : outbound[c].writers \subseteq outbound'[c].writers
          /\ b \in Bidis => t \in outbound'[b].writers
      BY <2>1, AbsentAssumption DEF Spawn, WriteInv, TypeOK, PushWriter, OutboundOf
    <3>3. UnspawnedIsBlank'
      BY <3>1 DEF WriteInv, UnspawnedIsBlank
    <3>4. RunnersWrite'
      BY <3>1, <3>2 DEF WriteInv, RunnersWrite, IsOpen
    <3> QED BY <1>0, <3>3, <3>4 DEF WriteInv
  <2>2. ASSUME NEW c \in Turns, IsActiveTurnOwner(c) PROVE info[c].bidi \in Bidis
    BY <2>2 DEF IsActiveTurnOwner
  <2> QED BY <1>1, <2>1, <2>2 DEF SpawnAny, AttachBidi, SpawnChat, SpawnSubagent,
                                  SpawnCompaction, SpawnBackground
<1>2. ASSUME NEW t \in Turns, RunnerSettles(t) PROVE WriteInv'
  <2>1. /\ UNCHANGED <<info, outbound>> /\ phase[t] = "running" /\ phase'[t] = "settled"
        /\ \A u \in Turns \ {t} : phase'[u] = phase[u]
    BY <1>2 DEF RunnerSettles, WriteInv, TypeOK
  <2>2. UnspawnedIsBlank'
    BY <2>1 DEF WriteInv, UnspawnedIsBlank
  <2>3. RunnersWrite'
    BY <2>1 DEF WriteInv, RunnersWrite, IsOpen
  <2> QED BY <1>0, <2>2, <2>3 DEF WriteInv
<1>3. ASSUME NEW t \in Turns, LeaveOutbound(t) PROVE WriteInv'
  <2>1. /\ UNCHANGED info /\ phase[t] = "settled" /\ phase'[t] = "finalizing"
        /\ \A u \in Turns \ {t} : phase'[u] = phase[u]
    BY <1>3 DEF LeaveOutbound, WriteInv, TypeOK
  <2>2. \A b \in Bidis : /\ outbound'[b].state = outbound[b].state
                         /\ outbound[b].writers \ {t} \subseteq outbound'[b].writers
    BY <1>3 DEF LeaveOutbound, WriteInv, TypeOK, PopWriter, OutboundOf
  <2>3. UnspawnedIsBlank'
    BY <2>1 DEF WriteInv, UnspawnedIsBlank
  <2>4. RunnersWrite'
    BY <2>1, <2>2 DEF WriteInv, RunnersWrite, IsOpen
  <2> QED BY <1>0, <2>3, <2>4 DEF WriteInv
<1>4. ASSUME NEW t \in Turns, NEW ok \in BOOLEAN, CommitTerminal(t, ok) PROVE WriteInv'
  <2>1. /\ UNCHANGED <<info, outbound>> /\ phase[t] = "finalizing" /\ phase'[t] = "done"
        /\ \A u \in Turns \ {t} : phase'[u] = phase[u]
    BY <1>4 DEF CommitTerminal, WriteInv, TypeOK
  <2>2. UnspawnedIsBlank'
    BY <2>1 DEF WriteInv, UnspawnedIsBlank
  <2>3. RunnersWrite'
    BY <2>1 DEF WriteInv, RunnersWrite, IsOpen
  <2> QED BY <1>0, <2>2, <2>3 DEF WriteInv
<1>5. ASSUME NEW b \in Bidis, SealBidi(b) PROVE WriteInv'
  <2>1. outbound'[b].state # "open" /\ \A c \in Bidis \ {b} : outbound'[c] = outbound[c]
    BY <1>5 DEF SealBidi, WriteInv, TypeOK, BeginSeal, IsOpen, OutboundOf
  <2> QED BY <1>5, <1>q, <2>1 DEF SealBidi, IsOpen
<1>6. ASSUME NEW b \in Bidis, CloseOutbound(b) PROVE WriteInv'
  <2>1. \/ outbound'[b] = FinishSeal(outbound[b])
        \/ outbound'[b] = ForceFinishSeal(outbound[b])
    BY <1>6 DEF CloseOutbound, WriteInv, TypeOK
  <2>2. outbound[b] \in OutboundOf(Turns)
    BY DEF WriteInv, TypeOK
  <2>3. outbound'[b].state # "open"
    BY <2>1, <2>2 DEF FinishSeal, ForceFinishSeal, OutboundOf
  <2>4. \A c \in Bidis \ {b} : outbound'[c] = outbound[c]
    BY <1>6 DEF CloseOutbound, WriteInv, TypeOK
  <2> QED BY <1>6, <1>q, <2>3, <2>4 DEF CloseOutbound, IsOpen
<1>7. CASE UNCHANGED <<info, phase, outbound>>
  BY <1>7, <1>q DEF IsOpen
<1>8. ASSUME NEW b \in Bidis, UnwindBidi(b) PROVE WriteInv'
  BY <1>6, <1>7, <1>8 DEF UnwindBidi, TerminalsResolve, WritersDrain
<1>9. ASSUME NEW t \in Turns, DriveRunner(t) PROVE WriteInv'
  BY <1>2, <1>3, <1>4, <1>9 DEF DriveRunner
<1> QED BY <1>1, <1>5, <1>7, <1>8, <1>9
        DEF Next, vars, CancelTurn, CancelConversation, BeginUnwind, EndUnwind

\* A running turn of an open attachment can write, whatever other turns of the
\* attachment come and go: withWriter pushes in the section that registers the
\* turn and pops only after the runner, and nobody else touches its entry.
THEOREM WritersAreRunners == Spec => []RunningTurnsCanWrite
<1>1. Init => WriteInv
  BY InitHasTypes, AbsentAssumption
     DEF Init, WriteInv, UnspawnedIsBlank, RunnersWrite, FreshOutbound, NoInfo
<1>2. WriteInv => RunningTurnsCanWrite
  BY DEF WriteInv, RunnersWrite, RunningTurnsCanWrite, IsActiveTurnOwner, MayWrite, IsOpen
<1> QED BY <1>1, <1>2, StepKeepsWriteInv, PTL DEF Spec

\* umbrellaByBidi names a turn of the attachment.
UmbrellaFits == \A b \in Bidis : umbrella[b] # NoTurn => info[umbrella[b]].bidi = b

\* u is the umbrella of b, and can leave umbrellaByBidi only once aborted.
IsRootOf(u, b) ==
    /\ info[u].bidi = b
    /\ u \in aborted \/ (phase[u] = "running" /\ info[u].kind = "umbrella" /\ umbrella[b] = u)

\* Every turn ever spawned on an attachment descends from one root.
TurnsHaveRoot ==
    \A t \in Turns : \A b \in Bidis : info[t].bidi = b =>
        \E u \in Turns : IsRootOf(u, b) /\ u \in {t} \cup info[t].chain

RootInv == AbortInv /\ UmbrellaFits /\ TurnsHaveRoot

\* A turn that is not aborted has a root that is not aborted either, which is
\* the registered umbrella.
LEMMA LiveRoot ==
    ASSUME RootInv, NEW t \in Turns, NEW b \in Bidis, info[t].bidi = b, t \notin aborted
    PROVE  /\ umbrella[b] \in {t} \cup info[t].chain
           /\ umbrella[b] \in Turns
           /\ phase[umbrella[b]] = "running"
<1>1. PICK u \in Turns : IsRootOf(u, b) /\ u \in {t} \cup info[t].chain
  BY DEF RootInv, TurnsHaveRoot
<1>2. u \notin aborted
  BY <1>1 DEF RootInv, AbortInv, AbortReachesDescendants, Aborted
<1> QED BY <1>1, <1>2 DEF IsRootOf

\* A step that spawns nothing: a root stays a root.
LEMMA RootStays ==
    ASSUME RootInv, AbortInv', UNCHANGED info, aborted \subseteq aborted',
           \A b \in Bidis : umbrella'[b] \in {umbrella[b], NoTurn},
           \A b \in Bidis : \A u \in Turns : IsRootOf(u, b) => IsRootOf(u, b)'
    PROVE  RootInv'
<1>1. UmbrellaFits'
  BY DEF RootInv, UmbrellaFits
<1>2. TurnsHaveRoot'
  BY DEF RootInv, TurnsHaveRoot
<1> QED BY <1>1, <1>2 DEF RootInv

\* Spawning on an attachment: its first turn becomes the root; any other is
\* spawned under a turn that is not aborted, or under the umbrella itself.
LEMMA SpawnKeepsRootInv ==
    ASSUME RootInv, AbortInv', NEW t \in Turns, NEW kind,
           NEW b \in Bidis \cup {NoBidi}, NEW p \in Turns \cup {NoTurn},
           Spawn(t, kind, b, p),
           b # NoBidi /\ p = NoTurn =>
               kind = "umbrella" /\ \A u \in Turns : info[u].bidi # b,
           b # NoBidi /\ p # NoTurn => umbrella[b] \in {p} \cup info[p].chain,
           b # NoBidi /\ p # NoTurn =>
               umbrella[b] \in Turns /\ IsRootOf(umbrella[b], b)
    PROVE  RootInv'
<1>1. /\ info'[t].bidi = b /\ info'[t].kind = kind
      /\ info'[t].chain = IF p = NoTurn THEN {} ELSE {p} \cup info[p].chain
      /\ phase'[t] = "running" /\ phase[t] = "unspawned"
      /\ \A u \in Turns \ {t} : info'[u] = info[u] /\ phase'[u] = phase[u]
      /\ aborted \subseteq aborted' /\ aborted' \subseteq aborted \cup {t}
  BY DEF Spawn, RootInv, AbortInv, TypeOK
<1>2. info[t].bidi = NoBidi /\ umbrella \in [Bidis -> Turns \cup {NoTurn}]
  BY <1>1 DEF RootInv, AbortInv, ChainsClosed, NoInfo, TypeOK
<1>3. \A c \in Bidis : umbrella[c] # t
  BY <1>2, AbsentAssumption DEF RootInv, UmbrellaFits
<1>4. \A c \in Bidis : umbrella'[c] = IF c = b /\ p = NoTurn /\ umbrella[c] = NoTurn
                                        THEN t ELSE umbrella[c]
  BY <1>2, AbsentAssumption DEF Spawn
<1>5. UmbrellaFits'
  BY <1>1, <1>2, <1>3, <1>4 DEF RootInv, UmbrellaFits
<1>6. ASSUME NEW c \in Bidis, NEW u \in Turns, IsRootOf(u, c) PROVE IsRootOf(u, c)'
  <2>1. u # t
    BY <1>2, <1>6, AbsentAssumption DEF IsRootOf
  <2>2. umbrella[c] = u => umbrella'[c] = u
    BY <1>4, AbsentAssumption
  <2> QED BY <1>1, <1>6, <2>1, <2>2 DEF IsRootOf
<1>7. TurnsHaveRoot'
  <2> SUFFICES ASSUME NEW s \in Turns, NEW c \in Bidis, info'[s].bidi = c
               PROVE  \E u \in Turns : IsRootOf(u, c)' /\ u \in {s} \cup info'[s].chain
    BY DEF TurnsHaveRoot
  <2>1. CASE s # t
    BY <1>1, <1>6, <2>1 DEF RootInv, TurnsHaveRoot
  <2>2. CASE s = t /\ p # NoTurn
    <3>1. c = b /\ b # NoBidi
      BY <1>1, <2>2, AbsentAssumption
    <3>2. umbrella[b] \in Turns /\ IsRootOf(umbrella[b], b)
      BY <2>2, <3>1
    <3>3. IsRootOf(umbrella[b], b)'
      <4> DEFINE u == umbrella[b]
      <4>1. u \in Turns /\ IsRootOf(u, b) /\ b \in Bidis
        BY <3>1, <3>2
      <4>2. u # t
        BY <1>2, <4>1, AbsentAssumption DEF IsRootOf
      <4>3. umbrella'[b] = u
        BY <1>4, <2>2, <3>1
      <4> QED BY <1>1, <4>1, <4>2, <4>3 DEF IsRootOf
    <3>4. umbrella[b] \in info'[t].chain
      BY <1>1, <2>2, <3>1
    <3> QED BY <2>2, <3>1, <3>2, <3>3, <3>4, <1>4
  <2>3. CASE s = t /\ p = NoTurn
    <3>1. c = b /\ b # NoBidi /\ b \in Bidis
      BY <1>1, <2>3, AbsentAssumption
    <3>2. umbrella[b] = NoTurn
      BY <1>2, <2>3, <3>1 DEF RootInv, UmbrellaFits
    <3>3. umbrella'[b] = t
      BY <1>4, <2>3, <3>1, <3>2
    <3>4. IsRootOf(t, b)'
      BY <1>1, <2>3, <3>1, <3>3 DEF IsRootOf
    <3> QED BY <2>3, <3>1, <3>4
  <2> QED BY <2>1, <2>2, <2>3
<1> QED BY <1>5, <1>7 DEF RootInv

LEMMA StepKeepsRootInv == RootInv /\ [Next]_vars => RootInv'
<1> SUFFICES ASSUME RootInv, [Next]_vars PROVE RootInv'
  OBVIOUS
<1>0. AbortInv'
  BY StepKeepsAbortInv DEF RootInv
<1>t. TypeOK
  BY DEF RootInv, AbortInv
<1>q. ASSUME UNCHANGED <<info, phase, umbrella>>, aborted \subseteq aborted' PROVE RootInv'
  BY <1>0, <1>q, RootStays DEF IsRootOf
<1>1. ASSUME NEW t \in Turns, SpawnAny(t) PROVE RootInv'
  <2>1. ASSUME NEW b \in Bidis, AttachBidi(t, b) PROVE RootInv'
    BY <1>0, <2>1, SpawnKeepsRootInv DEF AttachBidi
  <2>2. ASSUME NEW c \in Turns, IsActiveTurnOwner(c)
        PROVE  LET b == info[c].bidi
               IN  /\ b \in Bidis /\ b # NoBidi
                   /\ umbrella[b] \in {c} \cup info[c].chain
                   /\ umbrella[b] \in Turns /\ umbrella[b] # NoTurn
                   /\ IsRootOf(umbrella[b], b)
    <3> DEFINE b == info[c].bidi
    <3>1. b \in Bidis /\ c \notin aborted
      BY <2>2 DEF IsActiveTurnOwner, Aborted
    <3>2. /\ umbrella[b] \in {c} \cup info[c].chain
          /\ umbrella[b] \in Turns /\ phase[umbrella[b]] = "running"
      BY <3>1, LiveRoot
    <3>3. PICK u \in Turns : IsRootOf(u, b) /\ u \in {c} \cup info[c].chain
      BY <3>1 DEF RootInv, TurnsHaveRoot
    <3>4. u \notin aborted
      BY <3>1, <3>3 DEF RootInv, AbortInv, AbortReachesDescendants, Aborted
    <3>5. umbrella[b] = u
      BY <3>3, <3>4 DEF IsRootOf
    <3> QED BY <3>1, <3>2, <3>3, <3>5, AbsentAssumption
  <2>3. ASSUME NEW c \in Turns, SpawnChat(t, c) PROVE RootInv'
    <3> DEFINE b == info[c].bidi
    <3>1. /\ b \in Bidis /\ umbrella[b] \in Turns /\ umbrella[b] # NoTurn
          /\ IsRootOf(umbrella[b], b) /\ Spawn(t, "chat", b, umbrella[b])
      BY <2>2, <2>3 DEF SpawnChat
    <3> QED BY <1>0, <3>1, SpawnKeepsRootInv
  <2>4. ASSUME NEW c \in Turns, SpawnSubagent(t, c) PROVE RootInv'
    <3> DEFINE b == info[c].bidi
    <3>1. /\ b \in Bidis /\ umbrella[b] \in Turns
          /\ umbrella[b] \in {c} \cup info[c].chain
          /\ IsRootOf(umbrella[b], b) /\ Spawn(t, "subagent", b, c) /\ c # NoTurn
      BY <2>2, <2>4, AbsentAssumption DEF SpawnSubagent
    <3> QED BY <1>0, <3>1, SpawnKeepsRootInv
  <2>5. ASSUME NEW c \in Turns \cup {NoTurn}, SpawnCompaction(t, c) PROVE RootInv'
    BY <1>0, <2>5, SpawnKeepsRootInv DEF SpawnCompaction
  <2>6. CASE SpawnBackground(t)
    BY <1>0, <2>6, SpawnKeepsRootInv DEF SpawnBackground
  <2> QED BY <1>1, <2>1, <2>3, <2>4, <2>5, <2>6 DEF SpawnAny
<1>2. ASSUME NEW t \in Turns, DriveRunner(t) PROVE RootInv'
  <2>1. UNCHANGED <<info, aborted>> /\ \A u \in Turns \ {t} : phase'[u] = phase[u]
    BY <1>2, <1>t DEF DriveRunner, RunnerSettles, LeaveOutbound, CommitTerminal, TypeOK
  <2>2. \A b \in Bidis : \/ umbrella'[b] = umbrella[b]
                         \/ phase[t] # "running" /\ umbrella[b] = t /\ umbrella'[b] = NoTurn
    BY <1>2 DEF DriveRunner, RunnerSettles, LeaveOutbound, CommitTerminal
  <2>3. phase[t] = "running" => info[t].kind # "umbrella" \/ t \in aborted
    BY <1>2 DEF DriveRunner, RunnerSettles, LeaveOutbound, CommitTerminal, Aborted
  <2>4. ASSUME NEW b \in Bidis, NEW u \in Turns, IsRootOf(u, b) PROVE IsRootOf(u, b)'
    <3>1. CASE u \in aborted
      BY <2>1, <2>4, <3>1 DEF IsRootOf
    <3>2. CASE u \notin aborted
      <4>1. u # t
        BY <2>3, <2>4, <3>2, <1>2
           DEF IsRootOf, DriveRunner, RunnerSettles, LeaveOutbound, CommitTerminal
      <4> QED BY <2>1, <2>2, <2>4, <3>2, <4>1 DEF IsRootOf
    <3> QED BY <3>1, <3>2
  <2> QED BY <1>0, <2>1, <2>2, <2>4, RootStays
<1>3. ASSUME NEW T, CancelAll(T), UNCHANGED <<info, phase, umbrella>> PROVE RootInv'
  BY <1>q, <1>3 DEF CancelAll
<1>4. ASSUME NEW b \in Bidis, SealBidi(b) \/ UnwindBidi(b) PROVE RootInv'
  BY <1>q, <1>3, <1>4 DEF SealBidi, UnwindBidi, TerminalsResolve, WritersDrain, CloseOutbound
<1>5. ASSUME NEW t \in Turns, CancelTurn(t) \/ BeginUnwind(t) \/ EndUnwind(t) PROVE RootInv'
  BY <1>q, <1>3, <1>5 DEF CancelTurn, BeginUnwind, EndUnwind
<1>6. CASE CancelConversation
  BY <1>3, <1>6 DEF CancelConversation
<1>7. CASE UNCHANGED vars
  BY <1>q, <1>7 DEF vars
<1> QED BY <1>1, <1>2, <1>4, <1>5, <1>6, <1>7 DEF Next

\* Who may act on an attachment hangs from its registered umbrella: a close,
\* which cancels the roots only, reaches everyone who could still write, spawn
\* or dispatch there, for every tree and every order of terminals.
THEOREM LiveTurnsHang == Spec => []LiveTurnsHangFromUmbrella
<1>1. Init => RootInv
  <2>1. Init => AbortInv
    BY InitHasTypes DEF Init, NoInfo, AbortInv, ChainsClosed, AbortReachesDescendants, Aborted
  <2> QED BY <2>1, AbsentAssumption DEF Init, NoInfo, RootInv, UmbrellaFits, TurnsHaveRoot
<1>2. RootInv => LiveTurnsHangFromUmbrella
  <2> SUFFICES ASSUME RootInv, NEW t \in Turns, IsActiveTurnOwner(t)
               PROVE  LET u == umbrella[info[t].bidi]
                      IN  u \in Turns /\ HasTurn(u) /\ (t = u \/ u \in info[t].chain)
    BY DEF LiveTurnsHangFromUmbrella
  <2>1. info[t].bidi \in Bidis /\ t \notin aborted
    BY DEF IsActiveTurnOwner, Aborted
  <2> QED BY <2>1, LiveRoot DEF HasTurn
<1> QED BY <1>1, <1>2, StepKeepsRootInv, PTL DEF Spec

-----------------------------------------------------------------------------
(* The promise about attachments.                                          *)

MembersOf(b) == {t \in Turns : info[t].bidi = b}
StateOf(b)   == IF MembersOf(b) = {} THEN "new" ELSE outbound[b].state
RootOf(b)    == IF StateOf(b) = "open" THEN umbrella[b] ELSE NoTurn
LiveOf(b)    == {t \in TurnsOf(b) : ~Aborted(t)}
EndingOf(b)  == {t \in TurnsOf(b) : Aborted(t)}
OverOf(b)    == {t \in MembersOf(b) : phase[t] = "done"}

\* u is a live umbrella of b with nothing above it.
LivesAsRoot(u, b) ==
    /\ u \in Turns /\ u \notin aborted /\ phase[u] = "running"
    /\ info[u] = [kind |-> "umbrella", bidi |-> b, parent |-> NoTurn, chain |-> {}]

\* An attachment that is open has a root that lives.
OpenRootLives ==
    \A b \in Bidis : MembersOf(b) # {} /\ IsOpen(outbound[b]) => LivesAsRoot(umbrella[b], b)

\* One that is not has begun to close, and all its turns are aborted.
ClosingSilences ==
    \A b \in Bidis : ~IsOpen(outbound[b]) =>
        /\ seal[b].pc # "idle"
        /\ \A t \in TurnsOf(b) : t \in aborted

\* An abort hits registered turns and what hangs from them.
UnspawnedUnaborted == \A t \in Turns : phase[t] = "unspawned" => t \notin aborted

AttachmentInv ==
    CloseInv /\ RootInv /\ OpenRootLives /\ ClosingSilences /\ UnspawnedUnaborted

\* What is to be shown of every step and attachment.
Advances(b) == Seen'[b] = Seen[b] \/ Promise!Step(Seen[b], Seen'[b])
Keeps(b) ==
    /\ Advances(b)
    /\ MembersOf(b)' # {} /\ IsOpen(outbound'[b]) => LivesAsRoot(umbrella[b], b)'
    /\ ~IsOpen(outbound'[b]) => /\ seal'[b].pc # "idle"
                                /\ \A t \in TurnsOf(b)' : t \in aborted'

LEMMA SeenIs ==
    ASSUME NEW b \in Bidis
    PROVE  /\ Seen[b] = [state |-> StateOf(b), root |-> RootOf(b), live |-> LiveOf(b),
                         ending |-> EndingOf(b), over |-> OverOf(b)]
           /\ Seen'[b] = [state |-> StateOf(b)', root |-> RootOf(b)', live |-> LiveOf(b)',
                          ending |-> EndingOf(b)', over |-> OverOf(b)']
BY DEF Seen, Shown, StateOf, RootOf, LiveOf, EndingOf, OverOf, MembersOf

LEMMA SeenHas ==
    ASSUME NEW b \in Bidis
    PROVE  /\ Seen[b].state = StateOf(b) /\ Seen[b].root = RootOf(b)
           /\ Seen[b].live = LiveOf(b) /\ Seen[b].ending = EndingOf(b)
           /\ Seen[b].over = OverOf(b)
<1>1. Seen[b] = [state |-> StateOf(b), root |-> RootOf(b), live |-> LiveOf(b),
                 ending |-> EndingOf(b), over |-> OverOf(b)]
  BY SeenIs
<1> QED BY <1>1

\* A member was spawned; it is registered or over.
LEMMA MembersAre ==
    ASSUME AttachmentInv, NEW b \in Bidis
    PROVE  /\ MembersOf(b) = LiveOf(b) \cup EndingOf(b) \cup OverOf(b)
           /\ \A t \in Turns : phase[t] = "unspawned" => info[t].bidi = NoBidi
<1>1. \A t \in Turns : phase[t] = "unspawned" => info[t].bidi = NoBidi
  BY DEF AttachmentInv, CloseInv, UnspawnedIsBlank, NoInfo
<1>2. \A t \in MembersOf(b) : HasTurn(t) \/ phase[t] = "done"
  BY <1>1, AbsentAssumption DEF AttachmentInv, CloseInv, TypeOK, Phases, HasTurn, MembersOf
<1> QED BY <1>1, <1>2 DEF MembersOf, LiveOf, EndingOf, OverOf, TurnsOf

\* A step that leaves everything of an attachment alone but how far its turns
\* are from being done.
LEMMA SameAttachment ==
    ASSUME AttachmentInv, NEW b \in Bidis,
           MembersOf(b)' = MembersOf(b),
           \A t \in MembersOf(b) : /\ HasTurn(t)' = HasTurn(t)
                                   /\ (phase'[t] = "done") = (phase[t] = "done")
                                   /\ (t \in aborted') = (t \in aborted)
                                   /\ info'[t] = info[t],
           outbound'[b].state = outbound[b].state,
           seal'[b].pc = "idle" => seal[b].pc = "idle",
           MembersOf(b) # {} /\ IsOpen(outbound[b]) =>
               umbrella'[b] = umbrella[b] /\ phase'[umbrella[b]] = "running"
    PROVE  Keeps(b)
<1>1. StateOf(b)' = StateOf(b)
  BY DEF StateOf
<1>2. TurnsOf(b) \subseteq MembersOf(b) /\ TurnsOf(b)' \subseteq MembersOf(b)'
  BY DEF TurnsOf, MembersOf
<1>3. TurnsOf(b)' = TurnsOf(b)
  BY DEF TurnsOf, MembersOf
<1>4. LiveOf(b)' = LiveOf(b) /\ EndingOf(b)' = EndingOf(b)
  BY <1>2, <1>3 DEF LiveOf, EndingOf, Aborted
<1>5. OverOf(b)' = OverOf(b)
  BY DEF OverOf
<1>6. RootOf(b)' = RootOf(b)
  BY <1>1 DEF RootOf, StateOf, IsOpen
<1>7. Advances(b)
  BY <1>1, <1>4, <1>5, <1>6, SeenIs DEF Advances
<1>8. ASSUME MembersOf(b)' # {}, IsOpen(outbound'[b]) PROVE LivesAsRoot(umbrella[b], b)'
  <2>1. MembersOf(b) # {} /\ IsOpen(outbound[b]) /\ LivesAsRoot(umbrella[b], b)
    BY <1>8 DEF IsOpen, AttachmentInv, OpenRootLives
  <2>2. umbrella[b] \in MembersOf(b)
    BY <2>1 DEF LivesAsRoot, MembersOf
  <2> QED BY <2>1, <2>2 DEF LivesAsRoot
<1>9. ~IsOpen(outbound'[b]) => /\ seal'[b].pc # "idle"
                               /\ \A t \in TurnsOf(b)' : t \in aborted'
  BY <1>2, <1>3 DEF IsOpen, AttachmentInv, ClosingSilences
<1> QED BY <1>7, <1>8, <1>9 DEF Keeps

\* A cancel that does not hit the root.
LEMMA CancelledAttachment ==
    ASSUME AttachmentInv, NEW b \in Bidis,
           UNCHANGED <<info, phase, umbrella>>, aborted \subseteq aborted',
           outbound'[b] = outbound[b], seal'[b] = seal[b],
           LivesAsRoot(umbrella[b], b) => umbrella[b] \notin aborted'
    PROVE  Keeps(b)
<1> DEFINE S == LiveOf(b) \cap aborted'
<1>1. MembersOf(b)' = MembersOf(b) /\ TurnsOf(b)' = TurnsOf(b) /\ OverOf(b)' = OverOf(b)
  BY DEF MembersOf, TurnsOf, HasTurn, OverOf
<1>2. StateOf(b)' = StateOf(b) /\ RootOf(b)' = RootOf(b)
  BY <1>1 DEF StateOf, RootOf
<1>3. LiveOf(b)' = LiveOf(b) \ S /\ EndingOf(b)' = EndingOf(b) \cup S
  BY <1>1 DEF LiveOf, EndingOf, Aborted
<1>4. RootOf(b) \notin S
  <2>1. CASE StateOf(b) = "open"
    <3>1. LivesAsRoot(umbrella[b], b)
      BY <2>1 DEF StateOf, AttachmentInv, OpenRootLives, IsOpen
    <3> QED BY <2>1, <3>1 DEF RootOf
  <2>2. CASE StateOf(b) # "open"
    BY <2>2, AbsentAssumption DEF RootOf, LiveOf, TurnsOf
  <2> QED BY <2>1, <2>2
<1>5. S \in SUBSET (LiveOf(b) \ {RootOf(b)})
  BY <1>4
<1> HIDE DEF S
<1>6. Promise!Cancelled(Seen[b], Seen'[b])
  <2>1. Seen'[b] = [state |-> StateOf(b), root |-> RootOf(b), live |-> LiveOf(b) \ S,
                    ending |-> EndingOf(b) \cup S, over |-> OverOf(b)]
    BY <1>1, <1>2, <1>3, SeenIs
  <2> QED BY <2>1, <1>5, SeenHas DEF Promise!Cancelled
<1>7. MembersOf(b)' # {} /\ IsOpen(outbound'[b]) => LivesAsRoot(umbrella[b], b)'
  BY <1>1 DEF AttachmentInv, OpenRootLives, LivesAsRoot
<1>8. ~IsOpen(outbound'[b]) => /\ seal'[b].pc # "idle"
                               /\ \A t \in TurnsOf(b)' : t \in aborted'
  BY <1>1 DEF AttachmentInv, ClosingSilences
<1> QED BY <1>6, <1>7, <1>8 DEF Keeps, Advances, Promise!Step


\* A turn that is spawned on an attachment.
LEMMA SpawnShows ==
    ASSUME AttachmentInv, NEW t \in Turns, NEW kind, NEW b \in Bidis, NEW p,
           Spawn(t, kind, b, p), p \notin aborted
    PROVE  /\ t \notin MembersOf(b) /\ t \notin aborted
           /\ MembersOf(b)' = MembersOf(b) \cup {t}
           /\ LiveOf(b)' = LiveOf(b) \cup {t}
           /\ EndingOf(b)' = EndingOf(b) /\ OverOf(b)' = OverOf(b)
           /\ outbound'[b].state = outbound[b].state
           /\ phase'[t] = "running" /\ aborted' = aborted /\ seal' = seal
           /\ \A u \in Turns \ {t} : info'[u] = info[u] /\ phase'[u] = phase[u]
<1>1. /\ info'[t] = [kind |-> kind, bidi |-> b, parent |-> p,
                     chain |-> IF p = NoTurn THEN {} ELSE {p} \cup info[p].chain]
      /\ phase[t] = "unspawned" /\ phase'[t] = "running" /\ aborted' = aborted /\ seal' = seal
      /\ \A u \in Turns \ {t} : info'[u] = info[u] /\ phase'[u] = phase[u]
  BY DEF Spawn, AttachmentInv, CloseInv, TypeOK
<1>2. outbound'[b].state = outbound[b].state
  BY AbsentAssumption DEF Spawn, AttachmentInv, CloseInv, TypeOK, PushWriter, OutboundOf
<1>3. t \notin MembersOf(b) /\ t \notin aborted
  BY <1>1, MembersAre, AbsentAssumption DEF AttachmentInv, UnspawnedUnaborted, MembersOf
<1>4. MembersOf(b)' = MembersOf(b) \cup {t}
  BY <1>1 DEF MembersOf
<1>5. TurnsOf(b)' = TurnsOf(b) \cup {t} /\ t \notin TurnsOf(b)
  BY <1>1, <1>3 DEF TurnsOf, HasTurn, MembersOf
<1>6. LiveOf(b)' = LiveOf(b) \cup {t} /\ EndingOf(b)' = EndingOf(b)
  BY <1>1, <1>3, <1>5 DEF LiveOf, EndingOf, Aborted
<1>7. OverOf(b)' = OverOf(b)
  BY <1>1, <1>3, <1>4 DEF OverOf, MembersOf
<1> QED BY <1>1, <1>2, <1>3, <1>4, <1>6, <1>7

\* The first turn of an attachment becomes its root.
LEMMA AttachOpens ==
    ASSUME AttachmentInv, NEW t \in Turns, NEW b \in Bidis, AttachBidi(t, b)
    PROVE  Keeps(b)
<1>1. Spawn(t, "umbrella", b, NoTurn) /\ MembersOf(b) = {} /\ NoTurn \notin aborted
  BY AbsentAssumption DEF AttachBidi, MembersOf, AttachmentInv, CloseInv, TypeOK
<1>2. IsOpen(outbound[b])
  BY <1>1 DEF AttachmentInv, ClosingSilences, CloseInv, CloseKnowsTurns, MembersOf
<1>3. umbrella[b] = NoTurn
  BY <1>1 DEF AttachmentInv, RootInv, UmbrellaFits, CloseInv, TypeOK, MembersOf
<1>4. umbrella'[b] = t
  BY <1>1, <1>3, AbsentAssumption DEF Spawn, AttachmentInv, CloseInv, TypeOK
<1>5. /\ MembersOf(b)' = {t} /\ t \notin aborted
      /\ LiveOf(b)' = LiveOf(b) \cup {t} /\ EndingOf(b)' = EndingOf(b) /\ OverOf(b)' = OverOf(b)
      /\ outbound'[b].state = "open" /\ phase'[t] = "running" /\ aborted' = aborted
  <2>1. /\ MembersOf(b)' = MembersOf(b) \cup {t} /\ t \notin aborted
        /\ LiveOf(b)' = LiveOf(b) \cup {t}
        /\ EndingOf(b)' = EndingOf(b) /\ OverOf(b)' = OverOf(b)
        /\ outbound'[b].state = outbound[b].state
        /\ phase'[t] = "running" /\ aborted' = aborted
    BY <1>1, SpawnShows
  <2> QED BY <1>1, <1>2, <2>1 DEF IsOpen
<1>6. LiveOf(b) = {} /\ EndingOf(b) = {} /\ OverOf(b) = {}
  BY <1>1, MembersAre
<1>7. StateOf(b) = "new" /\ StateOf(b)' = "open" /\ RootOf(b)' = t
  BY <1>1, <1>4, <1>5 DEF StateOf, RootOf
<1>8. Promise!Opened(Seen[b], Seen'[b])
  <2>1. Seen'[b] = [state |-> "open", root |-> t, live |-> {t}, ending |-> {}, over |-> {}]
    BY <1>5, <1>6, <1>7, SeenIs
  <2> QED BY <2>1, <1>7, SeenHas DEF Promise!Opened
<1>9. LivesAsRoot(umbrella[b], b)'
  <2>1. info'[t] = [kind |-> "umbrella", bidi |-> b, parent |-> NoTurn, chain |-> {}]
    BY <1>1 DEF Spawn, AttachmentInv, CloseInv, TypeOK
  <2> QED BY <1>4, <1>5, <2>1 DEF LivesAsRoot
<1> QED BY <1>5, <1>8, <1>9 DEF Keeps, Advances, Promise!Step, IsOpen

\* Any other is spawned under a turn that is not aborted, and joins.
LEMMA SpawnJoins ==
    ASSUME AttachmentInv, NEW t \in Turns, NEW kind, NEW b \in Bidis, NEW p \in Turns,
           Spawn(t, kind, b, p), p \notin aborted, IsOpen(outbound[b]), MembersOf(b) # {}
    PROVE  Keeps(b)
<1>1. umbrella'[b] = umbrella[b]
  BY AbsentAssumption DEF Spawn
<1>2. /\ t \notin MembersOf(b)
      /\ MembersOf(b)' = MembersOf(b) \cup {t}
      /\ LiveOf(b)' = LiveOf(b) \cup {t} /\ EndingOf(b)' = EndingOf(b) /\ OverOf(b)' = OverOf(b)
      /\ outbound'[b].state = "open" /\ aborted' = aborted
      /\ \A u \in Turns \ {t} : info'[u] = info[u] /\ phase'[u] = phase[u]
  <2>1. /\ t \notin MembersOf(b)
        /\ MembersOf(b)' = MembersOf(b) \cup {t}
        /\ LiveOf(b)' = LiveOf(b) \cup {t}
        /\ EndingOf(b)' = EndingOf(b) /\ OverOf(b)' = OverOf(b)
        /\ outbound'[b].state = outbound[b].state /\ aborted' = aborted
        /\ \A u \in Turns \ {t} : info'[u] = info[u] /\ phase'[u] = phase[u]
    BY SpawnShows
  <2> QED BY <2>1 DEF IsOpen
<1>3. t \in Turns \ (LiveOf(b) \cup EndingOf(b) \cup OverOf(b))
  BY <1>2, MembersAre
<1>4. /\ StateOf(b) = "open" /\ StateOf(b)' = "open" /\ RootOf(b)' = RootOf(b)
  BY <1>1, <1>2 DEF StateOf, RootOf, IsOpen
<1>5. Promise!Joined(Seen[b], Seen'[b])
  <2>1. Seen'[b] = [state |-> "open", root |-> RootOf(b), live |-> LiveOf(b) \cup {t},
                    ending |-> EndingOf(b), over |-> OverOf(b)]
    BY <1>2, <1>4, SeenIs
  <2> QED BY <2>1, <1>3, <1>4, SeenHas DEF Promise!Joined
<1>6. LivesAsRoot(umbrella[b], b)'
  <2>1. LivesAsRoot(umbrella[b], b)
    BY DEF AttachmentInv, OpenRootLives
  <2>2. umbrella[b] # t
    BY <1>2, <2>1 DEF LivesAsRoot, MembersOf
  <2> QED BY <1>1, <1>2, <2>1, <2>2 DEF LivesAsRoot
<1> QED BY <1>2, <1>5, <1>6 DEF Keeps, Advances, Promise!Step, IsOpen

\* The other attachments do not notice.
LEMMA SpawnElsewhere ==
    ASSUME AttachmentInv, NEW t \in Turns, NEW kind, NEW b, NEW p,
           Spawn(t, kind, b, p), NEW c \in Bidis, c # b
    PROVE  Keeps(c)
<1>1. /\ info'[t].bidi = b /\ phase[t] = "unspawned"
      /\ \A u \in Turns \ {t} : /\ info'[u] = info[u] /\ phase'[u] = phase[u]
                                /\ (u \in aborted') = (u \in aborted)
  BY DEF Spawn, AttachmentInv, CloseInv, TypeOK
<1>2. t \notin MembersOf(c)
  BY <1>1, MembersAre, AbsentAssumption DEF MembersOf
<1>3. MembersOf(c)' = MembersOf(c)
  BY <1>1, <1>2 DEF MembersOf
<1>4. outbound'[c] = outbound[c] /\ seal' = seal /\ umbrella'[c] = umbrella[c]
  BY DEF Spawn, AttachmentInv, CloseInv, TypeOK
<1>5. \A u \in MembersOf(c) : /\ HasTurn(u)' = HasTurn(u)
                              /\ (phase'[u] = "done") = (phase[u] = "done")
                              /\ (u \in aborted') = (u \in aborted)
                              /\ info'[u] = info[u]
  BY <1>1, <1>2 DEF MembersOf, HasTurn
<1>6. MembersOf(c) # {} /\ IsOpen(outbound[c]) => phase'[umbrella[c]] = "running"
  BY <1>1 DEF AttachmentInv, OpenRootLives, LivesAsRoot
<1> QED BY <1>3, <1>4, <1>5, <1>6, SameAttachment

LEMMA SpawnKeeps ==
    ASSUME AttachmentInv, NEW t \in Turns, SpawnAny(t), NEW c \in Bidis
    PROVE  Keeps(c)
<1>1. ASSUME NEW b \in Bidis, AttachBidi(t, b) PROVE Keeps(c)
  BY <1>1, AttachOpens, SpawnElsewhere DEF AttachBidi
<1>2. ASSUME NEW u \in Turns, IsActiveTurnOwner(u)
      PROVE  /\ info[u].bidi \in Bidis /\ u \notin aborted
             /\ IsOpen(outbound[info[u].bidi]) /\ MembersOf(info[u].bidi) # {}
             /\ umbrella[info[u].bidi] \in Turns \ aborted
  <2>1. /\ info[u].bidi \in Bidis /\ u \notin aborted
        /\ IsOpen(outbound[info[u].bidi]) /\ MembersOf(info[u].bidi) # {}
    BY <1>2 DEF IsActiveTurnOwner, Aborted, MembersOf
  <2> QED BY <2>1 DEF AttachmentInv, OpenRootLives, LivesAsRoot
<1>3. ASSUME NEW u \in Turns, SpawnChat(t, u) PROVE Keeps(c)
  <2>1. IsActiveTurnOwner(u) /\ Spawn(t, "chat", info[u].bidi, umbrella[info[u].bidi])
    BY <1>3 DEF SpawnChat
  <2>2. CASE c = info[u].bidi
    BY <1>2, <2>1, <2>2, SpawnJoins
  <2>3. CASE c # info[u].bidi
    BY <2>1, <2>3, SpawnElsewhere
  <2> QED BY <2>2, <2>3
<1>4. ASSUME NEW u \in Turns, SpawnSubagent(t, u) PROVE Keeps(c)
  <2>1. IsActiveTurnOwner(u) /\ Spawn(t, "subagent", info[u].bidi, u)
    BY <1>4 DEF SpawnSubagent
  <2>2. CASE c = info[u].bidi
    BY <1>2, <2>1, <2>2, SpawnJoins
  <2>3. CASE c # info[u].bidi
    BY <2>1, <2>3, SpawnElsewhere
  <2> QED BY <2>2, <2>3
<1>5. ASSUME NEW u \in Turns \cup {NoTurn}, SpawnCompaction(t, u) PROVE Keeps(c)
  BY <1>5, SpawnElsewhere, AbsentAssumption DEF SpawnCompaction
<1>6. CASE SpawnBackground(t)
  BY <1>6, SpawnElsewhere, AbsentAssumption DEF SpawnBackground
<1> QED BY <1>1, <1>3, <1>4, <1>5, <1>6 DEF SpawnAny

\* Runners.  Only the root of an attachment waits for its signal, so that none
\* of these steps is its own as long as the attachment is open.
LEMMA DriveKeeps ==
    ASSUME AttachmentInv, NEW t \in Turns, DriveRunner(t), NEW b \in Bidis
    PROVE  Keeps(b)
<1>1. ASSUME LivesAsRoot(umbrella[b], b) PROVE umbrella[b] # t
  BY <1>1 DEF LivesAsRoot, DriveRunner, RunnerSettles, LeaveOutbound, CommitTerminal, Aborted
<1>2. /\ UNCHANGED <<info, aborted, seal>>
      /\ \A u \in Turns \ {t} : phase'[u] = phase[u]
      /\ umbrella[b] # t => umbrella'[b] = umbrella[b]
  BY DEF DriveRunner, RunnerSettles, LeaveOutbound, CommitTerminal, AttachmentInv,
         CloseInv, TypeOK
<1>3. outbound'[b].state = outbound[b].state
  BY DEF DriveRunner, RunnerSettles, LeaveOutbound, CommitTerminal, AttachmentInv,
         CloseInv, TypeOK, PopWriter, OutboundOf
<1>4. MembersOf(b)' = MembersOf(b)
  BY <1>2 DEF MembersOf
<1>5. MembersOf(b) # {} /\ IsOpen(outbound[b]) =>
          /\ LivesAsRoot(umbrella[b], b)
          /\ umbrella'[b] = umbrella[b] /\ phase'[umbrella[b]] = "running"
  BY <1>1, <1>2 DEF AttachmentInv, OpenRootLives, LivesAsRoot
<1>6. CASE t \notin MembersOf(b) \/ RunnerSettles(t) \/ LeaveOutbound(t)
  <2>1. \A u \in MembersOf(b) : /\ HasTurn(u)' = HasTurn(u)
                                /\ (phase'[u] = "done") = (phase[u] = "done")
    BY <1>2, <1>6 DEF RunnerSettles, LeaveOutbound, HasTurn, MembersOf, AttachmentInv,
                      CloseInv, TypeOK
  <2> QED BY <1>2, <1>3, <1>4, <1>5, <2>1, SameAttachment
<1>7. ASSUME t \in MembersOf(b), NEW ok \in BOOLEAN, CommitTerminal(t, ok) PROVE Keeps(b)
  <2>1. phase[t] = "finalizing" /\ phase'[t] = "done"
    BY <1>7 DEF CommitTerminal, AttachmentInv, CloseInv, TypeOK
  <2>2. TurnsOf(b)' = TurnsOf(b) \ {t} /\ t \in TurnsOf(b)
    BY <1>2, <1>7, <2>1 DEF TurnsOf, HasTurn, MembersOf
  <2>3. /\ LiveOf(b)' = LiveOf(b) \ {t} /\ EndingOf(b)' = EndingOf(b) \ {t}
        /\ OverOf(b)' = OverOf(b) \cup {t} /\ t \in LiveOf(b) \cup EndingOf(b)
    BY <1>2, <1>4, <1>7, <2>1, <2>2 DEF LiveOf, EndingOf, OverOf, Aborted, MembersOf
  <2>4. StateOf(b)' = StateOf(b)
    BY <1>3, <1>4 DEF StateOf
  <2>5. StateOf(b) = "open" => MembersOf(b) # {} /\ IsOpen(outbound[b])
    BY DEF StateOf, IsOpen
  <2>6. RootOf(b)' = RootOf(b) /\ t # RootOf(b)
    BY <1>1, <1>5, <2>4, <2>5, AbsentAssumption DEF RootOf
  <2>7. Promise!Ended(Seen[b], Seen'[b])
    <3>1. Seen'[b] = [state |-> StateOf(b), root |-> RootOf(b), live |-> LiveOf(b) \ {t},
                      ending |-> EndingOf(b) \ {t}, over |-> OverOf(b) \cup {t}]
      BY <2>3, <2>4, <2>6, SeenIs
    <3>2. t \in (LiveOf(b) \cup EndingOf(b)) \ {RootOf(b)}
      BY <2>3, <2>6
    <3> QED BY <3>1, <3>2, SeenHas DEF Promise!Ended
  <2>8. MembersOf(b)' # {} /\ IsOpen(outbound'[b]) => LivesAsRoot(umbrella[b], b)'
    BY <1>2, <1>3, <1>4, <1>5 DEF LivesAsRoot, IsOpen
  <2>9. ~IsOpen(outbound'[b]) => /\ seal'[b].pc # "idle"
                                 /\ \A u \in TurnsOf(b)' : u \in aborted'
    BY <1>2, <1>3, <2>2 DEF IsOpen, AttachmentInv, ClosingSilences
  <2> QED BY <2>7, <2>8, <2>9 DEF Keeps, Advances, Promise!Step
<1> QED BY <1>6, <1>7 DEF DriveRunner

\* A cancel that names no umbrella of the attachment.
LEMMA CancelKeeps ==
    ASSUME AttachmentInv, NEW T, CancelAll(T), UNCHANGED <<info, phase, umbrella>>,
           NEW b \in Bidis, outbound'[b] = outbound[b], seal'[b] = seal[b],
           \A t \in T \cap Turns : info[t].kind # "umbrella" \/ info[t].bidi # b
    PROVE  Keeps(b)
<1>1. aborted \subseteq aborted'
  BY DEF CancelAll
<1>2. ASSUME LivesAsRoot(umbrella[b], b) PROVE umbrella[b] \notin aborted'
  BY <1>2 DEF LivesAsRoot, CancelAll, Below
<1> QED BY <1>1, <1>2, CancelledAttachment

\* The first section of a close: the roots are cancelled, and with them every
\* turn of the attachment.
LEMMA SealKeeps ==
    ASSUME AttachmentInv, NEW b \in Bidis, SealBidi(b), NEW c \in Bidis
    PROVE  Keeps(c)
<1>1. /\ UNCHANGED <<info, phase, umbrella>> /\ CancelAll(BidiRoots(b))
      /\ seal[b].pc = "idle" /\ seal'[b].pc = "terminals" /\ MembersOf(b) # {}
      /\ outbound'[b] = BeginSeal(outbound[b])
      /\ c # b => outbound'[c] = outbound[c] /\ seal'[c] = seal[c]
  BY DEF SealBidi, MembersOf, AttachmentInv, CloseInv, TypeOK
<1>2. CASE c # b
  <2>1. \A t \in BidiRoots(b) \cap Turns : info[t].bidi # c
    BY <1>2 DEF BidiRoots, TurnsOf
  <2> QED BY <1>1, <1>2, <2>1, CancelKeeps
<1>3. CASE c = b
  <2>1. IsOpen(outbound[b]) /\ outbound'[b].state = "sealing"
    BY <1>1 DEF AttachmentInv, ClosingSilences, CloseInv, TypeOK, BeginSeal, IsOpen, OutboundOf
  <2>2. LivesAsRoot(umbrella[b], b)
    BY <1>1, <2>1 DEF AttachmentInv, OpenRootLives
  <2>3. umbrella[b] \in BidiRoots(b) /\ HasTurn(umbrella[b])
    BY <2>2, AbsentAssumption DEF LivesAsRoot, BidiRoots, TurnsOf, HasTurn
  <2>4. ASSUME NEW t \in TurnsOf(b) PROVE t \in aborted'
    <3>1. CASE t \in aborted
      BY <1>1, <3>1 DEF CancelAll
    <3>2. CASE t \notin aborted
      <4>1. t \in Turns /\ umbrella[b] \in {t} \cup info[t].chain
        BY <3>2, LiveRoot DEF TurnsOf, AttachmentInv
      <4> QED BY <1>1, <2>3, <4>1 DEF CancelAll, Below
    <3> QED BY <3>1, <3>2
  <2>5. MembersOf(b)' = MembersOf(b) /\ TurnsOf(b)' = TurnsOf(b) /\ OverOf(b)' = OverOf(b)
    BY <1>1 DEF MembersOf, TurnsOf, HasTurn, OverOf
  <2>6. LiveOf(b)' = {} /\ EndingOf(b)' = LiveOf(b) \cup EndingOf(b)
    BY <2>4, <2>5 DEF LiveOf, EndingOf, Aborted
  <2>7. StateOf(b) = "open" /\ StateOf(b)' = "sealing" /\ RootOf(b)' = NoTurn
    BY <1>1, <2>1, <2>5 DEF StateOf, RootOf, IsOpen
  <2>8. Promise!Closing(Seen[b], Seen'[b])
    <3>1. Seen'[b] = [state |-> "sealing", root |-> NoTurn, live |-> {},
                      ending |-> LiveOf(b) \cup EndingOf(b), over |-> OverOf(b)]
      BY <2>5, <2>6, <2>7, SeenIs
    <3> QED BY <2>7, <3>1, SeenHas DEF Promise!Closing
  <2>9. ~IsOpen(outbound'[b]) /\ seal'[b].pc # "idle" /\ \A t \in TurnsOf(b)' : t \in aborted'
    BY <1>1, <2>1, <2>4, <2>5 DEF IsOpen
  <2> QED BY <1>3, <2>8, <2>9 DEF Keeps, Advances, Promise!Step
<1> QED BY <1>2, <1>3

\* The rest of it: the attachment is closed over turns that are all over.
LEMMA UnwindKeeps ==
    ASSUME AttachmentInv, NEW b \in Bidis, UnwindBidi(b), NEW c \in Bidis
    PROVE  Keeps(c)
<1>1. /\ UNCHANGED <<info, phase, aborted, umbrella>> /\ seal[b].pc # "idle"
      /\ c # b => outbound'[c] = outbound[c] /\ seal'[c] = seal[c]
  BY DEF UnwindBidi, TerminalsResolve, WritersDrain, CloseOutbound, AttachmentInv,
         CloseInv, TypeOK
<1>2. /\ MembersOf(c)' = MembersOf(c) /\ TurnsOf(c)' = TurnsOf(c) /\ LiveOf(c)' = LiveOf(c)
      /\ EndingOf(c)' = EndingOf(c) /\ OverOf(c)' = OverOf(c)
      /\ \A t \in Turns : HasTurn(t)' = HasTurn(t)
  BY <1>1 DEF MembersOf, TurnsOf, HasTurn, LiveOf, EndingOf, OverOf, Aborted
<1>3. ~IsOpen(outbound[b])
  BY <1>1 DEF AttachmentInv, CloseInv, CloseKnowsTurns
<1>4. CASE outbound'[c].state = outbound[c].state
  <2>1. seal'[c].pc = "idle" => seal[c].pc = "idle"
    <3>1. CASE c # b
      BY <1>1, <3>1
    <3>2. CASE c = b /\ TerminalsResolve(b)
      <4> DEFINE failed == seal[b].waits \cap unfinal # {}
                 r      == [seal[b] EXCEPT !.pc = "drain", !.errors = failed]
      <4>1. seal' = [seal EXCEPT ![b] = r]
        BY <3>2 DEF TerminalsResolve
      <4>2. seal[b] \in SealRecords /\ b \in DOMAIN seal
        BY DEF AttachmentInv, CloseInv, TypeOK, SealRecords
      <4> HIDE DEF failed
      <4>3. r.pc = "drain"
        BY <4>2 DEF SealRecords
      <4> QED BY <3>2, <4>1, <4>2, <4>3
    <3>3. CASE c = b /\ CloseOutbound(b)
      BY <3>3 DEF CloseOutbound, AttachmentInv, CloseInv, TypeOK
    <3>4. ASSUME c = b, NEW intime \in BOOLEAN, WritersDrain(b, intime)
          PROVE  seal'[c].pc # "idle"
      BY <3>4 DEF WritersDrain, AttachmentInv, CloseInv, TypeOK
    <3> QED BY <3>1, <3>2, <3>3, <3>4 DEF UnwindBidi
  <2>2. MembersOf(c) # {} /\ IsOpen(outbound[c]) => phase[umbrella[c]] = "running"
    BY DEF AttachmentInv, OpenRootLives, LivesAsRoot
  <2> QED BY <1>1, <1>2, <1>4, <2>1, <2>2, SameAttachment DEF MembersOf
<1>5. CASE outbound'[c].state # outbound[c].state
  <2>1. c = b /\ CloseOutbound(b)
    BY <1>1, <1>5 DEF UnwindBidi, TerminalsResolve, WritersDrain
  <2>2. outbound[b].state = "sealing"
    BY <1>3, <2>1 DEF CloseOutbound, IsOpen, AttachmentInv, CloseInv, CloseInOrder, TypeOK,
                      OutboundOf, OutboundStates
  <2>3. outbound'[b].state = "sealed" /\ seal'[b].pc # "idle"
    BY <2>1 DEF CloseOutbound, AttachmentInv, CloseInv, TypeOK, FinishSeal, ForceFinishSeal,
                OutboundOf
  <2>4. MembersOf(b) # {} /\ TurnsOf(b) = {}
    BY <2>1 DEF CloseOutbound, AttachmentInv, CloseInv, CloseKnowsTurns, CloseInOrder,
                MembersOf, TurnsOf, HasTurn
  <2>5. LiveOf(b) = {} /\ EndingOf(b) = {}
    BY <2>4 DEF LiveOf, EndingOf
  <2>6. StateOf(b) = "sealing" /\ StateOf(b)' = "sealed" /\ RootOf(b)' = NoTurn
    BY <1>2, <2>1, <2>2, <2>3, <2>4 DEF StateOf, RootOf
  <2>7. Promise!Closed(Seen[b], Seen'[b])
    <3>1. Seen'[b] = [state |-> "sealed", root |-> NoTurn, live |-> {}, ending |-> {},
                      over |-> OverOf(b)]
      BY <1>2, <2>1, <2>5, <2>6, SeenIs
    <3> QED BY <2>5, <2>6, <3>1, SeenHas DEF Promise!Closed
  <2> QED BY <1>2, <2>1, <2>3, <2>4, <2>7 DEF Keeps, Advances, Promise!Step, IsOpen
<1> QED BY <1>4, <1>5

LEMMA StepKeepsAttachments ==
    ASSUME AttachmentInv, [Next]_vars, NEW b \in Bidis
    PROVE  Keeps(b)
<1>1. ASSUME NEW t \in Turns, SpawnAny(t) PROVE Keeps(b)
  BY <1>1, SpawnKeeps
<1>2. ASSUME NEW t \in Turns, DriveRunner(t) PROVE Keeps(b)
  BY <1>2, DriveKeeps
<1>3. ASSUME NEW t \in Turns, CancelTurn(t) PROVE Keeps(b)
  BY <1>3, CancelKeeps DEF CancelTurn
<1>4. CASE CancelConversation
  <2> DEFINE T == {t \in Turns : info[t].kind # "umbrella"}
  <2>1. CancelAll(T) /\ UNCHANGED <<info, phase, umbrella, outbound, seal>>
    BY <1>4 DEF CancelConversation
  <2>2. \A t \in T \cap Turns : info[t].kind # "umbrella"
    OBVIOUS
  <2> HIDE DEF T
  <2> QED BY <2>1, <2>2, CancelKeeps
<1>5. ASSUME NEW c \in Bidis, SealBidi(c) PROVE Keeps(b)
  BY <1>5, SealKeeps
<1>6. ASSUME NEW c \in Bidis, UnwindBidi(c) PROVE Keeps(b)
  BY <1>6, UnwindKeeps
<1>7. ASSUME NEW t \in Turns, BeginUnwind(t) PROVE Keeps(b)
  BY <1>7, CancelKeeps DEF BeginUnwind
<1>8. CASE UNCHANGED <<info, phase, aborted, umbrella, outbound, seal>>
  <2>1. MembersOf(b)' = MembersOf(b) /\ \A t \in Turns : HasTurn(t)' = HasTurn(t)
    BY <1>8 DEF MembersOf, HasTurn
  <2>2. MembersOf(b) # {} /\ IsOpen(outbound[b]) => phase[umbrella[b]] = "running"
    BY DEF AttachmentInv, OpenRootLives, LivesAsRoot
  <2> QED BY <1>8, <2>1, <2>2, SameAttachment DEF MembersOf
<1> QED BY <1>1, <1>2, <1>3, <1>4, <1>5, <1>6, <1>7, <1>8 DEF Next, vars, EndUnwind

LEMMA StepKeepsUnaborted == AttachmentInv /\ [Next]_vars => UnspawnedUnaborted'
<1> SUFFICES ASSUME AttachmentInv, [Next]_vars, NEW t \in Turns, phase'[t] = "unspawned"
             PROVE  t \notin aborted'
  BY DEF UnspawnedUnaborted
<1>1. phase[t] = "unspawned" /\ t \notin aborted /\ info[t].chain = {}
  <2>1. phase[t] = "unspawned"
    <3>1. CASE \E u \in Turns : SpawnAny(u)
      BY <3>1 DEF SpawnAny, AttachBidi, SpawnChat, SpawnSubagent, SpawnCompaction,
                  SpawnBackground, Spawn, AttachmentInv, CloseInv, TypeOK
    <3>2. CASE \E u \in Turns : DriveRunner(u)
      BY <3>2 DEF DriveRunner, RunnerSettles, LeaveOutbound, CommitTerminal, AttachmentInv,
                  CloseInv, TypeOK
    <3>3. CASE UNCHANGED phase
      BY <3>3
    <3> QED BY <3>1, <3>2, <3>3
            DEF Next, vars, CancelTurn, CancelConversation, SealBidi, UnwindBidi,
                TerminalsResolve, WritersDrain, CloseOutbound, BeginUnwind, EndUnwind
  <2> QED BY <2>1 DEF AttachmentInv, UnspawnedUnaborted, CloseInv, UnspawnedIsBlank, NoInfo
<1>2. ASSUME NEW T, CancelAll(T) PROVE t \notin aborted'
  BY <1>1, <1>2 DEF CancelAll, Below, HasTurn
<1>3. ASSUME NEW u \in Turns, SpawnAny(u) PROVE t \notin aborted'
  <2>1. ASSUME NEW kind, NEW b, NEW p, Spawn(u, kind, b, p) PROVE t \notin aborted'
    <3>1. phase'[u] = "running"
      BY <2>1 DEF Spawn, AttachmentInv, CloseInv, TypeOK
    <3> QED BY <1>1, <2>1, <3>1 DEF Spawn
  <2> QED BY <1>3, <2>1 DEF SpawnAny, AttachBidi, SpawnChat, SpawnSubagent,
                            SpawnCompaction, SpawnBackground
<1>4. CASE UNCHANGED aborted
  BY <1>1, <1>4
<1> QED BY <1>2, <1>3, <1>4
        DEF Next, vars, DriveRunner, RunnerSettles, LeaveOutbound, CommitTerminal,
            CancelTurn, CancelConversation, SealBidi, UnwindBidi, TerminalsResolve,
            WritersDrain, CloseOutbound, BeginUnwind, EndUnwind

\* The supervisor keeps the promise for any turns and attachments: an open
\* attachment has a root that lives, the first section of a close silences all
\* its turns, nobody joins it later, and it is closed over finished turns.
THEOREM AttachmentsArePromised == Spec => AttachmentsKeepPromise
<1>1. Init => AttachmentInv
  <2>1. Init => AbortInv
    BY InitHasTypes DEF Init, NoInfo, AbortInv, ChainsClosed, AbortReachesDescendants, Aborted
  <2>2. Init => RootInv
    BY <2>1, AbsentAssumption DEF Init, NoInfo, RootInv, UmbrellaFits, TurnsHaveRoot
  <2>3. Init => OpenRootLives /\ ClosingSilences /\ UnspawnedUnaborted
    BY AbsentAssumption DEF Init, NoInfo, FreshOutbound, OpenRootLives, ClosingSilences,
                            UnspawnedUnaborted, MembersOf, IsOpen
  <2> QED BY <2>2, <2>3, InitCloseInv DEF AttachmentInv
<1>2. AttachmentInv /\ [Next]_vars => AttachmentInv'
  <2> SUFFICES ASSUME AttachmentInv, [Next]_vars PROVE AttachmentInv'
    OBVIOUS
  <2>1. CloseInv' /\ RootInv' /\ UnspawnedUnaborted'
    BY StepKeepsCloseInv, StepKeepsRootInv, StepKeepsUnaborted DEF AttachmentInv
  <2>2. \A b \in Bidis : Keeps(b)
    BY StepKeepsAttachments
  <2>3. OpenRootLives'
    BY <2>2 DEF Keeps, OpenRootLives
  <2>4. ClosingSilences'
    BY <2>2 DEF Keeps, ClosingSilences
  <2> QED BY <2>1, <2>3, <2>4 DEF AttachmentInv
<1>3. Init => Promise!Init
  <2> SUFFICES ASSUME Init, NEW b \in Bidis
               PROVE  Seen[b] = [state |-> "new", root |-> NoTurn,
                                 live |-> {}, ending |-> {}, over |-> {}]
    BY DEF Promise!Init, Seen
  <2>1. MembersOf(b) = {}
    BY AbsentAssumption DEF Init, NoInfo, MembersOf
  <2>2. LiveOf(b) = {} /\ EndingOf(b) = {} /\ OverOf(b) = {}
    BY <2>1 DEF LiveOf, EndingOf, OverOf, TurnsOf, MembersOf
  <2>3. StateOf(b) = "new" /\ RootOf(b) = NoTurn
    BY <2>1 DEF StateOf, RootOf
  <2> QED BY <2>2, <2>3, SeenIs
<1>4. AttachmentInv /\ [Next]_vars => [Promise!Next]_Seen
  <2> SUFFICES ASSUME AttachmentInv, [Next]_vars PROVE Promise!Next
    OBVIOUS
  <2>1. \A b \in Bidis : Advances(b)
    BY StepKeepsAttachments DEF Keeps
  <2>2. DOMAIN Seen' = Bidis
    BY DEF Seen
  <2> QED BY <2>1, <2>2 DEF Advances, Promise!Next
<1> QED BY <1>1, <1>2, <1>3, <1>4, PTL DEF Spec, AttachmentsKeepPromise, Promise!Spec
=============================================================================
