---------------------------- MODULE ExecDispatch ----------------------------
(***************************************************************************)
(* The outbox of tool calls that the Cursor client executes, for one       *)
(* conversation (session/exec-dispatch-store.service.ts), the serializer   *)
(* that offers its envelopes to an attachment one at a time                *)
(* (session/exec-dispatch-serializer.service.ts), and the code of          *)
(* cursor-connect-stream.service.ts that drives both through attachments,  *)
(* resumes and restarts.                                                   *)
(*                                                                         *)
(* The outbox is durable: one row per envelope, that is per tool call and  *)
(* attachment (stream epoch).  The serializer is memory.  Between two      *)
(* awaits nothing interleaves, but every transition of a row commits by    *)
(* itself, so that a crash can fall between beginDelivery and              *)
(* markDelivered.  Frames, labels and timestamps are left out; queued_at   *)
(* is a position in `order'.  Hooks, background shells, the calls of       *)
(* sub-agents and the read-to-write handoff of an edit are left out.       *)
(***************************************************************************)
EXTENDS Naturals, FiniteSets, SequencesExt

CONSTANTS
    Calls,        \* tool calls
    Epochs,       \* attachments
    Nobody,       \* no call in flight
    MaxRestarts   \* bound on the restarts of the bridge

ASSUME NobodyAssumption  == Nobody \notin Calls
ASSUME RestartAssumption == MaxRestarts \in Nat

VARIABLES
    box,       \* the outbox rows, their order, the serializer, what was written
    execId,    \* execId[c]: the id of call c, 0 before it has one
    nextId,    \* the conversation's execId counter
    edge,      \* edge[c]: the call's edge in the tool call ledger
    att,       \* att[e]: the attachment
    closed,    \* the envelopes whose stream the client has closed
    restarts

vars == <<box, execId, nextId, edge, att, closed, restarts>>

Sent      == {"dispatching", "dispatched", "awaiting"}
Active    == Sent \cup {"queued"}
RowStates == Active \cup {"none", "reattached", "settled", "cancelled"}

\* "refusing": the leaf turn of the attachment is aborted but not yet gone.
Attached  == {"open", "refusing", "sealed"}
AttStates == Attached \cup {"new", "detached", "gone"}

EmptySlot == [inFlight |-> Nobody, queue |-> <<>>]

Init ==
    /\ box = [row    |-> [c \in Calls |-> [e \in Epochs |-> "none"]],
              writes |-> [c \in Calls |-> [e \in Epochs |-> 0]],
              slot   |-> [e \in Epochs |-> EmptySlot],
              order  |-> <<>>]
    /\ execId = [c \in Calls |-> 0]
    /\ nextId = 1
    /\ edge = [c \in Calls |-> "none"]
    /\ att = [e \in Epochs |-> "new"]
    /\ closed = {}
    /\ restarts = 0

-----------------------------------------------------------------------------
(* The serializer and its writer, as functions of the box.                 *)

\* The elements of s that are in T, in their order (a recursive function,
\* so that what it returns can be proved).
Keep(s, T) ==
    LET kept[i \in 0..Len(s)] ==
            IF i = 0 THEN <<>>
            ELSE IF s[i] \in T THEN Append(kept[i - 1], s[i]) ELSE kept[i - 1]
    IN  kept[Len(s)]

Without(s, c) == Keep(s, Calls \ {c})

\* Mutant: a refused write leaves the rest of the schedule behind.
OfferKeepsQueue(b, c, e) ==
    IF b.row[c][e] # "queued"
      THEN [b EXCEPT !.slot[e].inFlight = Nobody]
    ELSE IF att[e] # "open"
      THEN [b EXCEPT !.slot[e].inFlight = Nobody, !.order = Append(Without(@, c), c)]
    ELSE [b EXCEPT !.row[c][e] = "dispatched", !.writes[c][e] = @ + 1,
                   !.slot[e].inFlight = c]

\* The writer: beginDelivery, write, markDelivered.  A write the attachment
\* does not take puts the row back, behind the others; either that or a row
\* that is not queued drops the attachment's whole schedule.
Offer(b, c, e) ==
    IF b.row[c][e] # "queued"
      THEN [b EXCEPT !.slot[e] = EmptySlot]
    ELSE IF att[e] # "open"
      THEN [b EXCEPT !.slot[e] = EmptySlot, !.order = Append(Without(@, c), c)]
    ELSE [b EXCEPT !.row[c][e] = "dispatched", !.writes[c][e] = @ + 1,
                   !.slot[e].inFlight = c]

\* Mutant: the frame in flight is not looked at.
ScheduleAtOnce(b, c, e) == Offer(b, c, e)

\* enqueueAndDispatch of a queued row.
Schedule(b, c, e) ==
    IF b.slot[e].inFlight # Nobody
      THEN [b EXCEPT !.slot[e].queue = Append(@, c)]
      ELSE Offer(b, c, e)

\* The head of q is offered, the rest stays scheduled behind it.
OfferFirst(b, q, e) ==
    IF q = <<>> THEN [b EXCEPT !.slot[e] = EmptySlot]
    ELSE Offer([b EXCEPT !.slot[e] = [inFlight |-> Nobody, queue |-> Tail(q)]], Head(q), e)

\* release() acts for the exact in-flight call only.
Release(b, c, e) ==
    IF b.slot[e].inFlight = c THEN OfferFirst(b, b.slot[e].queue, e) ELSE b

\* cancel(), after the row was cancelled: out of the queue, or out of flight.
Unschedule(b, c, e) == Release([b EXCEPT !.slot[e].queue = Without(@, c)], c, e)

\* replayQueued of the queued rows of an attachment in their durable order;
\* it refuses an attachment that has a schedule.
Replay(b, e) ==
    IF b.slot[e] # EmptySlot THEN b
    ELSE OfferFirst(b, Keep(b.order, {c \in Calls : b.row[c][e] = "queued"}), e)

-----------------------------------------------------------------------------
(* The outbox.                                                             *)

\* findActiveByToolCall
ActiveEpochs(c) == {e \in Epochs : box.row[c][e] \in Active}

\* Every active row of call c takes the state s.
MoveActive(c, s) ==
    [box EXCEPT !.row[c] = [e \in Epochs |-> IF @[e] \in Active THEN s ELSE @[e]]]

\* Mutant: a parked row is taken along too.
ReplayableParked(c, e) == \E d \in Epochs \ {e} : box.row[c][d] \in Active

\* reattachForReplay selects the rows of the other attachments that are
\* queued or were sent; a parked row stays where it is.
Replayable(c, e) ==
    \E d \in Epochs \ {e} : box.row[c][d] \in {"queued", "dispatching", "dispatched"}

\* Mutant: an envelope the call has had on e before is overwritten.
CanReattachAgain(e) == TRUE

\* The selected rows become queued rows of e, in one transaction that fails
\* if one of the calls has had an envelope on e before.
CanReattach(e) == \A c \in Calls : Replayable(c, e) => box.row[c][e] = "none"

Reattach(e) ==
    [box EXCEPT !.row = [c \in Calls |-> [d \in Epochs |->
        IF Replayable(c, e) /\ d = e THEN "queued"
        ELSE IF d # e /\ @[c][d] \in {"queued", "dispatching", "dispatched"}
          THEN "reattached" ELSE @[c][d]]]]

\* parkRestoredMainClientDispatches: what may have reached the client waits
\* for the client's own verdict.
Park(b) ==
    [b EXCEPT !.row = [c \in Calls |-> [e \in Epochs |->
        IF edge[c] = "open" /\ @[c][e] \in {"dispatching", "dispatched"}
          THEN "awaiting" ELSE @[c][e]]]]

-----------------------------------------------------------------------------
(* The life of a call.                                                     *)

\* emitExecServerMessage by a live turn of the attachment, which need not be
\* its leaf.
CallTool(c, e) ==
    /\ edge[c] = "none" /\ att[e] \in {"open", "refusing"}
    /\ edge' = [edge EXCEPT ![c] = "open"]
    /\ execId' = [execId EXCEPT ![c] = nextId]
    /\ nextId' = nextId + 1
    /\ box' = Schedule([box EXCEPT !.row[c][e] = "queued", !.order = Append(@, c)], c, e)
    /\ UNCHANGED <<att, closed, restarts>>

\* The client answers a frame it got.  Its handler may run after the
\* attachment is gone.  A row that is not sent any more refuses the answer.
Result(c, e) ==
    /\ att[e] \in Attached \cup {"detached"}
    /\ box.writes[c][e] > 0
    /\ box.row[c][e] \in Sent
    /\ box' = Release([box EXCEPT !.row[c][e] = "settled"], c, e)
    /\ edge' = [edge EXCEPT ![c] = "closed"]
    /\ UNCHANGED <<execId, nextId, att, closed, restarts>>

\* Mutant: only the result releases the slot.
StreamCloseIgnored(c, e) ==
    /\ att[e] \in Attached
    /\ box.writes[c][e] > 0 /\ <<c, e>> \notin closed
    /\ closed' = closed \cup {<<c, e>>}
    /\ UNCHANGED <<box, execId, nextId, edge, att, restarts>>

\* stream_close releases the slot of a frame, answered or not.
StreamClose(c, e) ==
    /\ att[e] \in Attached
    /\ box.writes[c][e] > 0 /\ <<c, e>> \notin closed
    /\ closed' = closed \cup {<<c, e>>}
    /\ box' = Release(box, c, e)
    /\ UNCHANGED <<execId, nextId, edge, att, restarts>>

\* The owner aborts the call: edge and active rows go together, then the
\* serializer is told.
Abort(c) ==
    /\ edge[c] = "open"
    /\ edge' = [edge EXCEPT ![c] = "closed"]
    /\ \/ /\ ActiveEpochs(c) = {}
          /\ UNCHANGED box
       \/ \E e \in ActiveEpochs(c) : box' = Unschedule(MoveActive(c, "cancelled"), c, e)
    /\ UNCHANGED <<execId, nextId, att, closed, restarts>>

\* The client's verdict on an interrupted call arrives with a later message,
\* on any attachment.  A queued row refuses it.
Verdict(c) ==
    /\ edge[c] = "open"
    /\ \E e \in Epochs : box.writes[c][e] > 0
    /\ ActiveEpochs(c) # {}
    /\ \A e \in Epochs : box.row[c][e] # "queued"
    /\ edge' = [edge EXCEPT ![c] = "closed"]
    /\ \E e \in ActiveEpochs(c) : box' = Release(MoveActive(c, "settled"), c, e)
    /\ UNCHANGED <<execId, nextId, att, closed, restarts>>

-----------------------------------------------------------------------------
(* Attachments.                                                            *)

Becomes(e, s) ==
    /\ att' = [att EXCEPT ![e] = s]
    /\ UNCHANGED <<execId, nextId, edge, closed, restarts>>

Attach(e) == att[e] = "new" /\ Becomes(e, "open") /\ UNCHANGED box

\* A leaf turn of the attachment is cancelled ... and is gone.
Refuse(e)  == att[e] = "open"     /\ Becomes(e, "refusing") /\ UNCHANGED box
Recover(e) == att[e] = "refusing" /\ Becomes(e, "open")     /\ UNCHANGED box

\* The consumer is gone: nothing can be written any more.
Seal(e) == att[e] \in {"open", "refusing"} /\ Becomes(e, "sealed") /\ UNCHANGED box

\* The pump's finally: clearStream drops the schedule, not the rows.
Detach(e) ==
    /\ att[e] \in Attached
    /\ Becomes(e, "detached")
    /\ box' = [box EXCEPT !.slot[e] = EmptySlot]

\* A resumeAction takes the calls of the other attachments over.
Resume(e) ==
    /\ att[e] \in Attached
    /\ CanReattach(e)
    /\ box' = Replay(Reattach(e), e)
    /\ UNCHANGED <<execId, nextId, edge, att, closed, restarts>>

\* Mutants: the counter continues at the last id in use, or starts again.
RestartAtLastId(b) ==
    /\ restarts < MaxRestarts
    /\ restarts' = restarts + 1
    /\ box' = [Park(b) EXCEPT !.slot = [e \in Epochs |-> EmptySlot]]
    /\ att' = [e \in Epochs |-> IF att[e] = "new" THEN "new" ELSE "gone"]
    /\ nextId' = Max({0} \cup {execId[c] : c \in Calls})
    /\ UNCHANGED <<execId, edge>>

RestartAtOne(b) ==
    /\ restarts < MaxRestarts
    /\ restarts' = restarts + 1
    /\ box' = [Park(b) EXCEPT !.slot = [e \in Epochs |-> EmptySlot]]
    /\ att' = [e \in Epochs |-> IF att[e] = "new" THEN "new" ELSE "gone"]
    /\ nextId' = 1
    /\ UNCHANGED <<execId, edge>>

\* The bridge dies and restores the conversation from its database.
RestartWith(b) ==
    /\ restarts < MaxRestarts
    /\ restarts' = restarts + 1
    /\ box' = [Park(b) EXCEPT !.slot = [e \in Epochs |-> EmptySlot]]
    /\ att' = [e \in Epochs |-> IF att[e] = "new" THEN "new" ELSE "gone"]
    /\ nextId' = 1 + Max({0} \cup {execId[c] : c \in Calls})
    /\ UNCHANGED <<execId, edge>>

Restart == RestartWith(box) /\ UNCHANGED closed

\* It dies while it delivers the envelope that a stream_close let through,
\* before or after the frame was written.
CrashInDelivery(e, wrote) ==
    /\ att[e] = "open" /\ box.slot[e].queue # <<>>
    /\ closed' = closed \cup {<<box.slot[e].inFlight, e>>}
    /\ LET c == Head(box.slot[e].queue)
       IN  /\ box.row[c][e] = "queued"
           /\ RestartWith([box EXCEPT !.row[c][e] = "dispatching",
                                      !.writes[c][e] = @ + (IF wrote THEN 1 ELSE 0)])

-----------------------------------------------------------------------------
Next ==
    \/ \E c \in Calls, e \in Epochs : CallTool(c, e) \/ Result(c, e) \/ StreamClose(c, e)
    \/ \E c \in Calls : Abort(c) \/ Verdict(c)
    \/ \E e \in Epochs : Attach(e) \/ Refuse(e) \/ Recover(e) \/ Seal(e) \/ Detach(e) \/ Resume(e)
    \/ \E e \in Epochs, wrote \in BOOLEAN : CrashInDelivery(e, wrote)
    \/ Restart

Spec == Init /\ [][Next]_vars

\* The client closes the stream of every frame it got.
ClientCloses == \A c \in Calls, e \in Epochs : WF_vars(StreamClose(c, e))

FairSpec == Spec /\ ClientCloses

-----------------------------------------------------------------------------
(* Properties.                                                             *)

TypeOK ==
    /\ box.row \in [Calls -> [Epochs -> RowStates]]
    /\ box.writes \in [Calls -> [Epochs -> Nat]]
    /\ box.slot \in [Epochs -> [inFlight : Calls \cup {Nobody}, queue : Seq(Calls)]]
    /\ box.order \in Seq(Calls)
    /\ execId \in [Calls -> Nat] /\ nextId \in Nat \ {0}
    /\ edge \in [Calls -> {"none", "open", "closed"}]
    /\ att \in [Epochs -> AttStates]
    /\ closed \subseteq Calls \X Epochs
    /\ restarts \in 0..MaxRestarts

\* A call has at most one live envelope, however often it was reattached and
\* whatever was aborted meanwhile, and none once its edge is closed: no frame
\* of a finished call can still be sent, and no answer to one accepted
\* (reattachForReplay, appendGraphMessage, the graph abort).  CallsKeepPromise
\* implies it; it is proved first.
OneLiveEnvelope ==
    \A c \in Calls : Cardinality(ActiveEpochs(c)) <= IF edge[c] = "open" THEN 1 ELSE 0

\* The same envelope is never written twice to its attachment, over failed
\* writes, crashes in the delivery and repeated resumes (beginDelivery,
\* requeueAfterWriteFailure, parkRestoredMainClientDispatches).
EnvelopeWrittenOnce ==
    \A c \in Calls, e \in Epochs : box.writes[c][e] <= 1

\* The client has at most one frame of an attachment to work on: all others
\* are cancelled, moved, or their stream is closed (release,
\* cancelCommitted).
OneUnansweredFrame ==
    \A e \in Epochs :
        Cardinality({c \in Calls : /\ box.row[c][e] \in Sent
                                   /\ box.writes[c][e] > 0
                                   /\ <<c, e>> \notin closed}) <= 1

\* No schedule is left without a frame in flight whose release would advance
\* it, and the frame in flight was written: FIFO entries never wait on nothing
\* (dispatchNow, dispatchNext, maybeCleanup).
ScheduleHasHolder ==
    \A e \in Epochs : LET s == box.slot[e] IN
        /\ s.queue # <<>> => s.inFlight # Nobody
        /\ s.inFlight # Nobody => /\ box.writes[s.inFlight][e] > 0
                                  /\ <<s.inFlight, e>> \notin closed

\* Two calls never share an execId, also when the counter was rebuilt from
\* the outbox after a restart (nextExecIdAfterHistory): (epoch, execId) is the
\* key of a row and all a control frame carries.
ExecIdsUnique ==
    \A c, d \in Calls : c # d /\ execId[c] # 0 => execId[c] # execId[d]

\* What the conversation and the client see of each call,
RowIn(c, s) == \E e \in Epochs : box.row[c][e] = s

Status(c) ==
    IF edge[c] = "none" THEN "unmade"
    ELSE IF edge[c] = "open" THEN IF RowIn(c, "awaiting") THEN "parked" ELSE "open"
    ELSE IF RowIn(c, "settled") THEN "answered" ELSE "withdrawn"

Seen == [c \in Calls |-> [status |-> Status(c),
                          holds  |-> ActiveEpochs(c),
                          shown  |-> {e \in Epochs : box.writes[c][e] > 0}]]

Promise == INSTANCE ClientCall WITH Attachments <- Epochs, call <- Seen

\* ... keeps the promise: while a call is open one attachment is responsible
\* for it, a hand-over never goes back to where its frame was shown, what a
\* restart parked is not sent again, and a call ends once, answered only if
\* its frame was shown (the rows and the ledger's edge, over resumes, aborts,
\* verdicts and crashes that race).
CallsKeepPromise == Promise!Spec

\* A scheduled envelope does not stay scheduled for ever: it is delivered,
\* cancelled, moved to another attachment, or its schedule is dropped.
ScheduledAdvances ==
    \A c \in Calls, e \in Epochs :
        (\E i \in DOMAIN box.slot[e].queue : box.slot[e].queue[i] = c)
            ~> ~ \E i \in DOMAIN box.slot[e].queue : box.slot[e].queue[i] = c

-----------------------------------------------------------------------------
(* What the comments promise and the code does not do.                     *)

\* exec-dispatch-store.service.ts: "A delivered envelope whose attachment is
\* lost is parked on the original row until Cursor supplies its official
\* interrupted-pending resolution"; it "is neither replayed nor addressed".
\* A resume on a bridge that did not restart replays what was delivered.
DeliveredNeverReplayed ==
    [][\A c \in Calls, d \in Epochs :
          box.row[c][d] \in Sent /\ box.writes[c][d] > 0 /\ att[d] \notin Attached
             => \A e \in Epochs : box'.writes[c][e] = box.writes[c][e]]_vars
=============================================================================
