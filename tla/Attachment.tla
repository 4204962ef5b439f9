----------------------------- MODULE Attachment -----------------------------
(***************************************************************************)
(* What the turn supervisor promises about the attachments of a client,    *)
(* however turns are spawned, cancelled, superseded and finalized on them: *)
(*   - an attachment opens once, with the turn that is its root; as long   *)
(*     as it is open the root lives, and others may join;                  *)
(*   - the step that begins to close it silences every turn it has, and    *)
(*     nobody joins after that;                                            *)
(*   - it is closed when its last turn is over, and a turn that is over,   *)
(*     or was silenced, never comes back.                                  *)
(***************************************************************************)
CONSTANTS Attachments, Turns, NoTurn

VARIABLE att

\* live: registered turns nobody has cancelled; ending: cancelled ones.
States == [state  : {"new", "open", "sealing", "sealed"},
           root   : Turns \cup {NoTurn},
           live   : SUBSET Turns,
           ending : SUBSET Turns,
           over   : SUBSET Turns]

Init ==
    att = [a \in Attachments |-> [state |-> "new", root |-> NoTurn,
                                  live |-> {}, ending |-> {}, over |-> {}]]

Opened(p, q) ==
    /\ p.state = "new"
    /\ \E t \in Turns : q = [state |-> "open", root |-> t,
                             live |-> {t}, ending |-> {}, over |-> {}]

Joined(p, q) ==
    /\ p.state = "open"
    /\ \E t \in Turns \ (p.live \cup p.ending \cup p.over) :
          q = [state |-> "open", root |-> p.root,
               live |-> p.live \cup {t}, ending |-> p.ending, over |-> p.over]

\* Some turns are cancelled, but not the root.
Cancelled(p, q) ==
    \E S \in SUBSET (p.live \ {p.root}) :
        q = [state |-> p.state, root |-> p.root,
             live |-> p.live \ S, ending |-> p.ending \cup S, over |-> p.over]

Ended(p, q) ==
    \E t \in (p.live \cup p.ending) \ {p.root} :
        q = [state |-> p.state, root |-> p.root,
             live |-> p.live \ {t}, ending |-> p.ending \ {t}, over |-> p.over \cup {t}]

Closing(p, q) ==
    /\ p.state = "open"
    /\ q = [state |-> "sealing", root |-> NoTurn,
            live |-> {}, ending |-> p.live \cup p.ending, over |-> p.over]

Closed(p, q) ==
    /\ p.state = "sealing" /\ p.live = {} /\ p.ending = {}
    /\ q = [state |-> "sealed", root |-> NoTurn,
            live |-> {}, ending |-> {}, over |-> p.over]

Step(p, q) ==
    \/ Opened(p, q) \/ Joined(p, q) \/ Cancelled(p, q)
    \/ Ended(p, q) \/ Closing(p, q) \/ Closed(p, q)

\* A cancel of the conversation concerns all its attachments.
Next ==
    /\ DOMAIN att' = Attachments
    /\ \A a \in Attachments : att'[a] = att[a] \/ Step(att[a], att'[a])

Spec == Init /\ [][Next]_att
=============================================================================
