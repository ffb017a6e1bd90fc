---------------------------- MODULE HoldoutPromise ----------------------------
(***************************************************************************)
(* What a temporal holdout is for: whatever is to be judged is settled     *)
(* before the holdout is opened, nobody looks at the holdout before it is  *)
(* declared open, and the one verdict is the judgement of what was         *)
(* settled.                                                                *)
(***************************************************************************)
CONSTANTS
    Subject,        \* what may be judged
    Unsettled       \* no subject yet, and no verdict yet

VARIABLES
    judged,         \* the judgement on each subject that the outcomes imply
    subject, open, looked, verdict

Init == subject = Unsettled /\ ~open /\ ~looked /\ verdict = Unsettled

Settle ==
    /\ subject = Unsettled
    /\ subject' \in Subject
    /\ UNCHANGED <<judged, open, looked, verdict>>

Open ==
    /\ subject # Unsettled
    /\ ~open
    /\ open'
    /\ UNCHANGED <<judged, subject, looked, verdict>>

Look ==
    /\ open
    /\ looked'
    /\ UNCHANGED <<judged, subject, open, verdict>>

Rule ==
    /\ looked
    /\ verdict = Unsettled
    /\ verdict' = judged[subject]
    /\ UNCHANGED <<judged, subject, open, looked>>

Next == Settle \/ Open \/ Look \/ Rule

Spec == Init /\ [][Next]_<<judged, subject, open, looked, verdict>>
=============================================================================
