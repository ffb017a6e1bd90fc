---------------------------- MODULE CycleContract ----------------------------
(***************************************************************************)
(* What the operations layer promises the operator about one logical       *)
(* cycle, whoever drives it and however often it is resumed: stages are    *)
(* finished in order and once, a cycle closes only when every required     *)
(* stage is done, and a closed cycle stays closed.                         *)
(***************************************************************************)
EXTENDS Naturals

CONSTANTS StageCount, Required

VARIABLES
    status,  \* of the cycle, both completed statuses taken as one
    done     \* the stages that are completed

contractVars == <<status, done>>

Init == status = "absent" /\ done = {}

\* The cycle is recorded.
Plan == status = "absent" /\ status' = "planned" /\ UNCHANGED done

\* A process takes up a planned or failed cycle.
Begin == status \in {"planned", "failed"} /\ status' = "running" /\ UNCHANGED done

\* A stage completes behind its required predecessors.
Finish(s) ==
    /\ status = "running"
    /\ s \notin done
    /\ \A p \in Required : p < s => p \in done
    /\ done' = done \cup {s}
    /\ UNCHANGED status

GiveUp == status = "running" /\ status' = "failed" /\ UNCHANGED done

Close ==
    /\ status = "running"
    /\ Required \subseteq done
    /\ status' = "completed"
    /\ UNCHANGED done

Next == Plan \/ Begin \/ (\E s \in 1..StageCount : Finish(s)) \/ GiveUp \/ Close

Spec == Init /\ [][Next]_contractVars
=============================================================================
