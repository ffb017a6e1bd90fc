--------------------------- MODULE ReleasePromise ---------------------------
(***************************************************************************)
(* What release governance promises about production scoring: the champion *)
(* is active first and again after every rollback, a challenger follows    *)
(* only a champion and only once, and nothing else is ever active.         *)
(***************************************************************************)
CONSTANTS Challenger, Champion, None

VARIABLES
    active,   \* the release that scores production, None before bootstrap
    promoted  \* the challengers that have been active

promiseVars == <<active, promoted>>

Init == active = None /\ promoted = {}

\* bootstrap-active-champion
Establish == active = None /\ active' = Champion /\ UNCHANGED promoted

\* activate-release
Promote(c) ==
    /\ active = Champion
    /\ c \notin promoted
    /\ active' = c
    /\ promoted' = promoted \cup {c}

\* rollback-release
Restore == active \in Challenger /\ active' = Champion /\ UNCHANGED promoted

Next == Establish \/ (\E c \in Challenger : Promote(c)) \/ Restore

Spec == Init /\ [][Next]_promiseVars
=============================================================================
