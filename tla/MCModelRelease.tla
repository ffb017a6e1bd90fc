--------------------------- MODULE MCModelRelease ---------------------------
(* Instances of the model release governance for TLC. *)
EXTENDS ModelRelease, TLC

CONSTANTS c1, c2, k1, k2, o1, o2

\* Whether two commands have ever been under way at a time.
VARIABLE overlapped

Alone == \A o, p \in Operator : work[o] # None /\ work[p] # None => o = p

MCInit == Init /\ overlapped = FALSE

MCSpec == MCInit /\ [][Next /\ overlapped' = (overlapped \/ ~Alone')]_<<vars, overlapped>>

\* As long as the operators give their commands one by one, the judgement of a burn-in
\* stays the judgement of all the events of its shadow run.
BurnInStandsAlone == ~overlapped => BurnInStands

\* Challengers, shadow cycles and processes are interchangeable.
ReleaseSymmetry ==
    Permutations({c1, c2}) \cup Permutations({k1, k2}) \cup Permutations({o1, o2})
=============================================================================
