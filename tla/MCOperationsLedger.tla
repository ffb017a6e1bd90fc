------------------------- MODULE MCOperationsLedger -------------------------
(* Instances of the operations ledger for TLC. *)
EXTENDS OperationsLedger, TLC

CONSTANTS w1, w2

ProcessSymmetry == Permutations({w1, w2})

\* An optional stage between required ones, and one at the end.
OneOptional == {1, 3}

\* Two stages, both required.
AllRequired == {1, 2}
=============================================================================
