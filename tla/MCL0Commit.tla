----------------------------- MODULE MCL0Commit -----------------------------
(* Instances of L0Commit for TLC.                                           *)
EXTENDS L0Commit, TLC

CONSTANTS e1, e2
TwoExposures == {e1, e2}
Symmetry == Permutations(TwoExposures)
=============================================================================
