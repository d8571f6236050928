------------------------------ MODULE MCArchive ------------------------------
(* Instances of Archive for TLC: a flat and a group of two frames.           *)
EXTENDS Archive, TLC

CONSTANTS i1, i2, b1, b2, k1, q1, w1, w2, x1, x2

AllFrames == {"flat", "sub1", "sub2"}
ThreePaths == 1 .. 3
AllOrFlats == {1 .. 3, {1}}
OneNight == {<<"flat", "sub1", "sub2">>}
RoleOf(f) == IF f = "flat" THEN "FLAT" ELSE "SCIENCE"
GroupOf(f) == 1
SubOf(f) == IF f = "sub1" THEN 1 ELSE 2
NightOf(f) == 1
OneFlat == [role \in {"FLAT"} |-> 1]
TwoInspections == {i1, i2}
TwoImports == {b1, b2}
OneCalKey == {k1}
OnePubKey == {q1}
TwoBuilders == {w1, w2}
TwoClients == {x1, x2}
Symmetry == Permutations(TwoInspections) \cup Permutations(TwoImports)
              \cup Permutations(TwoBuilders) \cup Permutations(TwoClients)
=============================================================================
