---------------------------- MODULE MCProcessing ----------------------------
(* Instances of Processing for TLC.                                         *)
EXTENDS Processing, TLC

CONSTANTS s1, s2, s3, c1, w1, w2, p1
OneOfEachKind == {s1, s2, s3}
KindOf == s1 :> "POL" @@ s2 :> "NONPOL" @@ s3 :> "ESPADONS"
ExpectedOf == s1 :> 2 @@ s2 :> 1 @@ s3 :> 2
OneSet == {c1}
TwoWorkers == {w1, w2}
OneParameter == {p1}
WithTheSet == {r \in Runs : Real(r.seq) => r.cal = c1}
Symmetry == Permutations(TwoWorkers)
=============================================================================
