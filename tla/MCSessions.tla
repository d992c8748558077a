---------------------------- MODULE MCSessions ----------------------------
(* Instances of Sessions for TLC.                                          *)
EXTENDS Sessions, TLC

CONSTANTS w1, w2, u1, j1, j2, j3, j4

TwoWorkers == {w1, w2}
OneUser == {u1}
ThreeJtis == {j1, j2, j3}
FourJtis == {j1, j2, j3, j4}

Symmetry == Permutations(Workers) \cup Permutations(Jtis)
=============================================================================
