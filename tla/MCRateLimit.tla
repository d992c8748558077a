---------------------------- MODULE MCRateLimit ----------------------------
(* Instances of RateLimit for TLC.                                         *)
EXTENDS RateLimit, TLC

CONSTANTS w1, w2, a1, a2, u1, anna, ANNA

TwoWorkers == {w1, w2}
TwoAddresses == {a1, a2}
OneUser == {u1}
TwoSpellings == {anna, ANNA}
Lowering == [s \in TwoSpellings |-> anna]
OneAccount == [s \in TwoSpellings |-> IF s = anna THEN u1 ELSE None]
Doubling(n) == 2^n
Symmetry == Permutations(TwoWorkers) \cup Permutations(TwoAddresses)
=============================================================================
