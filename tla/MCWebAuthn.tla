----------------------------- MODULE MCWebAuthn -----------------------------
(* Instances of WebAuthn for TLC.                                          *)
EXTENDS WebAuthn, TLC

CONSTANTS w1, w2, k1, k2

TwoWorkers == {w1, w2}
TwoKeys == {k1, k2}
SecondKey == {k2}
Symmetry == Permutations(TwoWorkers)
=============================================================================
