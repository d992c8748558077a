----------------------------- MODULE MCLockout -----------------------------
(* Instances of Lockout for TLC.                                           *)
EXTENDS Lockout, TLC

CONSTANTS w1, w2, u1, u2

OneWorker == {w1}
TwoWorkers == {w1, w2}
OneUser == {u1}
TwoUsers == {u1, u2}
NoUsers == {}
MfaUser == {u1}
ExpiredUser == {u2}

(* The workers are interchangeable: no definition of Lockout names one.    *)
Symmetry == Permutations(Workers)
=============================================================================
