------------------------------- MODULE MCMfa -------------------------------
(* Instances of Mfa for TLC.                                               *)
EXTENDS Mfa, TLC

CONSTANTS w1, w2

TwoWorkers == {w1, w2}
=============================================================================
