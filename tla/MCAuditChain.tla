---------------------------- MODULE MCAuditChain ----------------------------
(* Instances of AuditChain for TLC.                                        *)
EXTENDS AuditChain, TLC

CONSTANTS w1, w2

TwoWorkers == {w1, w2}
TwoTexts == {"None", "by admin"}

Symmetry == Permutations(Workers)
=============================================================================
