----------------------------- MODULE MCAccounts -----------------------------
(* Instances of Accounts for TLC.                                          *)
EXTENDS Accounts, TLC

CONSTANTS w1, w2, admin, anna, p1, p2, common

TwoWorkers == {w1, w2}
TwoNames == {admin, anna}
ThreePasswords == {p1, p2, common}
CommonOnes == {common}
Symmetry == Permutations(TwoWorkers)
=============================================================================
