------------------------ MODULE MCLockoutSimulation ------------------------
(* Instances of LockoutSimulation for TLC.                                 *)
EXTENDS LockoutSimulation

CONSTANT u1

OneUser == {u1}
Doubling(n) == 2^(n - 1)
=============================================================================
