---------------------------- MODULE MCStorefront ----------------------------
(* Instances of Storefront for TLC.                                        *)
EXTENDS Storefront

CONSTANTS w1, c1, c2

OneWorker == {w1}
TwoCalls == {c1, c2}
=============================================================================
