----------------------------- MODULE MCBurstTest -----------------------------
(* Instances of BurstTest for TLC.                                         *)
EXTENDS BurstTest
=============================================================================
