------------------------------ MODULE MCWakeRtt ------------------------------
(* Instances of WakeRtt for TLC.                                           *)
EXTENDS WakeRtt

CONSTANTS http, burst
MCSenders == {http, burst}
OneSender == {http}
\* a reset, and the last value before the wrap
ResetOrLast == {0, CountMod - 1}
=============================================================================
