----------------------------- MODULE MCEsp32Wor -----------------------------
(* Instances of Esp32Wor for TLC.                                          *)
EXTENDS Esp32Wor

\* user space resets the counter, or writes the largest u32
MCStoreVals == {0, CountMod - 1}
=============================================================================
