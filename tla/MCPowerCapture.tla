--------------------------- MODULE MCPowerCapture ---------------------------
(* Instances of PowerCapture for TLC.                                      *)
EXTENDS PowerCapture

CONSTANTS ina, ina226
MCRecorders == {ina, ina226}
=============================================================================
