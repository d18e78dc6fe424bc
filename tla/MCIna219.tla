------------------------------ MODULE MCIna219 ------------------------------
(* Instances of Ina219 for TLC.                                            *)
EXTENDS Ina219

TwoChannels == <<1, 2>>
FirstTwo == <<1, 2>>
=============================================================================
