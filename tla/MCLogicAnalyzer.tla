--------------------------- MODULE MCLogicAnalyzer ---------------------------
(* Instances of LogicAnalyzer for TLC.                                     *)
EXTENDS LogicAnalyzer
=============================================================================
