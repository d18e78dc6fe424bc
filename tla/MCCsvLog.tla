------------------------------ MODULE MCCsvLog ------------------------------
(* Instances of CsvLog for TLC.                                            *)
EXTENDS CsvLog
=============================================================================
