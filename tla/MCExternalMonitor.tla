-------------------------- MODULE MCExternalMonitor --------------------------
(* Instances of ExternalMonitor for TLC: an INA226 and an INA228, whose    *)
(* tables of conversion times differ.                                      *)
EXTENDS ExternalMonitor, TLC

OneOfEach == 1 :> "ina226" @@ 2 :> "ina228"
Shunt3And2 == 1 :> 3 @@ 2 :> 2
Detecting == [enabled |-> TRUE, type |-> "auto", addr |-> 2, shunt |-> 1, conv |-> 1100]
Builtin == [Detecting EXCEPT !.addr = 1]
Legacy == [Detecting EXCEPT !.addr = 1, !.type = "ina226", !.shunt = 2]
=============================================================================
