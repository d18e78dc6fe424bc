--------------------------- MODULE WakePath_proofs ---------------------------
(* Theorems about the way of a wake: the firmware that raises the line, the *)
(* kernel driver that counts it, and the polling and the round-trip times   *)
(* of the dashboard on top of the driver.  They hold for any number of      *)
(* retries and resets of the firmware, any width of the counter, any times  *)
(* and any number of senders and triggers.                                  *)
EXTENDS WakeRtt, Firmware, SequenceTheorems, TLAPS

-----------------------------------------------------------------------------
(* The firmware, which drives the wake line.                               *)

\* main/strategy_dtim.c raises the line between its trigger and its sleep, and nothing
\* else does.
PinInv ==
    /\ pc \in {"recv", "assert", "report", "deassert"} => strategy = "dtim"
    /\ pc \in {"assert", "report"} => log = "TRIGGER_DETECTED"
    /\ pin = 1 /\ ~frozen =>
         /\ strategy = "dtim"
         /\ pc = "report" \/ (pc \in {"active", "deassert"} /\ log = "ACTIVE")

\* The event task, the access point and the radio leave the main task and the line alone.
MainAlone == UNCHANGED <<pc, log, out, held, pin, frozen, strategy>>

\* The types, by what changes together: the main task, the line, the radio, the retries
\* and what is outside.
PlaceOK ==
    /\ strategy \in Strategies
    /\ pc \in {"boot", "start", "window", "timed_out", "light_sleep", "connect",
               "await", "recv", "assert", "report", "active", "deassert", "disconnect",
               "stop", "asleep"}
    /\ log \in {"BOOT", "WAKEUP", "LISTENING", "TRIGGER_DETECTED", "LIGHT_SLEEP",
                "WIFI_CONNECTING", "WIFI_PS_IDLE", "ACTIVE", "PRE_SLEEP"}
LineOK == out \in {0, 1} /\ held \in BOOLEAN /\ pin \in {0, 1} /\ frozen \in BOOLEAN
LinkOK == link \in {"off", "idle", "connecting", "up"} /\ events \in Seq({"disconnected", "got_ip"})
RetryOK == s_retry_count \in 0 .. MaxRetry /\ s_connected \in BOOLEAN /\ bits \subseteq {"connected", "fail"}
OutsideOK ==
    /\ trigger \in BOOLEAN /\ ap \in BOOLEAN
    /\ drops \in 0 .. MaxDrops /\ resets \in 0 .. MaxResets

LEMMA FirmwareParts ==
    /\ FirmwareTypeOK <=> PlaceOK /\ LineOK /\ LinkOK /\ RetryOK /\ OutsideOK
    /\ FirmwareTypeOK' <=> PlaceOK' /\ LineOK' /\ LinkOK' /\ RetryOK' /\ OutsideOK'
<1>1. FirmwareTypeOK <=> PlaceOK /\ LineOK /\ LinkOK /\ RetryOK /\ OutsideOK
  BY Zenon DEF FirmwareTypeOK, PlaceOK, LineOK, LinkOK, RetryOK, OutsideOK
<1>2. FirmwareTypeOK' <=> PlaceOK' /\ LineOK' /\ LinkOK' /\ RetryOK' /\ OutsideOK'
  BY Zenon DEF FirmwareTypeOK, PlaceOK, LineOK, LinkOK, RetryOK, OutsideOK
<1>3. QED
  BY <1>1, <1>2

\* What is left alone keeps its type.
LEMMA LeftAlone ==
    /\ PlaceOK /\ UNCHANGED <<pc, log, strategy>> => PlaceOK'
    /\ LineOK /\ UNCHANGED gpio => LineOK'
    /\ LinkOK /\ UNCHANGED <<link, events>> => LinkOK'
    /\ RetryOK /\ UNCHANGED <<s_retry_count, s_connected, bits>> => RetryOK'
    /\ OutsideOK /\ UNCHANGED <<trigger, ap, drops, resets>> => OutsideOK'
<1>1. PlaceOK /\ UNCHANGED <<pc, log, strategy>> => PlaceOK'
  BY DEF PlaceOK
<1>2. LineOK /\ UNCHANGED gpio => LineOK'
  BY DEF LineOK, gpio
<1>3. LinkOK /\ UNCHANGED <<link, events>> => LinkOK'
  BY DEF LinkOK
<1>4. RetryOK /\ UNCHANGED <<s_retry_count, s_connected, bits>> => RetryOK'
  BY DEF RetryOK
<1>5. OutsideOK /\ UNCHANGED <<trigger, ap, drops, resets>> => OutsideOK'
  BY DEF OutsideOK
<1>6. QED
  BY <1>1, <1>2, <1>3, <1>4, <1>5

\* The event task and the radio keep the types.
LEMMA RadioTypes ==
    ASSUME FirmwareTypeOK, EventTask \/ ApDrop \/ ApReturn \/ Associate \/ Hear
    PROVE  FirmwareTypeOK' /\ MainAlone /\ resets' = resets
<1>1. PlaceOK /\ LineOK /\ LinkOK /\ RetryOK /\ OutsideOK
  BY FirmwareParts
<1>2. MaxRetry \in Nat /\ MaxDrops \in Nat
  BY FirmwareAssumption DEF FirmwareAssumption
<1>3. SUFFICES MainAlone /\ resets' = resets /\ LinkOK' /\ RetryOK' /\ OutsideOK'
  <2>1. MainAlone => PlaceOK' /\ LineOK'
    BY <1>1, LeftAlone DEF MainAlone, gpio
  <2>2. PlaceOK' /\ LineOK' /\ LinkOK' /\ RetryOK' /\ OutsideOK' => FirmwareTypeOK'
    BY FirmwareParts
  <2>3. QED
    BY <2>1, <2>2
<1>4. CASE OnDisconnected
  <2>1. MainAlone /\ UNCHANGED <<trigger, ap, drops, resets>>
    BY <1>4 DEF OnDisconnected, MainAlone, gpio, env
  <2>2. events # <<>> /\ events' = Tail(events)
    BY <1>4 DEF OnDisconnected
  <2>3. events' \in Seq({"disconnected", "got_ip"})
    BY <1>1, <2>2 DEF LinkOK
  <2>4. link' \in {"off", "idle", "connecting", "up"}
    BY <1>1, <1>4 DEF OnDisconnected, Connecting, LinkOK
  <2>5. s_retry_count' \in 0 .. MaxRetry
    BY <1>1, <1>2, <1>4 DEF OnDisconnected, MayRetry, RetryOK
  <2>6. s_connected' = FALSE /\ bits' \subseteq {"connected", "fail"}
    BY <1>1, <1>4 DEF OnDisconnected, RetryOK
  <2>7. LinkOK' /\ RetryOK'
    BY <2>3, <2>4, <2>5, <2>6 DEF LinkOK, RetryOK
  <2>8. QED
    BY <1>1, <2>1, <2>7, LeftAlone
<1>5. CASE OnGotIp
  <2>1. MainAlone /\ UNCHANGED <<link, trigger, ap, drops, resets>>
    BY <1>5 DEF OnGotIp, MainAlone, gpio, env
  <2>2. events # <<>> /\ events' = Tail(events)
    BY <1>5 DEF OnGotIp
  <2>3. LinkOK'
    BY <1>1, <2>1, <2>2 DEF LinkOK
  <2>4. RetryOK'
    BY <1>1, <1>2, <1>5 DEF OnGotIp, RetryOK
  <2>5. QED
    BY <1>1, <2>1, <2>3, <2>4, LeftAlone
<1>6. CASE ApDrop
  <2>1. /\ MainAlone /\ UNCHANGED <<s_retry_count, s_connected, bits, trigger, resets>>
        /\ ap' = FALSE /\ drops < MaxDrops /\ drops' = drops + 1
        /\ link' = LinkLost /\ events' = DisconnectEvent
    BY <1>6 DEF ApDrop, MainAlone, gpio
  <2>2. LinkOK'
    BY <1>1, <2>1 DEF LinkOK, LinkLost, DisconnectEvent
  <2>3. drops' \in 0 .. MaxDrops
    <3>1. drops \in 0 .. MaxDrops
      BY <1>1 DEF OutsideOK
    <3>2. QED
      BY <1>2, <2>1, <3>1
  <2>4. OutsideOK'
    BY <1>1, <2>1, <2>3 DEF OutsideOK
  <2>5. QED
    BY <1>1, <2>1, <2>2, <2>4, LeftAlone
<1>7. CASE ApReturn \/ Hear
  <2>1. /\ MainAlone /\ UNCHANGED <<link, events, s_retry_count, s_connected, bits, drops, resets>>
        /\ ap' \in {ap, TRUE} /\ trigger' \in {trigger, TRUE}
    BY <1>7 DEF ApReturn, Hear, MainAlone, gpio, wifi, env
  <2>2. OutsideOK'
    BY <1>1, <2>1 DEF OutsideOK
  <2>3. QED
    BY <1>1, <2>1, <2>2, LeftAlone
<1>8. CASE Associate
  <2>1. /\ MainAlone
        /\ UNCHANGED <<s_retry_count, s_connected, bits, trigger, ap, drops, resets>>
    BY <1>8 DEF Associate, MainAlone, gpio, env
  <2>2. LinkOK'
    BY <1>1, <1>8 DEF Associate, LinkOK
  <2>3. QED
    BY <1>1, <2>1, <2>2, LeftAlone
<1>9. QED
  BY <1>4, <1>5, <1>6, <1>7, <1>8 DEF EventTask

\* So does the main task, with every way to fail and to be reset.
LEMMA MainTypes ==
    ASSUME FirmwareTypeOK, MainTask \/ RecvFails \/ Panic
    PROVE  FirmwareTypeOK'
<1>1. PlaceOK /\ LineOK /\ LinkOK /\ RetryOK /\ OutsideOK
  BY FirmwareParts
<1>2. MaxRetry \in Nat /\ MaxResets \in Nat
  BY FirmwareAssumption DEF FirmwareAssumption
<1>3. SUFFICES PlaceOK' /\ LineOK' /\ LinkOK' /\ RetryOK' /\ OutsideOK'
  BY FirmwareParts
<1>4. CASE Boot
  <2>1. /\ UNCHANGED <<link, events, s_retry_count, s_connected, bits, trigger, ap, drops, resets>>
        /\ strategy' = strategy /\ log' = "WAKEUP" /\ pc' \in {"start", "connect"}
    BY <1>4 DEF Boot, wifi, env
  <2>2. PlaceOK'
    BY <1>1, <2>1 DEF PlaceOK
  <2>3. LineOK'
    <3>1. /\ out' = 0 /\ held' = TRUE /\ pin' \in {pin, 0}
      BY <1>4 DEF Boot, InitPin
    <3>2. frozen' = frozen
      BY <1>4 DEF Boot, InitPin
    <3>3. QED
      BY <1>1, <3>1, <3>2 DEF LineOK
  <2>4. QED
    BY <1>1, <2>1, <2>2, <2>3, LeftAlone
<1>5. CASE StartRadio \/ LightSleep \/ LightWake
  <2>1. UNCHANGED <<events, s_retry_count, s_connected, bits, trigger, ap, drops, resets, strategy>>
    BY <1>5 DEF StartRadio, LightSleep, LightWake, env
  <2>2. UNCHANGED gpio
    BY <1>5 DEF StartRadio, LightSleep, LightWake
  <2>3. link' \in {link, "off", "idle"}
    BY <1>5 DEF StartRadio, LightSleep, LightWake, RadioTo
  <2>4. log' \in {"LISTENING", "LIGHT_SLEEP"} /\ pc' \in {"window", "light_sleep"}
    BY <1>5 DEF StartRadio, LightSleep, LightWake
  <2>5. PlaceOK'
    BY <1>1, <2>1, <2>4 DEF PlaceOK
  <2>6. LinkOK'
    BY <1>1, <2>1, <2>3 DEF LinkOK
  <2>7. QED
    BY <1>1, <2>1, <2>2, <2>5, <2>6, LeftAlone
<1>6. CASE WindowTrigger \/ WindowTimeout \/ Recv \/ RecvFails \/ Active
  <2>1. /\ UNCHANGED <<link, events, s_retry_count, s_connected, bits, ap, drops, resets, strategy>>
        /\ UNCHANGED gpio
    BY <1>6 DEF WindowTrigger, WindowTimeout, Recv, RecvFails, Active, wifi, env
  <2>2. trigger' \in {trigger, FALSE}
    BY <1>6 DEF WindowTrigger, WindowTimeout, Recv, RecvFails, Active
  <2>3. pc' \in {"connect", "timed_out", "assert", "deassert", "disconnect"}
    BY <1>6 DEF WindowTrigger, WindowTimeout, Recv, RecvFails, Active
  <2>4. log' \in {log, "TRIGGER_DETECTED"}
    BY <1>6 DEF WindowTrigger, WindowTimeout, Recv, RecvFails, Active
  <2>5. PlaceOK'
    BY <1>1, <2>1, <2>3, <2>4 DEF PlaceOK
  <2>6. OutsideOK'
    BY <1>1, <2>1, <2>2 DEF OutsideOK
  <2>7. QED
    BY <1>1, <2>1, <2>5, <2>6, LeftAlone
<1>7. CASE Connect
  <2>1. /\ UNCHANGED <<events, s_connected, trigger, ap, drops, resets, strategy>> /\ UNCHANGED gpio
        /\ bits' = {} /\ s_retry_count' = 0 /\ link' \in {"up", "connecting"}
        /\ log' = "WIFI_CONNECTING" /\ pc' = "await"
    BY <1>7 DEF Connect, env
  <2>2. PlaceOK'
    BY <1>1, <2>1 DEF PlaceOK
  <2>3. LinkOK'
    BY <1>1, <2>1 DEF LinkOK
  <2>4. s_retry_count' \in 0 .. MaxRetry
    BY <1>2, <2>1
  <2>5. RetryOK'
    BY <1>1, <2>1, <2>4 DEF RetryOK
  <2>6. QED
    BY <1>1, <2>1, <2>2, <2>3, <2>5, LeftAlone
<1>8. CASE ConnectOk \/ ConnectFail
  <2>1. /\ UNCHANGED <<link, events, s_retry_count, s_connected, bits, trigger, ap, drops, resets, strategy>>
        /\ UNCHANGED gpio
    BY <1>8 DEF ConnectOk, ConnectFail, wifi, env
  <2>2. pc' \in {"recv", "active", "asleep", "disconnect"}
    BY <1>8 DEF ConnectOk, ConnectFail
  <2>3. log' \in {log, "WIFI_PS_IDLE", "ACTIVE"}
    BY <1>8 DEF ConnectOk, ConnectFail
  <2>4. PlaceOK'
    BY <1>1, <2>1, <2>2, <2>3 DEF PlaceOK
  <2>5. QED
    BY <1>1, <2>1, <2>4, LeftAlone
<1>9. CASE Assert \/ ReportActive \/ Deassert
  <2>1. UNCHANGED <<link, events, s_retry_count, s_connected, bits, trigger, ap, drops, resets, strategy>>
    BY <1>9 DEF Assert, ReportActive, Deassert, wifi, env
  <2>2. \/ out' \in {0, 1} /\ held' = TRUE /\ pin' \in {0, 1} /\ frozen' = FALSE
        \/ UNCHANGED gpio
    BY <1>9 DEF Assert, ReportActive, Deassert, Drive
  <2>3. log' \in {log, "ACTIVE"} /\ pc' \in {"report", "active", "disconnect"}
    BY <1>9 DEF Assert, ReportActive, Deassert
  <2>4. LineOK'
    BY <1>1, <2>2, LeftAlone DEF LineOK
  <2>5. PlaceOK'
    BY <1>1, <2>1, <2>3 DEF PlaceOK
  <2>6. QED
    BY <1>1, <2>1, <2>4, <2>5, LeftAlone
<1>10. CASE Disconnect \/ StopRadio
  <2>1. UNCHANGED <<s_retry_count, bits, trigger, ap, drops, resets, strategy>> /\ UNCHANGED gpio
    BY <1>10 DEF Disconnect, StopRadio, env
  <2>2. link' \in {link, "idle", "off"} /\ events' = DisconnectEvent /\ s_connected' \in {s_connected, FALSE}
    BY <1>10 DEF Disconnect, StopRadio, LinkLost
  <2>3. log' \in {log, "PRE_SLEEP"} /\ pc' \in {"stop", "asleep"}
    BY <1>10 DEF Disconnect, StopRadio
  <2>4. LinkOK'
    BY <1>1, <2>2 DEF LinkOK, DisconnectEvent
  <2>5. RetryOK'
    BY <1>1, <2>1, <2>2 DEF RetryOK
  <2>6. PlaceOK'
    BY <1>1, <2>1, <2>3 DEF PlaceOK
  <2>7. QED
    BY <1>1, <2>1, <2>4, <2>5, <2>6, LeftAlone
<1>11. CASE TimerWake \/ Panic
  <2>1. Reset
    BY <1>11 DEF TimerWake, Panic
  <2>2. resets' \in 0 .. MaxResets
    BY <1>1, <1>2, <1>11 DEF TimerWake, Panic, OutsideOK
  <2>3. PlaceOK'
    BY <1>1, <2>1 DEF Reset, PlaceOK
  <2>4. LineOK'
    <3>1. out' = 0 /\ held' = held /\ pin' \in {pin, 0}
      BY <2>1 DEF Reset
    <3>2. frozen' \in BOOLEAN
      BY <1>1, <1>11 DEF TimerWake, Panic, LineOK
    <3>3. QED
      BY <1>1, <3>1, <3>2 DEF LineOK
  <2>5. LinkOK'
    BY <2>1 DEF Reset, LinkOK
  <2>6. RetryOK'
    <3>1. s_retry_count' = 0 /\ s_connected' = FALSE /\ bits' = {}
      BY <2>1 DEF Reset
    <3>2. s_retry_count' \in 0 .. MaxRetry
      BY <1>2, <3>1
    <3>3. QED
      BY <3>1, <3>2 DEF RetryOK
  <2>7. OutsideOK'
    BY <1>1, <2>1, <2>2 DEF Reset, OutsideOK
  <2>8. QED
    BY <2>3, <2>4, <2>5, <2>6, <2>7
<1>12. QED
  BY <1>4, <1>5, <1>6, <1>7, <1>8, <1>9, <1>10, <1>11 DEF MainTask

\* The line is raised by Assert, lowered by Deassert, and held by everything between.
LEMMA MainPin ==
    ASSUME FirmwareTypeOK, PinInv, MainTask \/ RecvFails \/ Panic
    PROVE  PinInv'
<1> USE DEF PinInv, gpio, wifi, env
<1>1. CASE Boot
  BY <1>1 DEF Boot, InitPin, FirmwareTypeOK
<1>2. CASE StartRadio \/ LightSleep \/ LightWake \/ WindowTrigger \/ WindowTimeout
  BY <1>2 DEF StartRadio, LightSleep, LightWake, WindowTrigger, WindowTimeout
<1>3. CASE Connect \/ ConnectOk \/ ConnectFail \/ Recv \/ RecvFails
  BY <1>3 DEF Connect, ConnectOk, ConnectFail, Recv, RecvFails
<1>4. CASE Assert \/ ReportActive
  BY <1>4 DEF Assert, ReportActive, Drive
<1>5. CASE Active
  BY <1>5 DEF Active
<1>6. CASE Deassert
  BY <1>6 DEF Deassert, Drive
<1>7. CASE Disconnect \/ StopRadio
  BY <1>7 DEF Disconnect, StopRadio
<1>8. CASE TimerWake
  BY <1>8 DEF TimerWake, Reset
<1>9. CASE Panic
  BY <1>9 DEF Panic, Reset
<1>10. QED
  BY <1>1, <1>2, <1>3, <1>4, <1>5, <1>6, <1>7, <1>8, <1>9 DEF MainTask

\* The line means a trigger, for any number of retries, lost access points and panics.
THEOREM PinMeans == FirmwareSpec => []FirmwareConsistent
<1>1. FirmwareInit => FirmwareTypeOK /\ PinInv
  <2> SUFFICES ASSUME FirmwareInit PROVE FirmwareTypeOK /\ PinInv
    OBVIOUS
  <2>1. events \in Seq({"disconnected", "got_ip"}) /\ bits \subseteq {"connected", "fail"}
    BY DEF FirmwareInit, PowerOn
  <2>2. 0 \in 0 .. MaxRetry /\ 0 \in 0 .. MaxDrops /\ 0 \in 0 .. MaxResets
    BY FirmwareAssumption DEF FirmwareAssumption
  <2>3. FirmwareTypeOK
    BY <2>1, <2>2 DEF FirmwareInit, PowerOn, FirmwareTypeOK
  <2>4. PinInv
    BY DEF FirmwareInit, PinInv
  <2>5. QED
    BY <2>3, <2>4
<1>2. FirmwareTypeOK /\ PinInv /\ [FirmwareNext]_firmwareVars => FirmwareTypeOK' /\ PinInv'
  <2> SUFFICES ASSUME FirmwareTypeOK, PinInv, [FirmwareNext]_firmwareVars
               PROVE  FirmwareTypeOK' /\ PinInv'
    OBVIOUS
  <2>1. CASE EventTask \/ ApDrop \/ ApReturn \/ Associate \/ Hear
    BY <2>1, RadioTypes DEF MainAlone, PinInv
  <2>2. CASE MainTask \/ RecvFails \/ Panic
    BY <2>2, MainTypes, MainPin
  <2>3. CASE UNCHANGED firmwareVars
    BY <2>3 DEF firmwareVars, gpio, wifi, env, FirmwareTypeOK, PinInv
  <2>4. QED
    BY <2>1, <2>2, <2>3 DEF FirmwareNext
<1>3. FirmwareTypeOK /\ PinInv => FirmwareConsistent
  BY FirmwareAssumption DEF FirmwareAssumption, FirmwareTypeOK, PinInv, FirmwareConsistent, PinMeansTrigger
<1>4. QED
  BY <1>1, <1>2, <1>3, PTL DEF FirmwareSpec

-----------------------------------------------------------------------------
(* The kernel driver.                                                      *)

\* Every step of the driver keeps the types of its numbers: in particular wake_count
\* stays a u32.
LEMMA DriverNumbers == NumbersOK /\ [DriverNext]_driverVars => NumbersOK'
<1> SUFFICES ASSUME NumbersOK, [DriverNext]_driverVars PROVE NumbersOK'
  OBVIOUS
<1> USE EspAssumption DEF EspAssumption, NumbersOK
<1>1. CASE Rise
  BY <1>1 DEF Rise, drv
<1>2. CASE Fall
  BY <1>2 DEF Fall, drv
<1>3. CASE Tick
  BY <1>3 DEF Tick, phys, drv
<1>4. CASE IrqSample
  BY <1>4 DEF IrqSample, phys, drv
<1>5. CASE IrqRise
  BY <1>5 DEF IrqRise, IrqReturn, phys
<1>6. CASE IrqFall
  BY <1>6 DEF IrqFall, IrqReturn, Confirmed, NextCount, phys
<1>7. CASE IrqIgnore
  BY <1>7 DEF IrqIgnore, IrqReturn, phys, drv
<1>8. CASE Store
  BY <1>8 DEF Store, phys
<1>9. CASE Reprobe
  BY <1>9 DEF Reprobe
<1>10. CASE UNCHANGED driverVars
  BY <1>10 DEF driverVars, phys, drv
<1>11. QED
  BY <1>1, <1>2, <1>3, <1>4, <1>5, <1>6, <1>7, <1>8, <1>9, <1>10 DEF DriverNext, IrqUpdate

\* So it does those of its flags.
LEMMA DriverFlags == FlagsOK /\ [DriverNext]_driverVars => FlagsOK'
<1> SUFFICES ASSUME FlagsOK, [DriverNext]_driverVars PROVE FlagsOK'
  OBVIOUS
<1> USE DEF FlagsOK
<1>1. CASE Rise
  BY <1>1 DEF Rise, drv, Latches
<1>2. CASE Fall
  BY <1>2 DEF Fall, drv, Latches
<1>3. CASE Tick
  BY <1>3 DEF Tick, phys, drv
<1>4. CASE IrqSample
  BY <1>4 DEF IrqSample, phys, drv
<1>5. CASE IrqUpdate
  BY <1>5 DEF IrqUpdate, IrqRise, IrqFall, IrqIgnore, IrqReturn, phys,
              drv
<1>6. CASE Store \/ Reprobe
  BY <1>6 DEF Store, Reprobe, phys
<1>7. CASE UNCHANGED driverVars
  BY <1>7 DEF driverVars, phys, drv
<1>8. QED
  BY <1>1, <1>2, <1>3, <1>4, <1>5, <1>6, <1>7 DEF DriverNext

\* The driver's fields keep their types, whatever the line and user space do.
THEOREM DriverTypes == DriverSpec => []DriverTypeOK
<1>1. DriverInit => DriverTypeOK
  <2>1. DriverInit => NumbersOK
    BY EspAssumption DEF EspAssumption, DriverInit, Probed, NumbersOK
  <2>2. DriverInit => FlagsOK
    BY DEF DriverInit, Probed, FlagsOK
  <2>3. QED
    BY <2>1, <2>2 DEF DriverTypeOK
<1>2. QED
  BY <1>1, DriverNumbers, DriverFlags, PTL DEF DriverSpec, DriverTypeOK

-----------------------------------------------------------------------------
\* LevelAgreement is not inductive: a handler between its two steps must be
\* known to hold the level of the line unless an edge has been latched again.
LevelInv ==
    /\ isr = "sampled" /\ ~edge => val = line
    /\ LevelAgreement

\* A driver with nothing left to do agrees with the line, whatever coalesced.
THEOREM LevelAgrees == DriverSpec => []LevelAgreement
<1>1. DriverInit => LevelInv
  BY DEF DriverInit, LevelInv, LevelAgreement
<1>2. DriverTypeOK /\ LevelInv /\ [DriverNext]_driverVars => LevelInv'
  <2> SUFFICES ASSUME DriverTypeOK, LevelInv, [DriverNext]_driverVars PROVE LevelInv'
    OBVIOUS
  <2> USE DEF DriverTypeOK, NumbersOK, FlagsOK, LevelInv, LevelAgreement, Quiescent
  <2>1. CASE Rise
    BY <2>1 DEF Rise, Latches
  <2>2. CASE Fall
    BY <2>2 DEF Fall, Latches
  <2>3. CASE Tick
    BY <2>3 DEF Tick, phys, drv
  <2>4. CASE IrqSample
    BY <2>4 DEF IrqSample, phys
  <2>5. CASE IrqUpdate
    <3>1. CASE IrqRise
      BY <3>1 DEF IrqRise, IrqReturn, RisingSeen, phys
    <3>2. CASE IrqFall
      BY <3>2 DEF IrqFall, IrqReturn, FallingSeen, phys
    <3>3. CASE IrqIgnore
      BY <3>3 DEF IrqIgnore, IrqReturn, RisingSeen, FallingSeen, phys, drv
    <3>4. QED
      BY <2>5, <3>1, <3>2, <3>3 DEF IrqUpdate
  <2>6. CASE Store
    BY <2>6 DEF Store, phys
  <2>7. CASE Reprobe
    BY <2>7 DEF Reprobe
  <2>8. CASE UNCHANGED driverVars
    BY <2>8 DEF driverVars, phys, drv
  <2>9. QED
    BY <2>1, <2>2, <2>3, <2>4, <2>5, <2>6, <2>7, <2>8 DEF DriverNext
<1>3. LevelInv => LevelAgreement
  BY DEF LevelInv
<1>4. QED
  BY <1>1, <1>2, <1>3, DriverTypes, PTL DEF DriverSpec

-----------------------------------------------------------------------------
\* An open pulse began after the last wake was counted, and nothing the driver
\* remembers lies in the future.
ApartInv ==
    /\ lastCount <= now
    /\ pending /\ total > 0 => last_rise >= lastCount
    /\ last_rise <= now

\* Counted wakes are at least Debounce apart.
THEOREM CountedWakesApart == DriverSpec => WakesApart
<1>1. DriverInit => ApartInv
  BY DEF DriverInit, Probed, ApartInv
<1>2. DriverTypeOK /\ ApartInv /\ [DriverNext]_driverVars => ApartInv'
  <2> SUFFICES ASSUME DriverTypeOK, ApartInv, [DriverNext]_driverVars PROVE ApartInv'
    OBVIOUS
  <2> USE DEF DriverTypeOK, NumbersOK, ApartInv
  <2>1. CASE Rise
    BY <2>1 DEF Rise, drv
  <2>2. CASE Fall
    BY <2>2 DEF Fall, drv
  <2>3. CASE Tick
    BY <2>3 DEF Tick, phys, drv
  <2>4. CASE IrqSample
    BY <2>4 DEF IrqSample, phys, drv
  <2>5. CASE IrqUpdate
    <3>1. CASE IrqRise
      BY <3>1 DEF IrqRise, IrqReturn
    <3>2. CASE IrqFall
      BY <3>2 DEF IrqFall, IrqReturn
    <3>3. CASE IrqIgnore
      BY <3>3 DEF IrqIgnore, IrqReturn, drv
    <3>4. QED
      BY <2>5, <3>1, <3>2, <3>3 DEF IrqUpdate
  <2>6. CASE Store
    BY <2>6 DEF Store
  <2>7. CASE Reprobe
    BY <2>7 DEF Reprobe
  <2>8. CASE UNCHANGED driverVars
    BY <2>8 DEF driverVars, drv
  <2>9. QED
    BY <2>1, <2>2, <2>3, <2>4, <2>5, <2>6, <2>7, <2>8 DEF DriverNext
<1>3. DriverTypeOK /\ ApartInv /\ [DriverNext]_driverVars
      => [total' > total => (total = 0 \/ now - lastCount >= Debounce)]_driverVars
  <2> SUFFICES ASSUME DriverTypeOK, ApartInv, DriverNext, total' > total
               PROVE  total = 0 \/ now - lastCount >= Debounce
    OBVIOUS
  <2>1. IrqFall
    <3>1. total' # total
      BY DEF DriverTypeOK, NumbersOK
    <3>2. ~Rise /\ ~Fall /\ ~Tick /\ ~IrqSample /\ ~Store
      BY <3>1 DEF Rise, Fall, Tick, IrqSample, Store
    <3>3. ~IrqRise /\ ~IrqIgnore
      BY <3>1 DEF IrqRise, IrqIgnore
    <3>4. ~Reprobe
      BY DEF Reprobe, DriverTypeOK, NumbersOK
    <3>5. QED
      BY <3>2, <3>3, <3>4 DEF DriverNext, IrqUpdate
  <2>2. pending /\ now - last_rise >= Debounce
    BY <2>1 DEF IrqFall, FallingSeen, Confirmed, DriverTypeOK, NumbersOK
  <2>3. QED
    BY <2>2, EspAssumption DEF EspAssumption, ApartInv, DriverTypeOK, NumbersOK
<1>4. QED
  BY <1>1, <1>2, <1>3, DriverTypes, PTL DEF DriverSpec, WakesApart

-----------------------------------------------------------------------------
\* While no edge has found the driver busy, what it remembers of the pulse is one
\* of four situations: at rest, a rise to serve, a fall to serve that closes an
\* open pulse, a fall that closes none.
Counted == sure <= total /\ total <= maybe
Tracking ==
    /\ ~(edge /\ isr = "sampled")
    /\ isr = "sampled" => val = line
    /\ Busy => waited = now - since /\ waited <= MaxLatency
    /\ ~Busy => waited = 0
    /\ ~Busy =>
         /\ Counted
         /\ pending <=> tracked
         /\ pending => since <= last_rise /\ last_rise <= since + MaxLatency
    /\ Busy /\ line = 1 => Counted /\ ~pending /\ tracked
    /\ Busy /\ line = 0 /\ ~pending => Counted
    /\ Busy /\ line = 0 /\ pending =>
         /\ last_rise <= since
         /\ sure <= total \/ (sure <= total + 1 /\ since - last_rise >= Debounce)
         /\ total <= maybe
         /\ since - last_rise >= Debounce - MaxLatency => total + 1 <= maybe
FaithInv ==
    /\ since <= now /\ last_rise <= now /\ (tracked => line = 1)
    /\ ~crowded => Tracking

\* As long as no edge has met a busy driver, the count lies between the pulses
\* that are surely and those that are possibly longer than the debounce time.
THEOREM CountIsFaithful == DriverSpec => []CountFaithful
<1> USE EspAssumption DEF EspAssumption
<1>1. DriverInit => FaithInv
  BY DEF DriverInit, Probed, FaithInv, Tracking, Busy, Counted
<1>2. DriverTypeOK /\ FaithInv /\ [DriverNext]_driverVars => since' <= now' /\ last_rise' <= now' /\ (tracked' => line' = 1)
  BY DEF DriverTypeOK, NumbersOK, FlagsOK, FaithInv, DriverNext, Rise, Fall, Tick, IrqSample,
         IrqUpdate, IrqRise, IrqFall, IrqIgnore, IrqReturn, Store, Reprobe, driverVars, phys, drv
<1>3. DriverTypeOK /\ FaithInv /\ [DriverNext]_driverVars /\ ~crowded' => Tracking'
  <2> SUFFICES ASSUME DriverTypeOK, FaithInv, [DriverNext]_driverVars, ~crowded' PROVE Tracking'
    OBVIOUS
  <2> USE DEF DriverTypeOK, NumbersOK, FlagsOK, Busy, Counted, FaithInv, Tracking
  <2>1. Rise \/ Fall => ~Busy /\ ~crowded
    BY DEF Rise, Fall
  <2>2. CASE Rise
    <3>1. ~edge /\ isr = "idle" /\ ~pending /\ waited = 0 /\ Counted
      BY <2>1, <2>2 DEF Rise
    <3>2. /\ edge' /\ line' = 1 /\ since' = now /\ tracked' /\ isr' = isr
          /\ pending' = pending /\ waited' = waited /\ now' = now
          /\ total' = total /\ sure' = sure /\ maybe' = maybe
      BY <2>2 DEF Rise, Latches, drv
    <3>3. QED
      BY <3>1, <3>2, EspAssumption DEF EspAssumption
  <2>3. CASE Fall
    <3>1. pending => last_rise <= now /\ now - since >= now - last_rise
      BY <2>1, <2>3, EspAssumption DEF EspAssumption, Fall, Width
    <3>2. /\ edge' /\ line' = 0 /\ since' = now /\ ~tracked' /\ isr' = "idle"
          /\ pending' = pending /\ last_rise' = last_rise /\ total' = total
          /\ waited' = waited /\ now' = now
      BY <2>1, <2>3 DEF Fall, Latches, drv
    <3>3. waited = 0
      BY <2>1, <2>3
    <3>4. QED
      BY <2>1, <2>3, <3>1, <3>2, <3>3, EspAssumption DEF EspAssumption, Fall, Width
  <2>4. CASE Tick
    BY <2>4 DEF Tick, phys, drv
  <2>5. CASE IrqSample
    BY <2>5 DEF IrqSample, phys, drv
  <2>6. CASE IrqRise
    BY <2>6 DEF IrqRise, IrqReturn, RisingSeen, phys
  <2>7. CASE IrqFall
    BY <2>7 DEF IrqFall, IrqReturn, FallingSeen, Confirmed, phys
  <2>8. CASE IrqIgnore
    BY <2>8 DEF IrqIgnore, IrqReturn, RisingSeen, FallingSeen, phys, drv
  <2>9. CASE Store
    BY <2>9 DEF Store, phys
  <2>10. CASE Reprobe
    BY <2>10 DEF Reprobe
  <2>11. CASE UNCHANGED driverVars
    BY <2>11 DEF driverVars, phys, drv, Tracking
  <2>12. QED
    BY <2>2, <2>3, <2>4, <2>5, <2>6, <2>7, <2>8, <2>9, <2>10, <2>11
       DEF DriverNext, IrqUpdate
<1>4. FaithInv => CountFaithful
  BY DEF FaithInv, Tracking, CountFaithful, Quiescent, Counted, Busy
<1>5. FaithInv /\ DriverTypeOK /\ [DriverNext]_driverVars => FaithInv'
  BY <1>2, <1>3 DEF FaithInv
<1>6. QED
  BY <1>1, <1>4, <1>5, DriverTypes, PTL DEF DriverSpec

-----------------------------------------------------------------------------
(* The driver under the dashboard.                                         *)

\* What senders and polls do leaves the driver alone.
LEMMA DriverSteps == [Next]_vars => [DriverNext]_driverVars
<1> SUFFICES ASSUME [Next]_vars PROVE [DriverNext]_driverVars
  OBVIOUS
<1>1. CASE Driver
  BY <1>1 DEF Driver, DriverNext
<1>2. CASE UNCHANGED driverVars
  BY <1>2 DEF driverVars, phys, drv
<1>3. CASE \E s \in Senders : Stamp(s) \/ Send(s)
  BY <1>2, <1>3 DEF Stamp, Send
<1>4. CASE Poll
  BY <1>2, <1>4 DEF Poll, ReadCountFails, ReadCount, ReadWake, Publish, NoNewWake,
                    WakeWithoutTrigger, WakeMatched, Clear
<1>5. CASE UNCHANGED vars
  BY <1>2, <1>5 DEF vars
<1>6. QED
  BY <1>1, <1>3, <1>4, <1>5 DEF Next

\* The driver that the dashboard polls is the driver: what is proved of its every step
\* holds here as well.
THEOREM DriverInside == Spec => DriverInit /\ [][DriverNext]_driverVars
<1>1. Init => DriverInit
  BY DEF Init
<1>2. QED
  BY <1>1, DriverSteps, PTL DEF Spec

\* A step that does not rewrite the counter makes it grow at least as much as the
\* wakes; a reload that leaves it had nothing to forget.
LEMMA DriverCounts ==
    ASSUME NumbersOK, Driver, rewritten \in BOOLEAN, ~rewritten', total <= wake_count
    PROVE  /\ ~rewritten
           /\ total <= total' /\ total' - total <= wake_count' - wake_count
<1>1. ~rewritten /\ wake_count' \in {wake_count, wake_count + 1}
  BY DEF Driver
<1>2. wake_count \in Nat /\ wake_count < CountMod /\ total \in Nat
  BY EspAssumption, RttAssumption DEF EspAssumption, RttAssumption, NumbersOK
<1>3. CASE Rise \/ Fall \/ Tick \/ IrqSample
  <2>1. wake_count' = wake_count /\ total' = total
    BY <1>3 DEF Rise, Fall, Tick, IrqSample, drv
  <2>2. QED
    BY <1>1, <1>2, <2>1
<1>4. CASE IrqRise \/ IrqIgnore
  <2>1. wake_count' = wake_count /\ total' = total
    BY <1>4 DEF IrqRise, IrqIgnore, drv
  <2>2. QED
    BY <1>1, <1>2, <2>1
<1>5. CASE IrqFall
  <2>1. CASE wake_count' = wake_count /\ total' = total
    BY <1>1, <1>2, <2>1
  <2>2. CASE wake_count' = (wake_count + 1) % CountMod /\ total' = total + 1
    <3>1. CountMod \in Nat /\ CountMod > 1
      BY EspAssumption, RttAssumption DEF EspAssumption, RttAssumption
    <3>2. wake_count' # wake_count
      BY <1>2, <2>2, <3>1
    <3>3. QED
      BY <1>1, <1>2, <2>2, <3>2
  <2>3. QED
    BY <1>5, <2>1, <2>2 DEF IrqFall, NextCount
<1>6. CASE Store
  <2>1. total' = total
    BY <1>6 DEF Store
  <2>2. wake_count' = wake_count \/ wake_count' = wake_count + 1
    BY <1>1
  <2>3. total <= total' /\ total' - total <= wake_count' - wake_count
    BY <1>2, <2>1, <2>2
  <2>4. QED
    BY <1>1, <2>3
<1>7. CASE Reprobe
  <2>1. wake_count' = 0 /\ total' = 0
    BY <1>7 DEF Reprobe
  <2>2. QED
    BY <1>1, <1>2, <2>1
<1>8. QED
  BY <1>1, <1>3, <1>4, <1>5, <1>6, <1>7 DEF Driver, IrqUpdate

-----------------------------------------------------------------------------
(* The inductive invariant.                                                *)

\* The types of the senders' and the thread's own variables.
PollNumbersOK ==
    /\ last_trigger \in Nat /\ stamps \in 0 .. MaxSends
    /\ wc \in Nat /\ wake \in Nat /\ prev \in Nat /\ read_total \in Nat
PlacesOK ==
    /\ spc \in [Senders -> {"idle", "stamped"}]
    /\ dpc \in {"count", "wake", "publish", "match", "clear"}
    /\ matches \in [1 .. MaxSends -> Nat]
HistoryOK == fresh \in BOOLEAN /\ rewritten \in BOOLEAN
Sample == [trigger : 1 .. MaxSends, ms : Nat \ {0}]
ShownOK ==
    /\ driver_state \in [available : BOOLEAN, wake_count : Nat]
    /\ rtt \in Seq(Sample) /\ Len(rtt) <= MaxRtt

\* A stamp is the newest trigger's, which has no sample unless the thread is about
\* to clear it; no trigger to come has one.
OnceInv ==
    /\ \A t \in 1 .. MaxSends : matches[t] <= 1
    /\ \A t \in 1 .. MaxSends : t > stamps => matches[t] = 0
    /\ last_trigger > 0 => stamps > 0
    /\ last_trigger > 0 /\ dpc # "clear" => matches[stamps] = 0

\* The count at the last read: between two polls it is what prev was set to.
LastRead == IF dpc = "count" THEN prev ELSE wc

\* Nobody having rewritten the counter, it has grown since the last read at least
\* as much as the wakes, and what the thread compares it with lies behind.
CountInv ==
    ~rewritten =>
        /\ total <= wake_count /\ read_total <= total
        /\ total - read_total <= wake_count - LastRead
        /\ dpc # "count" => prev <= wc /\ (fresh => prev < wc)

\* The types of the driver and of the dashboard's side.
Types == NumbersOK /\ FlagsOK /\ PollNumbersOK /\ PlacesOK /\ HistoryOK /\ ShownOK
RttInv == Types /\ OnceInv /\ CountInv

-----------------------------------------------------------------------------
(* The steps.                                                              *)

\* The invariant holds before the first poll.
LEMMA InitOK == Init => RttInv
<1> SUFFICES ASSUME Init PROVE RttInv
  OBVIOUS
<1>1. CountMod \in Nat /\ CountMod > 0 /\ MaxSends \in Nat /\ MaxRtt \in Nat
  BY EspAssumption, RttAssumption DEF EspAssumption, RttAssumption
<1>2. NumbersOK
  BY <1>1 DEF Init, DriverInit, Probed, NumbersOK
<1>3. FlagsOK
  BY DEF Init, DriverInit, Probed, FlagsOK
<1>4. PollNumbersOK
  BY <1>1 DEF Init, PollNumbersOK
<1>5. PlacesOK
  BY DEF Init, PlacesOK
<1>6. HistoryOK
  BY DEF Init, HistoryOK
<1>7. ShownOK
  <2>1. rtt \in Seq(Sample) /\ Len(rtt) = 0
    BY DEF Init
  <2>2. driver_state \in [available : BOOLEAN, wake_count : Nat]
    BY DEF Init
  <2>3. QED
    BY <1>1, <2>1, <2>2 DEF ShownOK
<1>8. OnceInv
  BY DEF Init, OnceInv
<1>9. CountInv
  BY DEF Init, DriverInit, Probed, CountInv, LastRead
<1>10. QED
  BY <1>2, <1>3, <1>4, <1>5, <1>6, <1>7, <1>8, <1>9 DEF RttInv, Types

\* A counter that grows at least as much as the wakes stays ahead of them.
LEMMA Ahead ==
    ASSUME NEW t \in Int, NEW u \in Int, NEW c \in Int, NEW d \in Int, NEW r \in Int, NEW l \in Int,
           t <= c, r <= t, t - r <= c - l, t <= u, u - t <= d - c
    PROVE  u <= d /\ r <= u /\ u - r <= d - l
<1>1. u <= d
  OBVIOUS
<1>2. r <= u
  OBVIOUS
<1>3. u - r <= d - l
  OBVIOUS
<1>4. QED
  BY <1>1, <1>2, <1>3

\* A step of the driver moves the counter away from what has been read.
LEMMA DriverKeeps == ASSUME RttInv, Driver PROVE RttInv'
<1>1. UNCHANGED <<last_trigger, spc, stamps, dpc, wc, wake, prev, driver_state, rtt,
                  read_total, fresh, matches>>
  BY DEF Driver, sending, polling
<1>2. NumbersOK' /\ FlagsOK'
  <2>1. [DriverNext]_driverVars
    BY DEF Driver, DriverNext
  <2>2. QED
    BY <2>1, DriverNumbers, DriverFlags DEF RttInv, Types
<1>3. PollNumbersOK' /\ PlacesOK' /\ ShownOK' /\ OnceInv'
  BY <1>1 DEF RttInv, Types, PollNumbersOK, PlacesOK, ShownOK, OnceInv
<1>4. HistoryOK'
  BY <1>1 DEF RttInv, Types, HistoryOK, Driver
<1>5. ASSUME ~rewritten' PROVE CountInv'
  <2>1. ~rewritten
    BY <1>5 DEF Driver
  <2>2. /\ total <= wake_count /\ read_total <= total
        /\ total - read_total <= wake_count - LastRead
        /\ dpc # "count" => prev <= wc /\ (fresh => prev < wc)
    BY <2>1 DEF RttInv, CountInv
  <2>3. total <= total' /\ total' - total <= wake_count' - wake_count
    BY <1>5, <2>2, DriverCounts DEF RttInv, Types, HistoryOK
  <2>4. total \in Nat /\ total' \in Nat /\ wake_count \in Int /\ wake_count' \in Int
    BY <1>2, RttAssumption DEF RttInv, Types, NumbersOK, RttAssumption
  <2>5. LastRead' = LastRead /\ read_total' = read_total /\ LastRead \in Int /\ read_total \in Int
    BY <1>1 DEF LastRead, RttInv, Types, PollNumbersOK
  <2>6. total' <= wake_count' /\ read_total' <= total'
        /\ total' - read_total' <= wake_count' - LastRead'
    <3>1. read_total \in Int /\ LastRead \in Int
      BY <2>5
    <3>2. total \in Int /\ total' \in Int /\ wake_count \in Int /\ wake_count' \in Int
      BY <2>4
    <3>3. /\ total <= wake_count /\ read_total <= total /\ total - read_total <= wake_count - LastRead
          /\ total <= total' /\ total' - total <= wake_count' - wake_count
      BY <2>2, <2>3
    <3>4. total' <= wake_count' /\ read_total <= total'
          /\ total' - read_total <= wake_count' - LastRead
      <4> DEFINE t == total  u == total'  c == wake_count  d == wake_count'  r == read_total
                 l == LastRead
      <4>1. t \in Int /\ u \in Int /\ c \in Int /\ d \in Int /\ r \in Int /\ l \in Int
        BY <3>1, <3>2
      <4>2. t <= c /\ r <= t /\ t - r <= c - l /\ t <= u /\ u - t <= d - c
        BY <3>3
      <4>3. SUFFICES u <= d /\ r <= u /\ u - r <= d - l
        OBVIOUS
      <4> HIDE DEF t, u, c, d, r, l
      <4>4. QED
        BY <4>1, <4>2, Ahead
    <3>5. QED
      BY <2>5, <3>4
  <2>7. QED
    BY <1>1, <2>2, <2>6 DEF CountInv
<1>6. QED
  BY <1>2, <1>3, <1>4, <1>5 DEF RttInv, Types, CountInv

\* What a step that leaves the driver alone keeps of it.
LEMMA DriverAlone ==
    ASSUME NumbersOK, FlagsOK, UNCHANGED driverVars
    PROVE  NumbersOK' /\ FlagsOK'
<1>1. NumbersOK'
  BY DEF driverVars, phys, drv, NumbersOK
<1>2. FlagsOK'
  BY DEF driverVars, phys, drv, FlagsOK
<1>3. QED
  BY <1>1, <1>2

\* A new trigger has no sample yet, whatever the thread is doing.
LEMMA StampKeeps == ASSUME RttInv, NEW s \in Senders, Stamp(s) PROVE RttInv'
<1>1. /\ UNCHANGED <<dpc, wc, wake, prev, driver_state, rtt, read_total, fresh, matches,
                     rewritten, wake_count, total>>
      /\ last_trigger' = now /\ stamps < MaxSends /\ stamps' = stamps + 1
  BY DEF Stamp, polling, driverVars, phys, drv
<1>2. NumbersOK' /\ FlagsOK'
  BY DriverAlone DEF RttInv, Types, Stamp
<1>3. stamps \in 0 .. MaxSends /\ MaxSends \in Nat /\ now \in Nat
  BY EspAssumption, RttAssumption DEF EspAssumption, RttAssumption, RttInv, Types, PollNumbersOK, NumbersOK
<1>4. stamps' \in 1 .. MaxSends
  BY <1>1, <1>3
<1>5. PollNumbersOK'
  BY <1>1, <1>3, <1>4 DEF RttInv, Types, PollNumbersOK
<1>6. PlacesOK'
  BY <1>1 DEF RttInv, Types, PlacesOK, Stamp
<1>7. HistoryOK' /\ ShownOK' /\ CountInv'
  BY <1>1 DEF RttInv, Types, HistoryOK, ShownOK, CountInv, LastRead
<1>8. OnceInv'
  <2>1. \A t \in 1 .. MaxSends : t > stamps' => matches'[t] = 0
    BY <1>1, <1>3 DEF RttInv, OnceInv
  <2>2. matches'[stamps'] = 0 /\ stamps' > 0
    BY <1>1, <1>3, <1>4 DEF RttInv, OnceInv
  <2>3. QED
    BY <1>1, <2>1, <2>2 DEF RttInv, OnceInv
<1>9. QED
  BY <1>2, <1>5, <1>6, <1>7, <1>8 DEF RttInv, Types

\* Whether the packet leaves or not makes no difference.
LEMMA SendKeeps == ASSUME RttInv, NEW s \in Senders, Send(s) PROVE RttInv'
<1>1. UNCHANGED <<dpc, wc, wake, prev, driver_state, rtt, read_total, fresh, matches,
                  rewritten, wake_count, total, last_trigger, stamps>>
  BY DEF Send, polling, driverVars, phys, drv
<1>2. NumbersOK' /\ FlagsOK'
  BY DriverAlone DEF RttInv, Types, Send
<1>3. PlacesOK'
  BY <1>1 DEF RttInv, Types, PlacesOK, Send
<1>4. PollNumbersOK' /\ HistoryOK' /\ ShownOK' /\ CountInv' /\ OnceInv'
  BY <1>1 DEF RttInv, Types, PollNumbersOK, HistoryOK, ShownOK, CountInv, LastRead, OnceInv
<1>5. QED
  BY <1>2, <1>3, <1>4 DEF RttInv, Types

-----------------------------------------------------------------------------
(* The thread.                                                             *)

\* The newest round-trip times are kept.
LEMMA Trimming ==
    ASSUME rtt \in Seq(Sample), Len(rtt) <= MaxRtt, NEW x \in Sample
    PROVE  Trim(Append(rtt, x)) \in Seq(Sample) /\ Len(Trim(Append(rtt, x))) <= MaxRtt
<1> DEFINE s == Append(rtt, x)
           from == Len(s) - MaxRtt + 1
<1>1. s \in Seq(Sample) /\ Len(s) = Len(rtt) + 1
  OBVIOUS
<1>2. MaxRtt \in Nat /\ MaxRtt > 0 /\ Len(s) \in Nat
  BY <1>1, RttAssumption DEF RttAssumption
<1> HIDE DEF s
<1> SUFFICES Trim(s) \in Seq(Sample) /\ Len(Trim(s)) <= MaxRtt
  BY DEF s
<1>3. CASE Len(s) > MaxRtt
  <2>1. from \in 1 .. Len(s) + 1 /\ Len(s) \in from - 1 .. Len(s)
    BY <1>1, <1>2, <1>3
  <2>2. SubSeq(s, from, Len(s)) \in Seq(Sample) /\ Len(SubSeq(s, from, Len(s))) = Len(s) - from + 1
    BY <1>1, <2>1, SubSeqProperties
  <2>3. Trim(s) = SubSeq(s, from, Len(s))
    BY <1>3 DEF Trim
  <2>4. Len(s) - from + 1 = MaxRtt
    BY <1>2
  <2>5. QED
    BY <1>2, <2>2, <2>3, <2>4
<1>4. CASE ~(Len(s) > MaxRtt)
  BY <1>1, <1>2, <1>4 DEF Trim
<1>5. QED
  BY <1>3, <1>4

\* A step of the thread leaves the driver and the senders alone.
LEMMA PollAlone ==
    ASSUME RttInv, UNCHANGED <<driverVars, rewritten, sending>>, PlacesOK', PollNumbersOK', ShownOK',
           fresh' \in BOOLEAN, OnceInv', CountInv'
    PROVE  RttInv'
<1>1. NumbersOK' /\ FlagsOK'
  BY DriverAlone DEF RttInv, Types
<1>2. HistoryOK'
  BY DEF RttInv, Types, HistoryOK
<1>3. QED
  BY <1>1, <1>2 DEF RttInv, Types

\* Reading the count fixes how far the counter is ahead of the last poll.
LEMMA CountRead == ASSUME RttInv, ReadCount PROVE RttInv'
<1>1. /\ dpc = "count" /\ wc' = wake_count /\ dpc' = "wake"
      /\ read_total' = total /\ fresh' = (total > read_total)
      /\ UNCHANGED <<rewritten, last_trigger, spc, stamps, wake, prev, driver_state, rtt,
                     matches, wake_count, total>>
      /\ UNCHANGED <<driverVars, rewritten, sending>>
  BY DEF ReadCount, sending, driverVars, phys, drv
<1>2. wake_count \in Nat /\ total \in Nat /\ prev \in Nat /\ read_total \in Nat
  BY EspAssumption, RttAssumption DEF EspAssumption, RttAssumption, RttInv, Types, PollNumbersOK, NumbersOK
<1>3. PollNumbersOK' /\ PlacesOK' /\ ShownOK'
  BY <1>1, <1>2 DEF RttInv, Types, PollNumbersOK, PlacesOK, ShownOK
<1>4. OnceInv'
  BY <1>1 DEF RttInv, OnceInv
<1>5. fresh' \in BOOLEAN
  BY <1>1
<1>6. ASSUME ~rewritten' PROVE CountInv'
  <2>1. total <= wake_count /\ read_total <= total /\ total - read_total <= wake_count - prev
    BY <1>1, <1>6 DEF RttInv, CountInv, LastRead
  <2>2. prev <= wake_count /\ (total > read_total => prev < wake_count)
    BY <1>2, <2>1
  <2>3. LastRead' = wake_count
    BY <1>1 DEF LastRead
  <2>4. total - total <= wake_count - wake_count /\ total <= total
    BY <1>2
  <2>5. QED
    BY <1>1, <2>1, <2>2, <2>3, <2>4 DEF CountInv
<1>7. CountInv'
  BY <1>6 DEF CountInv
<1>8. QED
  BY <1>1, <1>3, <1>4, <1>5, <1>7, PollAlone

\* The other reads and what is shown do not bear on the count or the stamp.
LEMMA OthersRead ==
    ASSUME RttInv, ReadCountFails \/ ReadWake \/ Publish
    PROVE  RttInv'
<1>1. /\ UNCHANGED <<rewritten, last_trigger, spc, stamps, wc, prev, rtt, read_total, fresh,
                     matches, wake_count, total>>
      /\ UNCHANGED <<driverVars, rewritten, sending>>
      /\ dpc' = dpc \/ (dpc \notin {"count", "clear"} /\ dpc' \in {"wake", "publish", "match"})
  BY DEF ReadCountFails, ReadWake, Publish, sending, driverVars, phys, drv
<1>2. last_rise \in Nat
  BY DEF RttInv, Types, NumbersOK
<1>3. PollNumbersOK'
  <2>1. wake' \in Nat
    BY <1>2 DEF ReadCountFails, ReadWake, Publish, RttInv, Types, PollNumbersOK
  <2>2. QED
    BY <1>1, <2>1 DEF RttInv, Types, PollNumbersOK
<1>4. PlacesOK'
  BY <1>1 DEF RttInv, Types, PlacesOK
<1>5. ShownOK'
  <2> DEFINE D == [available : BOOLEAN, wake_count : Nat]
  <2>1. driver_state \in D /\ wc \in Nat
    BY DEF RttInv, Types, ShownOK, PollNumbersOK
  <2>2. \/ driver_state' = driver_state
        \/ driver_state' = [driver_state EXCEPT !.available = FALSE]
        \/ driver_state' = [available |-> TRUE, wake_count |-> wc]
    BY DEF ReadCountFails, ReadWake, Publish
  <2>3. [driver_state EXCEPT !.available = FALSE] \in D
    BY <2>1
  <2>4. [available |-> TRUE, wake_count |-> wc] \in D
    BY <2>1
  <2>5. driver_state' \in D
    BY <2>1, <2>2, <2>3, <2>4
  <2>6. QED
    BY <1>1, <2>5 DEF RttInv, Types, ShownOK
<1>6. OnceInv'
  BY <1>1 DEF RttInv, OnceInv
<1>7. CountInv'
  BY <1>1 DEF RttInv, CountInv, LastRead
<1>8. fresh' \in BOOLEAN
  BY <1>1 DEF RttInv, Types, HistoryOK
<1>9. QED
  BY <1>1, <1>3, <1>4, <1>5, <1>6, <1>7, <1>8, PollAlone

\* A poll that ends has moved prev to the count it read, or found it there.
LEMMA PollEnds ==
    ASSUME RttInv, NoNewWake \/ WakeWithoutTrigger \/ Clear
    PROVE  RttInv'
<1>1. /\ UNCHANGED <<rewritten, spc, stamps, driver_state, rtt, read_total,
                     matches, wake_count, total>>
      /\ UNCHANGED <<driverVars, rewritten, sending>>
      /\ dpc # "count" /\ dpc' = "count" /\ wc' = 0 /\ fresh' = FALSE
      /\ (dpc # "clear" /\ last_trigger' = last_trigger) \/ last_trigger' = 0
      /\ wake' \in {wake, 0}
      /\ prev' = wc \/ (~(wc > prev) /\ prev' = prev)
  BY DEF NoNewWake, WakeWithoutTrigger, Clear, sending, driverVars, phys, drv, NewWake, Cleared
<1>2. wc \in Nat /\ prev \in Nat /\ last_trigger \in Nat /\ wake \in Nat /\ read_total \in Nat
      /\ total \in Nat /\ wake_count \in Nat
  BY EspAssumption, RttAssumption DEF EspAssumption, RttAssumption, RttInv, Types, PollNumbersOK, NumbersOK
<1>3. PollNumbersOK'
  BY <1>1, <1>2 DEF RttInv, Types, PollNumbersOK
<1>4. PlacesOK' /\ ShownOK'
  BY <1>1 DEF RttInv, Types, PlacesOK, ShownOK
<1>5. OnceInv'
  BY <1>1 DEF RttInv, OnceInv
<1>6. ASSUME ~rewritten' PROVE CountInv'
  <2>1. total <= wake_count /\ read_total <= total /\ total - read_total <= wake_count - wc
        /\ prev <= wc
    BY <1>1, <1>6 DEF RttInv, CountInv, LastRead
  <2>2. prev' = wc
    BY <1>1, <1>2, <2>1
  <2>3. LastRead' = wc
    BY <1>1, <2>2 DEF LastRead
  <2>4. QED
    BY <1>1, <2>1, <2>3 DEF CountInv
<1>7. CountInv'
  BY <1>6 DEF CountInv
<1>8. QED
  BY <1>1, <1>3, <1>4, <1>5, <1>7, PollAlone

\* A stamp that is matched had no sample.
LEMMA MatchKeeps == ASSUME RttInv, WakeMatched PROVE RttInv'
<1>1. /\ dpc = "match" /\ dpc' = "clear" /\ wake' = 0
      /\ last_trigger > 0 /\ wake > last_trigger
      /\ rtt' = Trim(Append(rtt, [trigger |-> stamps, ms |-> wake - last_trigger]))
      /\ matches' = [matches EXCEPT ![stamps] = @ + 1]
      /\ UNCHANGED <<rewritten, last_trigger, spc, stamps, wc, prev, driver_state,
                     read_total, fresh, wake_count, total>>
      /\ UNCHANGED <<driverVars, rewritten, sending>>
  BY DEF WakeMatched, Matches, sending, driverVars, phys, drv
<1>2. /\ stamps \in 0 .. MaxSends /\ MaxSends \in Nat /\ wake \in Nat /\ last_trigger \in Nat
      /\ matches \in [1 .. MaxSends -> Nat]
  BY EspAssumption, RttAssumption DEF EspAssumption, RttAssumption, RttInv, Types, PollNumbersOK, PlacesOK
<1>3. stamps \in 1 .. MaxSends /\ matches[stamps] = 0
  <2>1. stamps > 0 /\ matches[stamps] = 0
    BY <1>1 DEF RttInv, OnceInv
  <2>2. QED
    BY <1>2, <2>1
<1>4. PollNumbersOK'
  BY <1>1 DEF RttInv, Types, PollNumbersOK
<1>5. PlacesOK'
  BY <1>1, <1>2, <1>3 DEF RttInv, Types, PlacesOK
<1>6. ShownOK'
  <2>1. wake - last_trigger \in Nat \ {0}
    BY <1>1, <1>2
  <2>2. [trigger |-> stamps, ms |-> wake - last_trigger] \in Sample
    BY <1>3, <2>1 DEF Sample
  <2>3. rtt' \in Seq(Sample) /\ Len(rtt') <= MaxRtt
    BY <1>1, <2>2, Trimming DEF RttInv, Types, ShownOK
  <2>4. QED
    BY <1>1, <2>3 DEF RttInv, Types, ShownOK
<1>7. OnceInv'
  <2>1. \A t \in 1 .. MaxSends : matches'[t] = IF t = stamps THEN 1 ELSE matches[t]
    BY <1>1, <1>2, <1>3
  <2>2. \A t \in 1 .. MaxSends : matches'[t] <= 1
    BY <2>1 DEF RttInv, OnceInv
  <2>3. \A t \in 1 .. MaxSends : t > stamps => matches'[t] = 0
    BY <1>2, <2>1 DEF RttInv, OnceInv
  <2>4. QED
    BY <1>1, <2>2, <2>3 DEF RttInv, OnceInv
<1>8. CountInv' /\ fresh' \in BOOLEAN
  BY <1>1 DEF RttInv, Types, HistoryOK, CountInv, LastRead
<1>9. QED
  BY <1>1, <1>4, <1>5, <1>6, <1>7, <1>8, PollAlone

\* Every step keeps the invariant.
LEMMA StepOK == RttInv /\ [Next]_vars => RttInv'
<1> SUFFICES ASSUME RttInv, [Next]_vars PROVE RttInv'
  OBVIOUS
<1>1. CASE UNCHANGED vars
  <2>1. UNCHANGED <<driverVars, rewritten, last_trigger, spc, stamps, dpc, wc, wake, prev,
                    driver_state, rtt, read_total, fresh, matches, wake_count, total, sending>>
    BY <1>1 DEF vars, driverVars, drv, phys, sending, polling
  <2>2. PollNumbersOK' /\ PlacesOK' /\ ShownOK' /\ OnceInv' /\ CountInv' /\ fresh' \in BOOLEAN
    BY <2>1 DEF RttInv, Types, PollNumbersOK, PlacesOK, HistoryOK, ShownOK, OnceInv, CountInv, LastRead
  <2>3. QED
    BY <2>1, <2>2, PollAlone
<1>2. QED
  BY <1>1, DriverKeeps, StampKeeps, SendKeeps, CountRead, OthersRead, PollEnds, MatchKeeps
     DEF Next, Poll

\* The inductive invariant holds in every state.
LEMMA InvHolds == Spec => []RttInv
<1>1. QED
  BY InitOK, StepOK, PTL DEF Spec

-----------------------------------------------------------------------------
(* The theorems.                                                           *)

\* However triggers are stamped while the thread polls, one gives at most one
\* round-trip time, and the list of them stays within its size.
THEOREM OneSamplePerTrigger == Spec => []Consistent
<1>1. RttInv => DriverTypeOK
  BY DEF RttInv, Types, DriverTypeOK
<1>2. RttInv => TypeOK
  BY <1>1 DEF RttInv, Types, PollNumbersOK, PlacesOK, HistoryOK, ShownOK, Sample, TypeOK
<1>3. RttInv => RttOncePerTrigger
  BY DEF RttInv, OnceInv, RttOncePerTrigger
<1>4. RttInv => Consistent
  BY <1>2, <1>3 DEF Consistent
<1>5. QED
  BY <1>4, InvHolds, PTL

\* A poll after a wake takes the new-wake branch, whatever the driver counts
\* between its reads, as long as the counter is not rewritten.
THEOREM WakesDetected == Spec => []WakeDetected
<1>1. RttInv => WakeDetected
  BY DEF RttInv, Types, PollNumbersOK, CountInv, WakeDetected, WakesSinceLastPoll, NewWake
<1>2. QED
  BY <1>1, InvHolds, PTL
=============================================================================
