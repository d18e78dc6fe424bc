------------------------ MODULE ExternalMonitor_proofs ------------------------
(* Theorems about the external monitor, for any set of chips, shunts and   *)
(* conversion times and any number of requests, boots and failures.        *)
EXTENDS ExternalMonitor, TLAPS

-----------------------------------------------------------------------------
(* Settings and driver objects.                                            *)

\* A conversion time that is taken for a kind of chip is one that it has, and
\* one that it has is taken as it is.
LEMMA Coercing ==
    ASSUME NEW kind \in Kinds, NEW t \in Times
    PROVE  /\ Coerce(kind, t) \in TimesOf(kind) /\ Coerce(kind, t) \in Times
           /\ t \in TimesOf(kind) => Coerce(kind, t) = t
<1>1. \E s \in TimesOf(kind) : s \in Nearest(kind, t)
  BY MonitorAssumption DEF MonitorAssumption, Nearest
<1>2. Coerce(kind, t) \in TimesOf(kind)
  BY <1>1 DEF Coerce
<1>3. TimesOf(kind) \subseteq Times
  BY DEF TimesOf, Times
<1>4. QED
  BY <1>2, <1>3 DEF Coerce

\* No setting and no driver object is `None'.
LEMMA NotNone == None \notin Settings /\ None \notin Sensors
  BY MonitorAssumption DEF MonitorAssumption

\* The kind of chip that is assumed or found is always a kind.
LEMMA KindsOf ==
    /\ \A c \in Settings : Actual(c) \in Kinds
    /\ \A type \in Types, s \in Sensors \cup {None} : Candidate(type, s) \in Kinds
<1>1. \A c \in Settings : Actual(c) \in Kinds
  BY MonitorAssumption DEF MonitorAssumption, Actual, Settings, Types, Kinds
<1>2. \A type \in Types, s \in Sensors \cup {None} : Candidate(type, s) \in Kinds
  BY DEF Candidate, Types, Kinds, Sensors
<1>3. QED
  BY <1>1, <1>2

\* Settings that are stored are settings, enabled, and differ in the conversion time at most.
LEMMA Storing ==
    ASSUME NEW p \in Settings, NEW current \in Sensors \cup {None}
    PROVE  LET c == Stored(p, current)
           IN  /\ c \in Settings /\ c.enabled /\ Detected(c) \in Settings
               /\ c.type = p.type /\ c.addr = p.addr /\ c.shunt = p.shunt
               /\ Detected(c) = [c EXCEPT !.conv = Coerce(Actual(c), c.conv)]
               /\ c = [p EXCEPT !.enabled = TRUE, !.conv = Coerce(Candidate(p.type, current), p.conv)]
<1> DEFINE c == Stored(p, current)
<1>1. p.type \in Types /\ p.addr \in Addresses /\ p.shunt \in Shunts /\ p.conv \in Times
  BY DEF Settings
<1>2. Coerce(Candidate(p.type, current), p.conv) \in Times
  BY <1>1, KindsOf, Coercing
<1>3. c = [p EXCEPT !.enabled = TRUE, !.conv = Coerce(Candidate(p.type, current), p.conv)]
  BY DEF Stored
<1>4. c \in Settings /\ c.enabled /\ c.type = p.type /\ c.addr = p.addr /\ c.shunt = p.shunt
  BY <1>2, <1>3 DEF Settings
<1>5. Coerce(Actual(c), c.conv) \in Times
  BY <1>4, KindsOf, Coercing DEF Settings
<1>6. Detected(c) = [c EXCEPT !.conv = Coerce(Actual(c), c.conv)]
  BY DEF Detected
<1>7. Detected(c) \in Settings
  BY <1>4, <1>5, <1>6 DEF Settings
<1>8. QED
  BY <1>3, <1>4, <1>6, <1>7

\* A driver object agrees with settings that are enabled and whose chip has the time.
Agrees(s, c) ==
    /\ c.enabled
    /\ s.addr = c.addr /\ s.shunt = c.shunt /\ s.kind = Actual(c)
    /\ s.conv = c.conv /\ s.conv \in TimesOf(s.kind)

\* The driver object that Apply() leaves, new or configured again, agrees with the
\* settings it leaves.
LEMMA Driving ==
    ASSUME NEW p \in Settings, NEW current \in Sensors \cup {None}
    PROVE  LET c == Detected(Stored(p, current))
           IN  Driver(current, c) \in Sensors /\ Agrees(Driver(current, c), c)
<1> DEFINE b == Stored(p, current)
           c == Detected(b)
           s == Driver(current, c)
<1> SUFFICES s \in Sensors /\ Agrees(s, c)
  OBVIOUS
<1>1. b \in Settings /\ b.enabled /\ c \in Settings /\ c = [b EXCEPT !.conv = Coerce(Actual(b), b.conv)]
  BY Storing
<1> HIDE DEF b
<1>2. c.enabled /\ c.type = b.type /\ c.addr = b.addr /\ c.conv = Coerce(Actual(b), b.conv)
  BY <1>1 DEF Settings
<1>3. Actual(c) = Actual(b) /\ Actual(c) \in Kinds
  BY <1>1, <1>2, KindsOf DEF Actual
<1>4. c.conv \in TimesOf(Actual(c))
  BY <1>1, <1>2, <1>3, Coercing DEF Settings
<1> HIDE DEF c
<1>5. s.addr = c.addr /\ s.shunt = c.shunt /\ s.kind = Actual(c) /\ s.conv = c.conv => Agrees(s, c)
  <2> HIDE DEF s
  <2>1. QED
    BY <1>2, <1>4 DEF Agrees
<1>6. CASE NeedsNew(current, c)
  <2>1. s = [kind |-> Actual(c), addr |-> c.addr, shunt |-> c.shunt, conv |-> c.conv]
    BY <1>6 DEF Driver
  <2>2. QED
    <3>1. c.addr \in Addresses /\ c.shunt \in Shunts /\ c.conv \in Times
      BY <1>1 DEF Settings
    <3>2. s \in Sensors
      BY <1>3, <2>1, <3>1 DEF Sensors
    <3>3. s.addr = c.addr /\ s.shunt = c.shunt /\ s.kind = Actual(c) /\ s.conv = c.conv
      BY <2>1
    <3>4. QED
      BY <1>5, <3>2, <3>3
<1>7. CASE ~NeedsNew(current, c)
  <2>1. s = [current EXCEPT !.shunt = c.shunt, !.conv = c.conv]
    BY <1>7 DEF Driver
  <2>2. current \in Sensors /\ current.addr = c.addr /\ current.kind = Actual(c)
    BY <1>7 DEF NeedsNew
  <2>3. c.shunt \in Shunts /\ c.conv \in Times
    BY <1>1 DEF Settings
  <2>4. s \in Sensors /\ s.addr = c.addr /\ s.kind = Actual(c) /\ s.shunt = c.shunt /\ s.conv = c.conv
    BY <2>1, <2>2, <2>3 DEF Sensors
  <2>5. QED
    BY <1>5, <2>4
<1>8. QED
  BY <1>6, <1>7

-----------------------------------------------------------------------------
(* The inductive invariant.  Core is about the settings, the driver object,*)
(* the file and the register, which the outcomes of a request change       *)
(* together; FieldsOK, FlagsOK and CountersOK are the types of the rest.   *)

\* What the settings and the driver object are made of.
CoreTypes ==
    /\ config \in Settings /\ sensor \in Sensors \cup {None} /\ saved \in Settings \cup {None}
    /\ cal \in Shunts \cup {0} /\ kept \in Settings \cup {None}

\* What was confirmed is in the file, with a conversion time that the chip has:
\* the boot after a crash takes it as it is.
KeptIsSaved ==
    kept # None => /\ saved = kept
                   /\ kept.enabled => kept.conv \in TimesOf(Actual(kept))

\* The driver object that is sampled with agrees with the settings.
Matches == sensor # None => Agrees(sensor, config)

\* The part that the requests and the boot share; the rest are types.
Core == CoreTypes /\ Matches /\ ConfirmedInUse /\ KeptIsSaved

\* What the page is told.
Payload == [available : BOOLEAN, enabled : BOOLEAN, addr : Addresses]

FlagsOK == up \in BOOLEAN /\ auxDue \in BOOLEAN /\ exact \in BOOLEAN

FieldsOK ==
    /\ pc \in {"loop", "error"} /\ cached \in Addresses \cup {0}
    /\ sample \in (Addresses \cup {0}) \X (Addresses \cup {0})
    /\ shown \in Payload /\ flaky \subseteq Addresses

CountersOK == requests \in 0 .. MaxRequests /\ boots \in 0 .. MaxBoots /\ losses \in 0 .. MaxLosses

MonitorInv == Core /\ FlagsOK /\ FieldsOK /\ CountersOK

core == <<config, sensor, saved, cal, kept>>

\* The inductive invariant has the property the runs check as a part.
LEMMA InvImplies == MonitorInv => Consistent
<1>1. MonitorInv => TypeOK
  BY DEF MonitorInv, Core, CoreTypes, FlagsOK, FieldsOK, CountersOK, Payload, TypeOK
<1>2. MonitorInv => DriverMatchesSettings
  BY DEF MonitorInv, Core, Matches, Agrees, DriverMatchesSettings
<1>3. QED
  BY <1>1, <1>2 DEF MonitorInv, Core, Consistent

\* An answer `ok' leaves a driver object, a register and a file that agree.
LEMMA Applying ==
    ASSUME NEW p \in Settings, NEW current \in Sensors \cup {None}, Apply(p, current)
    PROVE  Core' /\ kept' # None
<1> DEFINE c == Detected(Stored(p, current))
           s == Driver(current, c)
<1>1. config' = c /\ sensor' = s /\ saved' = c /\ cal' = Calibrated(s) /\ kept' = c
  BY DEF Apply
<1>2. c \in Settings /\ s \in Sensors /\ Agrees(s, c)
  BY Storing, Driving
<1> HIDE DEF c, s
<1>3. c.enabled /\ s.shunt = c.shunt /\ c.shunt \in Shunts /\ c.conv \in TimesOf(Actual(c))
  BY <1>2 DEF Agrees, Settings
<1>4. CoreTypes'
  BY <1>1, <1>2, <1>3 DEF CoreTypes, Calibrated
<1>5. Matches' /\ KeptIsSaved'
  BY <1>1, <1>2, <1>3 DEF Matches, KeptIsSaved, Agrees
<1>6. ConfirmedInUse'
  BY <1>1, <1>2, <1>3, NotNone DEF ConfirmedInUse, Calibrated
<1>7. QED
  BY <1>1, <1>2, <1>4, <1>5, <1>6, NotNone DEF Core

\* A failure leaves no driver object, and nothing confirmed.
LEMMA Refusing ==
    ASSUME NEW p \in Settings, NEW current \in Sensors \cup {None},
           saved \in Settings \cup {None}, Refuse(p, current)
    PROVE  Core'
<1>1. config' \in Settings
  <2>1. Stored(p, current) \in Settings /\ Detected(Stored(p, current)) \in Settings
    BY Storing
  <2>2. config' \in {Stored(p, current), Detected(Stored(p, current))}
    BY DEF Refuse
  <2>3. QED
    BY <2>1, <2>2
<1>2. sensor' = None /\ cal' = 0 /\ kept' = None /\ saved' \in {saved, config'}
  BY DEF Refuse
<1>3. CoreTypes'
  BY <1>1, <1>2 DEF CoreTypes
<1>4. QED
  BY <1>2, <1>3 DEF Core, Matches, ConfirmedInUse, KeptIsSaved

\* Settings that are disabled have no driver object, saved or not.
LEMMA Disabling ==
    ASSUME NEW c \in Settings, saved \in Settings \cup {None}, Disable(c)
    PROVE  Core' /\ ~config'.enabled
<1>1. config' = [c EXCEPT !.enabled = FALSE] /\ sensor' = None /\ cal' = 0
  BY DEF Disable
<1>2. config' \in Settings /\ ~config'.enabled
  BY <1>1 DEF Settings
<1>3. (saved' = config' /\ kept' = config') \/ (saved' = saved /\ kept' = None)
  BY DEF Disable
<1>4. CoreTypes'
  BY <1>1, <1>2, <1>3 DEF CoreTypes
<1>5. Matches' /\ ConfirmedInUse' /\ KeptIsSaved'
  BY <1>1, <1>2, <1>3 DEF Matches, ConfirmedInUse, KeptIsSaved
<1>6. QED
  BY <1>2, <1>4, <1>5 DEF Core

\* A sample or a status leaves the register or heals it.
LEMMA Healing ==
    ASSUME Core, sensor # None, cal' \in {cal, Healed},
           UNCHANGED <<config, sensor, saved, kept>>
    PROVE  Core'
<1>1. sensor \in Sensors /\ sensor.shunt \in Shunts /\ sensor.shunt = config.shunt
  BY DEF Core, CoreTypes, Matches, Agrees, Sensors
<1>2. Healed \in Shunts \cup {0} /\ (cal = 0 => Healed = config.shunt) /\ (cal # 0 => Healed = cal)
  BY <1>1 DEF Healed, Calibrated, Core, CoreTypes
<1>3. CoreTypes'
  BY <1>2 DEF Core, CoreTypes
<1>4. Matches' /\ KeptIsSaved'
  BY DEF Core, Matches, KeptIsSaved, Agrees
<1>5. ConfirmedInUse'
  BY <1>2 DEF Core, ConfirmedInUse
<1>6. QED
  BY <1>3, <1>4, <1>5 DEF Core

\* The status the page is sent has an address.
LEMMA Reporting ==
    ASSUME NEW c \in Settings, NEW s \in Sensors \cup {None}
    PROVE  Unavailable(c) \in Payload /\ Status(c, s) \in Payload
<1>1. c.enabled \in BOOLEAN /\ c.addr \in Addresses
  BY DEF Settings
<1>2. Unavailable(c) \in Payload
  BY <1>1 DEF Unavailable, Payload
<1>3. s # None => s.addr \in Addresses
  BY DEF Sensors
<1>4. QED
  BY <1>1, <1>2, <1>3 DEF Status, Payload

-----------------------------------------------------------------------------
(* The steps.                                                              *)

\* The invariant holds before the first boot.
LEMMA InitOK == Init => MonitorInv
<1> SUFFICES ASSUME Init PROVE MonitorInv
  OBVIOUS
<1>1. Core
  BY MonitorAssumption DEF Init, MonitorAssumption, Core, CoreTypes, Matches, ConfirmedInUse,
                           KeptIsSaved
<1>2. FlagsOK
  BY DEF Init, FlagsOK
<1>3. CountersOK
  <2>1. requests = 0 /\ boots = 0 /\ losses = 0
    BY DEF Init
  <2>2. MaxRequests \in Nat /\ MaxBoots \in Nat /\ MaxLosses \in Nat
    BY MonitorAssumption DEF MonitorAssumption
  <2>3. QED
    BY <2>1, <2>2 DEF CountersOK
<1>4. FieldsOK
  BY MonitorAssumption, Reporting DEF Init, MonitorAssumption, FieldsOK
<1>5. QED
  BY <1>1, <1>2, <1>3, <1>4 DEF MonitorInv

\* What a boot wants are settings: the file's, the old file's or the command line's.
LEMMA Wanting ==
    ASSUME MonitorInv
    PROVE  Wanted \in Settings /\ (kept # None => Wanted = kept)
<1>1. saved \in Settings \cup {None} /\ (kept # None => saved = kept)
  BY DEF MonitorInv, Core, CoreTypes, KeptIsSaved
<1>2. QED
  BY <1>1, MonitorAssumption DEF MonitorAssumption, Wanted, Loaded

\* A boot leaves settings, driver object and file that agree, or none.
LEMMA BootKeeps == ASSUME MonitorInv, Boot PROVE MonitorInv'
<1>1. Core'
  <2>1. saved \in Settings \cup {None} /\ Default \in Settings
    BY MonitorAssumption DEF MonitorInv, Core, CoreTypes, MonitorAssumption
  <2>2. CASE Apply(Wanted, None)
    BY <2>2, Wanting, Applying
  <2>3. CASE Refuse(Wanted, None)
    BY <2>1, <2>3, Wanting, Refusing
  <2>4. CASE Disable(Default)
    BY <2>1, <2>4, Disabling
  <2>5. QED
    BY <2>2, <2>3, <2>4 DEF Boot
<1>2. FlagsOK'
  <2>1. up' = TRUE \/ up' \in BOOLEAN \/ up' \in {FALSE} \/ up' = (kept' # None)
    BY DEF Boot
  <2>2. up' \in BOOLEAN
    BY <2>1
  <2>3. auxDue' = FALSE /\ exact' = exact
    BY DEF Boot
  <2>4. QED
    BY <2>2, <2>3 DEF MonitorInv, FlagsOK
<1>3. FieldsOK'
  <2>1. pc' = "loop" /\ cached' = 0 /\ sample' = <<0, 0>> /\ shown' = shown /\ flaky' = flaky
    BY DEF Boot, world
  <2>2. QED
    BY <2>1 DEF MonitorInv, FieldsOK
<1>4. CountersOK'
  <2>1. boots < MaxBoots /\ boots' = boots + 1 /\ losses' = losses /\ requests' = requests
    BY DEF Boot, world
  <2>2. boots \in 0 .. MaxBoots /\ MaxBoots \in Nat
    BY MonitorAssumption DEF MonitorInv, CountersOK, MonitorAssumption
  <2>3. boots' \in 0 .. MaxBoots
    BY <2>1, <2>2
  <2>4. QED
    BY <2>1, <2>3 DEF MonitorInv, CountersOK
<1>5. QED
  BY <1>1, <1>2, <1>3, <1>4 DEF MonitorInv

\* A request counts, and leaves the thread and the world alone.
LEMMA Requesting ==
    ASSUME MonitorInv, Request, shown' \in Payload, exact' \in BOOLEAN, Core'
    PROVE  MonitorInv'
<1>1. requests < MaxRequests /\ requests' = requests + 1 /\ boots' = boots /\ losses' = losses
  BY DEF Request, world
<1>2. requests \in 0 .. MaxRequests /\ MaxRequests \in Nat
  BY MonitorAssumption DEF MonitorInv, CountersOK, MonitorAssumption
<1>3. requests' \in 0 .. MaxRequests
  BY <1>1, <1>2
<1>4. CountersOK'
  BY <1>1, <1>3 DEF MonitorInv, CountersOK
<1>5. up' = up /\ auxDue' = auxDue /\ pc' = pc /\ cached' = cached /\ sample' = sample /\ flaky' = flaky
  BY DEF Request, thread, world
<1>6. FlagsOK' /\ FieldsOK'
  BY <1>5 DEF MonitorInv, FlagsOK, FieldsOK
<1>7. QED
  BY <1>4, <1>6 DEF MonitorInv

\* A configuration that is asked for is settings.
LEMMA Asking == ASSUME MonitorInv, NEW p \in Payloads PROVE p \in Settings
<1>1. config.shunt \in Shunts /\ config.conv \in Times
  BY DEF MonitorInv, Core, CoreTypes, Settings
<1>2. UserShunts \subseteq Shunts /\ UserTimes \subseteq Times
  BY MonitorAssumption DEF MonitorAssumption
<1>3. QED
  BY <1>1, <1>2 DEF Payloads, Settings

\* A configuration succeeds, or leaves no driver object.
LEMMA ConfigureKeeps == ASSUME MonitorInv, Configure PROVE MonitorInv'
<1>1. PICK p \in Payloads :
        \/ Apply(p, sensor) /\ shown' = Status(config', sensor')
        \/ Refuse(p, sensor)
           /\ shown' \in {shown} \cup (IF saved' = config' THEN {Unavailable(config')} ELSE {})
  BY DEF Configure
<1>2. p \in Settings /\ sensor \in Sensors \cup {None} /\ saved \in Settings \cup {None}
  BY Asking DEF MonitorInv, Core, CoreTypes
<1>3. Core'
  BY <1>1, <1>2, Applying, Refusing
<1>4. config' \in Settings /\ sensor' \in Sensors \cup {None}
  BY <1>3 DEF Core, CoreTypes
<1>5. shown' \in Payload
  <2>1. Status(config', sensor') \in Payload /\ Unavailable(config') \in Payload
    BY <1>4, Reporting
  <2>2. shown \in Payload
    BY DEF MonitorInv, FieldsOK
  <2>3. QED
    BY <1>1, <2>1, <2>2
<1>6. exact' \in BOOLEAN /\ Request
  BY DEF Configure, MonitorInv, FlagsOK
<1>7. QED
  BY <1>3, <1>5, <1>6, Requesting

\* So does a request that disables the monitor.
LEMMA ConfigureOffKeeps == ASSUME MonitorInv, ConfigureOff PROVE MonitorInv'
<1>1. config \in Settings /\ saved \in Settings \cup {None}
  BY DEF MonitorInv, Core, CoreTypes
<1>2. Core'
  BY <1>1, Disabling DEF ConfigureOff
<1>3. config' \in Settings
  BY <1>2 DEF Core, CoreTypes
<1>4. shown' \in Payload
  BY <1>3, Reporting, NotNone DEF ConfigureOff, MonitorInv, FieldsOK, Sensors
<1>5. exact' \in BOOLEAN /\ Request
  BY DEF ConfigureOff, MonitorInv, FlagsOK
<1>6. QED
  BY <1>2, <1>4, <1>5, Requesting

-----------------------------------------------------------------------------
(* Calibration.                                                            *)

\* The samples a calibration reads.
Read == IF sensor.kind = "ina226" THEN Healed ELSE cal

\* A calibration that finds no shunt may have healed the register, no more.
GivesUp ==
    /\ sensor # None /\ cal' \in {cal, Healed}
    /\ UNCHANGED <<config, sensor, saved, kept>>

\* The driver object gets the shunt that was found and the conversion time there is.
Takes(shunt) ==
    /\ config.enabled /\ sensor # None
    /\ sensor.kind = Kind[sensor.addr] => Read # 0
    /\ shunt \in Usable(Corrected(sensor, Read))
    /\ config' = [config EXCEPT !.shunt = shunt]
    /\ sensor' = [sensor EXCEPT !.shunt = shunt, !.conv = config.conv]

\* It is used and saved, or an error on the way leaves nothing confirmed.
Succeeds(shunt) == cal' = Calibrated(sensor') /\ saved' = config' /\ kept' = config'
Fails ==
    /\ cal' \in {Read, Calibrated(sensor')}
    /\ saved' \in {saved, config'}
    /\ kept' = None

\* What a calibration does, by its outcome.
LEMMA Outcomes ==
    ASSUME Calibrate
    PROVE  \/ UNCHANGED core /\ shown' = Unavailable(config) /\ exact' = exact
           \/ GivesUp /\ shown' = shown /\ exact' = exact
           \/ \E shunt \in Usable(Corrected(sensor, Read)) :
                /\ Takes(shunt)
                /\ \/ /\ Succeeds(shunt) /\ shown' = Status(config', sensor')
                      /\ exact' = (sensor.kind = Kind[sensor.addr] => shunt = TrueShunt[sensor.addr])
                   \/ Fails /\ shown' = shown /\ exact' = exact
<1>1. CASE ~config.enabled \/ sensor = None
  BY <1>1 DEF Calibrate, core
<1>2. CASE config.enabled /\ sensor # None
  <2> DEFINE a == sensor.addr
  <2>1. \/ cal' \in {cal, Read} /\ UNCHANGED <<config, sensor, saved, shown, kept, exact>>
        \/ /\ sensor.kind = Kind[a] => Read # 0
           /\ \E shunt \in Usable(Corrected(sensor, Read)) :
                /\ config' = [config EXCEPT !.shunt = shunt]
                /\ sensor' = [sensor EXCEPT !.shunt = shunt, !.conv = config.conv]
                /\ \/ /\ cal' = Calibrated(sensor')
                      /\ saved' = config' /\ kept' = config'
                      /\ shown' = Status(config', sensor')
                      /\ exact' = (sensor.kind = Kind[a] => shunt = TrueShunt[a])
                   \/ /\ \/ a \in flaky /\ cal' = Read /\ saved' = saved
                         \/ cal' = Calibrated(sensor') /\ saved' = saved
                         \/ a \in flaky /\ cal' = Calibrated(sensor') /\ saved' = config'
                      /\ kept' = None
                      /\ UNCHANGED <<shown, exact>>
    <3> HIDE DEF a
    <3>1. ~(~config.enabled \/ sensor = None)
      BY <1>2
    <3>2. QED
      BY <3>1 DEF Calibrate, Read, a
  <2>2. CASE cal' \in {cal, Read} /\ UNCHANGED <<config, sensor, saved, shown, kept, exact>>
    BY <1>2, <2>2 DEF GivesUp, Read
  <2>3. ASSUME NEW shunt \in Usable(Corrected(sensor, Read)),
               sensor.kind = Kind[a] => Read # 0,
               config' = [config EXCEPT !.shunt = shunt],
               sensor' = [sensor EXCEPT !.shunt = shunt, !.conv = config.conv]
        PROVE  Takes(shunt)
    BY <1>2, <2>3 DEF Takes
  <2>4. QED
    BY <2>1, <2>2, <2>3 DEF Succeeds, Fails
<1>3. QED
  BY <1>1, <1>2 DEF Calibrate

\* A shunt that is taken leaves settings and a driver object that agree.
LEMMA Taking ==
    ASSUME Core, NEW shunt, Takes(shunt)
    PROVE  /\ config' \in Settings /\ config'.enabled /\ config'.shunt = shunt /\ shunt \in Shunts
           /\ sensor' \in Sensors /\ Agrees(sensor', config')
           /\ config'.conv \in TimesOf(Actual(config'))
           /\ Read \in Shunts \cup {0}
<1>1. shunt \in Shunts
  BY DEF Takes, Usable
<1>2. config \in Settings /\ sensor \in Sensors /\ Agrees(sensor, config)
  BY DEF Takes, Core, CoreTypes, Matches
<1>3. config' \in Settings /\ config'.shunt = shunt /\ config'.enabled = config.enabled
      /\ config'.type = config.type /\ config'.addr = config.addr /\ config'.conv = config.conv
  BY <1>1, <1>2 DEF Takes, Settings
<1>4. sensor' \in Sensors /\ sensor'.shunt = shunt /\ sensor'.conv = config.conv
      /\ sensor'.addr = sensor.addr /\ sensor'.kind = sensor.kind
  BY <1>1, <1>2 DEF Takes, Settings, Sensors
<1>5. Actual(config') = Actual(config)
  BY <1>3 DEF Actual
<1>6. Agrees(sensor', config') /\ config'.conv \in TimesOf(Actual(config'))
  BY <1>2, <1>3, <1>4, <1>5 DEF Agrees
<1>7. Read \in Shunts \cup {0}
  BY <1>2 DEF Read, Healed, Calibrated, Sensors, Core, CoreTypes
<1>8. QED
  BY <1>1, <1>2, <1>3, <1>4, <1>6, <1>7 DEF Agrees

\* A calibration leaves settings, driver object, register and file that agree.
LEMMA CalibrateKeeps == ASSUME MonitorInv, Calibrate PROVE MonitorInv'
<1>1. Core /\ config \in Settings /\ shown \in Payload /\ exact \in BOOLEAN
  BY DEF MonitorInv, Core, CoreTypes, FieldsOK, FlagsOK
<1>2. Request
  BY DEF Calibrate
<1>3. CASE UNCHANGED core /\ shown' = Unavailable(config) /\ exact' = exact
  <2>1. Core'
    BY <1>1, <1>3 DEF core, Core, CoreTypes, Matches, Agrees, ConfirmedInUse, KeptIsSaved
  <2>2. shown' \in Payload
    BY <1>1, <1>3, Reporting
  <2>3. QED
    BY <1>1, <1>2, <1>3, <2>1, <2>2, Requesting
<1>4. CASE GivesUp /\ shown' = shown /\ exact' = exact
  <2>1. Core'
    BY <1>1, <1>4, Healing DEF GivesUp
  <2>2. QED
    BY <1>1, <1>2, <1>4, <2>1, Requesting
<1>5. ASSUME NEW shunt \in Usable(Corrected(sensor, Read)), Takes(shunt)
      PROVE  /\ Succeeds(shunt) => Core'
             /\ Fails => Core'
             /\ Status(config', sensor') \in Payload
  <2>1. /\ config' \in Settings /\ config'.enabled /\ config'.shunt = shunt /\ shunt \in Shunts
        /\ sensor' \in Sensors /\ Agrees(sensor', config')
        /\ config'.conv \in TimesOf(Actual(config'))
        /\ Read \in Shunts \cup {0}
    BY <1>1, <1>5, Taking
  <2>2. Calibrated(sensor') = shunt
    BY <2>1 DEF Calibrated, Agrees
  <2>3. Matches'
    BY <2>1 DEF Matches, Agrees
  <2>4. ASSUME Succeeds(shunt) PROVE Core'
    <3>1. cal' = shunt /\ saved' = config' /\ kept' = config'
      BY <2>2, <2>4 DEF Succeeds
    <3>2. CoreTypes'
      BY <2>1, <3>1 DEF CoreTypes
    <3>3. ConfirmedInUse' /\ KeptIsSaved'
      BY <2>1, <3>1, NotNone DEF ConfirmedInUse, KeptIsSaved
    <3>4. QED
      BY <2>3, <3>2, <3>3 DEF Core
  <2>5. ASSUME Fails PROVE Core'
    <3>1. cal' \in {Read, shunt} /\ saved' \in {saved, config'} /\ kept' = None
      BY <2>2, <2>5 DEF Fails
    <3>2. CoreTypes'
      BY <1>1, <2>1, <3>1 DEF CoreTypes, Core
    <3>3. QED
      BY <2>3, <3>1, <3>2 DEF Core, ConfirmedInUse, KeptIsSaved
  <2>6. Status(config', sensor') \in Payload
    BY <2>1, Reporting
  <2>7. QED
    BY <2>4, <2>5, <2>6
<1>6. ASSUME NEW shunt \in Usable(Corrected(sensor, Read)), Takes(shunt),
             \/ /\ Succeeds(shunt) /\ shown' = Status(config', sensor')
                /\ exact' = (sensor.kind = Kind[sensor.addr] => shunt = TrueShunt[sensor.addr])
             \/ Fails /\ shown' = shown /\ exact' = exact
      PROVE  MonitorInv'
  <2>1. Core' /\ shown' \in Payload
    BY <1>1, <1>5, <1>6
  <2>2. exact' \in BOOLEAN
    BY <1>1, <1>6
  <2>3. QED
    BY <1>2, <2>1, <2>2, Requesting
<1>7. QED
  BY <1>3, <1>4, <1>6, Outcomes

-----------------------------------------------------------------------------
(* The thread and the chips.                                               *)

\* A step that leaves the settings, or only heals the register, keeps the invariant
\* when what it writes of the rest has its type.
LEMMA Sampling ==
    ASSUME MonitorInv, UNCHANGED <<up, config, sensor, saved, flaky, requests, boots, losses,
                                   kept, exact>>,
           cal' = cal \/ (sensor # None /\ cal' \in {cal, Healed}),
           pc' \in {"loop", "error"}, cached' \in Addresses \cup {0}, auxDue' \in BOOLEAN,
           sample' \in (Addresses \cup {0}) \X (Addresses \cup {0}), shown' \in Payload
    PROVE  MonitorInv'
<1>1. Core'
  <2>1. CASE cal' = cal
    BY <2>1 DEF MonitorInv, Core, CoreTypes, Matches, Agrees, ConfirmedInUse, KeptIsSaved
  <2>2. CASE sensor # None /\ cal' \in {cal, Healed}
    BY <2>2, Healing DEF MonitorInv
  <2>3. QED
    BY <2>1, <2>2
<1>2. FlagsOK' /\ FieldsOK' /\ CountersOK'
  BY DEF MonitorInv, FlagsOK, FieldsOK, CountersOK
<1>3. QED
  BY <1>1, <1>2 DEF MonitorInv

\* The thread changes the register, its sample and what the page has been told only.
LEMMA ThreadKeeps == ASSUME MonitorInv, Thread PROVE MonitorInv'
<1>1. /\ config \in Settings /\ sensor \in Sensors \cup {None} /\ shown \in Payload
      /\ cached \in Addresses \cup {0} /\ pc \in {"loop", "error"} /\ auxDue \in BOOLEAN
      /\ sample \in (Addresses \cup {0}) \X (Addresses \cup {0})
  BY DEF MonitorInv, Core, CoreTypes, FieldsOK, FlagsOK
<1>2. sensor # None => sensor.addr \in Addresses
  BY <1>1 DEF Sensors
<1>3. Unavailable(config) \in Payload /\ Status(config, sensor) \in Payload
  BY <1>1, Reporting
<1>4. ASSUME NEW report \in BOOLEAN, Sample(report) PROVE MonitorInv'
  <2>1. sensor # None /\ pc' = "loop" /\ cal' \in {cal, Healed} /\ shown' \in Payload
    BY <1>1, <1>3, <1>4 DEF Sample
  <2>2. cached' \in Addresses \cup {0} /\ auxDue' \in BOOLEAN
        /\ sample' \in (Addresses \cup {0}) \X (Addresses \cup {0})
    <3>1. \/ sample' = <<sensor.addr, cached>> /\ UNCHANGED <<cached, auxDue>>
          \/ sample' = <<sensor.addr, sensor.addr>> /\ cached' = sensor.addr /\ auxDue' = FALSE
      BY <1>4 DEF Sample
    <3>2. sensor.addr \in Addresses \cup {0}
      BY <1>2, <2>1
    <3>3. auxDue' \in BOOLEAN
      BY <1>1, <3>1
    <3>4. cached' \in Addresses \cup {0}
      BY <1>1, <3>1, <3>2
    <3>5. sample' \in (Addresses \cup {0}) \X (Addresses \cup {0})
      BY <1>1, <3>1, <3>2
    <3>6. QED
      BY <3>3, <3>4, <3>5
  <2>3. UNCHANGED <<up, config, sensor, saved, flaky, requests, boots, losses, kept, exact>>
    BY <1>4 DEF Sample, Iteration, world
  <2>4. QED
    BY <2>1, <2>2, <2>3, Sampling
<1>5. CASE SampleFails
  <2>1. sensor # None /\ pc' = "error" /\ cal' \in {cal, Healed} /\ shown' \in Payload
    BY <1>1, <1>5 DEF SampleFails
  <2>2. cached' \in Addresses \cup {0} /\ auxDue' \in BOOLEAN
        /\ sample' \in (Addresses \cup {0}) \X (Addresses \cup {0})
    <3>1. \/ sample' = <<sensor.addr, cached>> /\ UNCHANGED <<cached, auxDue>>
          \/ sample' = <<sensor.addr, sensor.addr>> /\ cached' = sensor.addr /\ auxDue' = FALSE
          \/ UNCHANGED <<cached, auxDue, sample>>
      BY <1>5 DEF SampleFails
    <3>2. sensor.addr \in Addresses \cup {0}
      BY <1>2, <2>1
    <3>3. auxDue' \in BOOLEAN
      BY <1>1, <3>1
    <3>4. cached' \in Addresses \cup {0}
      BY <1>1, <3>1, <3>2
    <3>5. sample' \in (Addresses \cup {0}) \X (Addresses \cup {0})
      BY <1>1, <3>1, <3>2
    <3>6. QED
      BY <3>3, <3>4, <3>5
  <2>3. UNCHANGED <<up, config, sensor, saved, flaky, requests, boots, losses, kept, exact>>
    BY <1>5 DEF SampleFails, Iteration, world
  <2>4. QED
    BY <2>1, <2>2, <2>3, Sampling
<1>6. CASE ReportError
  <2>1. UNCHANGED <<up, config, sensor, saved, flaky, requests, boots, losses, kept, exact>>
    BY <1>6 DEF ReportError, world
  <2>2. cal' = cal /\ pc' = "loop" /\ UNCHANGED <<cached, auxDue, sample>>
        /\ shown' = Unavailable(config)
    BY <1>6 DEF ReportError
  <2>3. QED
    BY <1>1, <1>3, <2>1, <2>2, Sampling
<1>7. CASE Idle
  <2>1. UNCHANGED <<up, config, sensor, saved, flaky, requests, boots, losses, kept, exact>>
    BY <1>7 DEF Idle, Iteration, world
  <2>2. cal' = cal /\ UNCHANGED <<pc, cached, auxDue, sample>> /\ shown' = Status(config, sensor)
    BY <1>7 DEF Idle, thread, IdleReports
  <2>3. QED
    BY <1>1, <1>3, <2>1, <2>2, Sampling
<1>8. QED
  BY <1>4, <1>5, <1>6, <1>7 DEF Thread

\* A chip that loses its register reads 0, whatever was confirmed.
LEMMA LoseKeeps == ASSUME MonitorInv, LoseCalibration PROVE MonitorInv'
<1>1. cal' = 0 /\ UNCHANGED <<up, config, sensor, saved, thread, shown, flaky, requests, boots,
                              kept, exact>>
      /\ losses < MaxLosses /\ losses' = losses + 1
  BY DEF LoseCalibration
<1>2. losses \in 0 .. MaxLosses /\ MaxLosses \in Nat
  BY MonitorAssumption DEF MonitorInv, CountersOK, MonitorAssumption
<1>3. losses' \in 0 .. MaxLosses
  BY <1>1, <1>2
<1>4. Core'
  BY <1>1 DEF MonitorInv, Core, CoreTypes, Matches, Agrees, ConfirmedInUse, KeptIsSaved
<1>5. FlagsOK' /\ FieldsOK'
  BY <1>1 DEF MonitorInv, FlagsOK, FieldsOK, thread
<1>6. CountersOK'
  BY <1>1, <1>3 DEF MonitorInv, CountersOK
<1>7. QED
  BY <1>4, <1>5, <1>6 DEF MonitorInv

\* Every step keeps the invariant.
LEMMA StepOK == MonitorInv /\ [Next]_vars => MonitorInv'
<1> SUFFICES ASSUME MonitorInv, [Next]_vars PROVE MonitorInv'
  OBVIOUS
<1>1. CASE AuxElapses
  <2>1. auxDue' = TRUE /\ UNCHANGED <<up, config, sensor, saved, pc, cached, sample, shown, cal,
                                      flaky, losses, requests, boots, kept, exact>>
    BY <1>1 DEF AuxElapses, world
  <2>2. QED
    BY <2>1, Sampling DEF MonitorInv, FieldsOK
<1>2. ASSUME NEW a \in Addresses, Break(a) PROVE MonitorInv'
  <2>1. UNCHANGED <<up, config, sensor, saved, thread, shown, cal, losses, requests, boots,
                    kept, exact>>
    BY <1>2 DEF Break
  <2>2. flaky \subseteq Addresses
    BY DEF MonitorInv, FieldsOK
  <2>3. flaky' \subseteq Addresses
    BY <1>2, <2>2 DEF Break
  <2>4. Core'
    BY <2>1 DEF MonitorInv, Core, CoreTypes, Matches, Agrees, ConfirmedInUse, KeptIsSaved
  <2>5. FlagsOK' /\ FieldsOK' /\ CountersOK'
    BY <2>1, <2>3 DEF MonitorInv, FlagsOK, FieldsOK, CountersOK, thread
  <2>6. QED
    BY <2>4, <2>5 DEF MonitorInv
<1>3. CASE UNCHANGED vars
  BY <1>3 DEF vars, thread, world, MonitorInv, Core, CoreTypes, Matches, Agrees, ConfirmedInUse,
              KeptIsSaved, FlagsOK, FieldsOK, CountersOK
<1>4. QED
  BY <1>1, <1>2, <1>3, BootKeeps, ConfigureKeeps, ConfigureOffKeeps, CalibrateKeeps, ThreadKeeps,
     LoseKeeps DEF Next

\* The inductive invariant holds in every state.
LEMMA InvHolds == Spec => []MonitorInv
<1>1. QED
  BY InitOK, StepOK, PTL DEF Spec

-----------------------------------------------------------------------------
(* The theorems.                                                           *)

\* Whatever fails in a request, a boot or a sample, the driver object that
\* ina226_thread samples with agrees with the settings, and what the last answer
\* `ok' confirmed is what it samples with.
THEOREM SettingsInUse == Spec => []Consistent
<1>1. QED
  BY InvHolds, InvImplies, PTL

\* A time that the chip has survives a boot, which takes it twice: for the kind that
\* is assumed and for the one that is found.
LEMMA Restoring ==
    ASSUME NEW p \in Settings, p.enabled, p.conv \in TimesOf(Actual(p)),
           Apply(p, None) \/ Refuse(p, None)
    PROVE  /\ config'.enabled /\ [config' EXCEPT !.conv = p.conv] = p
           /\ p.type # "auto" => config'.conv = p.conv
<1> DEFINE b == Stored(p, None)
           c == Detected(b)
<1>1. config' = b \/ config' = c
  BY DEF Apply, Refuse
<1>2. /\ b \in Settings /\ b.enabled /\ c \in Settings
      /\ c = [b EXCEPT !.conv = Coerce(Actual(b), b.conv)]
      /\ b = [p EXCEPT !.enabled = TRUE, !.conv = Coerce(Candidate(p.type, None), p.conv)]
  BY Storing
<1> HIDE DEF b, c
<1>3. p.enabled = TRUE /\ p.type \in Types /\ p.conv \in Times
  BY DEF Settings
<1>4. [b EXCEPT !.conv = p.conv] = p /\ b.type = p.type /\ b.addr = p.addr
  BY <1>2, <1>3 DEF Settings
<1>5. [c EXCEPT !.conv = p.conv] = p /\ c.enabled
  BY <1>2, <1>4 DEF Settings
<1>6. ASSUME p.type # "auto" PROVE b.conv = p.conv /\ c.conv = p.conv
  <2>1. Candidate(p.type, None) = p.type /\ Actual(p) = p.type /\ Actual(b) = p.type
        /\ p.type \in Kinds
    BY <1>3, <1>4, <1>6 DEF Candidate, Actual, Types
  <2>2. Coerce(p.type, p.conv) = p.conv
    BY <1>3, <2>1, Coercing
  <2>3. b.conv = p.conv
    BY <1>2, <2>1, <2>2 DEF Settings
  <2>4. QED
    BY <1>2, <2>1, <2>2, <2>3 DEF Settings
<1>7. QED
  BY <1>1, <1>2, <1>4, <1>5, <1>6

\* The settings that the last answer `ok' confirmed are the ones a boot comes back
\* with, however its own detection and saving fail.
THEOREM ConfirmedSurvivesBoot == Spec => RestoredByBoot
<1>1. ASSUME MonitorInv, [Next]_vars, boots' > boots, kept # None
      PROVE  /\ config'.enabled = kept.enabled
             /\ kept.enabled =>
                  /\ [config' EXCEPT !.conv = kept.conv] = kept
                  /\ kept.type # "auto" => config'.conv = kept.conv
  <2>1. boots \in Int
    <3>1. MaxBoots \in Nat
      BY MonitorAssumption DEF MonitorAssumption
    <3>2. boots \in 0 .. MaxBoots
      BY <1>1 DEF MonitorInv, CountersOK
    <3>3. QED
      BY <3>1, <3>2
  <2>2. boots' # boots
    BY <1>1, <2>1
  <2>3. Boot
    BY <1>1, <2>2 DEF Next, vars, world, Configure, ConfigureOff, Calibrate, Request, Thread,
       Sample, SampleFails, ReportError, Idle, Iteration, AuxElapses, LoseCalibration, Break
  <2>4. Wanted = kept /\ kept \in Settings /\ kept.enabled \in BOOLEAN
    BY <1>1, Wanting DEF Settings
  <2>5. CASE kept.enabled
    <3>1. kept.conv \in TimesOf(Actual(kept))
      BY <1>1, <2>5 DEF MonitorInv, Core, KeptIsSaved
    <3>2. Apply(kept, None) \/ Refuse(kept, None)
      BY <2>3, <2>4, <2>5 DEF Boot
    <3>3. QED
      BY <2>4, <2>5, <3>1, <3>2, Restoring
  <2>6. CASE ~kept.enabled
    <3>1. config' = [Default EXCEPT !.enabled = FALSE]
      BY <2>3, <2>4, <2>6 DEF Boot, Disable
    <3>2. config'.enabled = FALSE
      BY <3>1, MonitorAssumption DEF MonitorAssumption, Settings
    <3>3. QED
      BY <2>4, <2>6, <3>2
  <2>7. QED
    BY <2>4, <2>5, <2>6
<1>2. MonitorInv /\ [Next]_vars =>
        [boots' > boots /\ kept # None =>
          /\ config'.enabled = kept.enabled
          /\ kept.enabled =>
               /\ [config' EXCEPT !.conv = kept.conv] = kept
               /\ kept.type # "auto" => config'.conv = kept.conv]_vars
  BY <1>1
<1>3. QED
  BY <1>2, InvHolds, PTL DEF Spec, RestoredByBoot

\* A calibration after a confirmed request is exact: the register it reads through
\* holds the shunt in the settings, also when the chip had lost it.
THEOREM CalibrationsExact == Spec => CalibrationExact
<1>1. ASSUME MonitorInv, [Next]_vars, kept # None, exact PROVE exact'
  <2>1. CASE Calibrate
    <3>1. ASSUME NEW shunt \in Usable(Corrected(sensor, Read)), Takes(shunt),
                 sensor.kind = Kind[sensor.addr]
          PROVE  shunt = TrueShunt[sensor.addr]
      <4>1. sensor \in Sensors /\ sensor.shunt = config.shunt /\ config.shunt \in Shunts
            /\ config = kept /\ cal \in {0, kept.shunt}
        BY <1>1, <3>1 DEF MonitorInv, Core, CoreTypes, Matches, Agrees, ConfirmedInUse, Takes,
                          Settings
      <4>2. Read # 0
        BY <3>1 DEF Takes
      <4>3. Read = config.shunt
        BY <4>1, <4>2 DEF Read, Healed, Calibrated
      <4>4. shunt = config.shunt + (TrueShunt[sensor.addr] - Read)
        BY <3>1 DEF Usable, Corrected
      <4>5. config.shunt \in Int /\ TrueShunt[sensor.addr] \in Int
        BY <4>1, MonitorAssumption DEF MonitorAssumption, Shunts, Sensors
      <4>6. QED
        BY <4>3, <4>4, <4>5
    <3>2. QED
      BY <1>1, <2>1, <3>1, Outcomes
  <2>2. CASE exact' = exact
    BY <1>1, <2>2
  <2>3. QED
    BY <1>1, <2>1, <2>2 DEF Next, vars, Boot, Configure, ConfigureOff, Thread,
       Sample, SampleFails, ReportError, Idle, Iteration, AuxElapses, LoseCalibration, Break
<1>2. MonitorInv /\ [Next]_vars => [kept # None /\ exact => exact']_vars
  BY <1>1
<1>3. QED
  BY <1>2, InvHolds, PTL DEF Spec, CalibrationExact
=============================================================================
