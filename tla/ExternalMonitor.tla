--------------------------- MODULE ExternalMonitor ---------------------------
(***************************************************************************)
(* The external INA226/INA228 monitor of rpi/dashboard.py: its settings,   *)
(* the driver object of the chip in use, the JSON file the settings are    *)
(* kept in, the boot that reads it, the requests that configure the        *)
(* monitor or calibrate its shunt, and ina226_thread, which samples it.    *)
(*                                                                         *)
(* Everything is done under ina226_lock, one iteration of the thread or    *)
(* one request at a time, with one exception: an iteration that fails      *)
(* releases the lock and takes it again to report the error.  The chip,    *)
(* the file system or the process may fail at any point in between.        *)
(*                                                                         *)
(* Shunt resistances are logarithms: the chip reports a current that is    *)
(* wrong by the ratio of the true shunt and the one it was calibrated for, *)
(* here by their difference.  The numbers of a request are finite: a NaN   *)
(* or an infinity gets past the comparisons that it meets and raises a     *)
(* ValueError later, which no handler takes for a failure of the chip, so  *)
(* that it leaves the settings assigned and the driver as it was.          *)
(***************************************************************************)
EXTENDS Integers, FiniteSets

CONSTANTS
    None,           \* no driver object, no file, nothing confirmed
    Addresses, Kind,        \* the I2C addresses and the chip that sits at each
    TrueShunt, MaxShunt,    \* the shunt of each chip; shunts that are accepted
    Times226, Times228,     \* conversion times that each kind of chip has
    Cli, Default, OldFile,  \* the command line, the module's globals, ina226_config.json
    UserShunts, UserTimes,  \* what a user may ask for
    MaxRequests, MaxBoots, MaxLosses    \* bounds on requests, boots, lost calibrations

Kinds == {"ina226", "ina228"}
Types == Kinds \cup {"auto"}
Shunts == 1 .. MaxShunt
Times == Times226 \cup Times228
Settings == [enabled : BOOLEAN, type : Types, addr : Addresses, shunt : Shunts, conv : Times]
Sensors == [kind : Kinds, addr : Addresses, shunt : Shunts, conv : Times]

TimesOf(kind) == IF kind = "ina228" THEN Times228 ELSE Times226
Distance(s, t) == IF s < t THEN t - s ELSE s - t
Nearest(kind, t) ==
    {s \in TimesOf(kind) : \A u \in TimesOf(kind) :
        Distance(s, t) < Distance(u, t) \/ (Distance(s, t) = Distance(u, t) /\ s <= u)}

ASSUME MonitorAssumption ==
    /\ Kind \in [Addresses -> Kinds]
    /\ MaxShunt \in Nat /\ TrueShunt \in [Addresses -> Shunts]
    /\ Times226 \subseteq Nat /\ Times228 \subseteq Nat
    /\ \A kind \in Kinds, t \in Times : Nearest(kind, t) # {}
    /\ None \notin Settings /\ None \notin Sensors
    /\ Cli \in Settings /\ Cli.enabled /\ Default \in Settings
    /\ OldFile \in Settings \cup {None}
    /\ UserShunts \subseteq Shunts /\ UserTimes \subseteq Times
    /\ MaxRequests \in Nat /\ MaxBoots \in Nat /\ MaxLosses \in Nat

VARIABLES
    up,             \* the process runs
    config, sensor, \* the globals ina226_*, ina226_sensor
    saved,          \* external_monitor_config.json
    pc,             \* ina226_thread: "loop", or "error" after a failed iteration
    cached, auxDue, \* the chip whose voltage is cached, 0 for none; 0.25 s have passed
    sample,         \* the last sample: the chip of its current, the chip of its voltage
    shown,          \* the status the page has been sent last
    cal,            \* the calibration register of the chip in use, 0 when cleared
    flaky,          \* chips some of whose I2C transfers fail
    requests, boots, losses,
    \* History variables:
    kept,           \* what the last answer `ok' confirmed; None after a failed request
    exact           \* whether the last calibration answered `ok' was exact

thread == <<pc, cached, auxDue, sample>>
world == <<flaky, losses>>
vars == <<up, config, sensor, saved, thread, shown, cal, world, requests, boots, kept, exact>>

-----------------------------------------------------------------------------
(* Settings and driver objects.                                            *)

Coerce(kind, t) ==
    IF t \in TimesOf(kind) THEN t ELSE CHOOSE s \in TimesOf(kind) : s \in Nearest(kind, t)

\* before the chip has answered, `auto' means the kind in use, or an INA226
Candidate(type, current) ==
    IF type # "auto" THEN type ELSE IF current # None THEN current.kind ELSE "ina226"

\* the settings are stored before the device is talked to
Stored(p, current) ==
    [p EXCEPT !.enabled = TRUE, !.conv = Coerce(Candidate(p.type, current), p.conv)]

\* what _detect_external_monitor_type() finds when the chip answers
Actual(c) == IF c.type = "auto" THEN Kind[c.addr] ELSE c.type
Detected(c) == [c EXCEPT !.conv = Coerce(Actual(c), c.conv)]

NeedsNew(current, c) ==
    IF current = None THEN TRUE ELSE current.addr # c.addr \/ current.kind # Actual(c)

\* INA226() or INA228(), or configure() of the object there is
Driver(current, c) ==
    IF NeedsNew(current, c)
    THEN [kind |-> Actual(c), addr |-> c.addr, shunt |-> c.shunt, conv |-> c.conv]
    ELSE [current EXCEPT !.shunt = c.shunt, !.conv = c.conv]

\* INA228() looks at the chip's identity, INA226() takes any chip
Accepts(c) == Actual(c) = "ina228" => Kind[c.addr] = "ina228"

\* a driver writes the register before anything reads it (with "reset": true, twice);
\* INA226() takes an INA228 too, whose samples then mean nothing
Calibrated(s) == s.shunt

\* read_all()
Healed == IF cal = 0 THEN Calibrated(sensor) ELSE cal

\* _ina226_unavailable_payload_locked(), _ina226_status_payload_locked()
Unavailable(c) == [available |-> FALSE, enabled |-> c.enabled, addr |-> c.addr]
Status(c, s) ==
    IF c.enabled /\ s # None
    THEN [available |-> TRUE, enabled |-> TRUE, addr |-> s.addr]
    ELSE Unavailable(c)

-----------------------------------------------------------------------------
(* _configure_ina226_locked().  The file is replaced by a renamed copy, or *)
(* left alone when that fails; a failure of the chip or of the file leads  *)
(* to a second attempt to save, after sensor has been set to None.         *)

\* the answer is `ok', whatever the file system does: its failure is Refuse
Apply(p, current) ==
    LET c == Detected(Stored(p, current))
        s == Driver(current, c)
    IN  /\ Accepts(c)
        /\ config' = c /\ sensor' = s /\ saved' = c /\ cal' = Calibrated(s)
        /\ kept' = c

\* broken: the driver object is kept when the chip does not answer
RefuseKeeping(p, current) ==
    /\ p.addr \in flaky
    /\ config' = Stored(p, current) /\ sensor' = current
    /\ UNCHANGED cal /\ saved' \in {saved, config'} /\ kept' = None

\* detection, the constructor, configure(), reset(), status() or the save raises
\* OSError
Refuse(p, current) ==
    LET c == Stored(p, current)
    IN  /\ \/ config' = c /\ c.addr \in flaky
           \/ config' = Detected(c)
        /\ sensor' = None /\ cal' = 0
        /\ saved' \in {saved, config'}
        /\ kept' = None

\* "enabled": false
Disable(c) ==
    /\ config' = [c EXCEPT !.enabled = FALSE] /\ sensor' = None /\ cal' = 0
    /\ \/ saved' = config' /\ kept' = config'
       \/ UNCHANGED saved /\ kept' = None

-----------------------------------------------------------------------------
(* main().                                                                 *)

\* broken: the old file is preferred
LoadedOld == IF OldFile # None THEN OldFile ELSE saved

Loaded == IF saved # None THEN saved ELSE OldFile
Wanted == IF Loaded # None THEN Loaded ELSE Cli

\* With "enabled": false in the file the other settings are not looked at, and the
\* module's defaults are written over them.  An error that the second save raises,
\* or a disabled monitor that cannot be saved, ends the process.
Boot ==
    /\ boots < MaxBoots /\ boots' = boots + 1
    /\ pc' = "loop" /\ cached' = 0 /\ auxDue' = FALSE /\ sample' = <<0, 0>>
    /\ \/ /\ Wanted.enabled
          /\ \/ Apply(Wanted, None) /\ up' = TRUE
             \/ Refuse(Wanted, None) /\ up' \in (IF saved' = config' THEN BOOLEAN ELSE {FALSE})
       \/ /\ ~Wanted.enabled
          /\ Disable(Default) /\ up' = (kept' # None)
    /\ UNCHANGED <<shown, world, requests, exact>>

Init ==
    /\ up = FALSE /\ config = Default /\ sensor = None /\ saved = None
    /\ pc = "loop" /\ cached = 0 /\ auxDue = FALSE /\ sample = <<0, 0>>
    /\ shown = Unavailable(Default)
    /\ cal = 0 /\ flaky = {}
    /\ requests = 0 /\ boots = 0 /\ losses = 0 /\ kept = None /\ exact = TRUE

-----------------------------------------------------------------------------
(* The chips (external).                                                   *)

Break(a) ==
    /\ flaky' = IF a \in flaky THEN flaky \ {a} ELSE flaky \cup {a}
    /\ UNCHANGED <<up, config, sensor, saved, thread, shown, cal, losses, requests, boots,
                   kept, exact>>

\* a chip that has lost its supply
LoseCalibration ==
    /\ losses < MaxLosses /\ losses' = losses + 1
    /\ sensor # None /\ cal' = 0
    /\ UNCHANGED <<up, config, sensor, saved, thread, shown, flaky, requests, boots,
                   kept, exact>>

-----------------------------------------------------------------------------
(* The requests.  A value that is not accepted is refused before anything  *)
(* has been assigned.                                                      *)

Request ==
    /\ up
    /\ requests < MaxRequests /\ requests' = requests + 1
    /\ UNCHANGED <<up, thread, world, boots>>

Payloads ==
    [enabled : {TRUE}, type : Types, addr : Addresses,
     shunt : UserShunts \cup {config.shunt}, conv : UserTimes \cup {config.conv}]

\* ina226_configure(): a second failure to save is not caught (500) and the page is
\* not told; every other answer goes to the page too
Configure ==
    /\ Request
    /\ UNCHANGED exact
    /\ \E p \in Payloads :
        \/ Apply(p, sensor) /\ shown' = Status(config', sensor')
        \/ Refuse(p, sensor)
           /\ shown' \in {shown} \cup (IF saved' = config' THEN {Unavailable(config')} ELSE {})

ConfigureOff ==
    /\ Request
    /\ UNCHANGED exact
    /\ Disable(config)
    /\ shown' = IF kept' # None THEN Unavailable(config') ELSE shown

\* broken: the correction is applied to the wrong side
CorrectedInverse(s, register) == {config.shunt - (TrueShunt[s.addr] - register)}

\* positive, and at most 1 ohm
Usable(shunts) == shunts \cap Shunts

\* old shunt * (measured / reference current); the wrong kind of chip gives any reading
Corrected(s, register) ==
    IF s.kind = Kind[s.addr] THEN {config.shunt + (TrueShunt[s.addr] - register)}
    ELSE Shunts

\* _calibrate_ina226_shunt_locked(): read_all() of an INA226 heals a cleared register;
\* a cleared INA228 reads 0, which is refused, like a result out of range
Calibrate ==
    /\ Request
    /\ \/ /\ ~config.enabled \/ sensor = None
          /\ shown' = Unavailable(config)
          /\ UNCHANGED <<config, sensor, saved, cal, kept, exact>>
       \/ /\ config.enabled /\ sensor # None
          /\ LET a == sensor.addr
                 read == IF sensor.kind = "ina226" THEN Healed ELSE cal
             IN  \/ \* 400: the samples cannot be read, or give no usable shunt
                    /\ cal' \in {cal, read}
                    /\ \/ a \in flaky \/ read = 0
                       \/ Usable(Corrected(sensor, read)) = {}
                    /\ UNCHANGED <<config, sensor, saved, shown, kept, exact>>
                 \/ /\ sensor.kind = Kind[a] => read # 0
                    /\ \E shunt \in Usable(Corrected(sensor, read)) :
                        /\ config' = [config EXCEPT !.shunt = shunt]
                        /\ sensor' = [sensor EXCEPT !.shunt = shunt, !.conv = config.conv]
                        /\ \/ \* ok
                              /\ cal' = Calibrated(sensor')
                              /\ saved' = config' /\ kept' = config'
                              /\ shown' = Status(config', sensor')
                              /\ exact' = (sensor.kind = Kind[a] => shunt = TrueShunt[a])
                           \/ \* 400: configure(), the save or status() raises OSError
                              /\ \/ a \in flaky /\ cal' = read /\ saved' = saved
                                 \/ cal' = Calibrated(sensor') /\ saved' = saved
                                 \/ a \in flaky /\ cal' = Calibrated(sensor') /\ saved' = config'
                              /\ kept' = None
                              /\ UNCHANGED <<shown, exact>>

-----------------------------------------------------------------------------
(* ina226_thread.                                                          *)

Iteration ==
    /\ up /\ pc = "loop"
    /\ UNCHANGED <<up, config, sensor, saved, world, requests, boots, kept, exact>>

\* the voltage of an INA228 is read four times a second only
Reuses == cached # 0 /\ sensor.kind = "ina228" /\ ~auxDue

\* one sample; once a second it is followed by the status, which reads everything
Sample(report) ==
    /\ Iteration
    /\ config.enabled /\ sensor # None
    /\ pc' = "loop"
    /\ IF Reuses
       THEN sample' = <<sensor.addr, cached>> /\ UNCHANGED <<cached, auxDue>>
       ELSE sample' = <<sensor.addr, sensor.addr>> /\ cached' = sensor.addr /\ auxDue' = FALSE
    /\ cal' = IF Reuses /\ ~report THEN cal ELSE Healed
    /\ shown' = IF report THEN Status(config, sensor) ELSE shown

\* any of the transfers raises OSError, also that of the status after the sample (so does
\* a full disk when the row of the sample is flushed; CsvLog has that)
SampleFails ==
    /\ Iteration
    /\ config.enabled /\ sensor # None /\ sensor.addr \in flaky
    /\ pc' = "error"
    /\ cal' \in {cal, Healed}
    /\ \/ UNCHANGED <<cached, auxDue, sample>>
       \/ ~Reuses /\ sample' = <<sensor.addr, sensor.addr>> /\ cached' = sensor.addr
                  /\ auxDue' = FALSE
       \/ Reuses /\ sample' = <<sensor.addr, cached>> /\ UNCHANGED <<cached, auxDue>>
    /\ UNCHANGED shown

\* the handler takes the lock again: the settings may be others by now
ReportError ==
    /\ up /\ pc = "error" /\ pc' = "loop"
    /\ shown' = Unavailable(config)
    /\ UNCHANGED <<up, config, sensor, saved, cached, auxDue, sample, cal, world,
                   requests, boots, kept, exact>>

\* broken: an idle monitor is not reported
IdleReportsNot == shown

IdleReports == Status(config, sensor)

\* every two seconds
Idle ==
    /\ Iteration
    /\ ~config.enabled \/ sensor = None
    /\ shown' = IdleReports
    /\ UNCHANGED <<thread, cal>>

AuxElapses ==
    /\ cached # 0 /\ ~auxDue /\ auxDue' = TRUE
    /\ UNCHANGED <<up, config, sensor, saved, pc, cached, sample, shown, cal, world,
                   requests, boots, kept, exact>>

Thread == Sample(TRUE) \/ Sample(FALSE) \/ SampleFails \/ ReportError \/ Idle

Next ==
    \/ Boot \/ Configure \/ ConfigureOff \/ Calibrate \/ Thread \/ AuxElapses
    \/ LoseCalibration \/ \E a \in Addresses : Break(a)

\* The thread runs as long as the process does, the status is due once a second and
\* 0.25 s pass.  Nobody has to send a request, restart the process or mend a chip.
Spec ==
    /\ Init /\ [][Next]_vars
    /\ WF_vars(Sample(TRUE)) /\ WF_vars(ReportError) /\ WF_vars(Idle) /\ WF_vars(AuxElapses)

-----------------------------------------------------------------------------
(* Properties.                                                             *)

\* Types of the settings, the driver object, the file, the thread and the chips.
TypeOK ==
    /\ up \in BOOLEAN /\ config \in Settings
    /\ sensor \in Sensors \cup {None} /\ saved \in Settings \cup {None}
    /\ pc \in {"loop", "error"} /\ cached \in Addresses \cup {0} /\ auxDue \in BOOLEAN
    /\ sample \in (Addresses \cup {0}) \X (Addresses \cup {0})
    /\ shown \in [available : BOOLEAN, enabled : BOOLEAN, addr : Addresses]
    /\ cal \in Shunts \cup {0} /\ flaky \subseteq Addresses
    /\ requests \in 0 .. MaxRequests /\ boots \in 0 .. MaxBoots /\ losses \in 0 .. MaxLosses
    /\ kept \in Settings \cup {None} /\ exact \in BOOLEAN

\* Whatever failed before, the driver object that the thread samples is one for the
\* address and the kind of chip in the settings, converts with their shunt and has a
\* conversion time its kind of chip has.
DriverMatchesSettings ==
    sensor # None =>
        /\ config.enabled
        /\ sensor.addr = config.addr /\ sensor.shunt = config.shunt
        /\ sensor.kind = Actual(config)
        /\ sensor.conv = config.conv /\ sensor.conv \in TimesOf(sensor.kind)

\* What the last answer `ok' confirmed is what the thread samples with, and the
\* chip has it in its register or has lost it and reads 0.
ConfirmedInUse ==
    kept # None =>
        /\ config = kept
        /\ kept.enabled <=> sensor # None
        /\ sensor # None => cal \in {0, kept.shunt}

\* A restart finds what the last answer `ok' confirmed, and stays disabled when
\* that was disabled; only the conversion time of a chip that is detected may
\* change.  (The other settings of a disabled monitor are lost.)
RestoredByBoot ==
    [][boots' > boots /\ kept # None =>
        /\ config'.enabled = kept.enabled
        /\ kept.enabled =>
             /\ [config' EXCEPT !.conv = kept.conv] = kept
             /\ kept.type # "auto" => config'.conv = kept.conv]_vars

\* A calibration answered `ok' leaves the chip with its true shunt when the request
\* before it was answered `ok' too, whatever the chip has lost since.
CalibrationExact == [][kept # None /\ exact => exact']_vars

\* However requests, failing samples and their late reports interleave: once the
\* chips answer, the page ends up with the status of the monitor.
StatusConverges == <>[](up /\ flaky = {}) => <>[](shown = Status(config, sensor))

\* After the chip in use has been replaced, samples with the cached voltage of the
\* one before it end.
VoltageCatchesUp ==
    \A a \in Addresses :
        <>[](up /\ flaky = {} /\ sensor # None /\ config.addr = a) => []<>(sample = <<a, a>>)

\* A chip in use that has lost its calibration gets it back.
ClearedHeals ==
    <>[](up /\ config.addr \notin flaky /\ sensor # None) => []<>(cal # 0)

\* The types, and settings that the driver object and the chip agree with.
Consistent == TypeOK /\ DriverMatchesSettings /\ ConfirmedInUse

\* Once the chips answer, the status, the voltage and the calibration are right again.
Recovers == StatusConverges /\ VoltageCatchesUp /\ ClearedHeals
=============================================================================
