------------------------- MODULE TriggerScripts_proofs -------------------------
(* Theorems about the trigger scripts, for every setting of the scripts and *)
(* of the firmware.                                                        *)
EXTENDS TriggerScripts, TLAPS

-----------------------------------------------------------------------------
(* The inductive invariant: the types, the phase of the device, what the   *)
(* script has left on the air so far, and how long it has searched.        *)

\* The types, first of what is counted.
Numbers ==
    /\ left \in Nat /\ gap \in Nat /\ clock \in Nat /\ seen \in Nat
    /\ gap <= set.every + set.jitter
    /\ left <= set.duration \/ left <= set.count
    /\ seen <= set.window
Places ==
    /\ set \in Settings
    /\ pc \in DOMAIN After \cup {"none", "wait", "send", "pause"}
    /\ hotspot \in {"absent", "down", "up"}
    /\ adapter \in {"down", "up", "named", "advertising"}
    /\ phase \in {"window", "sleep", "restart", "awake"}
Flags == clean \in BOOLEAN /\ found \in BOOLEAN

\* Every script has its own commands, and leaves alone what the others use.
OwnCommands ==
    /\ pc \in {"delete", "add", "start", "stop", "remove"} => set.strategy = "listen"
    /\ pc \in {"down", "up", "name", "enable", "disable"} => set.strategy = "ble"
    /\ pc = "wait" => set.strategy \in {"listen", "ble"}
    /\ pc \in {"send", "pause"} => set.strategy \in {"espnow", "dtim"}
    /\ set.strategy # "listen" => hotspot = "absent"
    /\ set.strategy # "ble" => adapter = "up"

\* What a run without a failure has put on the air so far.
OnAir ==
    clean =>
        /\ pc \in {"none", "add"} => hotspot # "up"
        /\ pc = "none" => adapter # "advertising"
        /\ pc = "wait" /\ set.strategy = "listen" => hotspot = "up"
        /\ pc = "wait" /\ set.strategy = "ble" => adapter = "advertising"

\* No phase of the device is longer than its time, and a device that is awake has
\* been found; the radio of the DTIM strategy listens without an end.
DevicePhase ==
    /\ phase = "awake" => found
    /\ phase = "window" => seen + clock <= set.window
    /\ phase = "sleep" => clock <= SleepTicks
    /\ phase = "restart" => clock <= set.restart
    /\ set.strategy = "dtim" => phase = "awake" \/ (phase = "window" /\ clock > 0)

\* A countdown goes on with what is left of the duration, frames with what is left
\* of the count; only a script that has gone through has nothing left.
Remaining ==
    /\ pc = "wait" => left <= set.duration
    /\ pc \in {"send", "pause"} => left <= set.count
    /\ pc = "pause" => gap <= set.every
    /\ pc \in {"delete", "add", "start", "down", "up", "name", "enable"} => left = set.count

\* the ticks until the next frame or advertisement, and those there may be between two
NextIn == IF pc = "send" THEN 0 ELSE gap
Period == IF set.strategy = "ble" THEN set.every + set.jitter ELSE set.every

\* the ticks the script searches, and those that it has searched
Total == IF set.strategy = "espnow" THEN set.count * set.every ELSE set.duration
Elapsed == IF pc = "wait" THEN set.duration - left
           ELSE set.count * set.every - left * set.every - NextIn

\* A hotspot that has not been found: the window in which it came up was not a whole
\* one, and the one after it sees it from the start.
NotScanned ==
    /\ phase = "window" =>
         \/ Elapsed + clock < set.window
         \/ seen + clock = set.window /\ Elapsed + clock < set.window + Away + set.window
    /\ phase = "sleep" => Elapsed + clock < set.window + set.interval
    /\ phase = "restart" => Elapsed + clock < set.window + Away

\* A frame that has not been heard: the device has been away since the first one, but
\* for the last tick of a window, or the next frame comes before the window ends.
NotHeard ==
    /\ phase = "window" =>
         \/ NextIn < clock /\ Elapsed + NextIn <= Away + Period
         \/ clock = 0 /\ Elapsed = 0
    /\ phase = "sleep" => Elapsed + clock <= SleepTicks
    /\ phase = "restart" => Elapsed + clock <= Away

\* The frames or advertisements of a script are being sent.
Frames ==
    \/ pc = "wait" /\ set.strategy = "ble"
    \/ pc \in {"send", "pause"} /\ set.strategy = "espnow"

\* What has not been found yet, by what is searched for.
Search ==
    clean /\ ~found =>
        /\ pc = "wait" /\ set.strategy = "listen" => NotScanned
        /\ Frames /\ Lasting => NotHeard
        /\ set.strategy = "dtim" => left = set.count

ScriptInv == Numbers /\ Places /\ Flags /\ OwnCommands /\ OnAir
DeviceInv == DevicePhase /\ Remaining
TriggerInv == ScriptInv /\ DeviceInv /\ Search /\ TriggerFound

-----------------------------------------------------------------------------
(* Settings and times.                                                     *)

\* The fields of the settings.
LEMMA SettingIs ==
    ASSUME NEW s \in Settings
    PROVE  /\ s.strategy \in Strategies
           /\ s.window \in Nat /\ s.window > 0 /\ s.interval \in Nat /\ s.interval > 0
           /\ s.restart \in Nat /\ s.duration \in Nat /\ s.duration > 0
           /\ s.count \in Nat /\ s.count > 0 /\ s.every \in Nat /\ s.every > 0 /\ s.jitter \in Nat
<1>1. s \in Setting
  BY SettingsAssumption DEF SettingsAssumption
<1>2. QED
  BY <1>1 DEF Setting

\* The device is away while it sleeps and restarts its radio.
LEMMA AwayIs ==
    ASSUME set \in Settings
    PROVE  /\ SleepTicks \in Nat /\ SleepTicks > 0 /\ Away = set.restart + SleepTicks
           /\ set.strategy # "ble" => SleepTicks = set.interval
<1>1. set.window \in Nat /\ set.interval \in Nat /\ set.interval > 0 /\ set.restart \in Nat
  BY SettingIs
<1>2. CASE set.strategy # "ble"
  <2>1. SleepTicks = set.interval
    BY <1>2 DEF SleepTicks
  <2>2. Away = set.restart + set.interval
    BY <1>2 DEF Away
  <2>3. QED
    BY <1>1, <2>1, <2>2
<1>3. CASE set.strategy = "ble" /\ set.interval > set.window + 1
  <2>1. SleepTicks = set.interval - set.window
    BY <1>1, <1>3 DEF SleepTicks
  <2>2. Away = set.restart + (set.interval - set.window)
    BY <1>3 DEF Away
  <2>3. QED
    BY <1>1, <1>3, <2>1, <2>2
<1>4. CASE set.strategy = "ble" /\ ~(set.interval > set.window + 1)
  <2>1. SleepTicks = 1
    <3>1. CASE set.interval > set.window
      BY <1>1, <1>4, <3>1 DEF SleepTicks
    <3>2. CASE ~(set.interval > set.window)
      BY <1>4, <3>2 DEF SleepTicks
    <3>3. QED
      BY <3>1, <3>2
  <2>2. Away = set.restart + 1
    BY <1>4 DEF Away
  <2>3. QED
    BY <1>1, <1>4, <2>1, <2>2
<1>5. QED
  BY <1>2, <1>3, <1>4

\* One frame more of the count takes one period more.
LEMMA OneMore == \A n, k \in Nat : (n + 1) * k = n * k + k /\ n * k \in Nat
  OBVIOUS

\* What lasts long enough comes more often than once a window, and lasts longer than
\* the device is away.
LEMMA LastingIs ==
    ASSUME set \in Settings, Lasting, set.strategy \in {"ble", "espnow"}
    PROVE  Period < set.window /\ Total > Away + Period
<1>1. /\ set.every \in Nat /\ set.jitter \in Nat /\ set.count \in Nat /\ set.count > 0
      /\ set.duration \in Nat /\ Away \in Nat
  BY SettingIs, AwayIs
<1>2. CASE set.strategy = "ble"
  <2>1. set.every + set.jitter < set.window /\ set.duration > Away + set.every + set.jitter
    BY <1>2 DEF Lasting
  <2>2. Period = set.every + set.jitter /\ Total = set.duration
    BY <1>2 DEF Period, Total
  <2>3. QED
    BY <1>1, <2>1, <2>2
<1>3. CASE set.strategy = "espnow"
  <2>1. set.every < set.window /\ (set.count - 1) * set.every > Away
    BY <1>3 DEF Lasting
  <2>2. Period = set.every /\ Total = set.count * set.every
    BY <1>3 DEF Period, Total
  <2>3. set.count - 1 \in Nat /\ set.count = (set.count - 1) + 1
    BY <1>1
  <2>4. set.count * set.every = (set.count - 1) * set.every + set.every
    BY <1>1, <2>3, OneMore
  <2>5. (set.count - 1) * set.every \in Nat
    BY <1>1, <2>3, OneMore
  <2> DEFINE m == (set.count - 1) * set.every
  <2>6. m \in Nat /\ m > Away /\ Total = m + set.every
    BY <2>1, <2>2, <2>4, <2>5
  <2> HIDE DEF m
  <2>7. QED
    BY <1>1, <2>1, <2>2, <2>6
<1>4. QED
  BY <1>2, <1>3

-----------------------------------------------------------------------------
(* The commands, one by one.                                               *)

\* the commands that put the trigger on the air, the last of which is followed by the
\* countdown, and those that take it down
Opening == {"delete", "add", "start", "down", "up", "name", "enable"}
Closing == {"stop", "remove", "disable"}

\* A command has a successor; there is no other.
LEMMA CommandsAre ==
    /\ DOMAIN After = Opening \cup Closing
    /\ After["delete"] = "add" /\ After["add"] = "start" /\ After["start"] = "wait"
    /\ After["stop"] = "remove" /\ After["remove"] = "none"
    /\ After["down"] = "up" /\ After["up"] = "name" /\ After["name"] = "enable"
    /\ After["enable"] = "wait" /\ After["disable"] = "none"
  BY DEF After, Opening, Closing

\* What each command leaves.
LEMMA CommandLeaves ==
    ASSUME Command
    PROVE  \/ pc = "delete" /\ pc' = "add" /\ hotspot' = "absent" /\ adapter' = adapter
           \/ pc = "add" /\ pc' = "start" /\ hotspot' \in {"up", "down"} /\ adapter' = adapter
           \/ pc = "start" /\ pc' = "wait" /\ hotspot' = "up" /\ adapter' = adapter
           \/ pc = "stop" /\ pc' = "remove" /\ hotspot' = "down" /\ adapter' = adapter
           \/ pc = "remove" /\ pc' = "none" /\ hotspot' = "absent" /\ adapter' = adapter
           \/ pc = "down" /\ pc' = "up" /\ adapter' = "down" /\ hotspot' = hotspot
           \/ pc = "up" /\ pc' = "name" /\ adapter' = "up" /\ hotspot' = hotspot
           \/ pc = "name" /\ pc' = "enable" /\ adapter' = "named" /\ hotspot' = hotspot
           \/ pc = "enable" /\ pc' = "wait" /\ adapter' = "advertising" /\ hotspot' = hotspot
           \/ pc = "disable" /\ pc' = "none" /\ adapter' = "named" /\ hotspot' = hotspot
<1>1. /\ pc \in Opening \cup Closing /\ pc' = After[pc]
      /\ hotspot' = IF pc \in DOMAIN HotspotSet THEN HotspotSet[pc] ELSE hotspot
      /\ adapter' = IF pc \in DOMAIN AdapterSet THEN AdapterSet[pc] ELSE adapter
  BY CommandsAre DEF Command
<1>2. /\ DOMAIN HotspotSet = {"delete", "add", "start", "stop", "remove"}
      /\ DOMAIN AdapterSet = {"down", "up", "name", "enable", "disable"}
  BY DEF HotspotSet, AdapterSet
<1>3. /\ HotspotSet["delete"] = "absent" /\ HotspotSet["add"] \in {"up", "down"}
      /\ HotspotSet["start"] = "up" /\ HotspotSet["stop"] = "down" /\ HotspotSet["remove"] = "absent"
      /\ AdapterSet["down"] = "down" /\ AdapterSet["up"] = "up" /\ AdapterSet["name"] = "named"
      /\ AdapterSet["enable"] = "advertising" /\ AdapterSet["disable"] = "named"
  BY DEF HotspotSet, AdapterSet
<1>4. CASE pc \in {"delete", "add", "start", "stop", "remove"}
  BY <1>1, <1>2, <1>3, <1>4, CommandsAre
<1>5. CASE pc \in {"down", "up", "name", "enable", "disable"}
  BY <1>1, <1>2, <1>3, <1>5, CommandsAre
<1>6. QED
  BY <1>1, <1>4, <1>5 DEF Opening, Closing

\* What else a command does: the last one before the countdown starts it.
LEMMA CommandCounts ==
    ASSUME Command
    PROVE  /\ UNCHANGED <<set, phase, clock, seen, clean>> /\ gap' = 0
           /\ pc' = "wait" => left' = set.duration /\ (found' <=> phase = "awake")
           /\ pc' # "wait" => left' = left /\ found' = found
<1>1. UNCHANGED <<set, phase, clock, seen, clean>> /\ gap' = 0
  BY DEF Command, device
<1>2. left' = IF pc' = "wait" THEN set.duration ELSE left
  BY DEF Command
<1>3. found' = IF pc' = "wait" THEN phase = "awake" ELSE found
  BY DEF Command
<1>4. QED
  BY <1>1, <1>2, <1>3

\* A failure leaves what was there, and the run counts as one without a failure only
\* when the script has seen it, or there was nothing to delete.
LEMMA FailureLeaves ==
    ASSUME CommandFails, clean \in BOOLEAN
    PROVE  /\ UNCHANGED <<set, hotspot, adapter, gap, phase, clock, seen, found>>
           /\ clean' \in BOOLEAN
           /\ clean' => clean /\ (pc \in {"add", "start"} \/ (pc = "delete" /\ hotspot = "absent"))
           /\ pc' = "wait" => left' = set.duration
           /\ pc' # "wait" => left' = left
           /\ \/ pc = "delete" /\ pc' = "add"
              \/ pc = "add" /\ pc' = "none"
              \/ pc = "start" /\ pc' = "remove"
              \/ pc = "stop" /\ pc' = "remove"
              \/ pc = "remove" /\ pc' = "none"
              \/ pc = "down" /\ pc' = "up"
              \/ pc = "up" /\ pc' = "name"
              \/ pc = "name" /\ pc' = "enable"
              \/ pc = "enable" /\ pc' = "wait"
              \/ pc = "disable" /\ pc' = "none"
<1>1. UNCHANGED <<set, hotspot, adapter, gap, phase, clock, seen, found>>
  BY DEF CommandFails, air, device
<1>2. /\ clean' \in BOOLEAN
      /\ clean' => clean /\ (pc \in {"add", "start"} \/ (pc = "delete" /\ hotspot = "absent"))
  BY DEF CommandFails
<1>3. left' = IF pc' = "wait" THEN set.duration ELSE left
  BY DEF CommandFails
<1>4. /\ pc \in Opening \cup Closing
      /\ pc' = CASE pc = "add" -> "none" [] pc = "start" -> "remove" [] OTHER -> After[pc]
  BY CommandsAre DEF CommandFails
<1>5. \/ pc = "delete" /\ pc' = "add"
      \/ pc = "add" /\ pc' = "none"
      \/ pc = "start" /\ pc' = "remove"
      \/ pc = "stop" /\ pc' = "remove"
      \/ pc = "remove" /\ pc' = "none"
      \/ pc = "down" /\ pc' = "up"
      \/ pc = "up" /\ pc' = "name"
      \/ pc = "name" /\ pc' = "enable"
      \/ pc = "enable" /\ pc' = "wait"
      \/ pc = "disable" /\ pc' = "none"
  <2>1. CASE pc \in {"add", "start"}
    BY <1>4, <2>1
  <2>2. CASE pc \notin {"add", "start"}
    <3>1. pc' = After[pc]
      BY <1>4, <2>2
    <3>2. pc \in {"delete", "stop", "remove", "down", "up", "name", "enable", "disable"}
      BY <1>4, <2>2 DEF Opening, Closing
    <3>3. QED
      BY <3>1, <3>2, CommandsAre
  <2>3. QED
    BY <2>1, <2>2
<1>6. QED
  BY <1>1, <1>2, <1>3, <1>5

\* A step of the device changes its phase and its clock.
LEMMA DeviceMoves ==
    ASSUME Device
    PROVE  /\ UNCHANGED <<set, pc, left, clean, hotspot, adapter, gap>>
           /\ \/ phase = "window" /\ clock = 0 /\ phase' = "awake" /\ found' = TRUE
                 /\ clock' = clock /\ seen' = seen
              \/ phase = "window" /\ clock = 0 /\ seen < set.window /\ phase' = "sleep"
                 /\ clock' = SleepTicks /\ seen' = 0 /\ found' = found
              \/ phase = "sleep" /\ clock = 0 /\ phase' = "restart" /\ clock' \in 0 .. set.restart
                 /\ seen' = seen /\ found' = found
              \/ phase = "restart" /\ clock = 0 /\ phase' = "window"
                 /\ clock' = set.window /\ seen' = 0 /\ found' = found
              \/ phase = "awake" /\ phase' = "window"
                 /\ clock' \in {set.window} \cup 1 .. set.window /\ seen' = 0 /\ found' = found
<1>1. CASE WindowFinds
  BY <1>1 DEF WindowFinds, script, air
<1>2. CASE WindowEnds
  BY <1>2 DEF WindowEnds, script, air
<1>3. CASE SleepEnds
  BY <1>3 DEF SleepEnds, script, air
<1>4. CASE Listen
  BY <1>4 DEF Listen, FirstWindow, script, air
<1>5. QED
  BY <1>1, <1>2, <1>3, <1>4 DEF Device

\* A frame or an advertisement is heard in a window that has not run out.
LEMMA Hearing ==
    ASSUME Hear
    PROVE  \/ phase = "window" /\ clock > 0 /\ phase' = "awake" /\ found' = TRUE
              /\ clock' = clock /\ seen' = seen
           \/ ~(phase = "window" /\ clock > 0) /\ UNCHANGED <<phase, clock, seen, found>>
  BY DEF Hear, device

\* A tick takes one off what runs.
LEMMA Ticking ==
    ASSUME Tick
    PROVE  /\ UNCHANGED <<set, pc, clean, hotspot, adapter, phase, found>>
           /\ pc # "send" /\ (pc = "wait" => left # 0)
           /\ pc = "pause" \/ adapter = "advertising" => gap # 0
           /\ phase = "awake" \/ clock # 0
           /\ left' = IF pc = "wait" THEN left - 1 ELSE left
           /\ gap' = IF pc = "pause" \/ adapter = "advertising" THEN gap - 1 ELSE gap
           /\ clock' = IF phase = "awake" \/ set.strategy = "dtim" THEN clock ELSE clock - 1
           /\ seen' = IF phase = "window" /\ hotspot = "up" THEN seen + 1 ELSE seen
  BY DEF Tick, Urgent

-----------------------------------------------------------------------------
(* The types, and what is on the air.                                      *)

\* The invariant holds at first, wherever the device is in its window.
LEMMA InitOK == Init => TriggerInv
<1> SUFFICES ASSUME Init PROVE TriggerInv
  OBVIOUS
<1>1. set \in Settings /\ set.window \in Nat /\ clock \in 1 .. set.window
  BY SettingIs DEF Init
<1>2. pc = "none" /\ left = 0 /\ hotspot = "absent" /\ adapter = "up" /\ gap = 0
      /\ phase = "window" /\ seen = 0 /\ ~clean /\ clean \in BOOLEAN /\ found \in BOOLEAN
  BY DEF Init
<1>3. clock \in Nat /\ clock > 0 /\ clock <= set.window
  BY <1>1
<1>4. Numbers
  <2>1. set.every + set.jitter \in Nat /\ set.duration \in Nat
    BY <1>1, SettingIs
  <2>2. QED
    BY <1>1, <1>2, <1>3, <2>1 DEF Numbers
<1>5. Places /\ Flags /\ OwnCommands /\ OnAir
  BY <1>1, <1>2 DEF Places, Flags, OwnCommands, OnAir
<1>6. DeviceInv
  BY <1>1, <1>2, <1>3 DEF DeviceInv, DevicePhase, Remaining
<1>7. Search /\ TriggerFound
  BY <1>2 DEF Search, TriggerFound, Over
<1>8. QED
  BY <1>4, <1>5, <1>6, <1>7 DEF TriggerInv, ScriptInv

\* What the settings allow never changes.
LEMMA SetStays == ASSUME [Next]_vars PROVE set' = set
<1>1. CASE UNCHANGED vars
  BY <1>1 DEF vars
<1>2. CASE Command
  BY <1>2, CommandCounts
<1>3. CASE CommandFails
  BY <1>3 DEF CommandFails
<1>4. CASE Device
  BY <1>4, DeviceMoves
<1>5. CASE Tick
  BY <1>5, Ticking
<1>6. QED
  BY <1>1, <1>2, <1>3, <1>4, <1>5 DEF Next, Start, EndWait, Cut, Send, PauseEnds, Advertise

\* Counts and times stay within the settings.
LEMMA NumbersKeep == ASSUME ScriptInv, DeviceInv, [Next]_vars PROVE Numbers'
<1>1. set' = set /\ set \in Settings
  BY SetStays DEF ScriptInv, Places
<1>2. /\ set.window \in Nat /\ set.restart \in Nat /\ set.duration \in Nat /\ set.count \in Nat
      /\ set.every \in Nat /\ set.jitter \in Nat /\ SleepTicks \in Nat
  BY <1>1, SettingIs, AwayIs
<1>3. /\ left \in Nat /\ gap \in Nat /\ clock \in Nat /\ seen \in Nat
      /\ gap <= set.every + set.jitter /\ (left <= set.duration \/ left <= set.count)
      /\ seen <= set.window
  BY DEF ScriptInv, Numbers
<1>4. left' \in Nat /\ (left' <= set.duration \/ left' <= set.count)
  <2>1. CASE left' = left
    BY <1>3, <2>1
  <2>2. CASE left' = set.duration \/ left' = set.count
    BY <1>2, <2>2
  <2>3. CASE left > 0 /\ left' = left - 1
    BY <1>2, <1>3, <2>3
  <2>4. left' = left \/ left' = set.duration \/ left' = set.count \/ (left > 0 /\ left' = left - 1)
    <3>1. CASE Command
      BY <3>1, CommandCounts
    <3>2. CASE CommandFails
      BY <3>2 DEF CommandFails
    <3>3. CASE Device
      BY <3>3, DeviceMoves
    <3>4. CASE Tick
      BY <1>3, <3>4, Ticking
    <3>5. QED
      BY <3>1, <3>2, <3>3, <3>4 DEF Next, vars, script, Start, EndWait, Cut, Send, PauseEnds, Advertise
  <2>5. QED
    BY <2>1, <2>2, <2>3, <2>4
<1>5. gap' \in Nat /\ gap' <= set.every + set.jitter
  <2>1. CASE gap' = gap \/ gap' = 0 \/ gap' = set.every
    BY <1>2, <1>3, <2>1
  <2>2. CASE gap > 0 /\ gap' = gap - 1
    BY <1>2, <1>3, <2>2
  <2>3. CASE gap' \in set.every .. set.every + set.jitter
    BY <1>2, <2>3
  <2>4. \/ gap' = gap \/ gap' = 0 \/ gap' = set.every
        \/ gap > 0 /\ gap' = gap - 1
        \/ gap' \in set.every .. set.every + set.jitter
    <3>1. CASE Command
      BY <3>1, CommandCounts
    <3>2. CASE CommandFails
      BY <3>2, FailureLeaves DEF ScriptInv, Flags
    <3>3. CASE Device
      BY <3>3, DeviceMoves
    <3>4. CASE Tick
      BY <1>3, <3>4, Ticking
    <3>5. QED
      BY <3>1, <3>2, <3>3, <3>4 DEF Next, vars, air, Start, EndWait, Cut, Send, PauseEnds, Advertise
  <2>5. QED
    BY <2>1, <2>2, <2>3, <2>4
<1>6. clock' \in Nat /\ seen' \in Nat /\ seen' <= set.window
  <2>1. CASE clock' = clock /\ seen' = seen
    BY <1>3, <2>1
  <2>2. CASE Tick
    <3>1. clock' = clock \/ (clock # 0 /\ clock' = clock - 1)
      BY <2>2, Ticking
    <3>2. seen' = seen \/ (phase = "window" /\ seen' = seen + 1)
      BY <2>2, Ticking
    <3>3. phase = "window" => seen + clock <= set.window /\ clock > 0
      BY <1>3, <2>2, Ticking DEF DeviceInv, DevicePhase
    <3>4. clock' \in Nat
      BY <1>3, <3>1
    <3>5. seen' \in Nat /\ seen' <= set.window
      BY <1>2, <1>3, <3>2, <3>3
    <3>6. QED
      BY <3>4, <3>5
  <2>3. CASE Device
    <3>1. clock' \in {clock, SleepTicks, set.window} \cup 0 .. set.restart \cup 1 .. set.window /\ seen' \in {seen, 0}
      BY <2>3, DeviceMoves
    <3>2. QED
      BY <1>2, <1>3, <3>1
  <2>4. (clock' = clock /\ seen' = seen) \/ Tick \/ Device
    <3>1. CASE Command
      BY <3>1, CommandCounts
    <3>2. CASE CommandFails
      BY <3>2, FailureLeaves DEF ScriptInv, Flags
    <3>3. CASE Send \/ Advertise
      BY <3>3, Hearing DEF Send, Advertise
    <3>4. QED
      BY <3>1, <3>2, <3>3 DEF Next, vars, device, Start, EndWait, Cut, PauseEnds
  <2>5. QED
    BY <2>1, <2>2, <2>3, <2>4
<1>7. QED
  BY <1>1, <1>4, <1>5, <1>6 DEF Numbers

\* A command or its failure is one of a strategy's own, and so is what follows it.
LEMMA CommandsOwn ==
    ASSUME ScriptInv, DeviceInv, Command \/ CommandFails
    PROVE  Places' /\ Flags' /\ OwnCommands'
<1>1. set' = set /\ phase' = phase /\ set \in Settings
  BY CommandCounts, FailureLeaves DEF ScriptInv, Flags, Places
<1>2. \/ pc = "delete" /\ pc' = "add"
      \/ pc = "add" /\ pc' \in {"start", "none"}
      \/ pc = "start" /\ pc' \in {"wait", "remove"}
      \/ pc = "stop" /\ pc' = "remove"
      \/ pc = "remove" /\ pc' = "none"
      \/ pc = "down" /\ pc' = "up"
      \/ pc = "up" /\ pc' = "name"
      \/ pc = "name" /\ pc' = "enable"
      \/ pc = "enable" /\ pc' = "wait"
      \/ pc = "disable" /\ pc' = "none"
  <2>1. CASE Command
    BY <2>1, CommandLeaves
  <2>2. CASE CommandFails
    <3>1. clean \in BOOLEAN
      BY DEF ScriptInv, Flags
    <3>2. QED
      BY <2>2, <3>1, FailureLeaves
  <2>3. QED
    BY <2>1, <2>2
<1>3. pc' \in DOMAIN After \cup {"none", "wait"}
  BY <1>2, CommandsAre DEF Opening, Closing
<1>4. /\ hotspot' \in {"absent", "down", "up"}
      /\ adapter' \in {"down", "up", "named", "advertising"}
      /\ hotspot' = hotspot \/ pc \in {"delete", "add", "start", "stop", "remove"}
      /\ adapter' = adapter \/ pc \in {"down", "up", "name", "enable", "disable"}
  BY CommandLeaves, FailureLeaves DEF ScriptInv, Flags, Places
<1>5. Places'
  BY <1>1, <1>3, <1>4 DEF ScriptInv, Places
<1>6. OwnCommands'
  BY <1>1, <1>2, <1>4 DEF ScriptInv, OwnCommands
<1>7. Flags'
  <2>1. CASE Command
    <3>1. clean' = clean
      BY <2>1, CommandCounts
    <3>2. found' = (phase = "awake") \/ found' = found
      BY <2>1 DEF Command
    <3>3. QED
      BY <3>1, <3>2 DEF ScriptInv, Flags
  <2>2. CASE CommandFails
    BY <2>2, FailureLeaves DEF ScriptInv, Flags
  <2>3. QED
    BY <2>1, <2>2
<1>8. QED
  BY <1>5, <1>6, <1>7

\* A script starts with its own first command.
LEMMA Starting ==
    ASSUME Start, set \in Settings
    PROVE  /\ UNCHANGED <<set, hotspot, adapter, gap, phase, clock, seen>>
           /\ pc = "none" /\ left' = set.count /\ clean' /\ clean' \in BOOLEAN /\ found' \in BOOLEAN
           /\ found' <=> phase = "awake"
           /\ \/ set.strategy = "listen" /\ pc' = "delete"
              \/ set.strategy = "ble" /\ pc' = "down"
              \/ set.strategy \in {"espnow", "dtim"} /\ pc' = "send"
<1>1. set.strategy \in {"listen", "ble", "espnow", "dtim"} /\ pc' = First[set.strategy]
  BY SettingIs DEF Start, Strategies
<1>2. \/ set.strategy = "listen" /\ pc' = "delete"
      \/ set.strategy = "ble" /\ pc' = "down"
      \/ set.strategy \in {"espnow", "dtim"} /\ pc' = "send"
  BY <1>1 DEF First
<1>3. clean' = TRUE /\ found' = (phase = "awake")
  BY DEF Start
<1>4. clean' /\ clean' \in BOOLEAN /\ found' \in BOOLEAN /\ (found' <=> phase = "awake")
  BY <1>3
<1>5. UNCHANGED <<set, hotspot, adapter, gap, phase, clock, seen>> /\ pc = "none" /\ left' = set.count
  BY DEF Start, air, device
<1>6. QED
  BY <1>2, <1>4, <1>5

\* The places of the script, of what is on the air and of the device, and the commands
\* that are a script's own.
LEMMA PlacesKeep == ASSUME ScriptInv, DeviceInv, [Next]_vars PROVE Places' /\ Flags' /\ OwnCommands'
<1>1. set' = set /\ set \in Settings /\ set.strategy \in Strategies
  BY SetStays, SettingIs DEF ScriptInv, Places
<1>2. clean \in BOOLEAN /\ found \in BOOLEAN
  BY DEF ScriptInv, Flags
<1>3. CASE Start
  <2>1. pc' \in DOMAIN After \cup {"send"}
    BY <1>1, <1>3, Starting, CommandsAre DEF Opening
  <2>2. Places'
    BY <1>1, <1>3, <2>1, Starting DEF ScriptInv, Places
  <2>3. OwnCommands'
    BY <1>1, <1>3, Starting DEF ScriptInv, OwnCommands
  <2>4. QED
    BY <1>1, <1>3, <2>2, <2>3, Starting DEF Flags
<1>4. CASE EndWait
  <2>1. /\ pc = "wait" /\ UNCHANGED <<set, clean, hotspot, adapter, phase, found>>
        /\ pc' = IF set.strategy = "listen" THEN "stop" ELSE "disable"
    BY <1>4 DEF EndWait, Cleanup, air, device
  <2>2. pc' \in DOMAIN After
    BY <2>1, CommandsAre DEF Closing
  <2>3. QED
    BY <2>1, <2>2 DEF ScriptInv, Places, Flags, OwnCommands
<1>5. CASE Cut
  <2>1. /\ pc' = "none" /\ clean' = FALSE /\ UNCHANGED <<set, hotspot, adapter, phase, found>>
    BY <1>5 DEF Cut, air, device
  <2>2. QED
    BY <2>1 DEF ScriptInv, Places, Flags, OwnCommands
<1>6. CASE Send \/ Advertise
  <2>1. Hear /\ UNCHANGED <<set, clean, hotspot, adapter>>
        /\ (pc' = pc \/ (pc = "send" /\ pc' \in {"none", "pause"}))
    BY <1>6 DEF Send, Advertise, script
  <2>2. phase' \in {phase, "awake"} /\ (found' = TRUE \/ found' = found)
    BY <2>1, Hearing
  <2>3. Places'
    BY <2>1, <2>2 DEF ScriptInv, Places
  <2>4. Flags'
    BY <2>1, <2>2 DEF ScriptInv, Flags
  <2>5. OwnCommands'
    BY <2>1 DEF ScriptInv, OwnCommands
  <2>6. QED
    BY <2>3, <2>4, <2>5
<1>7. CASE PauseEnds
  <2>1. /\ pc = "pause" /\ pc' \in {"send", "none"}
        /\ UNCHANGED <<set, clean, hotspot, adapter, phase, found>>
    BY <1>7 DEF PauseEnds, air, device
  <2>2. QED
    BY <2>1 DEF ScriptInv, Places, Flags, OwnCommands
<1>8. CASE Device
  <2>1. /\ UNCHANGED <<set, pc, clean, hotspot, adapter>> /\ (found' = TRUE \/ found' = found)
        /\ phase' \in {"window", "sleep", "restart", "awake"}
    BY <1>8, DeviceMoves
  <2>2. QED
    BY <2>1 DEF ScriptInv, Places, Flags, OwnCommands
<1>9. CASE Tick
  BY <1>9, Ticking DEF ScriptInv, Places, Flags, OwnCommands
<1>10. CASE UNCHANGED vars
  BY <1>10 DEF vars, script, air, device, ScriptInv, Places, Flags, OwnCommands
<1>11. QED
  BY <1>3, <1>4, <1>5, <1>6, <1>7, <1>8, <1>9, <1>10, CommandsOwn DEF Next

\* A run without a failure takes down what it puts on the air.
LEMMA OnAirKeeps == ASSUME ScriptInv, DeviceInv, [Next]_vars PROVE OnAir'
<1>1. set' = set /\ set \in Settings
  BY SetStays DEF ScriptInv, Places
<1>2. OnAir /\ OwnCommands /\ clean \in BOOLEAN
  BY DEF ScriptInv, Flags
<1>3. CASE Command
  <2>1. clean' = clean
    BY <1>3, CommandCounts
  <2>2. QED
    BY <1>1, <1>2, <1>3, <2>1, CommandLeaves DEF OnAir, OwnCommands
<1>4. CASE CommandFails
  <2>1. hotspot' = hotspot /\ adapter' = adapter
    BY <1>2, <1>4, FailureLeaves
  <2>2. SUFFICES ASSUME clean' PROVE OnAir'
    BY DEF OnAir
  <2>3. clean /\ (pc \in {"add", "start"} \/ (pc = "delete" /\ hotspot = "absent"))
    BY <1>2, <1>4, <2>2, FailureLeaves
  <2>4. \/ pc = "delete" /\ pc' = "add" /\ hotspot = "absent"
        \/ pc = "add" /\ pc' = "none"
        \/ pc = "start" /\ pc' = "remove"
    BY <1>2, <1>4, <2>3, FailureLeaves
  <2>5. set.strategy = "listen" /\ adapter = "up"
    BY <1>2, <2>3 DEF OwnCommands
  <2>6. QED
    BY <1>2, <2>1, <2>3, <2>4, <2>5 DEF OnAir
<1>5. CASE Start
  <2>1. hotspot' = hotspot /\ adapter' = adapter /\ pc' \in {"delete", "down", "send"}
    BY <1>1, <1>5, Starting
  <2>2. QED
    BY <2>1 DEF OnAir
<1>6. CASE EndWait
  <2>1. pc' \in {"stop", "disable"}
    BY <1>6 DEF EndWait, Cleanup
  <2>2. QED
    BY <2>1 DEF OnAir
<1>7. CASE Cut
  BY <1>7 DEF Cut, OnAir
<1>8. CASE Send \/ PauseEnds
  <2>1. hotspot' = hotspot /\ adapter' = adapter /\ pc \in {"send", "pause"} /\ pc' # "wait"
        /\ pc' # "add"
    BY <1>8 DEF Send, PauseEnds, air
  <2>2. hotspot = "absent" /\ adapter = "up"
    BY <1>2, <2>1 DEF OwnCommands
  <2>3. QED
    BY <2>1, <2>2 DEF OnAir
<1>9. CASE Advertise \/ Device \/ Tick \/ UNCHANGED vars
  <2>1. UNCHANGED <<pc, clean, hotspot, adapter>>
    BY <1>9, DeviceMoves, Ticking DEF Advertise, script, vars, air
  <2>2. QED
    BY <1>1, <1>2, <2>1 DEF OnAir
<1>10. QED
  BY <1>3, <1>4, <1>5, <1>6, <1>7, <1>8, <1>9 DEF Next

\* The script's part of the invariant.
LEMMA ScriptKeeps == ASSUME ScriptInv, DeviceInv, [Next]_vars PROVE ScriptInv'
  BY NumbersKeep, PlacesKeep, OnAirKeeps DEF ScriptInv

-----------------------------------------------------------------------------
(* The device, and what is left to the script.                             *)

\* The numbers there are, for arithmetic.
LEMMA NumbersAre ==
    ASSUME ScriptInv
    PROVE  /\ set \in Settings /\ set.strategy \in Strategies
           /\ set.window \in Nat /\ set.window > 0 /\ set.interval \in Nat /\ set.interval > 0
           /\ set.restart \in Nat /\ set.duration \in Nat /\ set.duration > 0
           /\ set.count \in Nat /\ set.count > 0 /\ set.every \in Nat /\ set.every > 0
           /\ set.jitter \in Nat
           /\ SleepTicks \in Nat /\ SleepTicks > 0 /\ Away = set.restart + SleepTicks
           /\ set.strategy # "ble" => SleepTicks = set.interval
           /\ left \in Nat /\ gap \in Nat /\ clock \in Nat /\ seen \in Nat
<1>1. set \in Settings
  BY DEF ScriptInv, Places
<1>2. QED
  BY <1>1, SettingIs, AwayIs DEF ScriptInv, Numbers

\* The device stays in the time of its phase.
LEMMA DeviceKeeps == ASSUME ScriptInv, DeviceInv, [Next]_vars PROVE DevicePhase'
<1>1. set' = set /\ SleepTicks' = SleepTicks
  BY SetStays DEF SleepTicks
<1>2. DevicePhase /\ clean \in BOOLEAN /\ found \in BOOLEAN
  BY DEF ScriptInv, DeviceInv, Flags
<1>3. CASE UNCHANGED <<phase, clock, seen>> /\ (phase = "awake" => found')
  BY <1>1, <1>2, <1>3 DEF DevicePhase
<1>4. CASE phase' = "awake" /\ found' = TRUE
  BY <1>4 DEF DevicePhase
<1>5. CASE Device
  <2>1. CASE phase = "window" /\ clock = 0 /\ phase' = "sleep" /\ clock' = SleepTicks
    <3>1. set.strategy # "dtim"
      BY <1>2, <2>1, NumbersAre DEF DevicePhase
    <3>2. QED
      BY <1>1, <2>1, <3>1, NumbersAre DEF DevicePhase
  <2>2. CASE phase = "sleep" /\ phase' = "restart" /\ clock' \in 0 .. set.restart
    <3>1. clock' <= set.restart
      BY <2>2, NumbersAre
    <3>2. set.strategy # "dtim"
      BY <1>2, <2>2 DEF DevicePhase
    <3>3. QED
      BY <1>1, <2>2, <3>1, <3>2 DEF DevicePhase
  <2>3. CASE phase' = "window" /\ clock' \in {set.window} \cup 1 .. set.window /\ seen' = 0
    <3>1. seen' + clock' <= set.window /\ clock' > 0
      BY <2>3, NumbersAre
    <3>2. QED
      BY <1>1, <2>3, <3>1 DEF DevicePhase
  <2>4. QED
    BY <1>4, <1>5, <2>1, <2>2, <2>3, DeviceMoves
<1>6. CASE Tick
  <2>1. /\ phase' = phase /\ found' = found /\ (phase = "awake" \/ clock # 0)
        /\ clock' = IF phase = "awake" \/ set.strategy = "dtim" THEN clock ELSE clock - 1
        /\ seen' = IF phase = "window" /\ hotspot = "up" THEN seen + 1 ELSE seen
    BY <1>6, Ticking
  <2>2. set.strategy = "dtim" => hotspot = "absent"
    BY DEF ScriptInv, OwnCommands
  <2>3. CASE phase = "awake"
    BY <1>1, <1>2, <2>1, <2>3 DEF DevicePhase
  <2>4. CASE phase # "awake" /\ set.strategy # "dtim"
    <3>1. clock' = clock - 1 /\ seen' <= seen + 1
      BY <2>1, <2>4, NumbersAre
    <3>2. seen' \in Nat
      BY <2>1, NumbersAre
    <3>3. phase = "window" => seen' + clock' <= set.window
      BY <1>2, <3>1, <3>2, NumbersAre DEF DevicePhase
    <3>4. phase = "sleep" => clock' <= SleepTicks
      BY <1>2, <3>1, NumbersAre DEF DevicePhase
    <3>5. phase = "restart" => clock' <= set.restart
      BY <1>2, <3>1, NumbersAre DEF DevicePhase
    <3>6. QED
      BY <1>1, <2>1, <2>4, <3>3, <3>4, <3>5 DEF DevicePhase
  <2>5. CASE phase # "awake" /\ set.strategy = "dtim"
    <3>1. clock' = clock /\ seen' = seen
      BY <2>1, <2>2, <2>5
    <3>2. QED
      BY <1>1, <1>2, <2>1, <3>1 DEF DevicePhase
  <2>6. QED
    BY <2>3, <2>4, <2>5
<1>7. CASE Send \/ Advertise
  <2>1. Hear
    BY <1>7 DEF Send, Advertise
  <2>2. QED
    BY <1>2, <1>3, <1>4, <2>1, Hearing DEF DevicePhase
<1>8. CASE Start
  BY <1>3, <1>8, Starting, NumbersAre
<1>9. CASE Command
  BY <1>2, <1>3, <1>9, CommandCounts DEF DevicePhase
<1>10. CASE CommandFails
  BY <1>2, <1>3, <1>10, FailureLeaves DEF DevicePhase
<1>11. CASE EndWait \/ Cut \/ PauseEnds \/ UNCHANGED vars
  BY <1>2, <1>3, <1>11 DEF EndWait, Cut, PauseEnds, vars, device, DevicePhase
<1>12. QED
  BY <1>5, <1>6, <1>7, <1>8, <1>9, <1>10, <1>11 DEF Next

\* The script counts down from what it was asked for.
LEMMA RemainingKeeps == ASSUME ScriptInv, DeviceInv, [Next]_vars PROVE Remaining'
<1>1. set' = set /\ set \in Settings
  BY SetStays DEF ScriptInv, Places
<1>2. Remaining
  BY DEF DeviceInv
<1>3. CASE Command
  <2>1. pc' \in {"add", "start", "up", "name", "enable"} => left' = set.count
    BY <1>2, <1>3, CommandLeaves, CommandCounts DEF Remaining
  <2>2. pc' = "wait" => left' = set.duration
    BY <1>3, CommandCounts
  <2>3. pc' \in {"add", "start", "up", "name", "enable", "wait", "remove", "none"}
    BY <1>3, CommandLeaves
  <2>4. QED
    BY <1>1, <2>1, <2>2, <2>3, NumbersAre DEF Remaining
<1>4. CASE CommandFails
  <2>1. clean \in BOOLEAN
    BY DEF ScriptInv, Flags
  <2>2. pc' \in {"add", "start", "up", "name", "enable"} => left' = set.count
    BY <1>2, <1>4, <2>1, FailureLeaves DEF Remaining
  <2>3. pc' = "wait" => left' = set.duration
    BY <1>4, <2>1, FailureLeaves
  <2>4. pc' \in {"add", "start", "up", "name", "enable", "wait", "remove", "none"}
    BY <1>4, <2>1, FailureLeaves
  <2>5. QED
    BY <1>1, <2>2, <2>3, <2>4, NumbersAre DEF Remaining
<1>5. CASE Start
  <2>1. left' = set.count /\ pc' \in {"delete", "down", "send"}
    BY <1>1, <1>5, Starting
  <2>2. QED
    BY <1>1, <2>1, NumbersAre DEF Remaining
<1>6. CASE EndWait \/ Cut
  <2>1. pc' \in {"stop", "disable", "none"}
    BY <1>6 DEF EndWait, Cut, Cleanup
  <2>2. QED
    BY <2>1 DEF Remaining
<1>7. CASE Send
  <2>1. pc = "send" /\ left' = left - 1 /\ pc' \in {"none", "pause"} /\ gap' = set.every
    BY <1>7 DEF Send
  <2>2. left' <= set.count /\ gap' <= set.every
    BY <1>2, <2>1, NumbersAre DEF Remaining
  <2>3. QED
    BY <1>1, <2>1, <2>2 DEF Remaining
<1>8. CASE PauseEnds
  <2>1. pc = "pause" /\ left' = left /\ pc' \in {"none", "send"}
    BY <1>8 DEF PauseEnds
  <2>2. QED
    BY <1>1, <1>2, <2>1 DEF Remaining
<1>9. CASE Advertise
  <2>1. pc' = pc /\ left' = left /\ pc # "pause"
    BY <1>9 DEF Advertise, script, ScriptInv, OwnCommands
  <2>2. QED
    BY <1>1, <1>2, <2>1 DEF Remaining
<1>10. CASE Device \/ UNCHANGED vars
  <2>1. pc' = pc /\ left' = left /\ gap' = gap
    BY <1>10, DeviceMoves DEF vars, script, air
  <2>2. QED
    BY <1>1, <1>2, <2>1 DEF Remaining
<1>11. CASE Tick
  <2>1. /\ pc' = pc /\ left' = IF pc = "wait" THEN left - 1 ELSE left
        /\ gap' = IF pc = "pause" \/ adapter = "advertising" THEN gap - 1 ELSE gap
    BY <1>11, Ticking
  <2>2. left' <= left /\ gap' <= gap /\ (pc # "wait" => left' = left)
    BY <2>1, NumbersAre
  <2>3. left' \in Int /\ gap' \in Int
    BY <2>1, NumbersAre
  <2>4. pc = "wait" => left' <= set.duration
    BY <1>2, <2>2, <2>3, NumbersAre DEF Remaining
  <2>5. pc = "pause" => gap' <= set.every
    BY <1>2, <2>2, <2>3, NumbersAre DEF Remaining
  <2>6. QED
    BY <1>1, <1>2, <2>1, <2>2, <2>4, <2>5 DEF Remaining
<1>12. QED
  BY <1>3, <1>4, <1>5, <1>6, <1>7, <1>8, <1>9, <1>10, <1>11 DEF Next

-----------------------------------------------------------------------------
(* The search.                                                             *)

\* The times of the search are numbers; what depends on the settings alone stays.
LEMMA TimesAre ==
    ASSUME ScriptInv
    PROVE  Elapsed \in Int /\ NextIn \in Nat /\ Period \in Nat /\ Away \in Nat
<1>1. set.count * set.every \in Nat /\ left * set.every \in Nat
  BY NumbersAre, OneMore
<1>2. NextIn \in Nat /\ Period \in Nat /\ Away \in Nat
  BY NumbersAre DEF NextIn, Period
<1>3. CASE pc = "wait"
  <2>1. Elapsed = set.duration - left
    BY <1>3 DEF Elapsed
  <2>2. QED
    BY <1>2, <2>1, NumbersAre
<1>4. CASE pc # "wait"
  <2> DEFINE c == set.count * set.every
             l == left * set.every
  <2>1. Elapsed = c - l - NextIn
    BY <1>4 DEF Elapsed
  <2>2. c \in Nat /\ l \in Nat
    BY <1>1
  <2> HIDE DEF c, l
  <2>3. Elapsed \in Int
    BY <1>2, <2>1, <2>2
  <2>4. QED
    BY <1>2, <2>3
<1>5. QED
  BY <1>3, <1>4

\* What depends on the settings alone stays.
LEMMA SettingStays ==
    ASSUME set' = set
    PROVE  /\ Lasting' <=> Lasting
           /\ SleepTicks' = SleepTicks /\ Away' = Away /\ Period' = Period /\ Total' = Total
<1>1. SleepTicks' = SleepTicks /\ Away' = Away /\ Period' = Period /\ Total' = Total
  BY DEF SleepTicks, Away, Period, Total
<1>2. Lasting' <=> Lasting
  BY <1>1 DEF Lasting
<1>3. QED
  BY <1>1, <1>2

\* When the trigger is switched on nothing has elapsed, whatever the device does.
LEMMA ScanBegins ==
    ASSUME ScriptInv, DeviceInv, ScriptInv', set' = set, UNCHANGED <<phase, clock, seen>>,
           set.strategy = "listen", Elapsed' = 0
    PROVE  NotScanned'
<1>1. Away' = Away
  BY SettingStays
<1>2. phase = "window" => seen + clock <= set.window
  BY DEF DeviceInv, DevicePhase
<1>3. CASE phase = "window"
  <2>1. seen + clock <= set.window /\ clock <= set.window
    BY <1>2, <1>3, NumbersAre
  <2>2. CASE clock = set.window
    <3>1. seen + clock = set.window /\ 0 + clock < set.window + Away + set.window
      BY <2>1, <2>2, NumbersAre
    <3>2. QED
      BY <1>1, <1>3, <3>1 DEF NotScanned
  <2>3. CASE clock < set.window
    <3>1. 0 + clock < set.window
      BY <2>3, NumbersAre
    <3>2. QED
      BY <1>3, <3>1 DEF NotScanned
  <2>4. QED
    BY <2>1, <2>2, <2>3, NumbersAre
<1>4. CASE phase = "sleep"
  <2>1. clock <= SleepTicks
    BY <1>4 DEF DeviceInv, DevicePhase
  <2>2. 0 + clock < set.window + set.interval
    BY <2>1, NumbersAre
  <2>3. QED
    BY <1>4, <2>2 DEF NotScanned
<1>5. CASE phase = "restart"
  <2>1. clock <= set.restart
    BY <1>5 DEF DeviceInv, DevicePhase
  <2>2. 0 + clock < set.window + Away
    BY <2>1, NumbersAre
  <2>3. QED
    BY <1>1, <1>5, <2>2 DEF NotScanned
<1>6. QED
  BY <1>3, <1>4, <1>5 DEF NotScanned

\* When the first frame is due at once nothing has elapsed either.
LEMMA FramesBegin ==
    ASSUME ScriptInv, DeviceInv, set' = set, UNCHANGED <<phase, clock, seen>>,
           Elapsed' = 0, NextIn' = 0
    PROVE  NotHeard'
<1>1. Away' = Away /\ SleepTicks' = SleepTicks /\ Period' = Period
  BY SettingStays
<1>2. clock \in Nat /\ Away + Period \in Nat /\ Away = set.restart + SleepTicks
      /\ set.restart \in Nat /\ SleepTicks \in Nat
  BY NumbersAre, TimesAre
<1>3. clock = 0 \/ (0 < clock /\ 0 + 0 <= Away + Period)
  BY <1>2
<1>4. phase = "sleep" => 0 + clock <= SleepTicks
  BY <1>2 DEF DeviceInv, DevicePhase
<1>5. phase = "restart" => 0 + clock <= Away
  BY <1>2 DEF DeviceInv, DevicePhase
<1>6. QED
  BY <1>1, <1>3, <1>4, <1>5 DEF NotHeard

\* The device goes on without having found the hotspot: the window that ends was
\* not a whole one.
LEMMA ScanGoesOn ==
    ASSUME ScriptInv, DeviceInv, Device, NotScanned, ~found', Elapsed' = Elapsed,
           phase = "awake" => found, set.strategy = "listen"
    PROVE  NotScanned'
<1> DEFINE e == Elapsed
<1>1. /\ set' = set /\ SleepTicks = set.interval /\ Away = set.restart + SleepTicks
      /\ e \in Int /\ clock \in Nat /\ seen \in Nat /\ set.window \in Nat /\ set.interval \in Nat
      /\ set.restart \in Nat /\ Elapsed' = e
  BY DeviceMoves, NumbersAre, TimesAre
<1>2. Away' = Away
  BY <1>1, SettingStays
<1>3. /\ phase = "window" =>
           \/ e + clock < set.window
           \/ seen + clock = set.window /\ e + clock < set.window + Away + set.window
      /\ phase = "sleep" => e + clock < set.window + set.interval
      /\ phase = "restart" => e + clock < set.window + Away
  BY DEF NotScanned
<1> HIDE DEF e
<1>4. CASE phase = "window" /\ clock = 0 /\ seen < set.window /\ phase' = "sleep" /\ clock' = SleepTicks
  <2>1. e < set.window
    BY <1>1, <1>3, <1>4
  <2>2. e + clock' < set.window + set.interval
    BY <1>1, <1>4, <2>1
  <2>3. QED
    BY <1>1, <1>4, <2>2 DEF NotScanned
<1>5. CASE phase = "sleep" /\ clock = 0 /\ phase' = "restart" /\ clock' \in 0 .. set.restart
  <2>1. e + clock' < set.window + Away
    BY <1>1, <1>3, <1>5
  <2>2. QED
    BY <1>1, <1>2, <1>5, <2>1 DEF NotScanned
<1>6. CASE phase = "restart" /\ clock = 0 /\ phase' = "window" /\ clock' = set.window /\ seen' = 0
  <2>1. seen' + clock' = set.window /\ e + clock' < set.window + Away + set.window
    BY <1>1, <1>3, <1>6
  <2>2. QED
    BY <1>1, <1>2, <1>6, <2>1 DEF NotScanned
<1>7. phase # "awake"
  BY DeviceMoves
<1>8. QED
  BY <1>4, <1>5, <1>6, <1>7, DeviceMoves

\* So it does without having heard a frame.
LEMMA DeafGoesOn ==
    ASSUME ScriptInv, DeviceInv, Device, NotHeard, ~found', Elapsed' = Elapsed, NextIn' = NextIn,
           phase = "awake" => found, NextIn <= Period, Period < set.window
    PROVE  NotHeard'
<1> DEFINE e == Elapsed
           n == NextIn
<1>1. /\ set' = set /\ Away = set.restart + SleepTicks /\ SleepTicks \in Nat
      /\ e \in Int /\ n \in Nat /\ clock \in Nat /\ set.window \in Nat /\ Period \in Nat
      /\ set.restart \in Nat /\ Elapsed' = e /\ NextIn' = n /\ n <= Period /\ Period < set.window
  BY DeviceMoves, NumbersAre, TimesAre
<1>2. Away' = Away /\ SleepTicks' = SleepTicks /\ Period' = Period
  BY <1>1, SettingStays
<1>3. /\ phase = "window" => (n < clock /\ e + n <= Away + Period) \/ (clock = 0 /\ e = 0)
      /\ phase = "sleep" => e + clock <= SleepTicks
      /\ phase = "restart" => e + clock <= Away
  BY DEF NotHeard
<1> HIDE DEF e, n
<1>4. CASE phase = "window" /\ clock = 0 /\ phase' = "sleep" /\ clock' = SleepTicks
  <2>1. e + clock' <= SleepTicks
    BY <1>1, <1>3, <1>4
  <2>2. QED
    BY <1>1, <1>2, <1>4, <2>1 DEF NotHeard
<1>5. CASE phase = "sleep" /\ clock = 0 /\ phase' = "restart" /\ clock' \in 0 .. set.restart
  <2>1. e + clock' <= Away
    BY <1>1, <1>3, <1>5
  <2>2. QED
    BY <1>1, <1>2, <1>5, <2>1 DEF NotHeard
<1>6. CASE phase = "restart" /\ clock = 0 /\ phase' = "window" /\ clock' = set.window
  <2>1. n < clock' /\ e + n <= Away + Period
    BY <1>1, <1>3, <1>6
  <2>2. QED
    BY <1>1, <1>2, <1>6, <2>1 DEF NotHeard
<1>7. phase # "awake"
  BY DeviceMoves
<1>8. QED
  BY <1>4, <1>5, <1>6, <1>7, DeviceMoves

\* A tick of a countdown, or of the pause after a frame, is a tick more of the search.
LEMMA TickTimes ==
    ASSUME ScriptInv, Tick
    PROVE  /\ pc = "wait" \/ pc = "pause" => Elapsed' = Elapsed + 1
           /\ pc = "pause" \/ (pc = "wait" /\ adapter = "advertising") => NextIn' = NextIn - 1
<1>1. /\ set' = set /\ pc' = pc /\ set.duration \in Nat /\ left \in Nat /\ gap \in Nat
      /\ set.count * set.every \in Nat /\ left * set.every \in Nat
  BY Ticking, NumbersAre, OneMore
<1>2. /\ left' = IF pc = "wait" THEN left - 1 ELSE left
      /\ gap' = IF pc = "pause" \/ adapter = "advertising" THEN gap - 1 ELSE gap
  BY Ticking
<1>3. CASE pc = "wait"
  <2>1. Elapsed = set.duration - left /\ Elapsed' = set.duration - left'
    BY <1>1, <1>3 DEF Elapsed
  <2>2. Elapsed' = Elapsed + 1
    BY <1>1, <1>2, <1>3, <2>1
  <2>3. NextIn = gap /\ NextIn' = gap'
    BY <1>1, <1>3 DEF NextIn
  <2>4. QED
    BY <1>2, <1>3, <2>2, <2>3
<1>4. CASE pc = "pause"
  <2> DEFINE c == set.count * set.every
             l == left * set.every
  <2>1. NextIn = gap /\ NextIn' = gap' /\ gap' = gap - 1
    BY <1>1, <1>2, <1>4 DEF NextIn
  <2>2. Elapsed = c - l - NextIn /\ left' = left
    BY <1>2, <1>4 DEF Elapsed
  <2>3. Elapsed' = c - l - NextIn'
    BY <1>1, <1>4, <2>2 DEF Elapsed
  <2>4. c \in Nat /\ l \in Nat
    BY <1>1
  <2> HIDE DEF c, l
  <2>5. Elapsed' = Elapsed + 1
    BY <1>1, <2>1, <2>2, <2>3, <2>4
  <2>6. QED
    BY <1>4, <2>1, <2>5
<1>5. QED
  BY <1>3, <1>4

\* While the hotspot is up a tick of the window sees it.
LEMMA ScanTicks ==
    ASSUME ScriptInv, Tick, NotScanned, Elapsed' = Elapsed + 1, hotspot = "up",
           set.strategy = "listen", phase # "awake"
    PROVE  NotScanned'
<1> DEFINE e == Elapsed
<1>1. /\ set' = set /\ phase' = phase /\ e \in Int /\ clock \in Nat /\ seen \in Nat
      /\ set.window \in Nat /\ set.interval \in Nat /\ Away \in Nat /\ Elapsed' = e + 1
      /\ clock' = clock - 1 /\ (phase = "window" => seen' = seen + 1)
  BY Ticking, NumbersAre, TimesAre
<1>2. Away' = Away
  BY <1>1, SettingStays
<1>3. /\ phase = "window" =>
           \/ e + clock < set.window
           \/ seen + clock = set.window /\ e + clock < set.window + Away + set.window
      /\ phase = "sleep" => e + clock < set.window + set.interval
      /\ phase = "restart" => e + clock < set.window + Away
  BY DEF NotScanned
<1> HIDE DEF e
<1>4. (e + 1) + clock' = e + clock /\ (phase = "window" => seen' + clock' = seen + clock)
  BY <1>1
<1>5. QED
  BY <1>1, <1>2, <1>3, <1>4 DEF NotScanned

\* The next frame comes nearer as the window runs out.
LEMMA DeafTicks ==
    ASSUME ScriptInv, Tick, NotHeard, Elapsed' = Elapsed + 1, NextIn' = NextIn - 1,
           set.strategy # "dtim", phase # "awake"
    PROVE  NotHeard'
<1> DEFINE e == Elapsed
           n == NextIn
<1>1. /\ set' = set /\ phase' = phase /\ e \in Int /\ n \in Nat /\ clock \in Nat /\ clock # 0
      /\ SleepTicks \in Nat /\ Away \in Nat /\ Period \in Nat
      /\ Elapsed' = e + 1 /\ NextIn' = n - 1 /\ clock' = clock - 1
  BY Ticking, NumbersAre, TimesAre
<1>2. Away' = Away /\ SleepTicks' = SleepTicks /\ Period' = Period
  BY <1>1, SettingStays
<1>3. /\ phase = "window" => (n < clock /\ e + n <= Away + Period) \/ (clock = 0 /\ e = 0)
      /\ phase = "sleep" => e + clock <= SleepTicks
      /\ phase = "restart" => e + clock <= Away
  BY DEF NotHeard
<1> HIDE DEF e, n
<1>4. phase = "window" => n - 1 < clock' /\ (e + 1) + (n - 1) <= Away + Period
  BY <1>1, <1>3
<1>5. (e + 1) + clock' = e + clock
  BY <1>1
<1>6. QED
  BY <1>1, <1>2, <1>3, <1>4, <1>5 DEF NotHeard

\* What was not heard in its window leaves the device where it was.
LEMMA Unheard ==
    ASSUME ScriptInv, NotHeard, Hear, ~found', set' = set, Elapsed' = Elapsed
    PROVE  NotHeard'
<1>1. ~(phase = "window" /\ clock > 0) /\ UNCHANGED <<phase, clock, seen, found>>
  BY Hearing
<1>2. clock \in Nat /\ NextIn \in Nat
  BY NumbersAre, TimesAre
<1>3. Away' = Away /\ SleepTicks' = SleepTicks /\ Period' = Period
  BY SettingStays
<1>4. phase = "window" => clock = 0 /\ Elapsed = 0
  BY <1>1, <1>2 DEF NotHeard
<1>5. QED
  BY <1>1, <1>3, <1>4 DEF NotHeard

\* The search stays as it is when neither its times nor the device change.
LEMMA SameSearch ==
    ASSUME set' = set, UNCHANGED <<phase, clock, seen>>, Elapsed' = Elapsed, NextIn' = NextIn
    PROVE  (NotScanned => NotScanned') /\ (NotHeard => NotHeard')
<1>1. Away' = Away /\ SleepTicks' = SleepTicks /\ Period' = Period
  BY SettingStays
<1>2. NotScanned => NotScanned'
  BY <1>1 DEF NotScanned
<1>3. NotHeard => NotHeard'
  BY <1>1 DEF NotHeard
<1>4. QED
  BY <1>2, <1>3

\* The last command switches the trigger on, and the search begins; no other command
\* is a part of it.
LEMMA CommandSearches ==
    ASSUME ScriptInv, DeviceInv, ScriptInv', Command, clean', ~found'
    PROVE  /\ pc' = "wait" /\ set'.strategy = "listen" => NotScanned'
           /\ Frames' /\ Lasting' => NotHeard'
           /\ set'.strategy = "dtim" => left' = set'.count
<1>1. /\ UNCHANGED <<set, phase, clock, seen, clean>> /\ gap' = 0
      /\ pc' = "wait" => left' = set.duration
  BY CommandCounts
<1>2. pc' \notin {"send", "pause"} /\ set.strategy # "dtim"
  BY CommandLeaves DEF ScriptInv, OwnCommands
<1>3. pc' = "wait" => Elapsed' = 0 /\ NextIn' = 0
  <2>1. SUFFICES ASSUME pc' = "wait" PROVE Elapsed' = 0 /\ NextIn' = 0
    OBVIOUS
  <2>2. Elapsed' = set.duration - set.duration
    BY <1>1, <2>1 DEF Elapsed
  <2>3. QED
    BY <1>1, <2>1, <2>2, NumbersAre DEF NextIn
<1>4. pc' = "wait" /\ set'.strategy = "listen" => NotScanned'
  BY <1>1, <1>3, ScanBegins
<1>5. Frames' /\ Lasting' => NotHeard'
  <2>1. Frames' => pc' = "wait"
    BY <1>2 DEF Frames
  <2>2. pc' = "wait" => NotHeard'
    BY <1>1, <1>3, FramesBegin
  <2>3. QED
    BY <2>1, <2>2
<1>6. QED
  BY <1>1, <1>2, <1>4, <1>5

\* A frame that is sent is either heard, or the search goes on after it.
LEMMA SendSearches ==
    ASSUME ScriptInv, DeviceInv, Search, Send, clean', ~found'
    PROVE  /\ pc' # "wait"
           /\ Frames' /\ Lasting' => NotHeard'
           /\ set.strategy # "dtim"
<1>1. /\ pc = "send" /\ left > 0 /\ left' = left - 1 /\ Hear /\ gap' = set.every
      /\ UNCHANGED <<set, clean>>
      /\ pc' = IF set.strategy = "dtim" /\ left' = 0 THEN "none" ELSE "pause"
  BY DEF Send
<1>2. ~(phase = "window" /\ clock > 0) /\ found' = found /\ phase' = phase
  BY <1>1, Hearing
<1>3. set.strategy # "dtim"
  BY <1>2 DEF DeviceInv, DevicePhase
<1>4. pc' = "pause"
  BY <1>1, <1>3
<1>5. Elapsed' = Elapsed
  <2> DEFINE c == set.count * set.every
             m == (left - 1) * set.every
  <2>1. left - 1 \in Nat /\ left = (left - 1) + 1 /\ set.every \in Nat /\ set.count \in Nat
    BY <1>1, NumbersAre
  <2>2. left * set.every = m + set.every /\ m \in Nat
    BY <2>1, OneMore
  <2>3. c \in Nat
    BY <2>1, OneMore
  <2>4. Elapsed = c - left * set.every - 0
    BY <1>1 DEF Elapsed, NextIn
  <2>5. Elapsed' = c - m - set.every
    BY <1>1, <1>4 DEF Elapsed, NextIn
  <2> HIDE DEF c, m
  <2>6. QED
    BY <2>1, <2>2, <2>3, <2>4, <2>5
<1>6. Frames' /\ Lasting' => NotHeard
  <2>1. Lasting' <=> Lasting
    BY <1>1, SettingStays
  <2>2. Frames' => Frames
    BY <1>1, <1>4 DEF Frames
  <2>3. clean /\ ~found
    BY <1>1, <1>2
  <2>4. QED
    BY <2>1, <2>2, <2>3 DEF Search
<1>7. NotHeard => NotHeard'
  BY <1>1, <1>5, Unheard
<1>8. QED
  BY <1>3, <1>4, <1>6, <1>7

\* An advertisement is either heard, or the search goes on after it.
LEMMA AdvertiseSearches ==
    ASSUME ScriptInv, Search, Advertise, clean', ~found'
    PROVE  /\ pc' = pc /\ left' = left /\ set' = set /\ set.strategy = "ble"
           /\ Frames' /\ Lasting' => NotHeard'
<1>1. Hear /\ UNCHANGED <<set, pc, left, clean>> /\ adapter = "advertising"
  BY DEF Advertise, script
<1>2. set.strategy = "ble"
  BY <1>1 DEF ScriptInv, OwnCommands
<1>3. found' = found
  BY <1>1, Hearing
<1>4. ASSUME Frames', Lasting'
      PROVE  NotHeard'
  <2>1. pc = "wait" /\ Frames /\ Lasting
    BY <1>1, <1>2, <1>4, SettingStays DEF Frames
  <2>2. NotHeard
    BY <1>1, <1>3, <2>1 DEF Search
  <2>3. Elapsed' = Elapsed
    BY <1>1, <2>1 DEF Elapsed
  <2>4. QED
    BY <1>1, <2>2, <2>3, Unheard
<1>5. QED
  BY <1>1, <1>2, <1>4

\* The device moves on through its loop, and the search with it.
LEMMA DeviceSearches ==
    ASSUME ScriptInv, DeviceInv, Search, Device, clean', ~found'
    PROVE  Search'
<1>1. UNCHANGED <<set, pc, left, clean, hotspot, adapter, gap>>
  BY DeviceMoves
<1>2. clean /\ ~found /\ (phase = "awake" => found)
  <2>1. found' = TRUE \/ found' = found
    BY DeviceMoves
  <2>2. QED
    BY <1>1, <2>1 DEF DeviceInv, DevicePhase
<1>3. Elapsed' = Elapsed /\ NextIn' = NextIn
  BY <1>1 DEF Elapsed, NextIn
<1>4. pc' = "wait" /\ set'.strategy = "listen" => NotScanned'
  <2>1. pc = "wait" /\ set.strategy = "listen" => NotScanned
    BY <1>2 DEF Search
  <2>2. QED
    BY <1>1, <1>2, <1>3, <2>1, ScanGoesOn
<1>5. ASSUME Frames', Lasting'
      PROVE  NotHeard'
  <2>1. Frames /\ Lasting
    BY <1>1, <1>5, SettingStays DEF Frames
  <2>2. NotHeard
    BY <1>2, <2>1 DEF Search
  <2>3. set.strategy \in {"ble", "espnow"} /\ set \in Settings
    BY <2>1, NumbersAre DEF Frames
  <2>4. Period < set.window
    BY <2>1, <2>3, LastingIs
  <2>5. NextIn <= Period
    <3>1. CASE set.strategy = "ble"
      <4>1. gap <= set.every + set.jitter /\ pc = "wait"
        BY <2>1, <3>1 DEF ScriptInv, Numbers, Frames
      <4>2. QED
        BY <3>1, <4>1 DEF NextIn, Period
    <3>2. CASE set.strategy = "espnow"
      <4>1. pc = "send" \/ (pc = "pause" /\ gap <= set.every)
        BY <2>1, <3>2 DEF Frames, DeviceInv, Remaining
      <4>2. QED
        BY <3>2, <4>1, NumbersAre DEF NextIn, Period
    <3>3. QED
      BY <2>3, <3>1, <3>2
  <2>6. QED
    BY <1>2, <1>3, <2>2, <2>4, <2>5, DeafGoesOn
<1>6. set'.strategy = "dtim" => left' = set'.count
  BY <1>1, <1>2 DEF Search
<1>7. QED
  BY <1>4, <1>5, <1>6 DEF Search

\* Time passes for the script and for the device alike.
LEMMA TickSearches ==
    ASSUME ScriptInv, DeviceInv, Search, Tick, clean', ~found'
    PROVE  Search'
<1>1. UNCHANGED <<set, pc, clean, hotspot, adapter, phase, found>> /\ pc # "send"
  BY Ticking
<1>2. clean /\ ~found /\ phase # "awake"
  BY <1>1 DEF DeviceInv, DevicePhase
<1>3. ASSUME pc' = "wait", set'.strategy = "listen"
      PROVE  NotScanned'
  <2>1. NotScanned /\ hotspot = "up"
    BY <1>1, <1>2, <1>3 DEF Search, ScriptInv, OnAir
  <2>2. QED
    BY <1>1, <1>2, <1>3, <2>1, TickTimes, ScanTicks
<1>4. ASSUME Frames', Lasting'
      PROVE  NotHeard'
  <2>1. Frames /\ Lasting
    BY <1>1, <1>4, SettingStays DEF Frames
  <2>2. NotHeard /\ set.strategy # "dtim"
    BY <1>2, <2>1 DEF Search, Frames
  <2>3. pc = "pause" \/ (pc = "wait" /\ adapter = "advertising")
    BY <1>1, <1>2, <2>1 DEF Frames, ScriptInv, OnAir
  <2>4. QED
    BY <1>2, <2>2, <2>3, TickTimes, DeafTicks
<1>5. set'.strategy = "dtim" => left' = set'.count
  <2>1. set.strategy = "dtim" => pc # "wait"
    BY DEF ScriptInv, OwnCommands
  <2>2. pc # "wait" => left' = left
    BY Ticking
  <2>3. QED
    BY <1>1, <1>2, <2>1, <2>2 DEF Search
<1>6. QED
  BY <1>3, <1>4, <1>5 DEF Search

\* A search that has not found the device goes on as the loop of the device allows.
LEMMA SearchKeeps == ASSUME ScriptInv, DeviceInv, Search, [Next]_vars PROVE Search'
<1> SUFFICES ASSUME clean', ~found' PROVE Search'
  BY DEF Search
<1>1. set' = set /\ set \in Settings /\ (Lasting' <=> Lasting) /\ ScriptInv'
  BY SetStays, SettingStays, ScriptKeeps DEF ScriptInv, Places
<1>2. CASE Start
  <2>1. /\ UNCHANGED <<set, hotspot, adapter, gap, phase, clock, seen>> /\ left' = set.count
        /\ pc' \in {"delete", "down", "send"}
    BY <1>1, <1>2, Starting
  <2>2. pc' = "send" => Elapsed' = 0 /\ NextIn' = 0
    <3>1. pc' = "send" => Elapsed' = set.count * set.every - set.count * set.every - 0 /\ NextIn' = 0
      BY <2>1 DEF Elapsed, NextIn
    <3>2. set.count * set.every \in Nat
      BY NumbersAre, OneMore
    <3>3. QED
      BY <3>1, <3>2
  <2>3. pc' = "send" => NotHeard'
    BY <2>1, <2>2, FramesBegin
  <2>4. QED
    BY <2>1, <2>3 DEF Search, Frames
<1>3. CASE Command
  BY <1>3, <1>1, CommandSearches DEF Search
<1>4. CASE CommandFails
  <2>1. clean \in BOOLEAN
    BY DEF ScriptInv, Flags
  <2>2. pc \in {"delete", "add", "start"} /\ pc' \in {"add", "none", "remove"}
    BY <1>4, <2>1, FailureLeaves
  <2>3. set.strategy = "listen"
    BY <2>2 DEF ScriptInv, OwnCommands
  <2>4. QED
    BY <1>1, <2>2, <2>3 DEF Search, Frames
<1>5. CASE EndWait
  <2>1. pc = "wait" /\ pc' \in {"stop", "disable"}
    BY <1>5 DEF EndWait, Cleanup
  <2>2. set.strategy # "dtim"
    BY <2>1 DEF ScriptInv, OwnCommands
  <2>3. QED
    BY <1>1, <2>1, <2>2 DEF Search, Frames
<1>6. CASE Cut
  BY <1>6 DEF Cut
<1>7. CASE Send
  BY <1>1, <1>7, SendSearches DEF Search
<1>8. CASE PauseEnds
  <2>1. /\ pc = "pause" /\ gap = 0 /\ pc' \in {"send", "none"}
        /\ UNCHANGED <<set, left, clean, gap, phase, clock, seen, found>>
    BY <1>8 DEF PauseEnds, air, device
  <2>2. Frames' => Frames /\ pc' = "send"
    BY <2>1 DEF Frames
  <2>3. pc' = "send" => Elapsed' = Elapsed /\ NextIn' = NextIn
    BY <2>1 DEF Elapsed, NextIn
  <2>4. Frames' /\ Lasting' => NotHeard'
    BY <1>1, <2>1, <2>2, <2>3, SameSearch DEF Search
  <2>5. QED
    BY <2>1, <2>4 DEF Search
<1>9. CASE Advertise
  <2>1. /\ pc' = pc /\ set' = set /\ set.strategy = "ble"
        /\ Frames' /\ Lasting' => NotHeard'
    BY <1>9, AdvertiseSearches
  <2>2. QED
    BY <2>1 DEF Search
<1>10. CASE Device
  BY <1>10, DeviceSearches
<1>11. CASE Tick
  BY <1>11, TickSearches
<1>12. CASE UNCHANGED vars
  <2>1. UNCHANGED <<set, pc, left, clean, found, gap, phase, clock, seen>>
    BY <1>12 DEF vars, script, air, device
  <2>2. Elapsed' = Elapsed /\ NextIn' = NextIn /\ (Frames' <=> Frames)
    BY <2>1 DEF Elapsed, NextIn, Frames
  <2>3. QED
    BY <1>1, <2>1, <2>2, SameSearch DEF Search
<1>13. QED
  BY <1>2, <1>3, <1>4, <1>5, <1>6, <1>7, <1>8, <1>9, <1>10, <1>11, <1>12 DEF Next

-----------------------------------------------------------------------------
(* A trigger that lasts long enough.                                       *)

\* A search that has taken longer than the device can have been away has found it.
LEMMA NotHeardForLong ==
    ASSUME ScriptInv, DeviceInv, NotHeard, Elapsed > Away + Period
    PROVE  found
<1>1. /\ Elapsed \in Int /\ NextIn \in Nat /\ Period \in Nat /\ Away \in Nat
      /\ clock \in Nat /\ SleepTicks \in Nat /\ SleepTicks <= Away
  <2>1. Elapsed \in Int /\ NextIn \in Nat /\ Period \in Nat /\ Away \in Nat
    BY TimesAre
  <2>2. clock \in Nat /\ SleepTicks \in Nat /\ Away = set.restart + SleepTicks /\ set.restart \in Nat
    BY NumbersAre
  <2>3. QED
    BY <2>1, <2>2
<1> DEFINE e == Elapsed
           n == NextIn
<1>2. /\ phase = "window" => (n < clock /\ e + n <= Away + Period) \/ (clock = 0 /\ e = 0)
      /\ phase = "sleep" => e + clock <= SleepTicks
      /\ phase = "restart" => e + clock <= Away
  BY DEF NotHeard
<1>3. e > Away + Period /\ e \in Int /\ n \in Nat
  BY <1>1
<1> HIDE DEF e, n
<1>4. phase \notin {"window", "sleep", "restart"}
  BY <1>1, <1>2, <1>3
<1>5. QED
  BY <1>4 DEF ScriptInv, Places, DeviceInv, DevicePhase

\* A countdown that lasts long enough and has run out has found the device.
LEMMA WaitFinds ==
    ASSUME ScriptInv, DeviceInv, Search, Lasting, clean, pc = "wait", left = 0
    PROVE  found
<1> SUFFICES ASSUME ~found PROVE FALSE
  OBVIOUS
<1>1. Elapsed = set.duration
  <2>1. Elapsed = set.duration - 0
    BY DEF Elapsed
  <2>2. QED
    BY <2>1, NumbersAre
<1>2. CASE set.strategy = "listen"
  <2>1. set.duration >= set.window + Away + set.window
    BY <1>2 DEF Lasting
  <2>2. NotScanned
    BY <1>2 DEF Search
  <2>3. /\ set.duration \in Nat /\ set.window \in Nat /\ set.interval \in Nat /\ set.restart \in Nat
        /\ Away = set.restart + set.interval /\ clock \in Nat
    BY <1>2, NumbersAre
  <2>4. phase # "window"
    BY <1>1, <2>1, <2>2, <2>3 DEF NotScanned
  <2>5. phase # "sleep"
    BY <1>1, <2>1, <2>2, <2>3 DEF NotScanned
  <2>6. phase # "restart"
    BY <1>1, <2>1, <2>2, <2>3 DEF NotScanned
  <2>7. phase # "awake"
    BY DEF DeviceInv, DevicePhase
  <2>8. QED
    BY <2>4, <2>5, <2>6, <2>7 DEF ScriptInv, Places
<1>3. CASE set.strategy = "ble"
  <2>1. Total > Away + Period /\ Total = set.duration
    BY <1>3, NumbersAre, LastingIs DEF Total
  <2>2. NotHeard
    BY <1>3 DEF Search, Frames
  <2>3. QED
    BY <1>1, <2>1, <2>2, NotHeardForLong
<1>4. QED
  BY <1>2, <1>3 DEF ScriptInv, OwnCommands

\* So has the pause after the last frame.
LEMMA FramesFind ==
    ASSUME ScriptInv, DeviceInv, Search, Lasting, clean, set.strategy = "espnow",
           pc = "pause", left = 0, gap = 0
    PROVE  found
<1> SUFFICES ASSUME ~found PROVE FALSE
  OBVIOUS
<1>1. NotHeard
  BY DEF Search, Frames
<1>2. Total > Away + Period
  BY NumbersAre, LastingIs
<1>3. Elapsed = Total
  <2>1. Elapsed = set.count * set.every - 0 * set.every - 0
    BY DEF Elapsed, NextIn
  <2>2. set.count * set.every \in Nat /\ set.every \in Nat /\ Total = set.count * set.every
    BY NumbersAre, OneMore DEF Total
  <2>3. QED
    BY <2>1, <2>2
<1>4. QED
  BY <1>1, <1>2, <1>3, NotHeardForLong

\* No script is over before its trigger has found the device, if it lasts long enough.
LEMMA FoundKeeps ==
    ASSUME ScriptInv, DeviceInv, Search, TriggerFound, [Next]_vars
    PROVE  TriggerFound'
<1> SUFFICES ASSUME Over', Lasting', ~found' PROVE FALSE
  BY DEF TriggerFound
<1>1. set' = set /\ Lasting
  BY SetStays, SettingStays
<1>2. clean' /\ left' = 0 /\ pc' \in {"stop", "remove", "disable", "none"}
  BY DEF Over
<1>3. set.strategy # "dtim"
  <2>1. Search'
    BY SearchKeeps
  <2>2. set.strategy = "dtim" => left' = set.count
    BY <1>1, <1>2, <2>1 DEF Search
  <2>3. QED
    BY <1>2, <2>2, NumbersAre
<1>4. ~(Over /\ ~found)
  BY <1>1 DEF TriggerFound
<1>5. CASE Start
  BY <1>2, <1>5, Starting, NumbersAre
<1>6. CASE Command
  <2>1. pc \in {"stop", "remove", "disable"}
    BY <1>2, <1>6, CommandLeaves
  <2>2. left' = left /\ clean' = clean /\ found' = found
    BY <1>2, <1>6, CommandCounts
  <2>3. QED
    BY <1>2, <1>4, <2>1, <2>2 DEF Over
<1>7. CASE CommandFails
  <2>1. clean \in BOOLEAN
    BY DEF ScriptInv, Flags
  <2>2. pc \in {"delete", "add", "start"} /\ left' = left
    BY <1>2, <1>7, <2>1, FailureLeaves
  <2>3. left = set.count
    BY <2>2 DEF DeviceInv, Remaining
  <2>4. QED
    BY <1>2, <2>2, <2>3, NumbersAre
<1>8. CASE EndWait
  <2>1. pc = "wait" /\ UNCHANGED <<left, clean, found>>
    BY <1>8 DEF EndWait
  <2>2. QED
    BY <1>1, <1>2, <2>1, WaitFinds
<1>9. CASE Cut
  BY <1>2, <1>9 DEF Cut
<1>10. CASE Send
  BY <1>2, <1>3, <1>10 DEF Send
<1>11. CASE PauseEnds
  <2>1. pc = "pause" /\ gap = 0 /\ UNCHANGED <<left, clean, found>>
    BY <1>11 DEF PauseEnds
  <2>2. set.strategy = "espnow"
    BY <1>3, <2>1 DEF ScriptInv, OwnCommands
  <2>3. QED
    BY <1>1, <1>2, <2>1, <2>2, FramesFind
<1>12. CASE Advertise \/ Device \/ Tick \/ UNCHANGED vars
  <2>1. pc' = pc /\ clean' = clean
    BY <1>12, DeviceMoves, Ticking DEF Advertise, vars, script
  <2>2. left' = left
    BY <1>2, <1>12, <2>1, DeviceMoves, Ticking DEF Advertise, vars, script
  <2>3. found' = found
    <3>1. CASE Advertise
      BY <3>1, Hearing DEF Advertise
    <3>2. CASE Device
      <4>1. found' = TRUE \/ found' = found
        BY <3>2, DeviceMoves
      <4>2. QED
        BY <4>1
    <3>3. CASE Tick \/ UNCHANGED vars
      BY <3>3, Ticking DEF vars
    <3>4. QED
      BY <1>12, <3>1, <3>2, <3>3
  <2>4. QED
    BY <1>2, <1>4, <2>1, <2>2, <2>3 DEF Over
<1>13. QED
  BY <1>5, <1>6, <1>7, <1>8, <1>9, <1>10, <1>11, <1>12 DEF Next

-----------------------------------------------------------------------------
(* The theorems.                                                           *)

\* Every step of the script, of the air and of the device keeps the invariant.
LEMMA StepOK == TriggerInv /\ [Next]_vars => TriggerInv'
  BY ScriptKeeps, DeviceKeeps, RemainingKeeps, SearchKeeps, FoundKeeps DEF TriggerInv, DeviceInv

\* The invariant holds in every state.
LEMMA InvHolds == Spec => []TriggerInv
  BY InitOK, StepOK, PTL DEF Spec

\* What the script, the air and the device hold has its type.
LEMMA TypesHold == ASSUME ScriptInv PROVE TypeOK
<1>1. set \in Settings /\ seen \in 0 .. set.window /\ gap \in 0 .. set.every + set.jitter
  BY NumbersAre DEF ScriptInv, Numbers
<1>2. QED
  BY <1>1 DEF TypeOK, ScriptInv, Numbers, Places, Flags

\* The scripts of rpi/ that have ended without a failure have left nothing on the air,
\* whatever the runs before them left there: the countdown ends in the commands that take
\* the hotspot or the advertisement down, and a script that fails on the way takes down
\* what it has brought up.
THEOREM NothingLeftOnAir == Spec => []Consistent
<1>1. TriggerInv => Consistent
  BY TypesHold DEF TriggerInv, ScriptInv, OnAir, QuietAfterwards, Consistent
<1>2. QED
  BY <1>1, InvHolds, PTL

\* For every window, interval, duration and period: a trigger of rpi/ that lasts as long
\* as the loop of the wake strategy in main/ can be away, and some more, has woken the
\* device when the script is over, wherever in its loop the device was.
THEOREM TriggersFound == Spec => []TriggerFound
<1>1. TriggerInv => TriggerFound
  BY DEF TriggerInv
<1>2. QED
  BY <1>1, InvHolds, PTL
=============================================================================
