---------------------------- MODULE TriggerScripts ----------------------------
(***************************************************************************)
(* The trigger scripts under rpi/ and the device that they wake:           *)
(* trigger_listen.py (a hotspot with the magic SSID), trigger_ble.py (an   *)
(* advertisement), trigger_espnow.py (frames) and trigger_dtim.py          *)
(* (datagrams), against the loop of the wake strategy in main/, which      *)
(* listens for a window, sleeps and restarts its radio.                    *)
(*                                                                         *)
(* Time is counted in ticks.  The hotspot and the advertisement outlive    *)
(* the script when nothing takes them down.  A script can be interrupted   *)
(* or killed between any two of its commands, and commands can fail.       *)
(***************************************************************************)
EXTENDS Integers

CONSTANT Settings       \* the settings of scripts and firmware that are considered

Strategies == {"listen", "ble", "espnow", "dtim"}

\* window, interval: CONFIG_LISTEN_* or CONFIG_BLE_SCAN_*; restart: the longest time that
\* the radio takes to listen again; duration, count, every: the options of the scripts;
\* jitter: what the controller adds to the interval between advertisements at most.
Setting ==
    [strategy : Strategies, window : Nat \ {0}, interval : Nat \ {0}, restart : Nat,
     duration : Nat \ {0}, count : Nat \ {0}, every : Nat \ {0}, jitter : Nat]

ASSUME SettingsAssumption == Settings \subseteq Setting

VARIABLES
    set,            \* the settings, one of Settings
    pc, left,       \* the script: where it is; seconds or frames that are left
    hotspot,        \* the connection wor-trigger of NetworkManager: "absent", "down", "up"
    adapter,        \* the Bluetooth adapter: "down", "up", "named", "advertising"
    gap,            \* ticks until the next frame or advertisement
    phase, clock,   \* the device: "window", "sleep", "restart", "awake"; ticks left
    seen,           \* the ticks of the window in which the hotspot was up
    \* History variables:
    clean,          \* no command of the run has failed, and it was not cut off
    found           \* the device has been awake since the trigger was switched on

script == <<pc, left, clean>>
air == <<hotspot, adapter, gap>>
device == <<phase, clock, seen>>
vars == <<set, script, air, device, found>>

Init ==
    /\ set \in Settings
    /\ pc = "none" /\ left = 0 /\ hotspot = "absent" /\ adapter = "up" /\ gap = 0
    /\ phase = "window" /\ clock \in 1 .. set.window /\ seen = 0
    /\ clean = FALSE /\ found = FALSE

-----------------------------------------------------------------------------
(* The commands of trigger_listen.py and trigger_ble.py.  Whether they have *)
(* worked is looked at for the connection only.                            *)

First == [listen |-> "delete", ble |-> "down", espnow |-> "send", dtim |-> "send"]

After ==
    [delete |-> "add", add |-> "start", start |-> "wait", stop |-> "remove", remove |-> "none",
     down |-> "up", up |-> "name", name |-> "enable", enable |-> "wait", disable |-> "none"]

\* what a command leaves, and what it needs; a connection that could not be deleted does
\* not keep one of the same name from being added
HotspotSet ==
    [delete |-> "absent", add |-> IF hotspot = "up" THEN "up" ELSE "down", start |-> "up",
     stop |-> "down", remove |-> "absent"]
AdapterWas == [up |-> "down", name |-> "up", enable |-> "named", disable |-> "advertising"]
AdapterSet ==
    [down |-> "down", up |-> "up", name |-> "named", enable |-> "advertising",
     disable |-> "named"]

Start ==
    /\ pc = "none" /\ pc' = First[set.strategy]
    /\ left' = set.count /\ clean' = TRUE
    /\ found' = (phase = "awake")
    /\ UNCHANGED <<set, air, device>>

Command ==
    /\ pc \in DOMAIN After /\ pc' = After[pc]
    /\ pc \in DOMAIN AdapterWas => adapter = AdapterWas[pc]
    /\ hotspot' = IF pc \in DOMAIN HotspotSet THEN HotspotSet[pc] ELSE hotspot
    /\ adapter' = IF pc \in DOMAIN AdapterSet THEN AdapterSet[pc] ELSE adapter
    /\ left' = IF pc' = "wait" THEN set.duration ELSE left
    /\ found' = IF pc' = "wait" THEN phase = "awake" ELSE found
    /\ gap' = 0
    /\ UNCHANGED <<set, device, clean>>

\* The script ends when it cannot add the connection, and removes it when it cannot bring
\* it up; it does not look at any other result.  There may be nothing to delete at first.
CommandFails ==
    /\ pc \in DOMAIN After
    /\ pc' = CASE pc = "add" -> "none" [] pc = "start" -> "remove" [] OTHER -> After[pc]
    /\ left' = IF pc' = "wait" THEN set.duration ELSE left
    /\ clean' = (clean /\ (pc \in {"add", "start"} \/ (pc = "delete" /\ hotspot = "absent")))
    /\ UNCHANGED <<set, air, device, found>>

\* broken: the advertisement is left to itself
CleanupConnection == IF set.strategy = "listen" THEN "stop" ELSE "none"

Cleanup == IF set.strategy = "listen" THEN "stop" ELSE "disable"

\* the countdown is over, or Ctrl-C
EndWait ==
    /\ pc = "wait" /\ pc' = Cleanup
    /\ UNCHANGED <<set, left, clean, air, device, found>>

\* Ctrl-C where it is not handled, or a signal
Cut ==
    /\ pc # "none" /\ pc' = "none" /\ clean' = FALSE
    /\ UNCHANGED <<set, left, air, device, found>>

-----------------------------------------------------------------------------
(* trigger_espnow.py, trigger_dtim.py, and the advertising controller.     *)

\* espnow_recv_cb, ble_gap_event_cb, recvfrom(): a frame in the window ends it
Hear ==
    IF phase = "window" /\ clock > 0
    THEN phase' = "awake" /\ found' = TRUE /\ UNCHANGED <<clock, seen>>
    ELSE UNCHANGED <<device, found>>

\* the script sleeps after every frame, but trigger_dtim.py not after the last
Send ==
    /\ pc = "send" /\ left > 0 /\ left' = left - 1
    /\ Hear
    /\ pc' = IF set.strategy = "dtim" /\ left' = 0 THEN "none" ELSE "pause"
    /\ gap' = set.every
    /\ UNCHANGED <<set, clean, hotspot, adapter>>

PauseEnds ==
    /\ pc = "pause" /\ gap = 0
    /\ pc' = IF left > 0 THEN "send" ELSE "none"
    /\ UNCHANGED <<set, left, clean, air, device, found>>

Advertise ==
    /\ adapter = "advertising" /\ gap = 0
    /\ Hear
    /\ gap' \in set.every .. set.every + set.jitter
    /\ UNCHANGED <<set, script, hotspot, adapter>>

-----------------------------------------------------------------------------
(* The device.                                                             *)

\* broken: the window is not taken off the interval
SleepTicksWhole == set.interval

SleepTicks ==
    IF set.strategy # "ble" THEN set.interval
    ELSE IF set.interval > set.window THEN set.interval - set.window ELSE 1

\* A scan is sure to find a hotspot that was up all the time, and may find one that was
\* up for a part of it.
WindowFinds ==
    /\ phase = "window" /\ clock = 0 /\ seen > 0
    /\ phase' = "awake" /\ found' = TRUE
    /\ UNCHANGED <<set, script, air, clock, seen>>

WindowEnds ==
    /\ phase = "window" /\ clock = 0 /\ seen < set.window
    /\ phase' = "sleep" /\ clock' = SleepTicks /\ seen' = 0
    /\ UNCHANGED <<set, script, air, found>>

SleepEnds ==
    /\ phase = "sleep" /\ clock = 0
    /\ phase' = "restart" /\ clock' \in 0 .. set.restart
    /\ UNCHANGED <<set, script, air, seen, found>>

\* esp_wifi_start() or start_ble_scan(); from "awake" after a deep sleep, when the scan
\* begins with the sync of NimBLE, for which the wait of the first window has not waited
FirstWindow == IF set.strategy = "ble" THEN 1 .. set.window ELSE {set.window}

Listen ==
    /\ \/ phase = "restart" /\ clock = 0 /\ clock' = set.window
       \/ phase = "awake" /\ clock' \in FirstWindow
    /\ phase' = "window" /\ seen' = 0
    /\ UNCHANGED <<set, script, air, found>>

\* a second of the countdown cannot be late, nor a frame, nor the end of a phase
Urgent ==
    \/ pc = "send"
    \/ pc = "wait" /\ left = 0
    \/ (pc = "pause" \/ adapter = "advertising") /\ gap = 0
    \/ phase # "awake" /\ clock = 0

\* recvfrom() has no timeout, and the access point keeps what the radio sleeps through
Tick ==
    /\ ~Urgent
    /\ left' = IF pc = "wait" THEN left - 1 ELSE left
    /\ gap' = IF pc = "pause" \/ adapter = "advertising" THEN gap - 1 ELSE gap
    /\ clock' = IF phase = "awake" \/ set.strategy = "dtim" THEN clock ELSE clock - 1
    /\ seen' = IF phase = "window" /\ hotspot = "up" THEN seen + 1 ELSE seen
    /\ UNCHANGED <<set, pc, clean, hotspot, adapter, phase, found>>

Device == WindowFinds \/ WindowEnds \/ SleepEnds \/ Listen

Next ==
    \/ Start \/ Command \/ CommandFails \/ EndWait \/ Cut
    \/ Send \/ PauseEnds \/ Advertise \/ Device \/ Tick

Spec == Init /\ [][Next]_vars

-----------------------------------------------------------------------------
(* Properties.                                                             *)

\* Types of the settings, the script, what is on the air and the device.
TypeOK ==
    /\ set \in Settings
    /\ pc \in DOMAIN After \cup {"none", "wait", "send", "pause"}
    /\ left \in Nat /\ gap \in 0 .. set.every + set.jitter
    /\ left <= set.duration \/ left <= set.count
    /\ hotspot \in {"absent", "down", "up"}
    /\ adapter \in {"down", "up", "named", "advertising"}
    /\ phase \in {"window", "sleep", "restart", "awake"}
    /\ clock \in Nat /\ seen \in 0 .. set.window
    /\ clean \in BOOLEAN /\ found \in BOOLEAN

\* A script that has ended has left nothing on the air, whatever the run before it left
\* there, unless a command failed or it was killed.
QuietAfterwards == pc = "none" /\ clean => hotspot # "up" /\ adapter # "advertising"

\* the longest time between two windows: the interval of the Bluetooth scan is measured
\* from start to start, the others from end to start
Away ==
    set.restart +
        IF set.strategy # "ble" THEN set.interval
        ELSE IF set.interval > set.window + 1 THEN set.interval - set.window ELSE 1

\* A hotspot must be there for a whole window, of which there may be a part left when it
\* comes up; a frame must fall into one, not at the very start or end, so that frames must be less
\* than a window apart.
Lasting ==
    CASE set.strategy = "listen" -> set.duration >= set.window + Away + set.window
      [] set.strategy = "ble" ->
            /\ set.every + set.jitter < set.window
            /\ set.duration > Away + set.every + set.jitter
      [] set.strategy = "espnow" ->
            /\ set.every < set.window
            /\ (set.count - 1) * set.every > Away
      [] OTHER -> TRUE

\* the script has gone through its countdown, or has sent all of its frames
Over == clean /\ left = 0 /\ pc \in {"stop", "remove", "disable", "none"}

\* Wherever in its loop the device is when the trigger comes, and however late the radio
\* restarts, a trigger that lasts long enough has woken it when the script is over.
TriggerFound == Over /\ Lasting => found

\* The types, and nothing left on the air.
Consistent == TypeOK /\ QuietAfterwards
=============================================================================
