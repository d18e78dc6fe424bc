------------------------------ MODULE Firmware ------------------------------
(***************************************************************************)
(* The ESP32 firmware under main/: one boot after the other, each running  *)
(* the configured wake strategy until deep sleep resets the chip.          *)
(*                                                                         *)
(* Three things run concurrently: the main task (app_main and the strategy,*)
(* pc), the Wi-Fi event task (event_handler on the queue events) and the   *)
(* radio, whose link to the access point is external.  What survives a     *)
(* reset is the pad of the wake GPIO: gpio_hold_en() latches its level.    *)
(***************************************************************************)
EXTENDS Integers, Sequences

CONSTANTS
    Strategies,   \* the wake strategies that are built (CONFIG_WAKE_STRATEGY_*)
    MaxRetry,     \* MAX_RETRY
    MaxDrops,     \* bound on the times the access point goes away
    MaxResets     \* bound on the resets that are not deep sleep (panic, watchdog)

ASSUME FirmwareAssumption ==
    /\ Strategies \subseteq {"baseline", "dtim", "listen", "espnow", "ble"}
    /\ MaxRetry \in Nat /\ MaxDrops \in Nat /\ MaxResets \in Nat

VARIABLES
    strategy,                           \* fixed when the firmware is built
    pc, log,                            \* main task; last power_log_state()
    out, held, pin,                     \* wake GPIO: register, hold, level of the pad
    link, events,                       \* radio: link state; undelivered Wi-Fi events
    s_retry_count, s_connected, bits,   \* wifi_connect.c
    trigger,                            \* TRIGGER_BIT, or a datagram in the socket
    ap, drops, resets,                  \* the access point, and the bounds
    \* History variable:
    frozen                              \* a panic has left the line HIGH, and nothing
                                        \* has driven it since

gpio == <<out, held, pin, frozen>>
wifi == <<link, events, s_retry_count, s_connected, bits>>
env == <<ap, drops, resets, strategy>>
firmwareVars == <<pc, log, gpio, wifi, trigger, env>>

Windowed == strategy \in {"listen", "espnow", "ble"}

PowerOn ==
    /\ link = "off" /\ events = <<>>
    /\ s_retry_count = 0 /\ s_connected = FALSE /\ bits = {}
    /\ trigger = FALSE

FirmwareInit ==
    /\ strategy \in Strategies
    /\ pc = "boot" /\ log = "BOOT"
    /\ out = 0 /\ held = FALSE /\ pin = 0 /\ frozen = FALSE
    /\ PowerOn
    /\ ap \in BOOLEAN /\ drops = 0 /\ resets = 0

-----------------------------------------------------------------------------
(* wake_gpio.c.  The pad follows the register unless it is held.           *)

\* gpio_hold_dis(); gpio_set_level(level); gpio_hold_en()
Drive(level) == out' = level /\ held' = TRUE /\ pin' = level /\ frozen' = FALSE

\* wake_gpio_init() does not release a hold that is still on
InitPin ==
    /\ out' = 0 /\ held' = TRUE
    /\ pin' = IF held THEN pin ELSE 0
    /\ UNCHANGED frozen

-----------------------------------------------------------------------------
(* The access point, the radio and the triggers on the air (external).     *)

LinkLost == IF link = "up" THEN "idle" ELSE link
DisconnectEvent == IF link = "up" THEN Append(events, "disconnected") ELSE events

ApDrop ==
    /\ ap /\ drops < MaxDrops
    /\ ap' = FALSE /\ drops' = drops + 1
    /\ link' = LinkLost /\ events' = DisconnectEvent
    /\ UNCHANGED <<pc, log, gpio, s_retry_count, s_connected, bits, trigger, resets, strategy>>

ApReturn ==
    /\ ~ap /\ ap' = TRUE
    /\ UNCHANGED <<pc, log, gpio, wifi, trigger, drops, resets, strategy>>

Associate ==
    /\ link = "connecting"
    /\ \/ ap /\ link' = "up" /\ events' = Append(events, "got_ip")
       \/ ~ap /\ link' = "idle" /\ events' = Append(events, "disconnected")
    /\ UNCHANGED <<pc, log, gpio, s_retry_count, s_connected, bits, trigger, env>>

\* espnow_recv_cb and ble_gap_event_cb while the radio listens: the bit stays set
\* until it is consumed.  A datagram waits in the socket of the DTIM strategy.
Hears ==
    \/ strategy \in {"espnow", "ble"} /\ pc \in {"window", "timed_out"}
    \/ strategy = "dtim" /\ pc = "recv" /\ link = "up"

Hear ==
    /\ Hears /\ ~trigger
    /\ trigger' = TRUE
    /\ UNCHANGED <<pc, log, gpio, wifi, env>>

-----------------------------------------------------------------------------
(* event_handler()                                                         *)

\* esp_wifi_connect(): without effect when the radio is off
Connecting == IF link = "idle" THEN "connecting" ELSE link

MayRetry == s_retry_count < MaxRetry

OnDisconnected ==
    /\ events # <<>> /\ Head(events) = "disconnected"
    /\ events' = Tail(events)
    /\ s_connected' = FALSE
    /\ \/ /\ MayRetry
          /\ link' = Connecting /\ s_retry_count' = s_retry_count + 1
          /\ UNCHANGED bits
       \/ /\ ~MayRetry
          /\ bits' = bits \cup {"fail"}
          /\ UNCHANGED <<link, s_retry_count>>
    /\ UNCHANGED <<pc, log, gpio, trigger, env>>

OnGotIp ==
    /\ events # <<>> /\ Head(events) = "got_ip"
    /\ events' = Tail(events)
    /\ s_retry_count' = 0 /\ s_connected' = TRUE
    /\ bits' = bits \cup {"connected"}
    /\ UNCHANGED <<pc, log, gpio, link, trigger, env>>

EventTask == OnDisconnected \/ OnGotIp

-----------------------------------------------------------------------------
(* The main task: app_main() and the strategies.                           *)

Boot ==
    /\ pc = "boot"
    /\ InitPin
    /\ log' = "WAKEUP"
    /\ pc' = IF Windowed THEN "start" ELSE "connect"
    /\ UNCHANGED <<wifi, trigger, env>>

\* Wi-Fi strategies stop and start the radio; BLE only cancels the scan.
RadioTo(state) == link' = IF strategy = "ble" THEN link ELSE state

\* wifi_start_no_connect() or nimble_port_init(): the radio is on
StartRadio ==
    /\ pc = "start"
    /\ RadioTo("idle")
    /\ log' = "LISTENING" /\ pc' = "window"
    /\ UNCHANGED <<gpio, events, s_retry_count, s_connected, bits, trigger, env>>

\* what the window finds; listen: the trigger's SSID is in the scan, or is not.
\* The wait takes the bit, also one set after the window before this one.
Found == trigger \/ strategy = "listen"

WindowTrigger ==
    /\ pc = "window" /\ Found
    /\ trigger' = FALSE
    /\ log' = "TRIGGER_DETECTED" /\ pc' = "connect"
    /\ UNCHANGED <<gpio, wifi, env>>

WindowTimeout ==
    /\ pc = "window" /\ ~trigger
    /\ pc' = "timed_out"
    /\ UNCHANGED <<log, gpio, wifi, trigger, env>>

\* broken: the bit is cleared before the next wait
LightSleepClear ==
    /\ pc = "timed_out"
    /\ trigger' = FALSE
    /\ RadioTo("off")
    /\ log' = "LIGHT_SLEEP" /\ pc' = "light_sleep"
    /\ UNCHANGED <<gpio, events, s_retry_count, s_connected, bits, env>>

\* the radio is stopped, the chip sleeps until the timer fires
LightSleep ==
    /\ pc = "timed_out"
    /\ RadioTo("off")
    /\ log' = "LIGHT_SLEEP" /\ pc' = "light_sleep"
    /\ UNCHANGED <<gpio, events, s_retry_count, s_connected, bits, trigger, env>>

LightWake ==
    /\ pc = "light_sleep"
    /\ RadioTo("idle")
    /\ log' = "LISTENING" /\ pc' = "window"
    /\ UNCHANGED <<gpio, events, s_retry_count, s_connected, bits, trigger, env>>

\* wifi_connect_start(): bits and retries are reset, then esp_wifi_connect()
Connect ==
    /\ pc = "connect"
    /\ bits' = {} /\ s_retry_count' = 0
    /\ link' = IF link = "up" THEN "up" ELSE "connecting"
    /\ log' = "WIFI_CONNECTING"
    /\ pc' = "await"
    /\ UNCHANGED <<gpio, events, s_connected, trigger, env>>

\* xEventGroupWaitBits(CONNECTED | FAIL), 10 s: CONNECTED wins when both are set
ConnectOk ==
    /\ pc = "await" /\ "connected" \in bits
    /\ log' = IF strategy = "dtim" THEN "WIFI_PS_IDLE" ELSE "ACTIVE"
    /\ pc' = IF strategy = "dtim" THEN "recv" ELSE "active"
    /\ UNCHANGED <<gpio, wifi, trigger, env>>

\* FAIL or the timeout; the DTIM strategy goes to sleep at once
ConnectFail ==
    /\ pc = "await" /\ "connected" \notin bits
    /\ pc' = IF strategy = "dtim" THEN "asleep" ELSE "disconnect"
    /\ UNCHANGED <<log, gpio, wifi, trigger, env>>

\* recvfrom() without a timeout
Recv ==
    /\ pc = "recv" /\ trigger
    /\ trigger' = FALSE
    /\ log' = "TRIGGER_DETECTED" /\ pc' = "assert"
    /\ UNCHANGED <<gpio, wifi, env>>

\* socket() or bind() fails: no trigger, straight to wake_gpio_deassert()
RecvFails ==
    /\ pc = "recv" /\ ~trigger
    /\ pc' = "deassert"
    /\ UNCHANGED <<log, gpio, wifi, trigger, env>>

Assert ==
    /\ pc = "assert"
    /\ Drive(1)
    /\ pc' = "report"
    /\ UNCHANGED <<log, wifi, trigger, env>>

ReportActive ==
    /\ pc = "report"
    /\ log' = "ACTIVE" /\ pc' = "active"
    /\ UNCHANGED <<gpio, wifi, trigger, env>>

\* vTaskDelay(2000)
Active ==
    /\ pc = "active"
    /\ pc' = IF strategy = "dtim" THEN "deassert" ELSE "disconnect"
    /\ UNCHANGED <<log, gpio, wifi, trigger, env>>

\* broken: the line is left as it is
DeassertNot ==
    /\ pc = "deassert"
    /\ pc' = "disconnect"
    /\ UNCHANGED <<log, gpio, wifi, trigger, env>>

Deassert ==
    /\ pc = "deassert"
    /\ Drive(0)
    /\ pc' = "disconnect"
    /\ UNCHANGED <<log, wifi, trigger, env>>

\* wifi_connect_deinit(): the event task may answer the disconnect with a
\* connect before the radio is stopped
Disconnect ==
    /\ pc = "disconnect"
    /\ link' = LinkLost /\ events' = DisconnectEvent
    /\ pc' = "stop"
    /\ UNCHANGED <<log, gpio, s_retry_count, s_connected, bits, trigger, env>>

StopRadio ==
    /\ pc = "stop"
    /\ link' = "off" /\ events' = DisconnectEvent /\ s_connected' = FALSE
    /\ log' = "PRE_SLEEP" /\ pc' = "asleep"
    /\ UNCHANGED <<gpio, s_retry_count, bits, trigger, env>>

\* every reset loses the memory and the register and keeps a held pad
Reset ==
    /\ pc' = "boot" /\ log' = "BOOT" /\ out' = 0
    /\ link' = "off" /\ events' = <<>>
    /\ s_retry_count' = 0 /\ s_connected' = FALSE /\ bits' = {} /\ trigger' = FALSE
    /\ pin' = IF held THEN pin ELSE 0
    /\ UNCHANGED <<held, ap, drops, strategy>>

TimerWake == pc = "asleep" /\ Reset /\ UNCHANGED <<resets, frozen>>

Panic ==
    /\ pc \notin {"boot", "asleep"} /\ resets < MaxResets
    /\ Reset
    /\ resets' = resets + 1 /\ frozen' = (pin' = 1)

MainTask ==
    \/ Boot \/ StartRadio \/ WindowTrigger \/ WindowTimeout \/ LightSleep \/ LightWake
    \/ Connect \/ ConnectOk \/ ConnectFail \/ Recv \/ Assert \/ ReportActive
    \/ Active \/ Deassert \/ Disconnect \/ StopRadio \/ TimerWake

FirmwareNext ==
    \/ MainTask \/ RecvFails \/ EventTask
    \/ ApDrop \/ ApReturn \/ Associate \/ Hear \/ Panic

\* Tasks are scheduled and association attempts end.  Nobody has to send a
\* trigger, the access point need not come back, sockets need not fail.
FirmwareFairness == WF_firmwareVars(MainTask) /\ WF_firmwareVars(EventTask) /\ WF_firmwareVars(Associate)

FirmwareSpec == FirmwareInit /\ [][FirmwareNext]_firmwareVars /\ FirmwareFairness

-----------------------------------------------------------------------------
(* Properties.                                                             *)

\* Types of the GPIO, the Wi-Fi state and the main task; retries stay bounded.
FirmwareTypeOK ==
    /\ strategy \in Strategies
    /\ pc \in {"boot", "start", "window", "timed_out", "light_sleep", "connect",
               "await", "recv", "assert", "report", "active", "deassert", "disconnect",
               "stop", "asleep"}
    /\ log \in {"BOOT", "WAKEUP", "LISTENING", "TRIGGER_DETECTED", "LIGHT_SLEEP",
                "WIFI_CONNECTING", "WIFI_PS_IDLE", "ACTIVE", "PRE_SLEEP"}
    /\ out \in {0, 1} /\ held \in BOOLEAN /\ pin \in {0, 1} /\ frozen \in BOOLEAN
    /\ link \in {"off", "idle", "connecting", "up"}
    /\ events \in Seq({"disconnected", "got_ip"})
    /\ s_retry_count \in 0 .. MaxRetry /\ s_connected \in BOOLEAN
    /\ bits \subseteq {"connected", "fail"}
    /\ trigger \in BOOLEAN /\ ap \in BOOLEAN
    /\ drops \in 0 .. MaxDrops /\ resets \in 0 .. MaxResets

\* main/wake_gpio.h:11-12: HIGH means that a trigger was detected and the chip is
\* awake and active; it is LOW in every other state, deep sleep included, unless a
\* panic has frozen it.  A frozen line stays HIGH until it is driven again, and means
\* a trigger from then on.
PinMeansTrigger == pin = 1 /\ ~frozen => log \in {"TRIGGER_DETECTED", "ACTIVE"}

\* main/strategy_dtim.c:112-116: a datagram raises the line, after any number of
\* sleeps that have held it LOW and also after a panic has frozen it, unless the chip
\* is reset meanwhile.
TriggerRaisesPin ==
    (strategy = "dtim" /\ log = "TRIGGER_DETECTED") ~> ((pin = 1 /\ ~frozen) \/ log = "BOOT")

\* A trigger that the radio has heard is reported, also when it was heard after
\* the window had timed out, unless the chip is reset.
TriggerNotLost == trigger ~> log \in {"TRIGGER_DETECTED", "BOOT"}

\* The types, with bounded retries, and the meaning of the line.
FirmwareConsistent == FirmwareTypeOK /\ PinMeansTrigger

\* What has been heard is announced, and with DTIM on the line.
TriggersAnswered == TriggerRaisesPin /\ TriggerNotLost

\* main/strategy_dtim.h:4, "Stays associated with the AP": a device that waits
\* for its trigger joins an access point that is back for good.
Reassociates == <>[](ap /\ pc = "recv") => []<>s_connected
=============================================================================
