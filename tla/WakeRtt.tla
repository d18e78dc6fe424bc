------------------------------- MODULE WakeRtt -------------------------------
(***************************************************************************)
(* The trigger / wake round trip of rpi/dashboard.py on top of the kernel  *)
(* driver: HTTP handlers and the burst thread stamp and send a UDP         *)
(* trigger, driver_thread polls the driver's sysfs files one after the     *)
(* other and matches a new wake with the time stamp of the last trigger.   *)
(*                                                                         *)
(* The line is driven by the environment (the ESP32 answers a trigger,     *)
(* somebody else's trigger, or nothing at all): Esp32Wor's own actions.    *)
(***************************************************************************)
EXTENDS Esp32Wor, Sequences

CONSTANTS
    Senders,       \* threads that call _send_one_trigger()
    MaxSends,      \* bound on the triggers stamped
    MaxRtt,        \* MAX_RTT_SAMPLES
    Reloads        \* TRUE when the driver may be reloaded

\* A counter of a single value could not show that it has counted.
ASSUME RttAssumption ==
    CountMod # 1 /\ MaxSends \in Nat /\ MaxRtt \in Nat \ {0}

VARIABLES
    last_trigger,              \* last_trigger_mono_ns, 0 for none
    spc,                       \* per sender: "idle" or "stamped"
    dpc, wc, wake,             \* driver_thread: where it is, what it has read
    prev,                      \* prev_wake_count
    driver_state, rtt,         \* what the dashboard shows
    \* History variables:
    stamps,                       \* triggers stamped; the newest has this number
    read_total, fresh,            \* `total' at the last read of wake_count, and
                                  \* whether it had grown since the read before
    matches,                      \* RTT samples taken per trigger
    rewritten                     \* the counter has been stored, reloaded or wrapped

sending == <<spc, stamps>>
polling == <<dpc, wc, wake, prev, driver_state, rtt, read_total, fresh, matches>>
vars == <<driverVars, rewritten, last_trigger, sending, polling>>

Init ==
    /\ DriverInit
    /\ last_trigger = 0
    /\ spc = [s \in Senders |-> "idle"] /\ stamps = 0
    /\ dpc = "count" /\ wc = 0 /\ wake = 0 /\ prev = 0
    /\ driver_state = [available |-> FALSE, wake_count |-> 0]
    /\ rtt = <<>>
    /\ matches = [t \in 1 .. MaxSends |-> 0]
    /\ read_total = 0 /\ fresh = FALSE /\ rewritten = FALSE

Driver ==
    /\ \/ Rise \/ Fall \/ Tick
       \/ IrqSample \/ IrqUpdate \/ Store
       \/ Reloads /\ Reprobe
    /\ rewritten' = (rewritten \/ wake_count' \notin {wake_count, wake_count + 1})
    /\ UNCHANGED <<last_trigger, sending, polling>>

-----------------------------------------------------------------------------
(* _send_one_trigger(): the stamp is taken under trigger_ns_lock, the      *)
(* packet is sent after that and may fail.                                 *)

Stamp(s) ==
    /\ spc[s] = "idle" /\ stamps < MaxSends
    /\ last_trigger' = now
    /\ stamps' = stamps + 1
    /\ spc' = [spc EXCEPT ![s] = "stamped"]
    /\ UNCHANGED <<driverVars, rewritten, polling>>

\* sendto() succeeds, or raises OSError: the stamp stays in both cases
Send(s) ==
    /\ spc[s] = "stamped"
    /\ spc' = [spc EXCEPT ![s] = "idle"]
    /\ UNCHANGED <<driverVars, rewritten, last_trigger, stamps, polling>>

-----------------------------------------------------------------------------
(* driver_thread(): one step per lock region and per sysfs read that a     *)
(* decision depends on; active, last_wake_ns and last_duration_ns are      *)
(* published too, and nothing here looks at them again.  A local variable  *)
(* that is not used any more is set to 0.                                  *)

\* the driver is not loaded when the file cannot be read
ReadCountFails ==
    /\ dpc = "count" /\ Reloads
    /\ driver_state' = [driver_state EXCEPT !.available = FALSE]
    /\ UNCHANGED <<driverVars, rewritten, last_trigger, sending, dpc, wc, wake, prev, rtt,
                   read_total, fresh, matches>>

ReadCount ==
    /\ dpc = "count"
    /\ wc' = wake_count /\ dpc' = "wake"
    /\ read_total' = total /\ fresh' = (total > read_total)
    /\ UNCHANGED <<driverVars, rewritten, last_trigger, sending, wake, prev, driver_state, rtt, matches>>

ReadWake ==
    /\ dpc = "wake"
    /\ \/ wake' = last_rise
       \/ Reloads /\ wake' = 0
    /\ dpc' = "publish"
    /\ UNCHANGED <<driverVars, rewritten, last_trigger, sending, wc, prev, driver_state, rtt,
                   read_total, fresh, matches>>

\* broken: the state is published with new wakes only
PublishNew ==
    /\ dpc = "publish"
    /\ driver_state' = IF wc > prev
                       THEN [available |-> TRUE, wake_count |-> wc]
                       ELSE driver_state
    /\ dpc' = "match"
    /\ UNCHANGED <<driverVars, rewritten, last_trigger, sending, wc, wake, prev, rtt,
                   read_total, fresh, matches>>

Publish ==
    /\ dpc = "publish"
    /\ driver_state' = [available |-> TRUE, wake_count |-> wc]
    /\ dpc' = "match"
    /\ UNCHANGED <<driverVars, rewritten, last_trigger, sending, wc, wake, prev, rtt,
                   read_total, fresh, matches>>

NewWakeByOne == wc = prev + 1   \* broken: two wakes between two polls
NewWake == wc > prev
Matches == last_trigger > 0 /\ wake > last_trigger

\* del rtt_samples[:len - MAX_RTT_SAMPLES]
Trim(s) == IF Len(s) > MaxRtt THEN SubSeq(s, Len(s) - MaxRtt + 1, Len(s)) ELSE s

NoNewWake ==
    /\ dpc = "match" /\ ~NewWake
    /\ dpc' = "count" /\ wc' = 0 /\ wake' = 0 /\ fresh' = FALSE
    /\ UNCHANGED <<driverVars, rewritten, last_trigger, sending, prev, driver_state, rtt,
                   read_total, matches>>

WakeWithoutTrigger ==
    /\ dpc = "match" /\ NewWake /\ ~Matches
    /\ prev' = wc /\ dpc' = "count" /\ wc' = 0 /\ wake' = 0 /\ fresh' = FALSE
    /\ UNCHANGED <<driverVars, rewritten, last_trigger, sending, driver_state, rtt,
                   read_total, matches>>

WakeMatched ==
    /\ dpc = "match" /\ NewWake /\ Matches
    /\ rtt' = Trim(Append(rtt, [trigger |-> stamps, ms |-> wake - last_trigger]))
    /\ matches' = [matches EXCEPT ![stamps] = @ + 1]
    /\ dpc' = "clear" /\ wake' = 0
    /\ UNCHANGED <<driverVars, rewritten, last_trigger, sending, wc, prev, driver_state,
                   read_total, fresh>>

\* broken: the stamp is kept
ClearedNot(stamp) == stamp

\* the stamp is cleared in a lock region of its own, whatever it is by now
Cleared(stamp) == 0

Clear ==
    /\ dpc = "clear"
    /\ last_trigger' = Cleared(last_trigger)
    /\ prev' = wc /\ dpc' = "count" /\ wc' = 0 /\ fresh' = FALSE
    /\ UNCHANGED <<driverVars, rewritten, sending, wake, driver_state, rtt, matches,
                   read_total>>

Poll ==
    \/ ReadCountFails \/ ReadCount \/ ReadWake \/ Publish
    \/ NoNewWake \/ WakeWithoutTrigger \/ WakeMatched \/ Clear

Next == Driver \/ (\E s \in Senders : Stamp(s) \/ Send(s)) \/ Poll

\* driver_thread polls for ever and latched interrupts are served; a sysfs file
\* that stays readable is read.
PollStep ==
    \/ ReadCount \/ ReadWake \/ Publish
    \/ NoNewWake \/ WakeWithoutTrigger \/ WakeMatched \/ Clear

Fairness ==
    /\ WF_vars(PollStep)
    /\ WF_vars(Driver /\ (IrqSample \/ IrqUpdate))

Spec == Init /\ [][Next]_vars /\ Fairness

-----------------------------------------------------------------------------
(* Properties.                                                             *)

\* Types; the RTT list never exceeds its size.
TypeOK ==
    /\ DriverTypeOK
    /\ last_trigger \in Nat
    /\ spc \in [Senders -> {"idle", "stamped"}]
    /\ stamps \in 0 .. MaxSends
    /\ dpc \in {"count", "wake", "publish", "match", "clear"}
    /\ wc \in Nat /\ wake \in Nat /\ prev \in Nat
    /\ driver_state \in [available : BOOLEAN, wake_count : Nat]
    /\ rtt \in Seq([trigger : 1 .. MaxSends, ms : Nat \ {0}]) /\ Len(rtt) <= MaxRtt
    /\ read_total \in Nat /\ fresh \in BOOLEAN /\ rewritten \in BOOLEAN
    /\ matches \in [1 .. MaxSends -> Nat]

\* A trigger gives at most one RTT sample, however many wakes follow it and
\* however senders and polls interleave.
RttOncePerTrigger ==
    \A t \in 1 .. MaxSends : matches[t] <= 1

WakesSinceLastPoll == dpc = "match" /\ fresh

\* As long as nobody rewrites the counter, a poll that finds wakes counted since
\* the poll before it takes the new-wake branch, whatever came between the reads
\* of the sysfs files.
WakeDetected == WakesSinceLastPoll /\ ~rewritten => NewWake

\* Once the counter rests, the dashboard shows it, also after a reset, a reload or
\* a wrap: it differs from the counter for ever only while the counter moves.
DashboardConverges ==
    []<>(driver_state.wake_count # wake_count) => []<><<wake_count' # wake_count>>_wake_count

\* The types, with a bounded RTT list, and one sample per trigger.
Consistent == TypeOK /\ RttOncePerTrigger
=============================================================================
