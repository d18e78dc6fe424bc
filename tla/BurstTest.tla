------------------------------ MODULE BurstTest ------------------------------
(***************************************************************************)
(* The burst test of rpi/dashboard.py: HTTP handlers that start and stop   *)
(* it, the threads they spawn, and the shared burst_state and burst_stop   *)
(* event.  A thread sends a trigger, waits for the wake that answers it    *)
(* and goes on; every wait has a timeout and looks at the stop event.      *)
(*                                                                         *)
(* `running' is set by the thread itself, so between the check of a start  *)
(* request and the first step of its thread another start may pass.  The   *)
(* event is cleared both by a start and by a thread that has ended, after  *)
(* it has reset `running'.  Every request may come at any time; overlapped *)
(* records that a start was let through in one of these two windows.       *)
(*                                                                         *)
(* The interval of a request is any number that float() gives: time.sleep  *)
(* raises for one that is negative, NaN or too large, and the thread dies  *)
(* where it is, with `running' set.  Host and port of the device come from *)
(* the command line or the log; they are taken to be valid, so that        *)
(* sendto() fails with an OSError only.                                    *)
(***************************************************************************)
EXTENDS Integers, FiniteSets

CONSTANTS
    MaxBursts,    \* bound on the start requests
    Count,        \* triggers of one burst
    MaxWakes      \* bound on the wakes the driver thread reports

ASSUME BurstAssumption ==
    MaxBursts \in Nat /\ Count \in Nat /\ MaxWakes \in Nat

Bursts == 1 .. MaxBursts

VARIABLES
    running, completed, errors,  \* burst_state
    stop,                        \* burst_stop
    device,                      \* driver_state: [active, wake_count]
    bpc, i, before,              \* per burst: where it is, loop index, wc_before
    starts,                      \* start requests so far
    interval,                    \* per burst: what time.sleep makes of its interval
    timely,                      \* the device answers before any wait times out
    \* History variables:
    overlapped,                  \* a start passed its check in one of the windows
                                 \* that `running' does not guard
    asked,                       \* bursts that were asked to stop while they ran
    sends                        \* triggers each burst has tried to send

shared == <<running, completed, errors, stop>>
local == <<bpc, i, before, sends>>
env == <<timely, starts, interval>>
vars == <<shared, device, local, env, asked, overlapped>>

Intervals == {"slept", "raises"}

\* where a handler is; where a thread is; a thread between `init' and its end
Requested == {"check", "spawn"}
Threads == {"init", "loop", "idle", "pause", "send", "wait", "end", "clear"}
Looping == {"loop", "idle", "pause", "send", "wait"}

InState(S) == {b \in Bursts : bpc[b] \in S}

Init ==
    /\ running = FALSE /\ completed = 0 /\ errors = 0 /\ stop = FALSE
    /\ device = [active |-> FALSE, wake_count |-> 0]
    /\ bpc = [b \in Bursts |-> "none"]
    /\ i = [b \in Bursts |-> 0] /\ before = [b \in Bursts |-> 0]
    /\ timely \in BOOLEAN /\ overlapped = FALSE
    /\ interval = [b \in Bursts |-> "slept"]
    /\ starts = 0 /\ asked = {} /\ sends = [b \in Bursts |-> 0]

GoTo(b, where) == bpc' = [bpc EXCEPT ![b] = where]

-----------------------------------------------------------------------------
(* driver_thread, as the burst sees it.                                    *)

DeviceRises ==
    /\ ~device.active
    /\ device' = [device EXCEPT !.active = TRUE]
    /\ UNCHANGED <<shared, local, env, asked, overlapped>>

\* the pulse ends; it counts unless it was a glitch
DeviceFalls ==
    /\ device.active
    /\ \/ device' = [device EXCEPT !.active = FALSE]
       \/ /\ device.wake_count < MaxWakes
          /\ device' = [active |-> FALSE, wake_count |-> device.wake_count + 1]
    /\ UNCHANGED <<shared, local, env, asked, overlapped>>

-----------------------------------------------------------------------------
(* burst_start() and burst_stop_api()                                      *)

Request ==
    /\ starts < MaxBursts
    /\ starts' = starts + 1
    /\ GoTo(starts + 1, "check")
    /\ UNCHANGED <<shared, device, i, before, sends, timely, interval, asked, overlapped>>

MayStart == ~running

\* A handler between its check and its thread; a thread before `running' is set
\* or after it has been reset.
InWindow == InState({"spawn", "init", "clear"}) # {}

\* under burst_lock: 409 when a burst is running
CheckRunning(b) ==
    /\ bpc[b] = "check"
    /\ \/ MayStart /\ GoTo(b, "spawn") /\ overlapped' = (overlapped \/ InWindow)
       \/ ~MayStart /\ GoTo(b, "done") /\ UNCHANGED overlapped
    /\ UNCHANGED <<shared, device, i, before, sends, env, asked>>

\* the body is no JSON object, or its numbers are none
BadRequest(b) ==
    /\ bpc[b] = "spawn"
    /\ GoTo(b, "done")
    /\ UNCHANGED <<shared, device, i, before, sends, env, asked, overlapped>>

\* the event is cleared, then the thread is started, which may fail
Spawn(b) ==
    /\ bpc[b] = "spawn"
    /\ stop' = FALSE
    /\ \E kind \in Intervals : interval' = [interval EXCEPT ![b] = kind]
    /\ GoTo(b, "init") \/ GoTo(b, "done")
    /\ UNCHANGED <<running, completed, errors, device, i, before, sends, timely, starts,
                   asked, overlapped>>

StopRequest ==
    /\ stop' = TRUE
    /\ asked' = asked \cup InState(Looping)
    /\ UNCHANGED <<running, completed, errors, device, local, env, overlapped>>

-----------------------------------------------------------------------------
(* burst_thread()                                                          *)

\* broken: an error of an earlier burst stays
BeginStale(b) ==
    /\ bpc[b] = "init"
    /\ running' = TRUE /\ completed' = 0 /\ UNCHANGED errors
    /\ GoTo(b, "loop")
    /\ UNCHANGED <<stop, device, i, before, sends, env, asked, overlapped>>

Begin(b) ==
    /\ bpc[b] = "init"
    /\ running' = TRUE /\ completed' = 0 /\ errors' = 0
    /\ GoTo(b, "loop")
    /\ UNCHANGED <<stop, device, i, before, sends, env, asked, overlapped>>

\* broken: the stop event is looked at while waiting only
CycleWhenAsked(b) == i[b] < Count
Cycle(b) == i[b] < Count /\ ~stop

Loop(b) ==
    /\ bpc[b] = "loop"
    /\ GoTo(b, IF Cycle(b) THEN "idle" ELSE "end")
    /\ UNCHANGED <<shared, device, i, before, sends, env, asked, overlapped>>

\* up to 100 tries: the device is idle, or the tries are used up, or stopped
WaitIdle(b) ==
    /\ bpc[b] = "idle"
    /\ stop \/ ~device.active \/ ~timely
    /\ GoTo(b, IF stop THEN "end" ELSE "pause")
    /\ UNCHANGED <<shared, device, i, before, sends, env, asked, overlapped>>

\* sleep(interval), which may raise; the last look at the stop event, and wc_before
Pause(b) ==
    /\ bpc[b] = "pause"
    /\ \/ /\ interval[b] = "raises"
          /\ GoTo(b, "died") /\ UNCHANGED before
       \/ /\ interval[b] = "slept"
          /\ GoTo(b, IF stop THEN "end" ELSE "send")
          /\ before' = IF stop THEN before ELSE [before EXCEPT ![b] = device.wake_count]
    /\ UNCHANGED <<shared, device, i, sends, env, asked, overlapped>>

\* _send_one_trigger() answers True or False, counted under burst_lock
SendTrigger(b) ==
    /\ bpc[b] = "send"
    /\ sends' = [sends EXCEPT ![b] = @ + 1]
    /\ \/ completed' = completed + 1 /\ UNCHANGED errors
       \/ errors' = errors + 1 /\ UNCHANGED completed
    /\ GoTo(b, "wait")
    /\ UNCHANGED <<running, stop, device, i, before, env, asked, overlapped>>

\* up to 150 tries: a wake is counted, or the tries are used up, or stopped
WakeSeenEarly(b) == device.wake_count >= before[b]   \* broken
WakeSeen(b) == device.wake_count > before[b]
TimesOutNever(b) == b \notin Bursts     \* broken
TimesOut(b) == ~timely

WaitWake(b) ==
    /\ bpc[b] = "wait"
    /\ stop \/ WakeSeen(b) \/ TimesOut(b)
    /\ i' = [i EXCEPT ![b] = @ + 1]
    /\ GoTo(b, "loop")
    /\ UNCHANGED <<shared, device, before, sends, env, asked, overlapped>>

\* broken: the flag is left for the next start to reset
LeaveRunning(b) ==
    /\ bpc[b] = "end"
    /\ running' = running
    /\ GoTo(b, "clear")
    /\ UNCHANGED <<completed, errors, stop, device, i, before, sends, env, asked, overlapped>>

Leave(b) ==
    /\ bpc[b] = "end"
    /\ running' = FALSE
    /\ GoTo(b, "clear")
    /\ UNCHANGED <<completed, errors, stop, device, i, before, sends, env, asked, overlapped>>

\* burst_stop.clear(), after running has been reset
ClearStop(b) ==
    /\ bpc[b] = "clear"
    /\ stop' = FALSE
    /\ GoTo(b, "done")
    /\ UNCHANGED <<running, completed, errors, device, i, before, sends, env, asked, overlapped>>

Thread(b) ==
    \/ Begin(b) \/ Loop(b) \/ WaitIdle(b) \/ Pause(b) \/ SendTrigger(b)
    \/ WaitWake(b) \/ Leave(b) \/ ClearStop(b)

Handler(b) == CheckRunning(b) \/ BadRequest(b) \/ Spawn(b)

Next ==
    \/ DeviceRises \/ DeviceFalls \/ Request \/ StopRequest
    \/ \E b \in Bursts : Handler(b) \/ Thread(b)

Fairness == \A b \in Bursts : WF_vars(Handler(b)) /\ WF_vars(Thread(b))

Spec == Init /\ [][Next]_vars /\ Fairness

-----------------------------------------------------------------------------
(* Properties.                                                             *)

\* Types of the shared state, the threads and the history variables.
TypeOK ==
    /\ running \in BOOLEAN /\ stop \in BOOLEAN
    /\ completed \in 0 .. Count * MaxBursts /\ errors \in 0 .. Count * MaxBursts
    /\ device \in [active : BOOLEAN, wake_count : 0 .. MaxWakes]
    /\ bpc \in [Bursts -> {"none", "done", "died"} \cup Requested \cup Threads]
    /\ i \in [Bursts -> 0 .. Count] /\ before \in [Bursts -> 0 .. MaxWakes]
    /\ sends \in [Bursts -> 0 .. Count]
    /\ interval \in [Bursts -> Intervals]
    /\ starts \in 0 .. MaxBursts /\ asked \subseteq Bursts
    /\ timely \in BOOLEAN /\ overlapped \in BOOLEAN

\* Where a thread is between its first and its last lock region, or has died.
Shown == Looping \cup {"end", "died"}

\* However starts overlap, `running' is not left set by threads that have ended: only
\* one that time.sleep has killed leaves it set, and then for good.  Unless two bursts
\* were started in one window, it is set whenever a thread is at work, too.
FlagTracksThread ==
    /\ running => InState(Shown) # {}
    /\ ~overlapped /\ InState(Shown) # {} => running

\* One burst at a time, none after one that has died, and what the dashboard shows of it
\* is what it has sent, unless two bursts were started in one window.
OneBurst == ~overlapped => Cardinality(InState(Shown)) <= 1
ReportsOwnSends == ~overlapped => \A b \in InState(Shown) : completed + errors = sends[b]

BeginsCycle(b) == bpc[b] = "loop" /\ bpc'[b] = "idle"

\* A burst that has been asked to stop begins no further cycle, unless it was
\* started while the burst before had yet to clear the event.
StopHonoured == [][~overlapped => \A b \in asked : ~BeginsCycle(b)]_vars

\* When every trigger is answered in time, a burst sends the next one only after
\* a wake, whatever stop requests and later starts come.
PacedByWakes ==
    timely /\ ~overlapped => \A b \in Bursts : sends[b] <= device.wake_count + 1

\* A burst ends, however requests overlap, whether the device answers or not and whatever
\* has become of the bursts before it; only one whose own interval makes time.sleep raise
\* may die instead.
BurstEnds ==
    \A b \in Bursts :
        bpc[b] = "init" /\ ~timely ~>
            bpc[b] = "done" \/ (bpc[b] = "died" /\ interval[b] = "raises")

\* The types, and one burst that is the one `running' speaks of.
Consistent == TypeOK /\ FlagTracksThread /\ OneBurst
=============================================================================
