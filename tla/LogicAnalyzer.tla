---------------------------- MODULE LogicAnalyzer ----------------------------
(***************************************************************************)
(* The logic analyzer controls of rpi/dashboard.py: HTTP handlers start    *)
(* and stop a sigrok-cli process, a monitor thread per process waits for   *)
(* its end, and la_detect_thread scans for the device.                     *)
(*                                                                         *)
(* la_state is changed under la_lock; la_process is read and written       *)
(* without it.  Processes are numbered by the start request they serve.    *)
(***************************************************************************)
EXTENDS Integers, FiniteSets

CONSTANTS
    MaxStarts,    \* bound on the start requests
    MaxUnplugs    \* bound on the times the device is unplugged

ASSUME AnalyzerAssumption ==
    MaxStarts \in Nat /\ MaxUnplugs \in Nat

Procs == 1 .. MaxStarts

VARIABLES
    available, capturing, error,   \* la_state
    la_process,                    \* 0 for None
    proc,                          \* per process: "none", "running", "exited"
    failed,                        \* processes that ended with an error code
    hpc,                           \* per start request: where its handler is
    mpc,                           \* per process: where its monitor thread is
    starts,                        \* start requests so far
    plugged, unplugs, scan,        \* the device, and what a scan has seen:
                                   \* "none" when no scan waits to be stored
    stopping,                      \* a stop request has passed its check
    \* History variables:
    terminated,                    \* processes a stop has terminated
    overlapped,                    \* a start passed its check in the middle of
                                   \* another one, or before a monitor had ended
    abandoned                      \* a scan has reset `capturing'

la_state == <<available, capturing, error>>
threads == <<hpc, mpc, starts>>
usb == <<plugged, unplugs, scan>>
procs == <<proc, failed, stopping, terminated>>
history == <<overlapped, abandoned>>
vars == <<la_state, la_process, threads, usb, procs, history>>

Init ==
    /\ available = FALSE /\ capturing = FALSE /\ error = "none"
    /\ la_process = 0
    /\ proc = [p \in Procs |-> "none"] /\ failed = {} /\ terminated = {} /\ stopping = FALSE
    /\ overlapped = FALSE /\ abandoned = FALSE
    /\ hpc = [p \in Procs |-> "none"] /\ mpc = [p \in Procs |-> "none"]
    /\ starts = 0
    /\ plugged = TRUE /\ unplugs = 0 /\ scan = "none"

Running == {p \in Procs : proc[p] = "running"}
HandlerAt(S) == {p \in Procs : hpc[p] \in S}
MonitorAt(S) == {p \in Procs : mpc[p] \in S}

-----------------------------------------------------------------------------
(* The device, sigrok-cli and la_detect_thread.                            *)

\* sigrok-cli fails when its device goes away
Unplug ==
    /\ plugged /\ unplugs < MaxUnplugs
    /\ plugged' = FALSE /\ unplugs' = unplugs + 1
    /\ UNCHANGED <<la_state, la_process, threads, scan, procs, history>>

Plug ==
    /\ ~plugged /\ plugged' = TRUE
    /\ UNCHANGED <<la_state, la_process, threads, unplugs, scan, procs, history>>

\* a process ends by itself, or because it was terminated
Exit(p) ==
    /\ proc[p] = "running"
    /\ proc' = [proc EXCEPT ![p] = "exited"]
    /\ failed' \in {failed, failed \cup {p}}
    /\ UNCHANGED <<la_state, la_process, threads, usb, stopping, terminated, history>>

\* sigrok-cli --scan, outside the lock; it may time out or miss the device
Scan ==
    /\ scan = "none"
    /\ \/ scan' = IF plugged THEN "found" ELSE "absent"
       \/ scan' = "absent"
    /\ UNCHANGED <<la_state, la_process, threads, plugged, unplugs, procs, history>>

Detect ==
    /\ scan # "none"
    /\ available' = (scan = "found")
    /\ IF scan = "absent" /\ capturing
       THEN capturing' = FALSE /\ error' = "Device disconnected" /\ abandoned' = TRUE
       ELSE UNCHANGED <<capturing, error, abandoned>>
    /\ scan' = "none"
    /\ UNCHANGED <<la_process, threads, plugged, unplugs, procs, overlapped>>

-----------------------------------------------------------------------------
(* la_start() and its monitor thread.                                      *)

Starting == {"check", "popen", "assign", "state", "monitor"}

Request ==
    /\ starts < MaxStarts
    /\ starts' = starts + 1
    /\ hpc' = [hpc EXCEPT ![starts + 1] = "check"]
    /\ UNCHANGED <<la_state, la_process, mpc, usb, procs, history>>

MayStartAgain == available   \* broken: no 409
MayStart == available /\ ~capturing

\* past its check and not yet past its lock region; not yet past its last step
InWindow == HandlerAt({"popen", "assign", "state"}) # {} \/ MonitorAt({"clear"}) # {}

CheckState(p) ==
    /\ hpc[p] = "check"
    /\ \/ /\ MayStart
          /\ hpc' = [hpc EXCEPT ![p] = "popen"]
          /\ overlapped' = (overlapped \/ InWindow)
       \/ /\ ~MayStart
          /\ hpc' = [hpc EXCEPT ![p] = "done"]
          /\ UNCHANGED overlapped
    /\ UNCHANGED <<la_state, la_process, mpc, starts, usb, procs, abandoned>>

\* sigrok-cli starts, or is not installed
Popen(p) ==
    /\ hpc[p] = "popen"
    /\ \/ /\ proc' = [proc EXCEPT ![p] = "running"]
          /\ hpc' = [hpc EXCEPT ![p] = "assign"]
       \/ /\ hpc' = [hpc EXCEPT ![p] = "done"]
          /\ UNCHANGED proc
    /\ UNCHANGED <<la_state, la_process, mpc, starts, usb, failed, stopping, terminated, history>>

\* broken: without `global la_process'
AssignLocal(p) ==
    /\ hpc[p] = "assign"
    /\ hpc' = [hpc EXCEPT ![p] = "state"]
    /\ UNCHANGED <<la_state, la_process, mpc, starts, usb, procs, history>>

Assign(p) ==
    /\ hpc[p] = "assign"
    /\ la_process' = p
    /\ hpc' = [hpc EXCEPT ![p] = "state"]
    /\ UNCHANGED <<la_state, mpc, starts, usb, procs, history>>

SetState(p) ==
    /\ hpc[p] = "state"
    /\ capturing' = TRUE /\ error' = "none"
    /\ hpc' = [hpc EXCEPT ![p] = "monitor"]
    /\ UNCHANGED <<available, la_process, mpc, starts, usb, procs, history>>

SpawnMonitor(p) ==
    /\ hpc[p] = "monitor"
    /\ hpc' = [hpc EXCEPT ![p] = "done"]
    /\ mpc' = [mpc EXCEPT ![p] = "wait"]
    /\ UNCHANGED <<la_state, la_process, starts, usb, procs, history>>

MonitorWait(p) ==
    /\ mpc[p] = "wait" /\ proc[p] = "exited"
    /\ mpc' = [mpc EXCEPT ![p] = "state"]
    /\ UNCHANGED <<la_state, la_process, hpc, starts, usb, procs, history>>

\* broken: a failed process leaves the flag
MonitorStateOk(p) ==
    /\ mpc[p] = "state"
    /\ capturing' = (p \in failed /\ capturing)
    /\ error' = IF p \in failed THEN "exit code" ELSE error
    /\ mpc' = [mpc EXCEPT ![p] = "clear"]
    /\ UNCHANGED <<available, la_process, hpc, starts, usb, procs, history>>

MonitorState(p) ==
    /\ mpc[p] = "state"
    /\ capturing' = FALSE
    /\ error' = IF p \in failed THEN "exit code" ELSE error
    /\ mpc' = [mpc EXCEPT ![p] = "clear"]
    /\ UNCHANGED <<available, la_process, hpc, starts, usb, procs, history>>

\* after the lock has been released; whatever process it names by now
MonitorClear(p) ==
    /\ mpc[p] = "clear"
    /\ la_process' = 0
    /\ mpc' = [mpc EXCEPT ![p] = "done"]
    /\ UNCHANGED <<la_state, hpc, starts, usb, procs, history>>

Terminate(p) == {p} \ {0}

\* la_stop(): la_process is read for the check and again for terminate(), which
\* raises when it has become None
StopCheck ==
    /\ ~stopping /\ la_process # 0
    /\ stopping' = TRUE
    /\ UNCHANGED <<la_state, la_process, threads, usb, proc, failed, terminated, history>>

StopTerminate ==
    /\ stopping /\ stopping' = FALSE
    /\ terminated' = terminated \cup Terminate(la_process)
    /\ UNCHANGED <<la_state, la_process, threads, usb, proc, failed, history>>

Stop == StopCheck \/ StopTerminate

Handler(p) == CheckState(p) \/ Popen(p) \/ Assign(p) \/ SetState(p) \/ SpawnMonitor(p)
Monitor(p) == MonitorWait(p) \/ MonitorState(p) \/ MonitorClear(p)
DetectThread == Scan \/ Detect

Next ==
    \/ Unplug \/ Plug \/ DetectThread \/ Request \/ Stop
    \/ \E p \in Procs : Exit(p) \/ Handler(p) \/ Monitor(p)

\* Requests and monitors go on, the scan repeats; a process ends when it has been
\* terminated, but need not end by itself.
Fairness ==
    /\ WF_vars(DetectThread)
    /\ \A p \in Procs :
        /\ WF_vars(Handler(p)) /\ WF_vars(Monitor(p))
        /\ WF_vars(p \in terminated /\ Exit(p))

Spec == Init /\ [][Next]_vars /\ Fairness

-----------------------------------------------------------------------------
(* Properties.                                                             *)

\* Types of la_state, the processes, the threads and the device.
TypeOK ==
    /\ available \in BOOLEAN /\ capturing \in BOOLEAN
    /\ error \in {"none", "Device disconnected", "exit code"}
    /\ la_process \in {0} \cup Procs
    /\ proc \in [Procs -> {"none", "running", "exited"}]
    /\ failed \subseteq Procs /\ terminated \subseteq Procs
    /\ hpc \in [Procs -> {"none", "done"} \cup Starting]
    /\ mpc \in [Procs -> {"none", "wait", "state", "clear", "done"}]
    /\ starts \in 0 .. MaxStarts /\ unplugs \in 0 .. MaxUnplugs
    /\ plugged \in BOOLEAN /\ stopping \in BOOLEAN
    /\ overlapped \in BOOLEAN /\ abandoned \in BOOLEAN
    /\ scan \in {"none", "found", "absent"}

\* `capturing' never outlives the thread that will reset it, however requests,
\* scans and monitors interleave: some process is still to be monitored.
CapturingHasOwner ==
    capturing => \E p \in Procs : hpc[p] = "monitor" \/ mpc[p] \in {"wait", "state"}

\* When no process runs any more the dashboard stops saying that it captures.
CapturingSettles == <>[](Running = {}) => <>[](~capturing)

\* One sigrok process at a time, unless starts overlap or a scan has abandoned a
\* capture.
OneCapture == ~overlapped /\ ~abandoned => Cardinality(Running) <= 1

\* Under the same conditions a capture that runs is the one that a stop request
\* would terminate.
Stoppable ==
    ~overlapped /\ ~abandoned => \A p \in Running : hpc[p] = "done" => la_process = p

\* The types, and a flag that some thread will reset.
Consistent == TypeOK /\ CapturingHasOwner
=============================================================================
