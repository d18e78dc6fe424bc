------------------------- MODULE LogicAnalyzer_proofs -------------------------
(* Theorems about the logic analyzer controls, for any number of requests  *)
(* and of times the device goes away.                                      *)
EXTENDS LogicAnalyzer, FiniteSetTheorems, TLAPS

\* What the types need of the constants.
LEMMA Bounds == MaxStarts \in Nat /\ MaxUnplugs \in Nat
  BY AnalyzerAssumption DEF AnalyzerAssumption

\* The flags and what is drawn from a small set.
FlagsOK ==
    /\ available \in BOOLEAN /\ capturing \in BOOLEAN
    /\ plugged \in BOOLEAN /\ stopping \in BOOLEAN
    /\ overlapped \in BOOLEAN /\ abandoned \in BOOLEAN

\* The processes, the threads and the counters.
FieldsOK ==
    /\ error \in {"none", "Device disconnected", "exit code"}
    /\ la_process \in {0} \cup Procs
    /\ proc \in [Procs -> {"none", "running", "exited"}]
    /\ failed \subseteq Procs /\ terminated \subseteq Procs
    /\ hpc \in [Procs -> {"none", "done"} \cup Starting]
    /\ mpc \in [Procs -> {"none", "wait", "state", "clear", "done"}]
    /\ starts \in 0 .. MaxStarts /\ unplugs \in 0 .. MaxUnplugs
    /\ scan \in {"none", "found", "absent"}

\* A request that has not come has no handler, and a monitor only follows a handler.
Numbered ==
    /\ \A p \in Procs : p > starts => hpc[p] = "none"
    /\ \A p \in Procs : mpc[p] # "none" => hpc[p] = "done"

TypeInv == FlagsOK /\ FieldsOK /\ Numbered

\* The next request has a number of its own.
LEMMA NextRequest ==
    ASSUME FieldsOK, Numbered, starts < MaxStarts
    PROVE  starts + 1 \in Procs /\ starts + 1 \in 0 .. MaxStarts /\ hpc[starts + 1] = "none"
<1>1. starts \in 0 .. MaxStarts
  BY DEF FieldsOK
<1>2. starts + 1 \in 1 .. MaxStarts /\ starts + 1 > starts
  BY <1>1, Bounds
<1>3. QED
  BY <1>2 DEF Numbered, Procs

\* Every field keeps its type, and requests are numbered in the order they come.
LEMMA TypesHold == Spec => []TypeInv
<1>1. Init => TypeInv
  <2>1. Init => FlagsOK
    BY DEF Init, FlagsOK
  <2>2. Init => FieldsOK
    BY Bounds DEF Init, FieldsOK
  <2>3. Init => Numbered
    BY DEF Init, Numbered
  <2>4. QED
    BY <2>1, <2>2, <2>3 DEF TypeInv
<1>2. FlagsOK /\ [Next]_vars => FlagsOK'
  <2> SUFFICES ASSUME FlagsOK, [Next]_vars PROVE FlagsOK'
    OBVIOUS
  <2> USE DEF FlagsOK
  <2>1. CASE Unplug \/ Plug
    BY <2>1 DEF Unplug, Plug, la_state, procs, history
  <2>2. CASE DetectThread
    BY <2>2 DEF DetectThread, Scan, Detect, la_state, procs, history
  <2>3. CASE Request \/ Stop
    BY <2>3 DEF Request, Stop, StopCheck, StopTerminate, la_state, usb, procs, history
  <2>4. ASSUME NEW p \in Procs, Exit(p) \/ Handler(p) PROVE FlagsOK'
    BY <2>4 DEF Exit, Handler, CheckState, Popen, Assign, SetState, SpawnMonitor,
          la_state, usb, procs, history
  <2>5. ASSUME NEW p \in Procs, Monitor(p) PROVE FlagsOK'
    BY <2>5 DEF Monitor, MonitorWait, MonitorState, MonitorClear, la_state, usb, procs, history
  <2>6. CASE UNCHANGED vars
    BY <2>6 DEF vars, la_state, usb, procs, history
  <2>7. QED
    BY <2>1, <2>2, <2>3, <2>4, <2>5, <2>6 DEF Next
<1>3. FieldsOK /\ Numbered /\ [Next]_vars => FieldsOK' /\ Numbered'
  <2> SUFFICES ASSUME FieldsOK, Numbered, [Next]_vars PROVE FieldsOK' /\ Numbered'
    OBVIOUS
  <2>1. CASE Unplug
    <3>1. unplugs' \in 0 .. MaxUnplugs
      <4>1. unplugs \in 0 .. MaxUnplugs
        BY DEF FieldsOK
      <4>2. unplugs < MaxUnplugs /\ unplugs' = unplugs + 1
        BY <2>1 DEF Unplug
      <4>3. QED
        BY <4>1, <4>2, Bounds
    <3>2. QED
      BY <2>1, <3>1 DEF Unplug, la_state, threads, procs, FieldsOK, Numbered
  <2>2. CASE Plug \/ DetectThread
    BY <2>2 DEF Plug, DetectThread, Scan, Detect, la_state, threads, procs, FieldsOK, Numbered
  <2>3. CASE Request
    <3>1. starts + 1 \in Procs /\ starts + 1 \in 0 .. MaxStarts /\ hpc[starts + 1] = "none"
      BY <2>3, NextRequest DEF Request
    <3>2. hpc' = [hpc EXCEPT ![starts + 1] = "check"] /\ starts' = starts + 1
      BY <2>3 DEF Request
    <3>3. UNCHANGED <<la_state, la_process, mpc, usb, procs>>
      BY <2>3 DEF Request
    <3>4. FieldsOK'
      BY <3>1, <3>2, <3>3 DEF la_state, usb, procs, Starting, FieldsOK
    <3>5. Numbered'
      <4>1. \A p \in Procs : p > starts + 1 => p > starts /\ p # starts + 1
        <5>1. starts \in 0 .. MaxStarts
          BY DEF FieldsOK
        <5>2. QED
          BY <5>1, Bounds DEF Procs
      <4>2. \A p \in Procs : p # starts + 1 => hpc'[p] = hpc[p]
        BY <3>2 DEF FieldsOK
      <4>3. mpc[starts + 1] = "none"
        BY <3>1 DEF Numbered
      <4>4. QED
        BY <3>2, <3>3, <4>1, <4>2, <4>3 DEF Numbered
    <3>6. QED
      BY <3>4, <3>5
  <2>4. CASE Stop
    BY <2>4 DEF Stop, StopCheck, StopTerminate, Terminate, la_state, threads, usb, FieldsOK, Numbered
  <2>5. ASSUME NEW p \in Procs, Exit(p) PROVE FieldsOK' /\ Numbered'
    BY <2>5 DEF Exit, la_state, threads, usb, FieldsOK, Numbered
  <2>6. ASSUME NEW p \in Procs, Handler(p) PROVE FieldsOK' /\ Numbered'
    <3>1. \E w \in {"done"} \cup Starting :
              /\ hpc' = [hpc EXCEPT ![p] = w] /\ starts' = starts
              /\ hpc[p] \in Starting
      BY <2>6 DEF Handler, CheckState, Popen, Assign, SetState, SpawnMonitor, Starting
    <3>2. FieldsOK'
      <4>1. hpc' \in [Procs -> {"none", "done"} \cup Starting]
        BY <3>1 DEF FieldsOK
      <4>2. UNCHANGED <<starts, usb, failed, stopping, terminated>>
        BY <2>6 DEF Handler, CheckState, Popen, Assign, SetState, SpawnMonitor, procs
      <4>3. error' \in {error, "none"} /\ la_process' \in {la_process, p}
        BY <2>6 DEF Handler, CheckState, Popen, Assign, SetState, SpawnMonitor, la_state
      <4>4. proc' = proc \/ proc' = [proc EXCEPT ![p] = "running"]
        BY <2>6 DEF Handler, CheckState, Popen, Assign, SetState, SpawnMonitor, procs
      <4>5. mpc' = mpc \/ mpc' = [mpc EXCEPT ![p] = "wait"]
        BY <2>6 DEF Handler, CheckState, Popen, Assign, SetState, SpawnMonitor
      <4>6. proc' \in [Procs -> {"none", "running", "exited"}]
        BY <4>4 DEF FieldsOK
      <4>7. mpc' \in [Procs -> {"none", "wait", "state", "clear", "done"}]
        BY <4>5 DEF FieldsOK
      <4>8. QED
        BY <4>1, <4>2, <4>3, <4>6, <4>7 DEF usb, FieldsOK
    <3>3. Numbered'
      <4>1. mpc' = mpc \/ (hpc'[p] = "done" /\ mpc' = [mpc EXCEPT ![p] = "wait"])
        BY <2>6 DEF Handler, CheckState, Popen, Assign, SetState, SpawnMonitor, FieldsOK
      <4>2. mpc[p] = "none" /\ ~(p > starts)
        BY <3>1 DEF Numbered, Starting
      <4>3. QED
        <5>1. \A q \in Procs : q # p => hpc'[q] = hpc[q]
          BY <3>1 DEF FieldsOK
        <5>2. \A q \in Procs : mpc'[q] # "none" => (q = p /\ hpc'[q] = "done") \/ mpc[q] # "none"
          BY <4>1 DEF FieldsOK
        <5>3. QED
          BY <3>1, <4>2, <5>1, <5>2 DEF Numbered
    <3>4. QED
      BY <3>2, <3>3
  <2>7. ASSUME NEW p \in Procs, Monitor(p) PROVE FieldsOK' /\ Numbered'
    <3>1. /\ UNCHANGED <<hpc, starts, usb, procs>>
          /\ la_process' \in {la_process, 0} /\ error' \in {error, "exit code"}
      <4>1. CASE MonitorWait(p)
        BY <4>1 DEF MonitorWait, la_state
      <4>2. CASE MonitorState(p)
        BY <4>2 DEF MonitorState, la_state
      <4>3. CASE MonitorClear(p)
        BY <4>3 DEF MonitorClear, la_state
      <4>4. QED
        BY <2>7, <4>1, <4>2, <4>3 DEF Monitor
    <3>2. \E w \in {"state", "clear", "done"} : mpc' = [mpc EXCEPT ![p] = w]
      BY <2>7 DEF Monitor, MonitorWait, MonitorState, MonitorClear
    <3>3. mpc[p] # "none"
      BY <2>7 DEF Monitor, MonitorWait, MonitorState, MonitorClear
    <3>4. mpc' \in [Procs -> {"none", "wait", "state", "clear", "done"}]
      BY <3>2 DEF FieldsOK
    <3>5. FieldsOK'
      BY <3>1, <3>4 DEF usb, procs, FieldsOK
    <3>6. \A q \in Procs : q # p => mpc'[q] = mpc[q]
      BY <3>2 DEF FieldsOK
    <3>7. Numbered'
      BY <3>1, <3>3, <3>6 DEF Numbered
    <3>8. QED
      BY <3>5, <3>7
  <2>8. CASE UNCHANGED vars
    BY <2>8 DEF vars, la_state, threads, usb, procs, FieldsOK, Numbered
  <2>9. QED
    BY <2>1, <2>2, <2>3, <2>4, <2>5, <2>6, <2>7, <2>8 DEF Next
<1>4. QED
  BY <1>1, <1>2, <1>3, PTL DEF Spec, TypeInv

\* Every field keeps its type.
THEOREM TypeCorrect == Spec => []TypeOK
<1>1. TypeInv => TypeOK
  BY DEF TypeInv, FlagsOK, FieldsOK, TypeOK
<1>2. QED
  BY <1>1, TypesHold, PTL

-----------------------------------------------------------------------------
(* The thread that will reset `capturing'.                                 *)

\* The thread of start p will reset the flag.
Owner(p) == hpc[p] = "monitor" \/ mpc[p] \in {"wait", "state"}

\* The flag never outlives the threads that reset it, whatever overlaps.
THEOREM FlagHasOwner == Spec => []Consistent
<1>1. Init => CapturingHasOwner
  BY DEF Init, CapturingHasOwner
<1>2. TypeInv /\ CapturingHasOwner /\ [Next]_vars => CapturingHasOwner'
  <2> SUFFICES ASSUME FieldsOK, Numbered, capturing => \E p \in Procs : Owner(p),
                      [Next]_vars, capturing'
               PROVE  \E p \in Procs : Owner(p)'
    BY DEF CapturingHasOwner, Owner, TypeInv
  <2>1. ASSUME NEW p \in Procs, SetState(p) \/ SpawnMonitor(p) PROVE Owner(p)'
    BY <2>1 DEF SetState, SpawnMonitor, Owner, FieldsOK
  <2>2. ASSUME NEW p \in Procs, MonitorState(p) PROVE FALSE
    BY <2>2 DEF MonitorState
  <2>3. ASSUME NEW q \in Procs, CheckState(q) \/ Popen(q) \/ Assign(q)
        PROVE  capturing /\ \A p \in Procs : Owner(p) => Owner(p)'
    BY <2>3 DEF CheckState, Popen, Assign, Owner, FieldsOK, la_state
  <2>4. ASSUME NEW q \in Procs, MonitorWait(q) \/ MonitorClear(q)
        PROVE  capturing /\ \A p \in Procs : Owner(p) => Owner(p)'
    BY <2>4 DEF MonitorWait, MonitorClear, Owner, FieldsOK, la_state
  <2>5. CASE Unplug \/ Plug \/ DetectThread \/ Stop \/ \E q \in Procs : Exit(q)
    <3>1. capturing /\ UNCHANGED <<hpc, mpc>>
      BY <2>5 DEF Unplug, Plug, DetectThread, Scan, Detect, Stop, StopCheck, StopTerminate, Exit,
            la_state, threads
    <3>2. QED
      BY <3>1 DEF Owner
  <2>6. CASE Request
    <3>1. starts + 1 \in Procs /\ hpc[starts + 1] = "none"
      BY <2>6, NextRequest DEF Request
    <3>2. capturing /\ mpc' = mpc /\ \A p \in Procs : p # starts + 1 => hpc'[p] = hpc[p]
      BY <2>6 DEF Request, FieldsOK, la_state
    <3>3. \A p \in Procs : Owner(p) => Owner(p)'
      BY <3>1, <3>2 DEF Owner
    <3>4. QED
      BY <3>2, <3>3
  <2>7. CASE UNCHANGED vars
    BY <2>7 DEF vars, la_state, threads, Owner
  <2>8. QED
    BY <2>1, <2>2, <2>3, <2>4, <2>5, <2>6, <2>7 DEF Next, Handler, Monitor
<1>3. QED
  BY <1>1, <1>2, TypesHold, TypeCorrect, PTL DEF Spec, Consistent

-----------------------------------------------------------------------------
(* One capture at a time.                                                  *)

\* A start that has passed its check, or a capture whose monitor has not ended.
Live(p) == hpc[p] \in {"popen", "assign", "state", "monitor"} \/ mpc[p] \in {"wait", "state", "clear"}

\* A process runs from Popen() on, and its monitor waits for it.
Placed == \A p \in Running : hpc[p] \in {"assign", "state", "monitor"} \/ mpc[p] = "wait"

\* One start is under way.
Solo == \A p, q \in Procs : Live(p) /\ Live(q) => p = q

\* Nobody but the thread that owns the flag resets it.
Flagged == (\E p \in Procs : Owner(p)) => capturing

\* From Assign on, la_process is the process of the live start.
Named ==
    \A p \in Procs :
        hpc[p] \in {"state", "monitor"} \/ mpc[p] \in {"wait", "state", "clear"} => la_process = p

\* All but the first part holds until starts overlap or a scan abandons a capture.
CaptureInv == Placed /\ (~overlapped /\ ~abandoned => Solo /\ Flagged /\ Named)

\* No step of a handler, a monitor, a scan or a process breaks any of them.
LEMMA OneIsLive == Spec => []CaptureInv
<1>1. Init => CaptureInv
  BY DEF Init, CaptureInv, Placed, Running, Solo, Flagged, Named, Live, Owner
<1>2. TypeInv /\ CaptureInv /\ [Next]_vars => CaptureInv'
  <2> SUFFICES ASSUME FlagsOK, FieldsOK, Numbered, CaptureInv, [Next]_vars PROVE CaptureInv'
    BY DEF TypeInv
  <2>1. Placed'
    <3>1. \A p \in Procs : proc'[p] = "running" =>
              \/ proc[p] = "running" \/ (hpc[p] = "popen" /\ hpc'[p] = "assign")
      BY DEF Next, Unplug, Plug, DetectThread, Scan, Detect, Request, Stop, StopCheck,
         StopTerminate, Exit, Handler, CheckState, Popen, Assign, SetState, SpawnMonitor, Monitor,
         MonitorWait, MonitorState, MonitorClear, la_state, threads, usb, procs, history, vars, FieldsOK
    <3>2. \A p \in Procs : proc[p] = "running" /\ hpc[p] \in {"assign", "state", "monitor"} =>
              hpc'[p] \in {"assign", "state", "monitor"} \/ mpc'[p] = "wait"
      <4> SUFFICES ASSUME NEW p \in Procs, hpc[p] \in {"assign", "state", "monitor"}
                   PROVE  hpc'[p] \in {"assign", "state", "monitor"} \/ mpc'[p] = "wait"
        OBVIOUS
      <4>1. CASE Request
        <5>1. hpc[starts + 1] = "none" /\ hpc' = [hpc EXCEPT ![starts + 1] = "check"]
          BY <4>1, NextRequest DEF Request
        <5>2. QED
          BY <5>1 DEF FieldsOK
      <4>2. ASSUME NEW q \in Procs, Handler(q)
            PROVE  hpc'[p] \in {"assign", "state", "monitor"} \/ mpc'[p] = "wait"
        BY <4>2 DEF Handler, CheckState, Popen, Assign, SetState, SpawnMonitor, FieldsOK
      <4>3. ~Request /\ ~(\E q \in Procs : Handler(q)) => hpc' = hpc
        BY DEF Next, Unplug, Plug, DetectThread, Scan, Detect, Stop, StopCheck, StopTerminate,
           Exit, Monitor, MonitorWait, MonitorState, MonitorClear, threads, vars
      <4>4. QED
        BY <4>1, <4>2, <4>3
    <3>3. \A p \in Procs : proc[p] = "running" /\ mpc[p] = "wait" => mpc'[p] = "wait"
      BY DEF Next, Unplug, Plug, DetectThread, Scan, Detect, Request, Stop, StopCheck,
         StopTerminate, Exit, Handler, CheckState, Popen, Assign, SetState, SpawnMonitor, Monitor,
         MonitorWait, MonitorState, MonitorClear, la_state, threads, usb, procs, history, vars, FieldsOK
    <3>4. QED
      BY <3>1, <3>2, <3>3 DEF CaptureInv, Placed, Running
  <2>2. ASSUME ~overlapped', ~abandoned' PROVE Solo' /\ Flagged' /\ Named'
    <3>1. ~overlapped /\ ~abandoned
      BY <2>2 DEF FlagsOK, Next, Unplug, Plug, DetectThread, Scan, Detect, Request, Stop, StopCheck,
         StopTerminate, Exit, Handler, CheckState, Popen, Assign, SetState, SpawnMonitor, Monitor,
         MonitorWait, MonitorState, MonitorClear, la_state, threads, usb, procs, history, vars
    <3>2. Solo /\ Flagged /\ Named
      BY <3>1 DEF CaptureInv
    <3>3. CASE Unplug \/ Plug \/ DetectThread \/ Stop \/ \E q \in Procs : Exit(q)
      <4>1. UNCHANGED <<hpc, mpc, la_process>>
        BY <3>3 DEF Unplug, Plug, DetectThread, Scan, Detect, Stop, StopCheck, StopTerminate, Exit,
            threads
      <4>2. capturing => capturing'
        BY <2>2, <3>3 DEF Unplug, Plug, DetectThread, Scan, Detect, Stop, StopCheck, StopTerminate, Exit,
            la_state
      <4>3. QED
        BY <3>2, <4>1, <4>2 DEF Solo, Flagged, Named, Live, Owner
    <3>4. CASE Request
      <4>1. starts + 1 \in Procs /\ hpc[starts + 1] = "none"
        BY <3>4, NextRequest DEF Request
      <4>2. /\ UNCHANGED <<capturing, la_process, mpc>>
            /\ \A p \in Procs : hpc'[p] = IF p = starts + 1 THEN "check" ELSE hpc[p]
        BY <3>4, <4>1 DEF Request, FieldsOK, la_state
      <4>3. \A p \in Procs : (Live(p)' <=> Live(p)) /\ (Owner(p)' <=> Owner(p))
        BY <4>1, <4>2 DEF Live, Owner
      <4>4. QED
        BY <3>2, <4>1, <4>2, <4>3 DEF Solo, Flagged, Named
    <3>5. ASSUME NEW p \in Procs, Handler(p) \/ Monitor(p) PROVE Solo' /\ Flagged' /\ Named'
      <4>1. \A q \in Procs : q # p => hpc'[q] = hpc[q] /\ mpc'[q] = mpc[q]
        BY <3>5 DEF Handler, CheckState, Popen, Assign, SetState, SpawnMonitor, Monitor,
           MonitorWait, MonitorState, MonitorClear, FieldsOK
      <4>2. CASE CheckState(p)
        <5>1. UNCHANGED <<capturing, la_process, mpc>> /\ hpc[p] = "check"
          BY <4>2 DEF CheckState, la_state
        <5>2. mpc[p] = "none"
          BY <5>1 DEF Numbered, FieldsOK
        <5>3. hpc'[p] \in {"popen", "done"}
          BY <4>2 DEF CheckState, FieldsOK
        <5>4. ASSUME hpc'[p] = "popen" PROVE \A q \in Procs : ~Live(q)
          <6>1. MayStart /\ ~InWindow
            BY <2>2, <4>2, <5>4 DEF CheckState, FieldsOK
          <6>2. \A q \in Procs : ~Owner(q)
            BY <3>2, <6>1 DEF MayStart, Flagged
          <6>3. QED
            BY <6>1, <6>2 DEF InWindow, HandlerAt, MonitorAt, Owner, Live
        <5>5. \A q \in Procs : Owner(q)' <=> Owner(q)
          BY <4>1, <5>1, <5>3 DEF Owner
        <5>6. Solo'
          BY <3>2, <4>1, <5>1, <5>2, <5>3, <5>4 DEF Solo, Live
        <5>7. QED
          BY <3>2, <4>1, <5>1, <5>2, <5>3, <5>5, <5>6 DEF Flagged, Named
      <4>3. CASE Popen(p) \/ Assign(p) \/ SetState(p) \/ SpawnMonitor(p) \/ Monitor(p)
        <5>1. Live(p)
          BY <4>3 DEF Popen, Assign, SetState, SpawnMonitor, Monitor, MonitorWait, MonitorState,
             MonitorClear, Live
        <5>2. \A q \in Procs : q # p => ~Live(q)
          BY <3>2, <5>1 DEF Solo
        <5>3. \A q \in Procs : q # p => ~Live(q)'
          BY <4>1, <5>2 DEF Live
        <5>4. Solo'
          BY <5>3 DEF Solo
        <5>5. Flagged'
          <6>1. \A q \in Procs : Owner(q)' => q = p
            BY <5>3 DEF Live, Owner
          <6>2. Owner(p)' => capturing'
            BY <3>2, <4>3 DEF Popen, Assign, SetState, SpawnMonitor, Monitor, MonitorWait,
               MonitorState, MonitorClear, la_state, Owner, Flagged, FieldsOK, Numbered
          <6>3. QED
            BY <6>1, <6>2 DEF Flagged
        <5>6. Named'
          <6>1. \/ Assign(p) /\ la_process' = p
                \/ MonitorClear(p) /\ hpc'[p] = "done" /\ mpc'[p] = "done"
                \/ Popen(p) /\ hpc'[p] \in {"assign", "done"} /\ mpc'[p] = "none"
                \/ /\ la_process' = la_process
                   /\ hpc[p] \in {"state", "monitor"} \/ mpc[p] \in {"wait", "state", "clear"}
            BY <4>3 DEF Popen, Assign, SetState, SpawnMonitor, Monitor, MonitorWait,
               MonitorState, MonitorClear, FieldsOK, Numbered
          <6>2. hpc'[p] \in {"state", "monitor"} \/ mpc'[p] \in {"wait", "state", "clear"} => la_process' = p
            BY <3>2, <6>1 DEF Named
          <6>3. QED
            BY <5>3, <6>2 DEF Named, Live
        <5>7. QED
          BY <5>4, <5>5, <5>6
      <4>4. QED
        BY <3>5, <4>2, <4>3 DEF Handler
    <3>6. CASE UNCHANGED vars
      BY <3>2, <3>6 DEF vars, la_state, threads, Solo, Flagged, Named, Live, Owner
    <3>7. QED
      BY <3>3, <3>4, <3>5, <3>6 DEF Next
  <2>3. QED
    BY <2>1, <2>2 DEF CaptureInv
<1>3. QED
  BY <1>1, <1>2, TypesHold, PTL DEF Spec

\* One sigrok process at a time, unless starts overlap or a scan abandons a capture.
THEOREM OneProcess == Spec => []OneCapture
<1>1. CaptureInv => OneCapture
  <2> SUFFICES ASSUME CaptureInv, ~overlapped, ~abandoned PROVE Cardinality(Running) <= 1
    BY DEF OneCapture
  <2>1. \A p, q \in Running : p = q
    BY DEF CaptureInv, Solo, Live, Placed, Running
  <2>2. CASE Running = {}
    BY <2>2, FS_EmptySet
  <2>3. ASSUME NEW p \in Running PROVE Cardinality(Running) <= 1
    <3>1. Running = {p}
      BY <2>1, <2>3
    <3>2. QED
      BY <3>1, FS_Singleton
  <2>4. QED
    BY <2>2, <2>3
<1>2. QED
  BY <1>1, OneIsLive, PTL

\* A stop request reaches the capture that runs, under the same conditions.
THEOREM StopReaches == Spec => []Stoppable
<1>1. CaptureInv => Stoppable
  BY DEF CaptureInv, Placed, Named, Running, Stoppable
<1>2. QED
  BY <1>1, OneIsLive, PTL
=============================================================================
