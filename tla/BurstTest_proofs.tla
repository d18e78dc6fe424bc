--------------------------- MODULE BurstTest_proofs ---------------------------
(* Theorems about the burst test, for any number of requests, triggers and *)
(* wakes.                                                                  *)
EXTENDS BurstTest, FiniteSetTheorems, TLAPS

\* What the types need of the constants.
LEMMA Bounds == MaxBursts \in Nat /\ Count \in Nat /\ MaxWakes \in Nat
  BY BurstAssumption DEF BurstAssumption

-----------------------------------------------------------------------------
(* The threads and their triggers.                                         *)

\* A burst that has been let through and has not finished, a dead one included.
Live == {"spawn", "died"} \cup Threads

\* Where a thread is in its loop: how many triggers it has tried to send, and that
\* the last cycle is not begun twice.
CyclesOK ==
    \A b \in Bursts :
        /\ bpc[b] \in {"none", "check", "spawn", "init"} => i[b] = 0 /\ sends[b] = 0
        /\ b > starts => bpc[b] = "none"
        /\ bpc[b] \in {"idle", "pause", "send", "wait"} => i[b] < Count
        /\ sends[b] = IF bpc[b] = "wait" THEN i[b] + 1 ELSE i[b]

\* The triggers that have been sent, each by its burst and its number in it.
Sent == {s \in Bursts \X (1 .. Count) : s[2] <= sends[s[1]]}

\* The counters never run ahead of the triggers of all bursts.
CountersOK ==
    /\ completed \in Nat /\ errors \in Nat
    /\ completed + errors <= Cardinality(Sent)

\* What has a type of its own.
FlagsOK ==
    /\ running \in BOOLEAN /\ stop \in BOOLEAN
    /\ timely \in BOOLEAN /\ overlapped \in BOOLEAN

FieldsOK ==
    /\ device \in [active : BOOLEAN, wake_count : 0 .. MaxWakes]
    /\ bpc \in [Bursts -> {"none", "done", "died"} \cup Requested \cup Threads]
    /\ i \in [Bursts -> 0 .. Count] /\ before \in [Bursts -> 0 .. MaxWakes]
    /\ sends \in [Bursts -> 0 .. Count]
    /\ interval \in [Bursts -> Intervals]
    /\ starts \in 0 .. MaxBursts /\ asked \subseteq Bursts

TypeInv == FlagsOK /\ FieldsOK /\ CyclesOK /\ CountersOK

\* A trigger is a pair of a burst and a number, and there are Count for each burst.
LEMMA SentIsFinite ==
    ASSUME FieldsOK
    PROVE  IsFiniteSet(Sent) /\ Cardinality(Sent) \in Nat /\ Cardinality(Sent) <= Count * MaxBursts
<1>1. /\ IsFiniteSet(Bursts) /\ Cardinality(Bursts) = MaxBursts
      /\ IsFiniteSet(1 .. Count) /\ Cardinality(1 .. Count) = Count
  BY Bounds, FS_Interval DEF Bursts
<1>2. /\ IsFiniteSet(Bursts \X (1 .. Count))
      /\ Cardinality(Bursts \X (1 .. Count)) = MaxBursts * Count
  BY <1>1, FS_Product
<1>3. Sent \in SUBSET (Bursts \X (1 .. Count))
  BY DEF Sent
<1>4. IsFiniteSet(Sent) /\ Cardinality(Sent) <= MaxBursts * Count
  BY <1>2, <1>3, FS_Subset
<1>5. MaxBursts * Count = Count * MaxBursts
  BY Bounds
<1>6. QED
  BY <1>4, <1>5, FS_CardinalityType

\* One more trigger of a burst is one more trigger of all.
LEMMA SentGrows ==
    ASSUME FieldsOK, NEW b \in Bursts, sends[b] < Count,
           sends' = [sends EXCEPT ![b] = @ + 1]
    PROVE  Cardinality(Sent') = Cardinality(Sent) + 1
<1> DEFINE new == <<b, sends[b] + 1>>
<1>1. sends[b] \in 0 .. Count /\ sends[b] + 1 \in 1 .. Count
  BY Bounds DEF FieldsOK
<1>2. new \in Bursts \X (1 .. Count) /\ new \notin Sent
  BY <1>1, Bounds DEF Sent
<1>3. ASSUME NEW s \in Bursts \X (1 .. Count)
      PROVE  s \in Sent' <=> s \in Sent \/ s = new
  <2>1. PICK c \in Bursts, n \in 1 .. Count : s = <<c, n>>
    BY <1>3
  <2>2. s \in Sent' <=> n <= sends'[c]
    BY <2>1 DEF Sent
  <2>3. s \in Sent <=> n <= sends[c]
    BY <2>1 DEF Sent
  <2>4. CASE c = b
    <3>1. sends'[c] = sends[b] + 1
      BY <2>4 DEF FieldsOK
    <3>2. n <= sends[b] + 1 <=> n <= sends[b] \/ n = sends[b] + 1
      BY <1>1, Bounds
    <3>3. QED
      BY <2>1, <2>2, <2>3, <2>4, <3>1, <3>2
  <2>5. CASE c # b
    <3>1. sends'[c] = sends[c] /\ s # new
      BY <2>1, <2>5 DEF FieldsOK
    <3>2. QED
      BY <2>2, <2>3, <3>1
  <2>6. QED
    BY <2>4, <2>5
<1>4. Sent' = Sent \cup {new}
  <2>1. Sent' \subseteq Bursts \X (1 .. Count) /\ Sent \subseteq Bursts \X (1 .. Count)
    BY DEF Sent
  <2>2. QED
    BY <1>2, <1>3, <2>1
<1>5. QED
  BY <1>2, <1>4, SentIsFinite, FS_AddElement

\* The fields keep their types and no cycle is counted twice.
LEMMA TypesHold == Spec => []TypeInv
<1>1. Init => TypeInv
  <2> SUFFICES ASSUME Init PROVE TypeInv
    OBVIOUS
  <2>1. FieldsOK
    BY Bounds DEF Init, FieldsOK, Requested, Threads, Intervals
  <2>2. CyclesOK
    BY DEF Init, CyclesOK
  <2>3. CountersOK
    BY <2>1, SentIsFinite DEF Init, CountersOK
  <2>4. FlagsOK
    BY DEF Init, FlagsOK
  <2>5. QED
    BY <2>1, <2>2, <2>3, <2>4 DEF TypeInv
<1>2. TypeInv /\ [Next]_vars => TypeInv'
  <2> SUFFICES ASSUME FlagsOK, FieldsOK, CyclesOK, CountersOK, [Next]_vars PROVE TypeInv'
    BY DEF TypeInv
  <2>1. FlagsOK'
    <3>1. CASE DeviceRises \/ DeviceFalls \/ Request \/ UNCHANGED vars
      <4>1. UNCHANGED <<running, stop, timely, overlapped>>
        BY <3>1 DEF DeviceRises, DeviceFalls, Request, shared, env, vars
      <4>2. QED
        BY <4>1 DEF FlagsOK
    <3>2. CASE StopRequest
      <4>1. UNCHANGED <<running, timely, overlapped>> /\ stop' = TRUE
        BY <3>2 DEF StopRequest, env
      <4>2. QED
        BY <4>1 DEF FlagsOK
    <3>3. ASSUME NEW b \in Bursts, Handler(b) PROVE FlagsOK'
      <4>1. UNCHANGED <<running, timely>> /\ stop' \in {stop, FALSE}
        BY <3>3 DEF Handler, CheckRunning, BadRequest, Spawn, shared, env
      <4>2. overlapped' = overlapped \/ overlapped' = (overlapped \/ InWindow)
        BY <3>3 DEF Handler, CheckRunning, BadRequest, Spawn
      <4>3. overlapped' \in BOOLEAN
        BY <4>2 DEF FlagsOK, InWindow
      <4>4. QED
        BY <4>1, <4>3 DEF FlagsOK
    <3>4. ASSUME NEW b \in Bursts, Thread(b) PROVE FlagsOK'
      <4>1. UNCHANGED <<timely, overlapped>>
        BY <3>4 DEF Thread, Begin, Loop, WaitIdle, Pause, SendTrigger, WaitWake, Leave,
               ClearStop, env
      <4>2. running' \in {running, TRUE, FALSE}
        BY <3>4 DEF Thread, Begin, Loop, WaitIdle, Pause, SendTrigger, WaitWake, Leave,
               ClearStop, shared
      <4>3. stop' \in {stop, FALSE}
        BY <3>4 DEF Thread, Begin, Loop, WaitIdle, Pause, SendTrigger, WaitWake, Leave,
               ClearStop, shared
      <4>4. QED
        BY <4>1, <4>2, <4>3 DEF FlagsOK
    <3>5. QED
      BY <3>1, <3>2, <3>3, <3>4 DEF Next
  <2> USE Bounds, <2>1
  <2>2. ASSUME sends' = sends, completed' = completed, errors' = errors PROVE CountersOK'
    BY <2>2 DEF CountersOK, Sent
  <2>3. CASE DeviceRises \/ DeviceFalls \/ StopRequest
    <3>1. FieldsOK'
      <4>1. CASE DeviceRises
        BY <4>1 DEF DeviceRises, FieldsOK, shared, local, env
      <4>2. CASE DeviceFalls
        <5>1. device' \in [active : BOOLEAN, wake_count : 0 .. MaxWakes]
          <6>1. device = [active |-> device.active, wake_count |-> device.wake_count]
            BY DEF FieldsOK
          <6>2. \/ device' = [active |-> FALSE, wake_count |-> device.wake_count]
                \/ /\ device.wake_count < MaxWakes
                   /\ device' = [active |-> FALSE, wake_count |-> device.wake_count + 1]
            BY <4>2, <6>1 DEF DeviceFalls
          <6>3. device.wake_count \in 0 .. MaxWakes
            BY DEF FieldsOK
          <6>4. \E n \in 0 .. MaxWakes : device' = [active |-> FALSE, wake_count |-> n]
            BY <6>2, <6>3
          <6>5. QED
            BY <6>4
        <5>2. QED
          BY <4>2, <5>1 DEF DeviceFalls, FieldsOK, shared, local, env
      <4>3. CASE StopRequest
        BY <4>3 DEF StopRequest, FieldsOK, local, env, InState
      <4>4. QED
        BY <2>3, <4>1, <4>2, <4>3
    <3>2. UNCHANGED <<completed, errors, local, starts>>
      BY <2>3 DEF DeviceRises, DeviceFalls, StopRequest, shared, env
    <3>3. QED
      BY <2>2, <3>1, <3>2 DEF local, CyclesOK, TypeInv
  <2>4. CASE Request
    <3>1. starts + 1 \in Bursts /\ starts + 1 <= MaxBursts
      BY <2>4 DEF Request, Bursts, FieldsOK
    <3>2. FieldsOK'
      BY <2>4, <3>1 DEF Request, GoTo, FieldsOK, Requested, shared
    <3>3. UNCHANGED <<completed, errors, i, sends>> /\ starts' = starts + 1
      BY <2>4 DEF Request, shared
    <3>4. bpc' = [bpc EXCEPT ![starts + 1] = "check"] /\ bpc[starts + 1] = "none"
      BY <2>4, <3>1 DEF Request, GoTo, CyclesOK, Bursts, FieldsOK
    <3>5. CyclesOK'
      BY <3>1, <3>3, <3>4 DEF CyclesOK, Bursts, FieldsOK
    <3>6. QED
      BY <2>2, <3>2, <3>3, <3>5 DEF TypeInv
  <2>5. ASSUME NEW b \in Bursts, Handler(b) \/ Thread(b) PROVE TypeInv'
    <3> USE DEF GoTo
    <3>1. i[b] \in 0 .. Count /\ sends[b] \in 0 .. Count /\ device.wake_count \in 0 .. MaxWakes
      BY DEF FieldsOK
    <3>2. CASE \/ CheckRunning(b) \/ BadRequest(b) \/ Spawn(b) \/ Loop(b) \/ WaitIdle(b)
               \/ Leave(b) \/ ClearStop(b)
      <4>1. UNCHANGED <<completed, errors, i, before, sends, starts, timely, device, asked>>
        BY <3>2 DEF CheckRunning, BadRequest, Spawn, Loop, WaitIdle, Leave, ClearStop, shared, env
      <4>2. interval' = interval \/ \E kind \in Intervals : interval' = [interval EXCEPT ![b] = kind]
        BY <3>2 DEF CheckRunning, BadRequest, Spawn, Loop, WaitIdle, Leave, ClearStop, env
      <4>3. interval' \in [Bursts -> Intervals]
        BY <4>2 DEF FieldsOK
      <4>4. \E w \in {"spawn", "done", "init", "idle", "end", "pause", "clear"} :
                /\ bpc' = [bpc EXCEPT ![b] = w]
                /\ w = "idle" => i[b] < Count
                /\ w = "pause" => bpc[b] = "idle"
                /\ w = "init" => bpc[b] = "spawn"
                /\ w = "spawn" => bpc[b] = "check"
        BY <3>2 DEF CheckRunning, BadRequest, Spawn, Loop, Cycle, WaitIdle, Leave, ClearStop
      <4>5. bpc[b] # "none" /\ bpc[b] # "wait"
        BY <3>2 DEF CheckRunning, BadRequest, Spawn, Loop, WaitIdle, Leave, ClearStop
      <4>6. FieldsOK'
        BY <4>1, <4>3, <4>4 DEF FieldsOK, Requested, Threads
      <4>7. CyclesOK'
        BY <3>1, <4>1, <4>4, <4>5 DEF FieldsOK, CyclesOK
      <4>8. QED
        BY <2>2, <4>1, <4>6, <4>7 DEF TypeInv
    <3>3. CASE Begin(b)
      <4>1. FieldsOK'
        BY <3>3 DEF Begin, FieldsOK, Threads, env
      <4>2. CyclesOK'
        BY <3>3 DEF Begin, FieldsOK, CyclesOK, env
      <4>3. CountersOK'
        BY <3>3, <4>1, SentIsFinite DEF Begin, CountersOK, Sent
      <4>4. QED
        BY <4>1, <4>2, <4>3 DEF TypeInv
    <3>4. CASE Pause(b)
      <4>1. /\ bpc[b] = "pause" /\ UNCHANGED <<completed, errors, device, i, sends, env, asked>>
            /\ \E w \in {"send", "end", "died"} : bpc' = [bpc EXCEPT ![b] = w]
        BY <3>4 DEF Pause, shared
      <4>2. before' = before \/ before' = [before EXCEPT ![b] = device.wake_count]
        BY <3>4 DEF Pause
      <4>3. before' \in [Bursts -> 0 .. MaxWakes]
        BY <3>1, <4>2 DEF FieldsOK
      <4>4. FieldsOK'
        BY <4>1, <4>3 DEF FieldsOK, Threads, env
      <4>5. CyclesOK'
        BY <4>1 DEF FieldsOK, CyclesOK, env
      <4>6. QED
        BY <2>2, <4>1, <4>4, <4>5 DEF TypeInv
    <3>5. CASE SendTrigger(b)
      <4>1. sends[b] = i[b] /\ i[b] < Count /\ sends[b] + 1 \in 0 .. Count
        BY <3>1, <3>5 DEF SendTrigger, CyclesOK
      <4>2. FieldsOK'
        BY <3>5, <4>1 DEF SendTrigger, FieldsOK, Threads, env
      <4>3. CyclesOK'
        BY <3>5, <4>1 DEF SendTrigger, FieldsOK, CyclesOK, env
      <4>4. Cardinality(Sent') = Cardinality(Sent) + 1 /\ Cardinality(Sent) \in Nat
        BY <3>5, <4>1, SentGrows, SentIsFinite DEF SendTrigger
      <4>5. completed \in Nat /\ errors \in Nat /\ completed + errors <= Cardinality(Sent)
        BY DEF CountersOK
      <4>6. completed' \in Nat /\ errors' \in Nat /\ completed' + errors' = completed + errors + 1
        BY <3>5, <4>5 DEF SendTrigger
      <4>7. CountersOK'
        <5> DEFINE n == Cardinality(Sent)
                   total == completed + errors
        <5>1. n \in Nat /\ n' = n + 1
          BY <4>4
        <5>2. total \in Nat /\ total <= n
          BY <4>5
        <5>3. total' = total + 1
          BY <4>6
        <5> HIDE DEF n, total
        <5>4. total' <= n'
          BY <5>1, <5>2, <5>3
        <5>5. QED
          BY <4>6, <5>4 DEF CountersOK, n, total
      <4>8. QED
        BY <4>2, <4>3, <4>7 DEF TypeInv
    <3>6. CASE WaitWake(b)
      <4>1. i[b] < Count /\ i[b] + 1 \in 0 .. Count
        BY <3>1, <3>6 DEF WaitWake, CyclesOK
      <4>2. FieldsOK'
        BY <3>6, <4>1 DEF WaitWake, FieldsOK, Threads, env, shared
      <4>3. CyclesOK'
        BY <3>6, <3>1, <4>1 DEF WaitWake, FieldsOK, CyclesOK, env
      <4>4. QED
        BY <2>2, <3>6, <4>2, <4>3 DEF WaitWake, shared, TypeInv
    <3>7. QED
      BY <2>5, <3>2, <3>3, <3>4, <3>5, <3>6 DEF Handler, Thread
  <2>6. CASE UNCHANGED vars
    BY <2>6 DEF vars, shared, local, env, FieldsOK, CyclesOK, CountersOK, Sent, TypeInv
  <2>7. QED
    BY <2>3, <2>4, <2>5, <2>6 DEF Next
<1>3. QED
  BY <1>1, <1>2, PTL DEF Spec

\* The types, with the counters bounded by the triggers there can be.
THEOREM TypeCorrect == Spec => []TypeOK
<1>1. TypeInv => TypeOK
  <2> SUFFICES ASSUME FlagsOK, FieldsOK, CountersOK PROVE TypeOK
    BY DEF TypeInv
  <2>1. completed <= Count * MaxBursts /\ errors <= Count * MaxBursts /\ Count * MaxBursts \in Nat
    BY Bounds, SentIsFinite DEF CountersOK
  <2>2. QED
    BY <2>1 DEF FlagsOK, FieldsOK, CountersOK, TypeOK
<1>2. QED
  BY <1>1, TypesHold, PTL
-----------------------------------------------------------------------------
(* One burst at a time.  Everything the properties say rests on the fact   *)
(* that no two bursts are live at once, unless starts have overlapped.     *)

\* One burst is under way.
Solo == \A b, c \in Bursts : bpc[b] \in Live /\ bpc[c] \in Live => b = c

\* `running' is set exactly between the first and the last lock region of a thread, or
\* after its death there.
Flagged == running <=> \E b \in Bursts : bpc[b] \in Shown

\* The counters are those of the burst that is shown.
Own == \A b \in Bursts : bpc[b] \in Shown => completed + errors = sends[b]

\* wc_before and the wakes since then bound the triggers that a burst has sent.
PacedBurst(b) ==
    /\ before[b] <= device.wake_count /\ sends[b] <= device.wake_count + 1
    /\ bpc[b] = "send" => sends[b] <= before[b]
    /\ bpc[b] = "wait" => sends[b] <= before[b] + 1
    /\ bpc[b] \in {"loop", "idle", "pause"} => stop \/ sends[b] <= device.wake_count

\* The same for every burst, as long as the device has answered in time.
Paced == timely => \A b \in Bursts : PacedBurst(b)

\* A burst that has been asked to stop still finds the event set.
Stopping ==
    \A b \in asked :
        /\ bpc[b] \notin {"none", "check", "spawn", "init"}
        /\ bpc[b] \in Looping => stop

\* All of it holds until two starts have overlapped.
BurstInv == ~overlapped => Solo /\ Flagged /\ Own /\ Paced /\ Stopping

\* An earlier overlap is never forgotten, and a burst that is let through without
\* one finds no other that is live.
LEMMA Alone ==
    ASSUME FieldsOK, BurstInv, ~overlapped', NEW b \in Bursts, CheckRunning(b)
    PROVE  bpc'[b] = "spawn" => \A c \in Bursts : bpc[c] \notin Live
<1> SUFFICES ASSUME bpc'[b] = "spawn", NEW c \in Bursts PROVE bpc[c] \notin Live
  OBVIOUS
<1>1. ~running /\ ~overlapped /\ ~InWindow
  BY DEF CheckRunning, GoTo, MayStart, FieldsOK
<1>2. bpc[c] \notin Shown
  BY <1>1 DEF BurstInv, Flagged
<1>3. bpc[c] \notin {"spawn", "init", "clear"}
  BY <1>1 DEF InWindow, InState
<1>4. QED
  BY <1>2, <1>3 DEF Shown, Live, Threads, Looping

\* However starts overlap, the flag is not left set by threads that have ended.
Backed == running => \E b \in Bursts : bpc[b] \in Shown

LEMMA FlagBacked == Spec => []Backed
<1>1. Init => Backed
  BY DEF Init, Backed
<1>2. FieldsOK /\ CyclesOK /\ Backed /\ [Next]_vars => Backed'
  <2> SUFFICES ASSUME FieldsOK, CyclesOK, Backed, [Next]_vars, running'
               PROVE  \E b \in Bursts : bpc'[b] \in Shown
    BY DEF Backed
  <2>1. CASE DeviceRises \/ DeviceFalls \/ StopRequest \/ UNCHANGED vars
    <3>1. UNCHANGED <<running, bpc>>
      BY <2>1 DEF DeviceRises, DeviceFalls, StopRequest, shared, local, vars
    <3>2. QED
      BY <3>1 DEF Backed
  <2>2. CASE Request
    <3>1. running' = running /\ bpc' = [bpc EXCEPT ![starts + 1] = "check"]
      BY <2>2 DEF Request, shared, GoTo
    <3>2. starts + 1 \in Bursts /\ bpc[starts + 1] = "none"
      BY <2>2, Bounds DEF Request, Bursts, FieldsOK, CyclesOK
    <3>3. \A c \in Bursts : c # starts + 1 => bpc'[c] = bpc[c]
      BY <3>1 DEF FieldsOK
    <3>4. QED
      BY <3>1, <3>2, <3>3 DEF Backed, Shown, Looping
  <2>3. ASSUME NEW b \in Bursts, Handler(b)
        PROVE  \E c \in Bursts : bpc'[c] \in Shown
    <3>1. running' = running /\ bpc[b] \in {"check", "spawn"}
      BY <2>3 DEF Handler, CheckRunning, BadRequest, Spawn, shared
    <3>2. \A c \in Bursts : c # b => bpc'[c] = bpc[c]
      BY <2>3 DEF Handler, CheckRunning, BadRequest, Spawn, GoTo, FieldsOK
    <3>3. QED
      BY <3>1, <3>2 DEF Backed, Shown, Looping
  <2>4. ASSUME NEW b \in Bursts, Thread(b)
        PROVE  \E c \in Bursts : bpc'[c] \in Shown
    <3>1. \A c \in Bursts : c # b => bpc'[c] = bpc[c]
      BY <2>4 DEF Thread, Begin, Loop, WaitIdle, Pause, SendTrigger, WaitWake, Leave,
             ClearStop, GoTo, FieldsOK
    <3>2. ~Leave(b)
      BY DEF Leave
    <3>3. CASE ClearStop(b)
      <4>1. running' = running /\ bpc[b] = "clear"
        BY <3>3 DEF ClearStop
      <4>2. QED
        BY <3>1, <4>1 DEF Backed, Shown, Looping
    <3>4. CASE Begin(b) \/ Loop(b) \/ WaitIdle(b) \/ Pause(b) \/ SendTrigger(b) \/ WaitWake(b)
      <4>1. bpc'[b] \in {"loop", "idle", "pause", "send", "wait", "end", "died"}
        BY <3>4 DEF Begin, Loop, WaitIdle, Pause, SendTrigger, WaitWake, GoTo, FieldsOK
      <4>2. QED
        BY <4>1 DEF Shown, Looping
    <3>5. QED
      BY <2>4, <3>2, <3>3, <3>4 DEF Thread
  <2>5. QED
    BY <2>1, <2>2, <2>3, <2>4 DEF Next
<1>3. QED
  BY <1>1, <1>2, TypesHold, PTL DEF Spec, TypeInv

\* The five facts hold together.
LEMMA BurstsApart == Spec => []BurstInv
<1>1. Init => BurstInv
  BY Bounds DEF Init, BurstInv, Solo, Flagged, Own, Paced, PacedBurst, Stopping, Live, Shown, Threads, Looping
<1>2. TypeInv /\ BurstInv /\ [Next]_vars => BurstInv'
  <2> SUFFICES ASSUME FlagsOK, FieldsOK, CyclesOK, CountersOK, BurstInv, [Next]_vars, ~overlapped'
               PROVE  Solo' /\ Flagged' /\ Own' /\ Paced' /\ Stopping'
    BY DEF TypeInv, BurstInv
  <2>1. ~overlapped
    BY DEF FlagsOK, Next, DeviceRises, DeviceFalls, Request, StopRequest, Handler, Thread,
           CheckRunning, BadRequest, Spawn, Begin, Loop, WaitIdle, Pause, SendTrigger, WaitWake, Leave,
           ClearStop, shared, local, env, vars
  <2>2. Solo /\ Flagged /\ Own /\ Paced /\ Stopping
    BY <2>1 DEF BurstInv
  <2>3. CASE DeviceRises \/ DeviceFalls
    <3>1. UNCHANGED <<shared, local, env, asked>>
      BY <2>3 DEF DeviceRises, DeviceFalls
    <3>2. device.wake_count \in Nat /\ device'.wake_count \in Nat /\ device.wake_count <= device'.wake_count
      BY <2>3, Bounds DEF DeviceRises, DeviceFalls, FieldsOK
    <3>3. Solo' /\ Flagged' /\ Own' /\ Stopping'
      BY <2>2, <3>1 DEF shared, local, env, Solo, Flagged, Own, Stopping
    <3>4. Paced'
      BY <2>2, <3>1, <3>2, Bounds DEF shared, local, env, Paced, PacedBurst, FieldsOK
    <3>5. QED
      BY <3>3, <3>4
  <2>4. CASE StopRequest
    BY <2>2, <2>4 DEF StopRequest, local, env, InState, Solo, Flagged, Own, Paced, PacedBurst, Stopping, Looping
  <2>5. CASE Request
    <3>1. starts + 1 \in Bursts /\ bpc[starts + 1] = "none"
      BY <2>5, Bounds DEF Request, Bursts, FieldsOK, CyclesOK
    <3>2. bpc' = [bpc EXCEPT ![starts + 1] = "check"] /\ UNCHANGED <<shared, device, i, before, sends, timely, asked>>
      BY <2>5 DEF Request, GoTo
    <3>3. QED
      BY <2>2, <3>1, <3>2 DEF shared, FieldsOK, Solo, Flagged, Own, Paced, PacedBurst, Stopping, Live, Shown, Threads, Looping
  <2>6. ASSUME NEW b \in Bursts, CheckRunning(b) PROVE Solo' /\ Flagged' /\ Own' /\ Paced' /\ Stopping'
    <3>1. UNCHANGED <<running, completed, errors, stop, device, before, sends, timely, asked>>
      BY <2>6 DEF CheckRunning, shared, env
    <3>2. \E w \in {"spawn", "done"} : bpc' = [bpc EXCEPT ![b] = w]
      BY <2>6 DEF CheckRunning, GoTo
    <3>3. bpc[b] = "check" /\ (bpc'[b] = "spawn" => \A c \in Bursts : bpc[c] \notin Live)
      BY <2>6, Alone DEF CheckRunning
    <3>4. QED
      BY <2>2, <3>1, <3>2, <3>3 DEF FieldsOK, Solo, Flagged, Own, Paced, PacedBurst, Stopping, Live, Shown, Threads, Looping
  <2>7. ASSUME NEW b \in Bursts, BadRequest(b) \/ Spawn(b) \/ Thread(b)
        PROVE  Solo' /\ Flagged' /\ Own' /\ Paced' /\ Stopping'
    <3>1. /\ \E w \in Threads \cup {"done", "died"} : bpc' = [bpc EXCEPT ![b] = w]
          /\ bpc[b] \in Live
      BY <2>7 DEF BadRequest, Spawn, Thread, Begin, Loop, WaitIdle, Pause, SendTrigger, WaitWake, Leave,
           ClearStop, GoTo, Threads, Live
    <3>2. Solo'
      BY <2>2, <3>1 DEF Solo, FieldsOK, Live, Threads
    <3>3. \A c \in Bursts : c # b => bpc[c] \notin Live /\ bpc'[c] = bpc[c]
      BY <2>2, <3>1 DEF Solo, FieldsOK
    <3>4. /\ device.wake_count \in Nat /\ before[b] \in Nat /\ sends[b] \in Nat /\ i[b] \in Nat
          /\ completed \in Nat /\ errors \in Nat
      BY Bounds DEF FieldsOK, CountersOK
    <3>5. CASE BadRequest(b) \/ Spawn(b)
      <4>1. bpc[b] = "spawn" /\ bpc'[b] \in {"init", "done"}
        BY <3>5 DEF BadRequest, Spawn, GoTo, FieldsOK
      <4>2. UNCHANGED <<running, completed, errors, device, before, sends, timely, asked>>
        BY <3>5 DEF BadRequest, Spawn, shared, env
      <4>3. QED
        BY <2>2, <3>2, <3>3, <4>1, <4>2
           DEF Flagged, Own, Paced, PacedBurst, Stopping, Live, Shown, Threads, Looping, FieldsOK
    <3>6. CASE Begin(b)
      <4>1. bpc[b] = "init" /\ bpc'[b] = "loop" /\ sends[b] = 0
        BY <3>6 DEF Begin, GoTo, FieldsOK, CyclesOK
      <4>2. /\ running' = TRUE /\ completed' = 0 /\ errors' = 0
            /\ UNCHANGED <<stop, device, before, sends, timely, asked>>
        BY <3>6 DEF Begin, env
      <4>3. Flagged'
        BY <3>3, <4>1, <4>2 DEF Flagged, Shown, Looping
      <4>4. Own'
        BY <3>3, <4>1, <4>2 DEF Own, Shown, Live, Threads, Looping
      <4>5. Stopping'
        <5>1. b \notin asked
          BY <2>2, <4>1 DEF Stopping
        <5>2. \A c \in asked : bpc'[c] = bpc[c]
          BY <3>3, <5>1 DEF FieldsOK
        <5>3. QED
          BY <2>2, <4>2, <5>2 DEF Stopping
      <4>6. Paced'
        BY <2>2, <3>3, <3>4, <4>1, <4>2 DEF Paced, PacedBurst, Live, Threads, FieldsOK
      <4>7. QED
        BY <3>2, <4>3, <4>4, <4>5, <4>6
    <3>7. CASE Loop(b) \/ WaitIdle(b)
      <4>1. /\ bpc[b] \in {"loop", "idle"} /\ bpc'[b] \in {"idle", "pause", "end"}
            /\ bpc'[b] # "end" => ~stop
        BY <3>7 DEF Loop, Cycle, WaitIdle, GoTo, FieldsOK
      <4>2. UNCHANGED <<running, completed, errors, stop, device, before, sends, timely, asked>>
        BY <3>7 DEF Loop, WaitIdle, shared, env
      <4>3. QED
        BY <2>2, <3>2, <3>3, <4>1, <4>2
           DEF Flagged, Own, Paced, PacedBurst, Stopping, Live, Shown, Threads, Looping, FieldsOK
    <3>8. CASE Pause(b)
      <4>1. /\ bpc[b] = "pause" /\ bpc'[b] \in {"send", "end", "died"}
            /\ before'[b] \in {before[b], device.wake_count}
            /\ bpc'[b] = "send" => ~stop /\ before'[b] = device.wake_count
            /\ \A c \in Bursts : c # b => before'[c] = before[c]
        BY <3>8 DEF Pause, GoTo, FieldsOK
      <4>2. UNCHANGED <<running, completed, errors, stop, device, sends, timely, asked>>
        BY <3>8 DEF Pause, shared, env
      <4>3. QED
        BY <2>2, <3>2, <3>3, <3>4, <4>1, <4>2
           DEF Flagged, Own, Paced, PacedBurst, Stopping, Live, Shown, Threads, Looping, FieldsOK
    <3>9. CASE SendTrigger(b)
      <4>1. /\ bpc[b] = "send" /\ bpc'[b] = "wait" /\ sends'[b] = sends[b] + 1
            /\ \A c \in Bursts : c # b => sends'[c] = sends[c]
        BY <3>9 DEF SendTrigger, GoTo, FieldsOK
      <4>2. /\ UNCHANGED <<running, stop, device, before, timely, asked>>
            /\ completed' + errors' = completed + errors + 1
        BY <3>4, <3>9 DEF SendTrigger, env
      <4>3. Flagged' /\ Own' /\ Stopping'
        BY <2>2, <3>2, <3>3, <3>4, <4>1, <4>2
           DEF Flagged, Own, Stopping, Live, Shown, Threads, Looping, FieldsOK
      <4>4. Paced'
        BY <2>2, <3>2, <3>3, <3>4, <4>1, <4>2, Bounds
           DEF Paced, PacedBurst, Live, Threads, FieldsOK
      <4>5. QED
        BY <3>2, <4>3, <4>4
    <3>10. CASE WaitWake(b)
      <4>1. /\ bpc[b] = "wait" /\ bpc'[b] = "loop"
            /\ stop \/ ~timely \/ device.wake_count > before[b]
        BY <3>10 DEF WaitWake, WakeSeen, TimesOut, GoTo, FieldsOK
      <4>2. UNCHANGED <<running, completed, errors, stop, device, before, sends, timely, asked>>
        BY <3>10 DEF WaitWake, shared, env
      <4>3. Flagged' /\ Own' /\ Stopping'
        BY <2>2, <3>2, <3>3, <4>1, <4>2
           DEF Flagged, Own, Stopping, Live, Shown, Threads, Looping, FieldsOK
      <4>4. Paced'
        BY <2>2, <3>2, <3>3, <3>4, <4>1, <4>2, Bounds
           DEF Paced, PacedBurst, Live, Threads, FieldsOK
      <4>5. QED
        BY <3>2, <4>3, <4>4
    <3>11. CASE Leave(b) \/ ClearStop(b)
      <4>1. /\ bpc[b] \in {"end", "clear"} /\ bpc'[b] \in {"clear", "done"}
            /\ running' = FALSE \/ (running' = running /\ bpc[b] = "clear")
        BY <3>11 DEF Leave, ClearStop, GoTo, FieldsOK
      <4>2. UNCHANGED <<completed, errors, device, before, sends, timely, asked>>
        BY <3>11 DEF Leave, ClearStop, env
      <4>3. QED
        BY <2>2, <3>2, <3>3, <4>1, <4>2
           DEF Flagged, Own, Paced, PacedBurst, Stopping, Live, Shown, Threads, Looping, FieldsOK
    <3>12. QED
      BY <2>7, <3>2, <3>5, <3>6, <3>7, <3>8, <3>9, <3>10, <3>11 DEF Thread
  <2>8. CASE UNCHANGED vars
    BY <2>2, <2>8 DEF vars, shared, local, env, Solo, Flagged, Own, Paced, PacedBurst, Stopping
  <2>9. QED
    BY <2>3, <2>4, <2>5, <2>6, <2>7, <2>8 DEF Next, Handler
<1>3. QED
  BY <1>1, <1>2, TypesHold, PTL DEF Spec

\* One burst at a time, and `running' is about that one, unless starts overlap; however
\* they overlap, it is left set by a thread that time.sleep has killed only.
THEOREM OneBurstAtATime == Spec => []Consistent
<1>1. Backed /\ BurstInv => FlagTracksThread
  BY DEF Backed, BurstInv, Flagged, FlagTracksThread, InState
<1>2. BurstInv => OneBurst
  <2> SUFFICES ASSUME BurstInv, ~overlapped PROVE Cardinality(InState(Shown)) <= 1
    BY DEF OneBurst
  <2>1. \A b, c \in InState(Shown) : b = c
    BY DEF BurstInv, Solo, InState, Live, Threads, Shown, Looping
  <2>2. CASE InState(Shown) = {}
    BY <2>2, FS_EmptySet
  <2>3. ASSUME NEW b \in InState(Shown) PROVE Cardinality(InState(Shown)) <= 1
    <3>1. InState(Shown) = {b}
      BY <2>1, <2>3
    <3>2. Cardinality({b}) = 1
      BY FS_Singleton
    <3>3. Cardinality(InState(Shown)) = 1
      BY <3>1, <3>2
    <3>4. QED
      BY <3>3
  <2>4. QED
    BY <2>2, <2>3
<1>3. QED
  BY <1>1, <1>2, TypeCorrect, BurstsApart, FlagBacked, PTL DEF Consistent

\* The counters that the dashboard shows are the triggers of the burst it shows.
THEOREM CountersAreOwn == Spec => []ReportsOwnSends
<1>1. BurstInv => ReportsOwnSends
  BY DEF BurstInv, Own, ReportsOwnSends, InState
<1>2. QED
  BY <1>1, BurstsApart, PTL

\* With a device that answers in time, a burst is never more than one trigger ahead
\* of the wakes.
THEOREM WakesPace == Spec => []PacedByWakes
<1>1. BurstInv => PacedByWakes
  BY DEF BurstInv, Paced, PacedBurst, PacedByWakes
<1>2. QED
  BY <1>1, BurstsApart, PTL

\* A burst that has been asked to stop begins no further cycle.
THEOREM StopIsHonoured == Spec => StopHonoured
<1>1. FieldsOK /\ BurstInv /\ [Next]_vars => [~overlapped => \A b \in asked : ~BeginsCycle(b)]_vars
  <2> SUFFICES ASSUME FieldsOK, BurstInv, Next, ~overlapped, NEW b \in asked, BeginsCycle(b)
               PROVE  FALSE
    OBVIOUS
  <2>1. b \in Bursts /\ bpc[b] = "loop" /\ bpc'[b] = "idle"
    BY DEF FieldsOK, BeginsCycle
  <2>2. stop
    BY <2>1 DEF BurstInv, Stopping, Looping
  <2>3. ~(DeviceRises \/ DeviceFalls \/ StopRequest)
    BY <2>1 DEF DeviceRises, DeviceFalls, StopRequest, local
  <2>4. ~Request
    BY <2>1 DEF Request, GoTo, FieldsOK
  <2>5. ASSUME NEW c \in Bursts, Handler(c) \/ Thread(c) PROVE c = b /\ Loop(b)
    BY <2>1, <2>5 DEF Handler, Thread, CheckRunning, BadRequest, Spawn, Begin, Loop, WaitIdle, Pause,
           SendTrigger, WaitWake, Leave, ClearStop, GoTo, FieldsOK
  <2>6. Loop(b)
    BY <2>3, <2>4, <2>5 DEF Next
  <2>7. QED
    BY <2>1, <2>2, <2>6 DEF Loop, Cycle, GoTo, FieldsOK
<1>2. QED
  BY <1>1, TypesHold, BurstsApart, PTL DEF Spec, StopHonoured, TypeInv
=============================================================================
