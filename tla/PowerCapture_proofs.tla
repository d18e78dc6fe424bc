------------------------ MODULE PowerCapture_proofs ------------------------
(* Theorems about the power capture manager, for any number of recorders    *)
(* and captures and every size of queue and file.                           *)
EXTENDS PowerCapture, FiniteSetTheorems, TLAPS

\* What the type invariant needs of the constants.
LEMMA Sizes ==
    MaxCaptures \in Nat /\ QueueSize \in Nat /\ QueueSize > 0 /\ 0 \in 0 .. MaxCaptures
  BY CaptureAssumption DEF CaptureAssumption

\* Captures are numbered from 1.
LEMMA CaptureIds == \A c \in Captures : c \in Nat /\ c > 0
  BY CaptureAssumption DEF CaptureAssumption, Captures

\* Every field keeps its type; in particular no queue exceeds its size.
THEOREM TypeCorrect == Spec => []TypeOK
<1>1. Init => TypeOK
  <2>1. Init => CountersOK
    BY Sizes DEF Sizes, Init, Idle, CountersOK, Captures
  <2>2. Init => ControlOK
    BY Sizes DEF Sizes, Init, Idle, ControlOK, Captures, WriterStates, Writing
  <2>3. Init => FlagsOK
    <3>1. Init => active \in BOOLEAN /\ expired \in BOOLEAN
      BY DEF Init, Idle
    <3>2. Init => stopEvent \in [Captures -> BOOLEAN]
      BY DEF Init
    <3>3. QED
      BY <3>1, <3>2 DEF FlagsOK
  <2>4. QED
    BY <2>1, <2>2, <2>3 DEF TypeOK
<1>2. TypeOK /\ [Next]_vars => CountersOK'
  <2> SUFFICES ASSUME CountersOK, ControlOK, [Next]_vars PROVE CountersOK'
    BY DEF TypeOK
  <2> USE DEF CountersOK
  <2>1. CASE Start
    BY <2>1, Sizes DEF Sizes, Start, queues, disk, recording
  <2>2. CASE Stop
    BY <2>2 DEF Stop, disk, recording
  <2>3. CASE Expire
    BY <2>3 DEF Expire, queues, disk, recording
  <2>4. CASE Restart
    BY <2>4 DEF Restart, queues, disk
  <2>5. ASSUME NEW r \in Recorders, Record(r) PROVE CountersOK'
    <3>1. CASE RecCheck(r)
      BY <3>1 DEF RecCheck, manager, queues, disk
    <3>2. CASE RecLock(r)
      BY <3>2 DEF RecLock, disk
    <3>3. CASE RecPut(r)
      <4>1. UNCHANGED <<current, rows, dropped, size, samples, file>>
        BY <3>3 DEF RecPut, manager, disk
      <4>2. q' \in [Captures -> 0 .. QueueSize]
        BY <3>3, Sizes DEF Sizes, RecPut, HasRoom
      <4>3. accepted' \in [Captures -> Nat]
        BY <3>3 DEF RecPut
      <4>4. QED
        BY <4>1, <4>2, <4>3
    <3>4. CASE RecDrop(r)
      BY <3>4 DEF RecDrop, queues, disk
    <3>5. QED
      BY <2>5, <3>1, <3>2, <3>3, <3>4 DEF Record
  <2>6. ASSUME NEW c \in Captures, Writer(c) PROVE CountersOK'
    <3>1. CASE WOpen(c) \/ WCheck(c) \/ WRename(c)
      BY <3>1 DEF WOpen, WCheck, WRename, manager, queues, disk, recording
    <3>2. CASE WGet(c)
      BY <3>2, Sizes DEF Sizes, WGet, manager, disk, recording
    <3>3. CASE WRow(c)
      BY <3>3 DEF WRow, manager, queues, recording
    <3>4. CASE WCount(c)
      BY <3>4 DEF WCount, queues, disk, recording
    <3>5. CASE WFlush(c)
      BY <3>5 DEF WFlush, disk, recording
    <3>6. CASE WClose(c)
      BY <3>6 DEF WClose, queues, disk, recording
    <3>7. CASE WFinish(c) \/ WFail(c)
      BY <3>7 DEF WFinish, WFail, queues, disk, recording
    <3>8. QED
      BY <2>6, <3>1, <3>2, <3>3, <3>4, <3>5, <3>6, <3>7 DEF Writer
  <2>7. CASE UNCHANGED vars
    BY <2>7 DEF vars, manager, queues, disk, recording
  <2>8. QED
    BY <2>1, <2>2, <2>3, <2>4, <2>5, <2>6, <2>7 DEF Next
<1>3. TypeOK /\ [Next]_vars => ControlOK'
  <2> SUFFICES ASSUME CountersOK, ControlOK, [Next]_vars PROVE ControlOK'
    BY DEF TypeOK
  <2> USE DEF ControlOK, WriterStates, Writing
  <2>1. CASE Start
    BY <2>1 DEF Start, queues, disk, recording
  <2>2. CASE Stop
    BY <2>2 DEF Stop, RequestStop, disk, recording
  <2>3. CASE Expire
    BY <2>3 DEF Expire, queues, disk, recording
  <2>4. CASE Restart
    <3>1. wpc' \in [Captures -> {"none", "done"}]
      BY <2>4 DEF Restart
    <3>2. rpc' \in [Recorders -> {"idle"}]
      BY <2>4 DEF Restart
    <3>3. rq' \in [Recorders -> 0 .. MaxCaptures]
      BY <2>4, Sizes DEF Sizes, Restart
    <3>4. QED
      BY <2>4, <3>1, <3>2, <3>3 DEF Restart, disk
  <2>5. ASSUME NEW r \in Recorders, Record(r) PROVE ControlOK'
    <3>1. CASE RecCheck(r)
      BY <3>1 DEF RecCheck, manager, queues, disk
    <3>2. CASE RecLock(r)
      BY <3>2 DEF RecLock, RequestStop, disk, CountersOK
    <3>3. CASE RecPut(r)
      BY <3>3 DEF RecPut, manager, disk
    <3>4. CASE RecDrop(r)
      BY <3>4 DEF RecDrop, queues, disk
    <3>5. QED
      BY <2>5, <3>1, <3>2, <3>3, <3>4 DEF Record
  <2>6. ASSUME NEW c \in Captures, Writer(c) PROVE ControlOK'
    <3>1. CASE WOpen(c) \/ WCheck(c) \/ WRename(c)
      BY <3>1 DEF WOpen, WCheck, WRename, GoTo, manager, queues, disk, recording
    <3>2. CASE WGet(c) \/ WRow(c) \/ WCount(c)
      BY <3>2 DEF WGet, WRow, WCount, GoTo, manager, queues, disk, recording
    <3>3. CASE WFlush(c)
      BY <3>3 DEF WFlush, GoTo, RequestStop, disk, recording
    <3>4. CASE WClose(c) \/ WFinish(c) \/ WFail(c)
      BY <3>4 DEF WClose, WFinish, WFail, GoTo, queues, disk, recording
    <3>5. QED
      BY <2>6, <3>1, <3>2, <3>3, <3>4 DEF Writer
  <2>7. CASE UNCHANGED vars
    BY <2>7 DEF vars, manager, queues, disk, recording
  <2>8. QED
    BY <2>1, <2>2, <2>3, <2>4, <2>5, <2>6, <2>7 DEF Next
<1>4. FlagsOK /\ [Next]_vars => FlagsOK'
  <2> SUFFICES ASSUME FlagsOK, [Next]_vars PROVE FlagsOK'
    OBVIOUS
  <2> USE DEF FlagsOK
  <2>1. CASE Start \/ Stop \/ Expire \/ Restart
    BY <2>1 DEF Start, Stop, RequestStop, Expire, Restart, queues
  <2>2. ASSUME NEW r \in Recorders, Record(r) PROVE FlagsOK'
    BY <2>2 DEF Record, RecCheck, RecLock, RecPut, RecDrop, RequestStop, manager, queues
  <2>3. ASSUME NEW c \in Captures, Writer(c) PROVE FlagsOK'
    <3>1. CASE WFlush(c)
      BY <3>1 DEF WFlush, RequestStop
    <3>2. CASE ~WFlush(c)
      BY <2>3, <3>2 DEF Writer, WOpen, WCheck, WGet, WRow, WCount, WClose, WRename,
                        WFinish, WFail, manager, queues
    <3>3. QED
      BY <3>1, <3>2
  <2>4. CASE UNCHANGED vars
    BY <2>4 DEF vars, manager, queues
  <2>5. QED
    BY <2>1, <2>2, <2>3, <2>4 DEF Next
<1>5. TypeOK /\ [Next]_vars => TypeOK'
  BY <1>2, <1>3, <1>4 DEF TypeOK
<1>6. QED
  BY <1>1, <1>5, PTL DEF Spec

-----------------------------------------------------------------------------
\* Two captures never have writers at work together, whatever stops, limits,
\* failures and restarts came before.
THEOREM OneWriterAtATime == Spec => []OneWriter
<1>1. Init => OneWriter
  BY DEF Init, OneWriter, Writing
<1>2. TypeOK /\ OneWriter /\ [Next]_vars => OneWriter'
  <2> SUFFICES ASSUME TypeOK, OneWriter, [Next]_vars PROVE OneWriter'
    OBVIOUS
  <2> USE DEF TypeOK, ControlOK, WriterStates, Writing, OneWriter
  <2>1. CASE Start
    BY <2>1 DEF Start, MayStart
  <2>2. CASE Stop
    BY <2>2 DEF Stop, RequestStop
  <2>3. CASE Expire
    BY <2>3 DEF Expire
  <2>4. CASE Restart
    BY <2>4 DEF Restart
  <2>5. ASSUME NEW r \in Recorders, Record(r) PROVE OneWriter'
    BY <2>5 DEF Record, RecCheck, RecLock, RecPut, RecDrop, RequestStop, manager
  <2>6. ASSUME NEW c \in Captures, Writer(c) PROVE OneWriter'
    <3>1. CASE WOpen(c) \/ WCheck(c) \/ WGet(c)
      BY <3>1 DEF WOpen, WCheck, WGet, GoTo, manager
    <3>2. CASE WRow(c) \/ WCount(c)
      BY <3>2 DEF WRow, WCount, GoTo, manager
    <3>3. CASE WFlush(c)
      BY <3>3 DEF WFlush, GoTo, RequestStop
    <3>4. CASE WClose(c) \/ WRename(c)
      BY <3>4 DEF WClose, WRename, GoTo, manager
    <3>5. CASE WFinish(c) \/ WFail(c)
      BY <3>5 DEF WFinish, WFail, GoTo
    <3>6. QED
      BY <2>6, <3>1, <3>2, <3>3, <3>4, <3>5 DEF Writer
  <2>7. CASE UNCHANGED vars
    BY <2>7 DEF vars, manager
  <2>8. QED
    BY <2>1, <2>2, <2>3, <2>4, <2>5, <2>6, <2>7 DEF Next
<1>3. QED
  BY <1>1, <1>2, TypeCorrect, PTL DEF Spec

-----------------------------------------------------------------------------
\* A writer that has left its loop was told to stop, and a capture that runs
\* or has not begun was not told to: without it, the failure of the last step of
\* a writer could leave `active' set under a capture that is complete.
ToldToStop == \A c \in Captures : wpc[c] \in {"close", "rename", "finish"} => stopEvent[c]
NotTold == \A c \in Captures : c > current \/ (c = current /\ state = "running") => ~stopEvent[c]
StopInv == ToldToStop /\ NotTold /\ ActiveIsRunning

\* The stop events of the captures agree with their writers and the manager.
LEMMA StopsAgree == Spec => []StopInv
<1>1. Init => StopInv
  BY DEF Init, Idle, StopInv, ToldToStop, NotTold, ActiveIsRunning
<1>2. TypeOK /\ OneWriter /\ StopInv /\ [Next]_vars => StopInv'
  <2> SUFFICES ASSUME TypeOK, OneWriter, StopInv, [Next]_vars PROVE StopInv'
    OBVIOUS
  <2>0. /\ wpc \in [Captures -> WriterStates]
        /\ stopEvent \in [Captures -> BOOLEAN]
        /\ current \in Nat
    <3>1. current \in 0 .. MaxCaptures
      BY DEF TypeOK, CountersOK
    <3>2. current \in Nat
      BY <3>1, Sizes DEF Sizes
    <3>3. QED
      BY <3>2 DEF TypeOK, ControlOK, FlagsOK
  <2>1. ToldToStop'
    <3> USE <2>0 DEF StopInv, ToldToStop
    <3>1. CASE Start
      BY <3>1 DEF Start, queues
    <3>2. CASE Stop
      BY <3>2 DEF Stop, RequestStop
    <3>3. CASE Expire
      BY <3>3 DEF Expire, queues
    <3>4. CASE Restart
      BY <3>4 DEF Restart, queues
    <3>5. ASSUME NEW r \in Recorders, Record(r) PROVE ToldToStop'
      BY <3>5 DEF Record, RecCheck, RecLock, RecPut, RecDrop, RequestStop, manager, queues
    <3>6. ASSUME NEW c \in Captures, Writer(c) PROVE ToldToStop'
      <4>1. CASE WOpen(c) \/ WGet(c) \/ WRow(c) \/ WCount(c)
        BY <4>1 DEF WOpen, WGet, WRow, WCount, GoTo, queues
      <4>2. CASE WCheck(c)
        BY <4>2 DEF WCheck, MayFinish, GoTo, queues
      <4>3. CASE WFlush(c)
        BY <4>3 DEF WFlush, GoTo, RequestStop
      <4>4. CASE WClose(c) \/ WRename(c) \/ WFinish(c) \/ WFail(c)
        BY <4>4 DEF WClose, WRename, WFinish, WFail, GoTo, queues
      <4>5. QED
        BY <3>6, <4>1, <4>2, <4>3, <4>4 DEF Writer
    <3>7. CASE UNCHANGED vars
      BY <3>7 DEF vars, queues
    <3>8. QED
      BY <3>1, <3>2, <3>3, <3>4, <3>5, <3>6, <3>7 DEF Next
  <2>2. NotTold'
    <3> USE <2>0, CaptureIds DEF StopInv, NotTold
    <3>0. ASSUME NEW why, RequestStop(why), current' = current PROVE NotTold'
      <4>1. state' # "running"
        BY <3>0 DEF RequestStop
      <4>2. ASSUME NEW c \in Captures, c > current PROVE stopEvent'[c] = stopEvent[c]
        <5>1. c # current
          BY <4>2
        <5>2. stopEvent' = [stopEvent EXCEPT ![current] = TRUE]
          BY <3>0 DEF RequestStop
        <5>3. QED
          BY <5>1, <5>2
      <4>3. QED
        BY <3>0, <4>1, <4>2
    <3>1. CASE Start
      BY <3>1 DEF Start, queues
    <3>2. CASE Stop
      BY <3>0, <3>2 DEF Stop
    <3>3. CASE Expire
      BY <3>3 DEF Expire, queues
    <3>4. CASE Restart
      BY <3>4 DEF Restart, queues
    <3>5. ASSUME NEW r \in Recorders, Record(r) PROVE NotTold'
      <4>1. CASE RecLock(r)
        <5>1. CASE RequestStop("max duration")
          BY <3>0, <4>1, <5>1 DEF RecLock
        <5>2. CASE UNCHANGED <<state, stopEvent>>
          BY <4>1, <5>2 DEF RecLock
        <5>3. QED
          BY <4>1, <5>1, <5>2 DEF RecLock
      <4>2. CASE ~RecLock(r)
        BY <3>5, <4>2 DEF Record, RecCheck, RecPut, RecDrop, manager, queues
      <4>3. QED
        BY <4>1, <4>2
    <3>6. ASSUME NEW c \in Captures, Writer(c) PROVE NotTold'
      <4>1. CASE WFlush(c)
        <5>1. CASE RequestStop("max file size")
          BY <3>0, <4>1, <5>1 DEF WFlush
        <5>2. CASE UNCHANGED <<state, stopEvent>>
          BY <4>1, <5>2 DEF WFlush
        <5>3. QED
          BY <4>1, <5>1, <5>2 DEF WFlush
      <4>2. CASE ~WFlush(c)
        BY <3>6, <4>2 DEF Writer, WOpen, WCheck, WGet, WRow, WCount, WClose, WRename,
                          WFinish, WFail, manager, queues
      <4>3. QED
        BY <4>1, <4>2
    <3>7. CASE UNCHANGED vars
      BY <3>7 DEF vars, manager, queues
    <3>8. QED
      BY <3>1, <3>2, <3>3, <3>4, <3>5, <3>6, <3>7 DEF Next
  <2>3. ActiveIsRunning'
    <3> USE DEF StopInv, ActiveIsRunning
    <3>1. CASE Start \/ Stop \/ Expire \/ Restart
      BY <3>1 DEF Start, Stop, RequestStop, Expire, Restart
    <3>2. ASSUME NEW r \in Recorders, Record(r) PROVE ActiveIsRunning'
      <4>1. CASE RecLock(r)
        <5>1. CASE RequestStop("max duration")
          BY <4>1, <5>1 DEF RequestStop
        <5>2. CASE UNCHANGED <<state, active>>
          BY <5>2
        <5>3. QED
          BY <4>1, <5>1, <5>2 DEF RecLock
      <4>2. CASE ~RecLock(r)
        BY <3>2, <4>2 DEF Record, RecCheck, RecPut, RecDrop, manager
      <4>3. QED
        BY <4>1, <4>2
    <3>3. ASSUME NEW c \in Captures, Writer(c) PROVE ActiveIsRunning'
      <4>1. CASE WFinish(c)
        <5>1. c = current => state # "running"
          BY <4>1 DEF WFinish, ToldToStop, NotTold
        <5>2. CASE c = current
          <6>1. state' = "complete"
            BY <4>1, <5>2 DEF WFinish
          <6>2. ~active'
            BY <4>1, <5>1, <5>2 DEF WFinish
          <6>3. QED
            BY <6>1, <6>2
        <5>3. CASE c # current
          BY <4>1, <5>3 DEF WFinish
        <5>4. QED
          BY <5>2, <5>3
      <4>2. CASE WFail(c)
        BY <4>2 DEF WFail
      <4>3. CASE WFlush(c)
        BY <4>3 DEF WFlush, RequestStop
      <4>4. CASE ~(WFinish(c) \/ WFail(c) \/ WFlush(c))
        BY <3>3, <4>4 DEF Writer, WOpen, WCheck, WGet, WRow, WCount, WClose, WRename, manager
      <4>5. QED
        BY <4>1, <4>2, <4>3, <4>4
    <3>4. CASE UNCHANGED vars
      BY <3>4 DEF vars, manager
    <3>5. QED
      BY <3>1, <3>2, <3>3, <3>4 DEF Next
  <2>4. QED
    BY <2>1, <2>2, <2>3 DEF StopInv
<1>3. QED
  BY <1>1, <1>2, TypeCorrect, OneWriterAtATime, PTL DEF Spec

\* The flag that recorders read without the lock says `running' in every state.
THEOREM ActiveAgrees == Spec => []ActiveIsRunning
  BY StopsAgree, PTL DEF StopInv

-----------------------------------------------------------------------------
\* The writer of a published file has nothing left to write, and a capture that
\* has not begun has no writer.
PublishedInv ==
    /\ \A c \in final : wpc[c] \in {"finish", "failed", "done"}
    /\ \A c \in Captures : c > current => wpc[c] = "none"

\* What FinalFrozen says of one step.
Kept == \A c \in final : c \in final' /\ file'[c] = file[c]

\* One step keeps what was published and what is known of its writer.
LEMMA PublishedStep == TypeOK /\ PublishedInv /\ [Next]_vars => PublishedInv' /\ Kept
<1> SUFFICES ASSUME TypeOK, PublishedInv, [Next]_vars PROVE PublishedInv' /\ Kept
  OBVIOUS
<1>0. /\ wpc \in [Captures -> WriterStates] /\ file \in [Captures -> Nat]
      /\ final \subseteq Captures /\ current \in Nat
  <2>1. current \in 0 .. MaxCaptures
    BY DEF TypeOK, CountersOK
  <2>2. current \in Nat
    BY <2>1, Sizes DEF Sizes
  <2>3. QED
    BY <2>2 DEF TypeOK, CountersOK, ControlOK
<1> USE <1>0, CaptureIds DEF PublishedInv, Kept
<1>1. CASE Start
  BY <1>1 DEF Start, disk
<1>2. CASE Stop \/ Expire
  BY <1>2 DEF Stop, Expire, manager, disk
<1>3. CASE Restart
  BY <1>3 DEF Restart, disk
<1>4. ASSUME NEW r \in Recorders, Record(r) PROVE PublishedInv' /\ Kept
  BY <1>4 DEF Record, RecCheck, RecLock, RecPut, RecDrop, RequestStop, manager, disk
<1>5. ASSUME NEW c \in Captures, Writer(c) PROVE PublishedInv' /\ Kept
  <2>1. CASE WOpen(c) \/ WCheck(c) \/ WGet(c) \/ WCount(c)
    BY <2>1 DEF WOpen, WCheck, WGet, WCount, GoTo, manager, disk
  <2>2. CASE WRow(c)
    BY <2>2 DEF WRow, GoTo, manager
  <2>3. CASE WFlush(c) \/ WClose(c)
    BY <2>3 DEF WFlush, WClose, GoTo, manager, disk
  <2>4. CASE WRename(c)
    BY <2>4 DEF WRename, GoTo, manager
  <2>5. CASE WFinish(c) \/ WFail(c)
    BY <2>5 DEF WFinish, WFail, GoTo, manager, disk
  <2>6. QED
    BY <1>5, <2>1, <2>2, <2>3, <2>4, <2>5 DEF Writer
<1>6. CASE UNCHANGED vars
  BY <1>6 DEF vars, manager, disk
<1>7. QED
  BY <1>1, <1>2, <1>3, <1>4, <1>5, <1>6 DEF Next

\* The writer of a published file stays out of it.
LEMMA PublishedStays == Spec => []PublishedInv
<1>1. Init => PublishedInv
  BY DEF Init, PublishedInv
<1>2. QED
  BY <1>1, PublishedStep, TypeCorrect, PTL DEF Spec

\* A published file never changes and never goes away.
THEOREM FinalFilesFrozen == Spec => FinalFrozen
<1>1. TypeOK /\ PublishedInv /\ [Next]_vars => [Kept]_vars
  BY PublishedStep
<1>2. QED
  BY <1>1, PublishedStays, TypeCorrect, PTL DEF Spec, FinalFrozen, Kept

-----------------------------------------------------------------------------
\* The counter of the manager and the file of the writer at work move together;
\* the size is taken last; a capture that has not begun has an empty file.
Counted == \A c \in Captures :
    /\ wpc[c] \in Writing \ {"count"} => file[c] = rows
    /\ wpc[c] = "count" => file[c] = rows + 1
Sized == \A c \in Captures : wpc[c] \in {"rename", "finish"} => size = file[c]
Blank == \A c \in Captures : c > current => file[c] = 0
ReportInv == Counted /\ Sized /\ Blank /\ ReportedRows

\* A capture that is reported complete holds in its file what it reports.
THEOREM CompleteReports == Spec => []ReportedRows
<1>1. Init => ReportInv
  BY DEF Init, Idle, ReportInv, Counted, Sized, Blank, ReportedRows, Writing
<1>2. TypeOK /\ OneWriter /\ ReportInv /\ [Next]_vars => ReportInv'
  <2> SUFFICES ASSUME TypeOK, OneWriter, ReportInv, [Next]_vars PROVE ReportInv'
    OBVIOUS
  <2>0. /\ wpc \in [Captures -> WriterStates] /\ file \in [Captures -> Nat]
        /\ rows \in Nat /\ current \in Nat
    <3>1. current \in 0 .. MaxCaptures
      BY DEF TypeOK, CountersOK
    <3>2. current \in Nat
      BY <3>1, Sizes DEF Sizes
    <3>3. QED
      BY <3>2 DEF TypeOK, CountersOK, ControlOK
  <2> USE <2>0 DEF Writing, ReportInv
  <2>1. CASE Start
    <3>1. \A c \in Captures : wpc[c] \notin Writing
      BY <2>1 DEF Start, MayStart, OneWriter
    <3>2. \A c \in Captures : wpc'[c] \in Writing => c = current + 1 /\ wpc'[c] = "open"
      BY <2>1, <3>1 DEF Start
    <3>3. UNCHANGED file /\ rows' = 0 /\ current' = current + 1 /\ state' = "running"
      BY <2>1 DEF Start, disk
    <3>4. Blank'
      BY <3>3, CaptureIds DEF Blank
    <3>5. Counted' /\ Sized'
      BY <3>2, <3>3, CaptureIds DEF Counted, Sized, Blank
    <3>6. QED
      BY <3>3, <3>4, <3>5 DEF ReportedRows
  <2>2. CASE Stop \/ Expire
    BY <2>2 DEF Stop, Expire, RequestStop, disk, Counted, Sized, Blank, ReportedRows
  <2>3. CASE Restart
    BY <2>3 DEF Restart, disk, Counted, Sized, Blank, ReportedRows
  <2>4. ASSUME NEW r \in Recorders, Record(r) PROVE ReportInv'
    BY <2>4 DEF Record, RecCheck, RecLock, RecPut, RecDrop, RequestStop, manager, disk,
                Counted, Sized, Blank, ReportedRows
  <2>5. ASSUME NEW c \in Captures, Writer(c), wpc[c] # "failed" PROVE ReportInv'
    <3>0. /\ c = current /\ state # "complete"
          /\ \A d \in Captures : d # c => wpc[d] \notin Writing
      BY <2>5 DEF Writer, WOpen, WCheck, WGet, WRow, WCount, WFlush, WClose, WRename,
                  WFinish, WFail, OneWriter
    <3> USE <3>0 DEF Counted, Sized, Blank, ReportedRows
    <3>1. CASE WOpen(c) \/ WCheck(c) \/ WGet(c)
      BY <3>1 DEF WOpen, WCheck, WGet, GoTo, manager, disk
    <3>2. CASE WRow(c)
      BY <3>2, CaptureIds DEF WRow, GoTo, manager
    <3>3. CASE WCount(c)
      BY <3>3 DEF WCount, GoTo, disk
    <3>4. CASE WFlush(c)
      BY <3>4 DEF WFlush, RequestStop, GoTo, disk
    <3>5. CASE WClose(c)
      BY <3>5 DEF WClose, GoTo, disk
    <3>6. CASE WRename(c)
      BY <3>6 DEF WRename, GoTo, manager
    <3>7. CASE WFinish(c)
      BY <3>7 DEF WFinish, GoTo, disk
    <3>8. QED
      BY <2>5, <3>1, <3>2, <3>3, <3>4, <3>5, <3>6, <3>7 DEF Writer, WFail
  <2>6. ASSUME NEW c \in Captures, WFail(c) PROVE ReportInv'
    BY <2>6 DEF WFail, GoTo, disk, Counted, Sized, Blank, ReportedRows
  <2>7. CASE UNCHANGED vars
    BY <2>7 DEF vars, manager, disk, Counted, Sized, Blank, ReportedRows
  <2>8. QED
    <3>1. ASSUME NEW c \in Captures, Writer(c), wpc[c] = "failed" PROVE WFail(c)
      BY <3>1 DEF Writer, WOpen, WCheck, WGet, WRow, WCount, WFlush, WClose, WRename, WFinish
    <3>2. QED
      BY <2>1, <2>2, <2>3, <2>4, <2>5, <2>6, <2>7, <3>1 DEF Next
<1>3. QED
  BY <1>1, <1>2, TypeCorrect, OneWriterAtATime, PTL DEF Spec, ReportInv

-----------------------------------------------------------------------------
\* In an idle manager no writer has anything left to do.
IdleInv == state = "idle" => \A c \in Captures : wpc[c] \in {"none", "done"}

\* After a restart nothing is left of a writer.
LEMMA IdleIsIdle == Spec => []IdleInv
<1>1. Init => IdleInv
  BY DEF Init, IdleInv
<1>2. TypeOK /\ OneWriter /\ IdleInv /\ [Next]_vars => IdleInv'
  <2> SUFFICES ASSUME TypeOK, OneWriter, IdleInv, [Next]_vars PROVE IdleInv'
    OBVIOUS
  <2>0. wpc \in [Captures -> WriterStates]
    BY DEF TypeOK, ControlOK
  <2> USE <2>0 DEF IdleInv
  <2>1. CASE Start \/ Stop \/ Expire
    BY <2>1 DEF Start, Stop, Expire, RequestStop
  <2>2. CASE Restart
    BY <2>2 DEF Restart
  <2>3. ASSUME NEW r \in Recorders, Record(r) PROVE IdleInv'
    BY <2>3 DEF Record, RecCheck, RecLock, RecPut, RecDrop, RequestStop, manager
  <2>4. ASSUME NEW c \in Captures, Writer(c) PROVE IdleInv'
    <3>1. CASE wpc[c] \in Writing
      <4>1. c = current /\ state \in {"running", "stopping"}
        BY <3>1 DEF OneWriter
      <4>2. state' # "idle"
        BY <2>4, <4>1 DEF Writer, WOpen, WCheck, WGet, WRow, WCount, WFlush, WClose,
                          WRename, WFinish, WFail, RequestStop, manager
      <4>3. QED
        BY <4>2
    <3>2. CASE WFail(c)
      BY <3>2 DEF WFail, GoTo
    <3>3. QED
      BY <2>4, <3>1, <3>2 DEF Writer, WOpen, WCheck, WGet, WRow, WCount, WFlush, WClose,
                              WRename, WFinish, Writing
  <2>5. CASE UNCHANGED vars
    BY <2>5 DEF vars, manager
  <2>6. QED
    BY <2>1, <2>2, <2>3, <2>4, <2>5 DEF Next
<1>3. QED
  BY <1>1, <1>2, TypeCorrect, OneWriterAtATime, PTL DEF Spec

\* The threads, queues and files of the manager implement the promise of
\* CaptureLifecycle: every step is one of its steps or changes nothing of it.
THEOREM RefinesLifecycle == Spec => ImplementsLifecycle
<1>1. Init => Lifecycle!Init
  BY DEF Init, Idle, Lifecycle!Init
<1>2. TypeOK /\ OneWriter /\ StopInv /\ IdleInv /\ [Next]_vars
        => [Lifecycle!Next]_Lifecycle!vars
  <2> SUFFICES ASSUME TypeOK, OneWriter, StopInv, IdleInv, [Next]_vars
               PROVE Lifecycle!Next \/ UNCHANGED <<state, reason, rows>>
    BY DEF Lifecycle!vars
  <2>1. CASE Start
    BY <2>1 DEF Start, MayStart, Lifecycle!Next, Lifecycle!Start, Lifecycle!Live
  <2>2. CASE Stop
    BY <2>2 DEF Stop, RequestStop, Lifecycle!Next, Lifecycle!RequestStop, Lifecycle!Live
  <2>3. CASE Expire
    BY <2>3 DEF Expire
  <2>4. CASE Restart
    BY <2>4 DEF Restart, Lifecycle!Next, Lifecycle!Restart, Lifecycle!Init
  <2>5. ASSUME NEW r \in Recorders, Record(r)
        PROVE Lifecycle!RequestStop \/ UNCHANGED <<state, reason, rows>>
    BY <2>5 DEF Record, RecCheck, RecLock, RecPut, RecDrop, RequestStop, manager,
                Lifecycle!RequestStop, Lifecycle!Live
  <2>6. ASSUME NEW c \in Captures, Writer(c)
        PROVE Lifecycle!Next \/ UNCHANGED <<state, reason, rows>>
    <3>1. CASE WOpen(c) \/ WCheck(c) \/ WGet(c) \/ WRow(c) \/ WClose(c) \/ WRename(c)
      BY <3>1 DEF WOpen, WCheck, WGet, WRow, WClose, WRename, manager
    <3>2. CASE WCount(c)
      BY <3>2 DEF WCount, OneWriter, Writing, Lifecycle!Next, Lifecycle!Keep, Lifecycle!Live
    <3>3. CASE WFlush(c)
      BY <3>3 DEF WFlush, RequestStop, Lifecycle!Next, Lifecycle!RequestStop, Lifecycle!Live
    <3>4. CASE WFinish(c)
      <4>1. c = current /\ state \in {"running", "stopping"}
        BY <3>4 DEF WFinish, OneWriter, Writing
      <4>2. state # "running"
        BY <3>4, <4>1 DEF WFinish, StopInv, ToldToStop, NotTold
      <4>3. QED
        BY <3>4, <4>1, <4>2 DEF WFinish, Lifecycle!Next, Lifecycle!Complete
    <3>5. CASE WFail(c)
      <4>1. state # "idle"
        BY <3>5 DEF WFail, IdleInv
      <4>2. QED
        BY <3>5, <4>1 DEF WFail, TypeOK, ControlOK, Lifecycle!Next, Lifecycle!Fail,
                          Lifecycle!Retract, Lifecycle!Live
    <3>6. QED
      BY <2>6, <3>1, <3>2, <3>3, <3>4, <3>5 DEF Writer
  <2>7. CASE UNCHANGED vars
    BY <2>7 DEF vars, manager
  <2>8. QED
    BY <2>1, <2>2, <2>3, <2>4, <2>5, <2>6, <2>7 DEF Next, Lifecycle!Next
<1>3. QED
  BY <1>1, <1>2, StopsAgree, TypeCorrect, OneWriterAtATime, IdleIsIdle, PTL
     DEF Spec, ImplementsLifecycle, Lifecycle!Spec

-----------------------------------------------------------------------------
\* The recorders that have taken the queue of c and not put their row into it.
Pending(c) == {r \in Recorders : rpc[r] = "put" /\ rq[r] = c}
\* c has a writer that has left its loop, or a published file.
Closed(c) == wpc[c] \in {"close", "rename", "finish"} \/ c \in final

\* While a writer loops nothing is lost.  When it leaves the loop the rows at
\* risk are those of the recorders still pending, and no recorder joins them.
FinalTold == \A c \in final : stopEvent[c]
Balanced == \A c \in Captures :
    /\ wpc[c] \in {"open", "check", "get", "count", "flush"} => accepted[c] = file[c] + q[c]
    /\ wpc[c] = "row" => accepted[c] = file[c] + q[c] + 1
Fresh ==
    /\ \A c \in Captures : c > current => accepted[c] = 0 /\ q[c] = 0 /\ file[c] = 0
    /\ \A r \in Recorders : rpc[r] = "put" => rq[r] <= current
Settled == \A c \in Captures : Closed(c) =>
    /\ file[c] <= accepted[c]
    /\ accepted[c] - file[c] + Cardinality(Pending(c)) <= Cardinality(Recorders)

\* Sets of pending recorders are counted by natural numbers.
LEMMA PendingSize ==
    ASSUME NEW c
    PROVE  /\ IsFiniteSet(Pending(c))
           /\ Cardinality(Pending(c)) \in Nat
           /\ Cardinality(Recorders) \in Nat
           /\ Cardinality(Pending(c)) <= Cardinality(Recorders)
<1>1. IsFiniteSet(Recorders)
  BY CaptureAssumption DEF CaptureAssumption
<1>2. Pending(c) \in SUBSET Recorders
  BY DEF Pending
<1>3. QED
  BY <1>1, <1>2, FS_Subset, FS_CardinalityType

\* A published file was told to stop.
LEMMA FinalToldStays == Spec => []FinalTold
<1>1. Init => FinalTold
  BY DEF Init, FinalTold
<1>2. TypeOK /\ StopInv /\ FinalTold /\ [Next]_vars => FinalTold'
  <2> SUFFICES ASSUME TypeOK, StopInv, FinalTold, [Next]_vars PROVE FinalTold'
    OBVIOUS
  <2>0. stopEvent \in [Captures -> BOOLEAN] /\ final \subseteq Captures
    BY DEF TypeOK, ControlOK, FlagsOK
  <2> USE <2>0 DEF FinalTold
  <2>1. CASE Start \/ Expire \/ Restart
    BY <2>1 DEF Start, Expire, Restart, queues, disk
  <2>2. CASE Stop
    BY <2>2 DEF Stop, RequestStop, disk
  <2>3. ASSUME NEW r \in Recorders, Record(r) PROVE FinalTold'
    <3>1. CASE RecLock(r)
      BY <3>1 DEF RecLock, RequestStop, disk
    <3>2. CASE ~RecLock(r)
      BY <2>3, <3>2 DEF Record, RecCheck, RecPut, RecDrop, queues, disk
    <3>3. QED
      BY <3>1, <3>2
  <2>4. ASSUME NEW c \in Captures, Writer(c) PROVE FinalTold'
    <3>1. CASE WRename(c)
      BY <3>1 DEF WRename, queues, StopInv, ToldToStop
    <3>2. CASE WFlush(c)
      BY <3>2 DEF WFlush, RequestStop, disk
    <3>3. CASE ~(WRename(c) \/ WFlush(c))
      BY <2>4, <3>3 DEF Writer, WOpen, WCheck, WGet, WRow, WCount, WClose, WFinish, WFail,
                        queues, disk
    <3>4. QED
      BY <3>1, <3>2, <3>3
  <2>5. CASE UNCHANGED vars
    BY <2>5 DEF vars, queues, disk
  <2>6. QED
    BY <2>1, <2>2, <2>3, <2>4, <2>5 DEF Next
<1>3. QED
  BY <1>1, <1>2, TypeCorrect, StopsAgree, PTL DEF Spec

\* Fresh is inductive once recorders pick up queues of captures that have begun.
LEMMA FreshStays == Spec => []Fresh
<1>1. Init => Fresh
  BY DEF Init, Fresh
<1>2. TypeOK /\ PublishedInv /\ Fresh /\ [Next]_vars => Fresh'
  <2> SUFFICES ASSUME TypeOK, PublishedInv, Fresh, [Next]_vars PROVE Fresh'
    OBVIOUS
  <2>0. /\ rpc \in [Recorders -> {"idle", "lock", "put", "full"}]
        /\ q \in [Captures -> 0 .. QueueSize] /\ file \in [Captures -> Nat]
        /\ accepted \in [Captures -> Nat] /\ current \in Nat
        /\ rq \in [Recorders -> 0 .. MaxCaptures]
    <3>1. current \in 0 .. MaxCaptures
      BY DEF TypeOK, CountersOK
    <3>2. current \in Nat
      BY <3>1, Sizes DEF Sizes
    <3>3. QED
      BY <3>2 DEF TypeOK, CountersOK, ControlOK
  <2> USE <2>0, CaptureIds DEF Fresh
  <2>1. CASE Start
    BY <2>1, Sizes DEF Sizes, Start, queues, disk, recording
  <2>2. CASE Stop \/ Expire
    BY <2>2 DEF Stop, Expire, queues, disk, recording
  <2>3. CASE Restart
    BY <2>3 DEF Restart, queues, disk
  <2>4. ASSUME NEW r \in Recorders, Record(r) PROVE Fresh'
    <3>1. CASE RecCheck(r) \/ RecDrop(r)
      BY <3>1 DEF RecCheck, RecDrop, manager, queues, disk
    <3>2. CASE RecLock(r)
      <4>1. UNCHANGED <<current, q, file, accepted>>
        BY <3>2 DEF RecLock, disk
      <4>2. \/ UNCHANGED rq /\ \A x \in Recorders : rpc'[x] = "put" => rpc[x] = "put"
            \/ /\ rpc' = [rpc EXCEPT ![r] = "put"] /\ rq' = [rq EXCEPT ![r] = current]
        BY <3>2 DEF RecLock
      <4>3. ASSUME NEW x \in Recorders, rpc'[x] = "put" PROVE rq'[x] <= current
        BY <4>2, <4>3
      <4>4. QED
        BY <4>1, <4>3
    <3>3. CASE RecPut(r)
      <4>1. rq[r] <= current
        BY <3>3 DEF RecPut
      <4>2. ASSUME NEW c \in Captures, c > current
            PROVE q'[c] = q[c] /\ accepted'[c] = accepted[c]
        <5>1. c # rq[r]
          BY <4>1, <4>2, Sizes DEF Sizes
        <5>2. QED
          BY <3>3, <5>1 DEF RecPut
      <4>3. UNCHANGED <<current, file, rq>> /\ \A x \in Recorders : rpc'[x] = "put" => rpc[x] = "put"
        BY <3>3 DEF RecPut, manager, disk
      <4>4. QED
        BY <4>2, <4>3
    <3>4. QED
      BY <2>4, <3>1, <3>2, <3>3 DEF Record
  <2>5. ASSUME NEW c \in Captures, Writer(c) PROVE Fresh'
    <3>1. wpc[c] # "none" /\ ~(c > current)
      BY <2>5 DEF Writer, WOpen, WCheck, WGet, WRow, WCount, WFlush, WClose, WRename,
                  WFinish, WFail, PublishedInv
    <3>2. UNCHANGED <<current, rpc, rq, accepted>>
      BY <2>5 DEF Writer, WOpen, WCheck, WGet, WRow, WCount, WFlush, WClose, WRename,
                  WFinish, WFail, manager, recording
    <3>3. \A d \in Captures : d # c => q'[d] = q[d] /\ file'[d] = file[d]
      BY <2>5 DEF Writer, WOpen, WCheck, WGet, WRow, WCount, WFlush, WClose, WRename,
                  WFinish, WFail, queues, disk
    <3>4. QED
      BY <3>1, <3>2, <3>3
  <2>6. CASE UNCHANGED vars
    BY <2>6 DEF vars, manager, queues, disk, recording
  <2>7. QED
    BY <2>1, <2>2, <2>3, <2>4, <2>5, <2>6 DEF Next
<1>3. QED
  BY <1>1, <1>2, TypeCorrect, PublishedStays, PTL DEF Spec

\* A row that was accepted is in the queue, in the writer's hand or in the file
\* for as long as the writer loops.
LEMMA BalancedStays == Spec => []Balanced
<1>1. Init => Balanced
  BY DEF Init, Balanced
<1>2. TypeOK /\ Fresh /\ Balanced /\ [Next]_vars => Balanced'
  <2> SUFFICES ASSUME TypeOK, Fresh, Balanced, [Next]_vars PROVE Balanced'
    OBVIOUS
  <2>0. /\ wpc \in [Captures -> WriterStates] /\ current \in Nat
        /\ q \in [Captures -> Nat] /\ file \in [Captures -> Nat]
        /\ accepted \in [Captures -> Nat]
    <3>1. current \in 0 .. MaxCaptures /\ q \in [Captures -> 0 .. QueueSize]
      BY DEF TypeOK, CountersOK
    <3>2. current \in Nat /\ q \in [Captures -> Nat]
      BY <3>1, Sizes DEF Sizes
    <3>3. QED
      BY <3>2 DEF TypeOK, CountersOK, ControlOK
  <2> USE <2>0, CaptureIds DEF Balanced
  <2>1. CASE Start
    <3>1. UNCHANGED <<q, file, accepted>>
      BY <2>1 DEF Start, queues, disk, recording
    <3>2. \A c \in Captures : wpc'[c] = wpc[c] \/ (wpc'[c] = "open" /\ c > current)
      BY <2>1 DEF Start
    <3>3. QED
      BY <3>1, <3>2 DEF Fresh
  <2>2. CASE Stop \/ Expire
    BY <2>2 DEF Stop, Expire, queues, disk, recording
  <2>3. CASE Restart
    BY <2>3 DEF Restart
  <2>4. ASSUME NEW r \in Recorders, Record(r) PROVE Balanced'
    <3>1. CASE RecCheck(r) \/ RecDrop(r)
      BY <3>1 DEF RecCheck, RecDrop, queues, disk
    <3>2. CASE RecLock(r)
      BY <3>2 DEF RecLock, disk
    <3>3. CASE RecPut(r)
      <4>1. \A c \in Captures : accepted'[c] - q'[c] = accepted[c] - q[c]
        BY <3>3 DEF RecPut
      <4>2. q' \in [Captures -> Nat] /\ accepted' \in [Captures -> Nat]
        BY <3>3 DEF RecPut
      <4>3. UNCHANGED <<wpc, file>>
        BY <3>3 DEF RecPut, disk
      <4>4. QED
        BY <4>1, <4>2, <4>3
    <3>4. QED
      BY <2>4, <3>1, <3>2, <3>3 DEF Record
  <2>5. ASSUME NEW c \in Captures, Writer(c) PROVE Balanced'
    <3>1. CASE WOpen(c) \/ WCheck(c)
      <4>1. UNCHANGED <<q, file, accepted>>
        BY <3>1 DEF WOpen, WCheck, queues, disk, recording
      <4>2. /\ wpc[c] \in {"open", "check"} /\ wpc'[c] \in {"check", "failed", "close", "get"}
            /\ \A d \in Captures : d # c => wpc'[d] = wpc[d]
        BY <3>1 DEF WOpen, WCheck, GoTo
      <4>3. QED
        BY <4>1, <4>2
    <3>2. CASE WGet(c)
      BY <3>2 DEF WGet, GoTo, disk, recording
    <3>3. CASE WRow(c)
      BY <3>3 DEF WRow, GoTo, queues, recording
    <3>4. CASE WCount(c) \/ WFlush(c)
      BY <3>4 DEF WCount, WFlush, GoTo, queues, disk, recording
    <3>5. CASE WClose(c) \/ WRename(c)
      BY <3>5 DEF WClose, WRename, GoTo, queues, disk, recording
    <3>6. CASE WFinish(c) \/ WFail(c)
      BY <3>6 DEF WFinish, WFail, GoTo, queues, disk, recording
    <3>7. QED
      BY <2>5, <3>1, <3>2, <3>3, <3>4, <3>5, <3>6 DEF Writer
  <2>6. CASE UNCHANGED vars
    BY <2>6 DEF vars, queues, disk, recording
  <2>7. QED
    BY <2>1, <2>2, <2>3, <2>4, <2>5, <2>6 DEF Next
<1>3. QED
  BY <1>1, <1>2, TypeCorrect, FreshStays, PTL DEF Spec

\* Whatever raced the end of a capture, its published file misses at most one
\* accepted row per recorder.
THEOREM LossIsBounded == Spec => []LossBounded
<1>1. Init => Settled
  BY DEF Init, Settled, Closed
<1>2. TypeOK /\ StopInv /\ FinalTold /\ PublishedInv /\ Balanced /\ Settled /\ [Next]_vars
        => Settled'
  <2> SUFFICES ASSUME TypeOK, StopInv, FinalTold, PublishedInv, Balanced, Settled, [Next]_vars,
                      NEW c \in Captures, Closed(c)'
               PROVE  /\ file'[c] <= accepted'[c]
                      /\ accepted'[c] - file'[c] + Cardinality(Pending(c)')
                           <= Cardinality(Recorders)
    BY DEF Settled
  <2> DEFINE Goal == /\ file'[c] <= accepted'[c]
                     /\ accepted'[c] - file'[c] + Cardinality(Pending(c)')
                          <= Cardinality(Recorders)
  <2>0. /\ wpc \in [Captures -> WriterStates] /\ rpc \in [Recorders -> {"idle", "lock", "put", "full"}]
        /\ rq \in [Recorders -> 0 .. MaxCaptures] /\ file \in [Captures -> Nat]
        /\ accepted \in [Captures -> Nat] /\ final \subseteq Captures
        /\ q \in [Captures -> 0 .. QueueSize]
    BY DEF TypeOK, CountersOK, ControlOK
  <2>1. /\ IsFiniteSet(Pending(c)) /\ Cardinality(Pending(c)) \in Nat
        /\ Cardinality(Recorders) \in Nat /\ Cardinality(Pending(c)) <= Cardinality(Recorders)
    BY PendingSize
  <2>2. ASSUME NEW S \in SUBSET Pending(c) PROVE Cardinality(S) \in Nat /\ Cardinality(S) <= Cardinality(Pending(c))
    BY <2>1, <2>2, FS_Subset, FS_CardinalityType
  \* a step that adds no row and no pending recorder
  <2>3. ASSUME Closed(c), file'[c] = file[c], accepted'[c] = accepted[c], Pending(c)' \subseteq Pending(c)
        PROVE  Goal
    <3>1. Cardinality(Pending(c)') \in Nat /\ Cardinality(Pending(c)') <= Cardinality(Pending(c))
      BY <2>2, <2>3
    <3>2. /\ file[c] <= accepted[c]
          /\ accepted[c] - file[c] + Cardinality(Pending(c)) <= Cardinality(Recorders)
      BY <2>3 DEF Settled
    <3>3. QED
      BY <2>0, <2>1, <2>3, <3>1, <3>2
  <2>4. CASE Start
    <3>1. UNCHANGED <<file, accepted, rpc, rq, final>> /\ (wpc'[c] = wpc[c] \/ wpc'[c] = "open")
      BY <2>0, <2>4 DEF Start, disk, recording
    <3>2. Closed(c) /\ Pending(c)' = Pending(c)
      BY <3>1 DEF Closed, Pending
    <3>3. QED
      BY <2>3, <3>1, <3>2
  <2>5. CASE Stop \/ Expire \/ UNCHANGED vars
    <3>1. UNCHANGED <<file, accepted, rpc, rq, final, wpc>>
      BY <2>5 DEF Stop, Expire, vars, disk, recording
    <3>2. Closed(c) /\ Pending(c)' = Pending(c)
      BY <3>1 DEF Closed, Pending
    <3>3. QED
      BY <2>3, <3>1, <3>2
  <2>6. CASE Restart
    <3>1. UNCHANGED <<file, accepted, final>> /\ wpc'[c] \in {"none", "done"}
      BY <2>6 DEF Restart, disk
    <3>2. Closed(c)
      BY <3>1 DEF Closed
    <3>3. Pending(c)' \subseteq Pending(c)
      BY <2>6 DEF Restart, Pending
    <3>4. QED
      BY <2>3, <3>1, <3>2, <3>3
  <2>7. ASSUME NEW r \in Recorders, Record(r) PROVE Goal
    <3>1. UNCHANGED <<file, final, wpc>>
      BY <2>7 DEF Record, RecCheck, RecLock, RecPut, RecDrop, disk
    <3>2. Closed(c)
      BY <3>1 DEF Closed
    <3>3. CASE RecCheck(r) \/ RecDrop(r)
      <4>1. accepted' = accepted /\ rq' = rq /\ \A x \in Recorders : rpc'[x] = "put" => rpc[x] = "put"
        BY <2>0, <3>3 DEF RecCheck, RecDrop
      <4>2. Pending(c)' \subseteq Pending(c)
        BY <4>1 DEF Pending
      <4>3. QED
        BY <2>3, <3>1, <3>2, <4>1, <4>2
    <3>4. CASE RecLock(r)
      <4>1. ~(c = current /\ state = "running")
        BY <3>2 DEF Closed, FinalTold, StopInv, ToldToStop, NotTold
      <4>2. \/ rq' = rq /\ rpc' = [rpc EXCEPT ![r] = "idle"]
            \/ /\ rq' = [rq EXCEPT ![r] = current] /\ rpc' = [rpc EXCEPT ![r] = "put"]
               /\ c # current
        BY <3>4, <4>1 DEF RecLock
      <4>3. \A x \in Recorders : rpc'[x] = "put" /\ rq'[x] = c => rpc[x] = "put" /\ rq[x] = c
        BY <2>0, <4>2
      <4>4. Pending(c)' \subseteq Pending(c)
        BY <4>3 DEF Pending
      <4>5. accepted' = accepted
        BY <3>4 DEF RecLock
      <4>6. QED
        BY <2>3, <3>1, <3>2, <4>4, <4>5
    <3>5. CASE RecPut(r)
      <4>1. rq' = rq /\ rpc[r] = "put" /\ rpc'[r] # "put"
            /\ \A x \in Recorders : x # r => rpc'[x] = rpc[x]
        BY <2>0, <3>5 DEF RecPut
      <4>2. Pending(c)' = Pending(c) \ {r}
        BY <4>1 DEF Pending
      <4>3. CASE accepted'[c] = accepted[c]
        BY <2>3, <3>1, <3>2, <4>2, <4>3
      <4>4. CASE accepted'[c] # accepted[c]
        <5>1. rq[r] = c /\ accepted'[c] = accepted[c] + 1
          BY <2>0, <3>5, <4>4 DEF RecPut
        <5>2. r \in Pending(c)
          BY <4>1, <5>1 DEF Pending
        <5>3. Cardinality(Pending(c)') = Cardinality(Pending(c)) - 1
          BY <2>1, <4>2, <5>2, FS_RemoveElement
        <5>4. /\ file[c] <= accepted[c]
              /\ accepted[c] - file[c] + Cardinality(Pending(c)) <= Cardinality(Recorders)
          BY <3>2 DEF Settled
        <5>5. QED
          BY <2>0, <2>1, <3>1, <5>1, <5>3, <5>4
      <4>5. QED
        BY <4>3, <4>4
    <3>6. QED
      BY <2>7, <3>3, <3>4, <3>5 DEF Record
  <2>8. ASSUME NEW d \in Captures, Writer(d) PROVE Goal
    <3>1. UNCHANGED <<accepted, rpc, rq>>
      BY <2>8 DEF Writer, WOpen, WCheck, WGet, WRow, WCount, WFlush, WClose, WRename,
                  WFinish, WFail, recording
    <3>2. Pending(c)' = Pending(c)
      BY <3>1 DEF Pending
    <3>3. CASE Closed(c)
      <4>1. file'[c] = file[c]
        <5>1. CASE WRow(d)
          <6>1. c # d
            BY <3>3, <5>1 DEF WRow, Closed, PublishedInv
          <6>2. QED
            BY <2>0, <5>1, <6>1 DEF WRow
        <5>2. CASE ~WRow(d)
          BY <2>8, <5>2 DEF Writer, WOpen, WCheck, WGet, WCount, WFlush, WClose, WRename,
                            WFinish, WFail, disk
        <5>3. QED
          BY <5>1, <5>2
      <4>2. QED
        BY <2>3, <3>1, <3>2, <3>3, <4>1
    <3>4. CASE ~Closed(c)
      <4>1. d = c /\ WCheck(c) /\ MayFinish(c)
        BY <2>0, <2>8, <3>4 DEF Closed, Writer, WOpen, WCheck, WGet, WRow, WCount, WFlush,
                  WClose, WRename, WFinish, WFail, GoTo, disk
      <4>2. file[c] = accepted[c] /\ file' = file
        <5>1. wpc[c] = "check" /\ q[c] = 0 /\ file' = file
          BY <4>1 DEF WCheck, MayFinish, disk
        <5>2. QED
          BY <2>0, <5>1 DEF Balanced
      <4>3. QED
        BY <2>0, <2>1, <3>1, <3>2, <4>2
    <3>5. QED
      BY <3>3, <3>4
  <2>9. QED
    BY <2>4, <2>5, <2>6, <2>7, <2>8 DEF Next
<1>3. TypeOK /\ Settled => LossBounded
  <2> SUFFICES ASSUME TypeOK, Settled, NEW c \in final
               PROVE  file[c] <= accepted[c] /\ accepted[c] - file[c] <= Cardinality(Recorders)
    BY DEF LossBounded
  <2>1. c \in Captures /\ Closed(c) /\ file[c] \in Nat /\ accepted[c] \in Nat
    BY DEF TypeOK, ControlOK, CountersOK, Closed
  <2>2. QED
    BY <2>1, PendingSize DEF Settled
<1>4. QED
  BY <1>1, <1>2, <1>3, TypeCorrect, StopsAgree, FinalToldStays, PublishedStays,
     BalancedStays, PTL DEF Spec
=============================================================================
