---------------------------- MODULE PowerCapture ----------------------------
(***************************************************************************)
(* PowerCaptureManager of rpi/dashboard.py: the power log that a user      *)
(* starts and stops, the sampling threads that record rows into a bounded  *)
(* queue and the writer thread that moves them to a temporary CSV file and *)
(* renames it when it is complete.                                         *)
(*                                                                         *)
(* One step is one lock region or one call outside the lock.  A recorder   *)
(* looks at `active' without the lock, picks the queue up under the lock   *)
(* and puts its row after releasing it; the writer decides to finish       *)
(* without the lock.  Rows are indistinguishable here: queues and files    *)
(* are numbers of rows.                                                    *)
(***************************************************************************)
EXTENDS Integers, FiniteSets

CONSTANTS
    Recorders,      \* ina_thread, ina226_thread
    MaxCaptures,    \* bound on the captures started
    MaxSamples,     \* bound on the calls to record()
    QueueSize,      \* rows a capture's queue holds
    MaxFileRows,    \* max_file_bytes, in rows; 0 disables the limit
    Timed,          \* TRUE when max_duration_s is not 0
    ThreadFails     \* TRUE when Thread.start() may raise

ASSUME CaptureAssumption ==
    /\ IsFiniteSet(Recorders)
    /\ MaxCaptures \in Nat /\ MaxSamples \in Nat
    /\ QueueSize \in Nat \ {0} /\ MaxFileRows \in Nat
    /\ Timed \in BOOLEAN /\ ThreadFails \in BOOLEAN

Captures == 1 .. MaxCaptures

VARIABLES
    state, active, current, reason, rows, dropped, size, expired,  \* manager
    q, stopEvent, wpc,          \* per capture: queue, stop event, its writer
    file, tmp, final,           \* rows in its CSV file; the ids on disk
    rpc, rq,                    \* per recorder: where it is, the queue it holds
    accepted,                   \* history: rows whose record() returned True
    samples                     \* record() calls so far

manager == <<state, active, current, reason, rows, dropped, size, expired>>
queues == <<q, stopEvent>>
disk == <<file, tmp, final>>
recording == <<rpc, rq, accepted, samples>>
vars == <<manager, queues, wpc, disk, recording>>

\* the writer owns the file / may still end the capture
Writing == {"open", "check", "get", "row", "count", "flush", "close", "rename", "finish"}
WriterStates == Writing \cup {"none", "failed", "done"}

Idle ==
    /\ state = "idle" /\ active = FALSE /\ current = 0 /\ reason = "none"
    /\ rows = 0 /\ dropped = 0 /\ size = 0 /\ expired = FALSE

Init ==
    /\ Idle
    /\ q = [c \in Captures |-> 0] /\ stopEvent = [c \in Captures |-> FALSE]
    /\ wpc = [c \in Captures |-> "none"]
    /\ file = [c \in Captures |-> 0] /\ tmp = {} /\ final = {}
    /\ rpc = [r \in Recorders |-> "idle"] /\ rq = [r \in Recorders |-> 0]
    /\ accepted = [c \in Captures |-> 0] /\ samples = 0

-----------------------------------------------------------------------------
(* start() and stop()                                                      *)

\* broken: the writer is not told
RequestStopSilent(why) ==
    /\ active' = FALSE
    /\ reason' = why
    /\ state' = IF state = "running" THEN "stopping" ELSE state
    /\ UNCHANGED stopEvent

\* _request_stop_locked(): a later reason replaces an earlier one
RequestStop(why) ==
    /\ active' = FALSE
    /\ reason' = why
    /\ state' = IF state = "running" THEN "stopping" ELSE state
    /\ stopEvent' = [stopEvent EXCEPT ![current] = TRUE]

\* broken: a capture that is stopping counts as over
MayStartStopping == state # "running"
MayStart == state \notin {"running", "stopping"}

\* every field of the manager is set before the thread is started
Start ==
    /\ MayStart /\ current < MaxCaptures
    /\ current' = current + 1
    /\ state' = "running" /\ active' = TRUE /\ reason' = "none"
    /\ rows' = 0 /\ dropped' = 0 /\ size' = 0 /\ expired' = FALSE
    /\ \/ wpc' = [wpc EXCEPT ![current + 1] = "open"]
       \/ ThreadFails /\ UNCHANGED wpc
    /\ UNCHANGED <<queues, disk, recording>>

Stop ==
    /\ state \in {"running", "stopping"}
    /\ RequestStop("user")
    /\ UNCHANGED <<current, rows, dropped, size, expired, q, wpc, disk, recording>>

\* time.monotonic() passes started_mono + max_duration_s
Expire ==
    /\ Timed /\ state = "running" /\ ~expired
    /\ expired' = TRUE
    /\ UNCHANGED <<state, active, current, reason, rows, dropped, size,
                   queues, wpc, disk, recording>>

-----------------------------------------------------------------------------
(* record(), called by the sampling threads                                *)

\* `if not self.active: return', without the lock
RecCheck(r) ==
    /\ rpc[r] = "idle" /\ samples < MaxSamples
    /\ active
    /\ samples' = samples + 1
    /\ rpc' = [rpc EXCEPT ![r] = "lock"]
    /\ UNCHANGED <<manager, queues, wpc, disk, rq, accepted>>

\* under the lock: reject, stop the capture that is too old, or take the queue
RecLock(r) ==
    /\ rpc[r] = "lock"
    /\ \/ /\ state = "running" /\ ~expired
          /\ rpc' = [rpc EXCEPT ![r] = "put"]
          /\ rq' = [rq EXCEPT ![r] = current]
          /\ UNCHANGED <<state, active, reason, stopEvent>>
       \/ /\ state = "running" /\ expired
          /\ RequestStop("max duration")
          /\ rpc' = [rpc EXCEPT ![r] = "idle"]
          /\ UNCHANGED rq
       \/ /\ state # "running"
          /\ rpc' = [rpc EXCEPT ![r] = "idle"]
          /\ UNCHANGED <<state, active, reason, stopEvent, rq>>
    /\ UNCHANGED <<current, rows, dropped, size, expired, q, wpc, disk, accepted, samples>>

HasRoom(c) == q[c] < QueueSize

\* put_nowait() after the lock has been released
RecPut(r) ==
    /\ rpc[r] = "put"
    /\ \/ /\ HasRoom(rq[r])
          /\ q' = [q EXCEPT ![rq[r]] = @ + 1]
          /\ accepted' = [accepted EXCEPT ![rq[r]] = @ + 1]
          /\ rpc' = [rpc EXCEPT ![r] = "idle"]
       \/ /\ ~HasRoom(rq[r])
          /\ rpc' = [rpc EXCEPT ![r] = "full"]
          /\ UNCHANGED <<q, accepted>>
    /\ UNCHANGED <<manager, stopEvent, wpc, disk, rq, samples>>

\* dropped belongs to the manager: by now it may count for a later capture
RecDrop(r) ==
    /\ rpc[r] = "full"
    /\ dropped' = dropped + 1
    /\ rpc' = [rpc EXCEPT ![r] = "idle"]
    /\ UNCHANGED <<state, active, current, reason, rows, size, expired,
                   queues, wpc, disk, rq, accepted, samples>>

-----------------------------------------------------------------------------
(* _writer_loop()                                                          *)

GoTo(c, where) == wpc' = [wpc EXCEPT ![c] = where]

\* broken: the rows are written to the final path
WOpenFinal(c) ==
    /\ wpc[c] = "open"
    /\ \/ final' = final \cup {c} /\ GoTo(c, "check")
       \/ UNCHANGED final /\ GoTo(c, "failed")
    /\ UNCHANGED <<manager, queues, file, tmp, recording>>

WOpen(c) ==
    /\ wpc[c] = "open"
    /\ \/ tmp' = tmp \cup {c} /\ GoTo(c, "check")
       \/ UNCHANGED tmp /\ GoTo(c, "failed")
    /\ UNCHANGED <<manager, queues, file, final, recording>>

\* broken: the queue is not drained; the stop is not awaited
MayFinishUndrained(c) == stopEvent[c]
MayFinishUnasked(c) == q[c] = 0
MayFinish(c) == stopEvent[c] /\ q[c] = 0

WCheck(c) ==
    /\ wpc[c] = "check"
    /\ GoTo(c, IF MayFinish(c) THEN "close" ELSE "get")
    /\ UNCHANGED <<manager, queues, disk, recording>>

\* q.get(timeout=0.25): a row, or Empty
WGet(c) ==
    /\ wpc[c] = "get"
    /\ \/ q[c] > 0 /\ q' = [q EXCEPT ![c] = @ - 1] /\ GoTo(c, "row")
       \/ q[c] = 0 /\ UNCHANGED q /\ GoTo(c, "flush")
    /\ UNCHANGED <<manager, stopEvent, disk, recording>>

WRow(c) ==
    /\ wpc[c] = "row"
    /\ \/ file' = [file EXCEPT ![c] = @ + 1] /\ GoTo(c, "count")
       \/ UNCHANGED file /\ GoTo(c, "failed")
    /\ UNCHANGED <<manager, queues, tmp, final, recording>>

\* broken: rows drained after the stop are not counted
WCountRunning(c) ==
    /\ wpc[c] = "count"
    /\ rows' = IF state = "running" THEN rows + 1 ELSE rows
    /\ GoTo(c, "flush")
    /\ UNCHANGED <<state, active, current, reason, dropped, size, expired,
                   queues, disk, recording>>

WCount(c) ==
    /\ wpc[c] = "count"
    /\ rows' = rows + 1
    /\ GoTo(c, "flush")
    /\ UNCHANGED <<state, active, current, reason, dropped, size, expired,
                   queues, disk, recording>>

TooBig(n) == MaxFileRows > 0 /\ n >= MaxFileRows

\* flushed when a second has passed or the queue is empty; the size is checked then
WFlush(c) ==
    /\ wpc[c] = "flush"
    /\ \/ q[c] > 0 /\ GoTo(c, "check")
          /\ UNCHANGED <<state, active, reason, size, stopEvent>>
       \/ GoTo(c, "failed")
          /\ UNCHANGED <<state, active, reason, size, stopEvent>>
       \/ /\ size' = file[c]
          /\ IF state = "running" /\ TooBig(file[c])
             THEN RequestStop("max file size")
             ELSE UNCHANGED <<state, active, reason, stopEvent>>
          /\ GoTo(c, "check")
    /\ UNCHANGED <<current, rows, dropped, expired, q, disk, recording>>

WClose(c) ==
    /\ wpc[c] = "close"
    /\ \/ size' = file[c] /\ GoTo(c, "rename")
       \/ UNCHANGED size /\ GoTo(c, "failed")
    /\ UNCHANGED <<state, active, current, reason, rows, dropped, expired,
                   queues, disk, recording>>

WRename(c) ==
    /\ wpc[c] = "rename"
    /\ \/ tmp' = tmp \ {c} /\ final' = final \cup {c} /\ GoTo(c, "finish")
       \/ UNCHANGED <<tmp, final>> /\ GoTo(c, "failed")
    /\ UNCHANGED <<manager, queues, file, recording>>

\* `complete' is set before stat() may raise; the handler then says `error'
WFinish(c) ==
    /\ wpc[c] = "finish"
    /\ state' = IF current = c THEN "complete" ELSE state
    /\ \/ /\ GoTo(c, "done")
          /\ active' = IF current = c THEN FALSE ELSE active
       \/ GoTo(c, "failed") /\ current = c /\ UNCHANGED active
    /\ UNCHANGED <<current, reason, rows, dropped, size, expired, queues, disk, recording>>

WFail(c) ==
    /\ wpc[c] = "failed"
    /\ state' = IF current = c THEN "error" ELSE state
    /\ active' = IF current = c THEN FALSE ELSE active
    /\ GoTo(c, "done")
    /\ UNCHANGED <<current, reason, rows, dropped, size, expired, queues, disk, recording>>

Writer(c) ==
    \/ WOpen(c) \/ WCheck(c) \/ WGet(c) \/ WRow(c) \/ WCount(c) \/ WFlush(c)
    \/ WClose(c) \/ WRename(c) \/ WFinish(c) \/ WFail(c)

-----------------------------------------------------------------------------
\* The process dies and is started again: threads and queues are gone, what is
\* on disk stays.  Ids are time stamps, so the next capture has a fresh one; the
\* model keeps it fresh by going on counting.
Restart ==
    /\ state' = "idle" /\ active' = FALSE /\ reason' = "none"
    /\ rows' = 0 /\ dropped' = 0 /\ size' = 0 /\ expired' = FALSE
    /\ wpc' = [c \in Captures |-> IF wpc[c] = "none" THEN "none" ELSE "done"]
    /\ rpc' = [r \in Recorders |-> "idle"] /\ rq' = [r \in Recorders |-> 0]
    /\ UNCHANGED <<current, queues, disk, accepted, samples>>

Record(r) == RecCheck(r) \/ RecLock(r) \/ RecPut(r) \/ RecDrop(r)

Next ==
    \/ Start \/ Stop \/ Expire \/ Restart
    \/ \E r \in Recorders : Record(r)
    \/ \E c \in Captures : Writer(c)

\* The writer and a record() that has begun go on; a sample, a start, a stop or
\* a restart may never come.
Fairness ==
    /\ \A c \in Captures : WF_vars(Writer(c))
    /\ \A r \in Recorders : WF_vars(RecLock(r) \/ RecPut(r) \/ RecDrop(r))

Spec == Init /\ [][Next]_vars /\ Fairness

-----------------------------------------------------------------------------
(* Properties.                                                             *)

CountersOK ==
    /\ current \in 0 .. MaxCaptures
    /\ rows \in Nat /\ dropped \in Nat /\ size \in Nat /\ samples \in Nat
    /\ q \in [Captures -> 0 .. QueueSize]
    /\ file \in [Captures -> Nat] /\ accepted \in [Captures -> Nat]
ControlOK ==
    /\ state \in {"idle", "running", "stopping", "complete", "error"}
    /\ reason \in {"none", "user", "max duration", "max file size"}
    /\ wpc \in [Captures -> WriterStates]
    /\ rpc \in [Recorders -> {"idle", "lock", "put", "full"}]
    /\ rq \in [Recorders -> 0 .. MaxCaptures]
    /\ tmp \subseteq Captures /\ final \subseteq Captures
FlagsOK ==
    /\ active \in BOOLEAN /\ expired \in BOOLEAN
    /\ stopEvent \in [Captures -> BOOLEAN]

\* Types of the manager's fields, the queues (never above their size), the
\* threads and the files.
TypeOK == CountersOK /\ ControlOK /\ FlagsOK

\* `active', which recorders read without the lock, says running outside every
\* lock region: no sample is turned away while a capture runs.
ActiveIsRunning == active <=> state = "running"

\* A thread that still writes a file is the writer of the current capture, and
\* that capture has not been reported as over: start() cannot put two writers to
\* work, whatever stops, limits, failures and restarts came before.
OneWriter ==
    \A c \in Captures : wpc[c] \in Writing =>
        /\ c = current
        /\ state \in {"running", "stopping"}

\* A published file misses at most one accepted row per sampling thread: only a
\* row whose put raced the writer's last look at the queue is lost.
LossBounded ==
    \A c \in final : /\ file[c] <= accepted[c]
                     /\ accepted[c] - file[c] <= Cardinality(Recorders)

\* What a complete capture reports is what its file holds.
ReportedRows ==
    state = "complete" => rows = file[current] /\ size = file[current]

\* A published file never changes and never goes away.
FinalFrozen ==
    [][\A c \in final : c \in final' /\ file'[c] = file[c]]_vars

\* A stop that has been requested ends: every queue is drained or the capture
\* fails, unless no thread could be started for it.
StoppingEnds ==
    state = "stopping" /\ wpc[current] # "none" ~> state # "stopping"

\* The size limit ends a capture whose file has reached it, also when no further
\* sample arrives.
SizeLimitStops ==
    state = "running" /\ MaxFileRows > 0 /\ file[current] >= MaxFileRows
        ~> state # "running"

\* A capture that is stopped, or has reached its size, ends.
CaptureEnds == StoppingEnds /\ SizeLimitStops

\* The manager is the life cycle of CaptureLifecycle: one capture at a time,
\* complete only after a stop was requested, rows fixed from then on.
Lifecycle == INSTANCE CaptureLifecycle WITH count <- rows
ImplementsLifecycle == Lifecycle!Spec
=============================================================================
