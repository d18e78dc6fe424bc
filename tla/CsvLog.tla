------------------------------- MODULE CsvLog -------------------------------
(***************************************************************************)
(* The power log, power_log.csv: rpi/serial_logger.py and rpi/dashboard.py *)
(* append to the same file, one program at a time.  Sampling threads and   *)
(* the reader of the serial port share the buffered file under csv_lock;   *)
(* the logger flushes every row, the dashboard flushes the rows of its     *)
(* samplers every 0.1 s.  The dashboard also keeps the last states in      *)
(* memory.  The file is closed without the lock and without waiting for    *)
(* the threads; the disk may be full, and the process may die.             *)
(*                                                                         *)
(* A row is the number of a PWR| line, or Power; samples that follow       *)
(* another row are not counted.  What has left the process's buffer is *)
(* in the file: a loss of power is left out.                               *)
(***************************************************************************)
EXTENDS Integers, Sequences, FiniteSets

CONSTANTS
    Header, Power,  \* lines of the file
    Torn, Garbled,  \* half a row, and a line that begins with one
    MaxLog,         \* MAX_STATE_LOG
    MaxLines,       \* bound on the PWR| lines that the ESP32 sends
    MaxRuns         \* bound on the starts

ASSUME LogAssumption ==
    /\ Header \notin {Power, Torn, Garbled} /\ Power \notin {Torn, Garbled} /\ Torn # Garbled
    /\ {Header, Power, Torn, Garbled} \cap (1 .. MaxLines) = {}
    /\ MaxLog \in Nat \ {0} /\ MaxLines \in Nat /\ MaxRuns \in Nat

Programs == {"logger", "dashboard"}
Samplers == {"ina219", "external"}
Threads == Samplers \cup {"reader"}

VARIABLES
    program,        \* the program that runs, or ran last
    main,           \* main(): where it is, "off" when no process runs
    writeHeader,    \* the file did not exist
    exists, file,   \* power_log.csv and its lines
    buffer,         \* rows that have been written and not flushed
    lock,           \* the thread that holds csv_lock, or "free"
    pc, line,       \* the threads; the line that the reader handles, or 0
    due,            \* the samplers for which 0.1 s have passed
    state_log,      \* the states in memory
    disk,           \* the disk has room
    lines, runs,    \* lines received, starts
    \* History variables:
    published,      \* states that /api/states has been able to show
    cut             \* a start has created the file and not written the header

threads == <<lock, pc, line, due>>
counts == <<lines, runs>>
logVars == <<program, main, writeHeader, exists, file, buffer, threads, state_log, disk, counts,
          published, cut>>

-----------------------------------------------------------------------------
(* The file.                                                               *)

\* a row that follows half a row makes one line with it
Add(rows, row) ==
    IF rows # <<>> /\ rows[Len(rows)] = Torn THEN [rows EXCEPT ![Len(rows)] = Garbled]
    ELSE IF rows # <<>> /\ row = Power THEN rows
    ELSE Append(rows, row)

\* the file once the first rows of the buffer have been written to it
Written(rows) ==
    LET written[i \in 0 .. Len(rows)] ==
            IF i = 0 THEN file ELSE Add(written[i - 1], rows[i])
    IN  written[Len(rows)]

\* csv_file.flush() that succeeds
Flush == file' = Written(buffer) /\ buffer' = <<>>

LogInit ==
    /\ program = "logger" /\ main = "off" /\ writeHeader = FALSE
    /\ exists = FALSE /\ file = <<>> /\ buffer = <<>>
    /\ lock = "free" /\ pc = [t \in Threads |-> "off"] /\ line = 0 /\ due = {}
    /\ state_log = <<>> /\ disk = TRUE
    /\ lines = 0 /\ runs = 0 /\ published = {} /\ cut = FALSE

-----------------------------------------------------------------------------
(* main().                                                                 *)

\* broken: the file is looked for after open() has created it
NeedsHeaderAfterOpen == FALSE

NeedsHeader == ~exists

\* the file is looked for, then opened for appending, which creates it
Open ==
    /\ main = "off" /\ runs < MaxRuns /\ runs' = runs + 1
    /\ program' \in Programs
    /\ writeHeader' = NeedsHeader
    /\ exists' = TRUE /\ main' = "opened"
    /\ state_log' = <<>>
    /\ UNCHANGED <<file, buffer, threads, disk, lines, published, cut>>

WriteHeader ==
    /\ main = "opened" /\ writeHeader
    /\ buffer' = <<Header>> /\ main' = "header"
    /\ UNCHANGED <<program, writeHeader, exists, file, threads, state_log, disk, counts,
                   published, cut>>

\* the header is flushed, when there is one, and the threads are started; the logger
\* samples one channel
StartThreads ==
    /\ main' = "run"
    /\ \/ main = "opened" /\ ~writeHeader /\ UNCHANGED <<file, buffer>>
       \/ main = "header" /\ disk /\ Flush
    /\ pc' = [t \in Threads |-> IF program = "logger" /\ t = "external" THEN "off" ELSE "idle"]
    /\ UNCHANGED <<program, writeHeader, exists, lock, line, due, state_log, disk, counts,
                   published, cut>>

\* what is left of the reader: the logger reads in main(), whose locks are released
ReaderGone ==
    /\ pc' = IF program = "logger" THEN [pc EXCEPT !["reader"] = "off"] ELSE pc
    /\ lock' = IF program = "logger" /\ lock = "reader" THEN "free" ELSE lock
    /\ line' = IF program = "logger" THEN 0 ELSE line

\* Ctrl-C
Stop ==
    /\ main = "run" /\ main' = "stopping"
    /\ ReaderGone
    /\ UNCHANGED <<program, writeHeader, exists, file, buffer, due, state_log, disk, counts,
                   published, cut>>

\* csv_file.close() flushes; when that fails the rows are gone
Close ==
    /\ main = "stopping" /\ main' = "closed"
    /\ IF disk THEN Flush ELSE UNCHANGED file /\ buffer' = <<>>
    /\ UNCHANGED <<program, writeHeader, exists, threads, state_log, disk, counts,
                   published, cut>>

ProcessEnds ==
    /\ main' = "off" /\ buffer' = <<>>
    /\ lock' = "free" /\ pc' = [t \in Threads |-> "off"] /\ line' = 0 /\ due' = {}
    /\ state_log' = <<>>
    /\ UNCHANGED <<program, writeHeader, exists, disk, counts, published>>

Return ==
    /\ main = "closed"
    /\ ProcessEnds
    /\ UNCHANGED <<file, cut>>

\* A signal that Python does not handle, a header that cannot be flushed, a serial port
\* that cannot be opened.  A full buffer has handed some of its rows over already,
\* and perhaps half of the next one.
Die ==
    /\ main \notin {"off", "closed"}
    /\ \E k \in 0 .. Len(buffer) :
        LET kept == Written(SubSeq(buffer, 1, k))
        IN  file' \in {kept} \cup (IF buffer # <<>> THEN {Append(kept, Torn)} ELSE {})
    /\ cut' = (cut \/ (writeHeader /\ main \in {"opened", "header"} /\ file' # <<Header>>))
    /\ ProcessEnds

-----------------------------------------------------------------------------
(* The reader of the serial port: main() of the logger, serial_thread of   *)
(* the dashboard.                                                          *)

Reader(from, to) ==
    /\ pc["reader"] = from /\ pc' = [pc EXCEPT !["reader"] = to]
    /\ UNCHANGED <<program, writeHeader, exists, due, disk, runs, cut>>

Receive ==
    /\ main = "run" /\ lines < MaxLines
    /\ Reader("idle", "write")
    /\ lines' = lines + 1 /\ line' = lines'
    /\ UNCHANGED <<main, file, buffer, lock, state_log, published>>

ReaderWrite ==
    /\ lock = "free" /\ main # "closed"
    /\ Reader("write", "flush")
    /\ lock' = "reader" /\ buffer' = Add(buffer, line)
    /\ UNCHANGED <<main, file, line, lines, state_log, published>>

\* broken: the row is left in the buffer
ReaderFlushNot ==
    /\ lock = "reader" /\ disk /\ main # "closed"
    /\ Reader("flush", IF program = "logger" THEN "idle" ELSE "log")
    /\ UNCHANGED <<file, buffer>>
    /\ lock' = "free" /\ line' = IF program = "logger" THEN 0 ELSE line
    /\ UNCHANGED <<main, lines, state_log, published>>

ReaderFlush ==
    /\ lock = "reader" /\ disk /\ main # "closed"
    /\ Reader("flush", IF program = "logger" THEN "idle" ELSE "log")
    /\ Flush
    /\ lock' = "free" /\ line' = IF program = "logger" THEN 0 ELSE line
    /\ UNCHANGED <<main, lines, state_log, published>>

Trimmed(log) == SubSeq(log, IF Len(log) > MaxLog THEN Len(log) - MaxLog + 1 ELSE 1, Len(log))

ReaderLog ==
    /\ Reader("log", "idle")
    /\ state_log' = Trimmed(Append(state_log, line))
    /\ published' = published \cup {line} /\ line' = 0
    /\ UNCHANGED <<main, file, buffer, lock, lines>>

\* The disk is full, the file is closed or the serial port is gone: serial_thread ends,
\* the logger stops.
ReaderFails ==
    /\ \/ Reader("idle", "off") /\ main = "run"
       \/ Reader("write", "off") /\ lock = "free" /\ main = "closed"
       \/ Reader("flush", "off") /\ (~disk \/ main = "closed")
    /\ lock' = (IF lock = "reader" THEN "free" ELSE lock) /\ line' = 0
    /\ main' = IF program = "logger" /\ main = "run" THEN "stopping" ELSE main
    /\ UNCHANGED <<file, buffer, lines, state_log, published>>

-----------------------------------------------------------------------------
(* The samplers: ina_thread of both programs, ina226_thread.               *)

Sampler(t, from, to) ==
    /\ pc[t] = from /\ pc' = [pc EXCEPT ![t] = to]
    /\ UNCHANGED <<program, main, writeHeader, exists, line, state_log, disk, counts,
                   published, cut>>

\* the stop event is looked at, and the chip is read
Sample(t) ==
    /\ main = "run"
    /\ Sampler(t, "idle", "write")
    /\ UNCHANGED <<file, buffer, lock, due>>

Due(t) == program = "logger" \/ t \in due

SampleWrite(t) ==
    /\ lock = "free" /\ main # "closed"
    /\ Sampler(t, "write", IF Due(t) THEN "flush" ELSE "idle")
    /\ lock' = IF Due(t) THEN t ELSE "free"
    /\ buffer' = Add(buffer, Power)
    /\ UNCHANGED <<file, due>>

SampleFlush(t) ==
    /\ disk /\ main # "closed"
    /\ Sampler(t, "flush", "idle")
    /\ Flush
    /\ lock' = "free" /\ due' = due \ {t}

\* broken: csv_lock is not released when flush() raises
SampleFailsLocked(t) ==
    /\ \/ Sampler(t, "flush", "idle") /\ ~disk /\ main # "closed"
       \/ Sampler(t, "write", "off") /\ lock = "free" /\ main = "closed"
       \/ Sampler(t, "flush", "off") /\ main = "closed"
    /\ UNCHANGED <<file, buffer, lock, due>>

\* OSError is taken for an error of the chip; a closed file ends the thread
SampleFails(t) ==
    /\ \/ Sampler(t, "flush", "idle") /\ ~disk /\ main # "closed"
       \/ Sampler(t, "write", "off") /\ lock = "free" /\ main = "closed"
       \/ Sampler(t, "flush", "off") /\ main = "closed"
    /\ lock' = "free"
    /\ UNCHANGED <<file, buffer, due>>

Elapse(t) ==
    /\ main = "run" /\ program = "dashboard" /\ t \notin due
    /\ due' = due \cup {t}
    /\ UNCHANGED <<program, main, writeHeader, exists, file, buffer, lock, pc, line, state_log,
                   disk, counts, published, cut>>

-----------------------------------------------------------------------------
(* The disk (external).                                                    *)

Disk ==
    /\ disk' = ~disk
    /\ UNCHANGED <<program, main, writeHeader, exists, file, buffer, threads, state_log, counts,
                   published, cut>>

Main == Open \/ WriteHeader \/ StartThreads \/ Stop \/ Close \/ Return \/ Die

ReaderStep == ReaderWrite \/ ReaderFlush \/ ReaderLog

SamplerStep(t) == SampleWrite(t) \/ SampleFlush(t) \/ SampleFails(t)

LogNext ==
    \/ Main \/ Receive \/ ReaderStep \/ ReaderFails
    \/ \E t \in Samplers : Sample(t) \/ SamplerStep(t) \/ Elapse(t)
    \/ Disk

\* Threads go on with what they have begun, nobody waits for csv_lock for ever while
\* others get it again and again, 0.1 s pass, and one of the chips answers.
LogSpec ==
    /\ LogInit /\ [][LogNext]_logVars
    /\ SF_logVars(ReaderStep) /\ WF_logVars(ReaderFails /\ pc["reader"] = "flush")
    /\ WF_logVars(\E t \in Samplers : Sample(t))
    /\ \A t \in Samplers : SF_logVars(SamplerStep(t)) /\ WF_logVars(Elapse(t))

-----------------------------------------------------------------------------
(* Properties.                                                             *)

Rows == 1 .. MaxLines \cup {Header, Power, Torn, Garbled}
InFile == {file[i] : i \in 1 .. Len(file)}
GarbledLines == {i \in 1 .. Len(file) : file[i] = Garbled}

\* Types of the file, the threads and the log in memory.
LogTypeOK ==
    /\ program \in Programs /\ main \in {"off", "opened", "header", "run", "stopping", "closed"}
    /\ exists \in BOOLEAN /\ file \in Seq(Rows) /\ buffer \in Seq(Rows)
    /\ lock \in Threads \cup {"free"} /\ line \in 0 .. MaxLines /\ due \subseteq Samplers
    /\ pc \in [Threads -> {"off", "idle", "write", "flush", "log"}]
    /\ state_log \in Seq(1 .. MaxLines) /\ Len(state_log) <= MaxLog
    /\ lines \in 0 .. MaxLines /\ runs \in 0 .. MaxRuns /\ published \subseteq 1 .. MaxLines

\* However often either program is started, stopped or killed, the file begins with
\* the header and has it once, unless a start was cut before its header was flushed.
HeaderFirst ==
    ~cut /\ file # <<>> =>
        file[1] = Header /\ \A i \in 2 .. Len(file) : file[i] # Header

\* A state that the page could show is in the file, also after the process has died;
\* at most the first row after each half row is lost.
PublishedKept == Cardinality(published \ InFile) <= Cardinality(GarbledLines)

\* As long as the disk has room, the samples reach the file.
SamplesReachFile ==
    <>[](main = "run" /\ disk) => []<>(buffer = <<>> \/ main # "run")

\* A line that has been received reaches the file unless the program stops or the disk
\* is full, whatever the samplers do with csv_lock.
LinesReachFile ==
    \A n \in 1 .. MaxLines :
        line = n ~> n \in InFile \/ GarbledLines # {} \/ main # "run" \/ pc["reader"] = "off"

\* The types, with a bounded log in memory, and one header at the top.
LogConsistent == LogTypeOK /\ HeaderFirst

\* What has been sampled or received reaches the file.
RowsReachFile == SamplesReachFile /\ LinesReachFile
=============================================================================
