# esp32s3-wake-on-radio: verification project

TLA+ models of the wake-on-radio system: the ESP32-S3 firmware (`src/main`),
the Linux kernel driver for its wake line (`src/driver/esp32_wor.c`) and the
measurement dashboard on the Raspberry Pi (`src/rpi/dashboard.py`). TLC checks
the models on small instances; TLAPS proves the safety properties of every one of them
for all values of their constants.

## The system

    trigger scripts (UDP, ESP-NOW, BLE, SSID)
        |
    ESP32-S3 firmware --wake GPIO--> kernel driver --sysfs--> driver_thread
                                                                   |
      INA219 / INA226 --I2C--> sampling threads                    v
                                  |      \                    driver_state,
                                  |       `-> PowerCapture    RTT samples
                                  v              |                 |
              CSV log <-- history, SSE <-------+--- burst test, logic analyzer
                 ^                |
     serial logger / reader   web page

A test run goes around this loop: the dashboard sends a UDP trigger (a single
one, or a burst), the firmware wakes and drives a GPIO HIGH for two seconds, the
kernel driver measures and counts the pulse, `driver_thread` polls sysfs ten
times a second, matches the new wake with the time stamp of the last trigger and
publishes a round-trip time.

### Inventory

| Component | State | Operations | Interacts through | Hard because | Correct when |
|---|---|---|---|---|---|
| Kernel driver `esp32_wor.c` | `pending`, `active`, `last_rise`, `last_duration`, `wake_count` | interrupt handler on both edges, three `show` functions, `wake_count_store`, probe / remove | the GPIO; sysfs | edges coalesce in the interrupt controller; the level is read outside the lock; debounce compares two late time stamps; `wake_count` wraps and is rewritten by users | at rest it agrees with the line; wakes are debounced; the count is right up to the latency |
| `PowerCaptureManager` | state, active flag, queue, stop event, counters, files | `start`, `stop`, `record`, `_writer_loop`, `snapshot`, file listing | two sampling threads call `record`, HTTP handlers start and stop, one writer thread per capture | decisions without the lock; failing file system; restart with files on disk; queue limit | one writer; published files are complete and final; stops end |
| `driver_thread`, `_send_one_trigger` | `driver_state`, `last_trigger_mono_ns`, RTT list, `prev_wake_count` | poll, match, publish; stamp and send | sysfs; burst thread; HTTP | separate sysfs reads; the stamp is read and cleared in two lock regions; counter resets and reloads | wakes are noticed; one RTT per trigger; the display converges |
| Burst test | `burst_state`, `burst_stop` | `burst_start`, `burst_stop_api`, `burst_thread` | polls `driver_state`, sends triggers | check in one thread, set in another; the stop event is cleared in two places | one burst; stops are honoured; it ends |
| Logic analyzer | `la_state`, `la_process` | `la_start`, `la_stop`, monitor threads, `la_detect_thread` | `sigrok-cli` processes, USB device | lock regions with a process start in between; a scan and a monitor change the same flag; `la_process` is not locked | one process, which can be stopped; the flag is reset |
| Firmware `src/main` | GPIO with hold, Wi-Fi event bits and retries, trigger bit | boot, five strategies, Wi-Fi event handler, deep sleep | access point, triggers, the wake line | the main task, the event task and the radio run concurrently; a held pad survives resets | the line is HIGH exactly in the active phase; a trigger is not lost |
| INA219 sampling and configuration | sensors, enabled / high-speed / active channels, JSON file | `ina_thread`, four routes, boot | I2C lock, history, SSE, capture | memory and file may differ after an error; boot with fewer sensors than were saved | only enabled channels are sampled; enabled ones are |
| External monitor (INA226 / INA228) | settings, driver object, JSON file, cached voltage, sample, status shown | boot, configure, switch off, calibrate, `ina226_thread` | I2C, lock, SSE, capture | settings are assigned before the chip answers; saves fail twice; a late error report; a cleared calibration register; boot with an older file | the driver matches the settings; what was confirmed is used and restored; the page shows the true status |
| Server-sent events | client queues, snapshots on their way, what a page shows | `broadcast_sse`, `/api/stream`, the page's load, reconnect and polls | every thread broadcasts | a slow client is dropped without being told; snapshots are sent after the lock is released | a listed client misses nothing; a polled panel converges |
| Power log: serial reader, state log, `serial_logger.py` | `power_log.csv`, its buffer, `csv_lock`, the last states | open, header, samples, lines, flush, close | two programs append to one file; samplers and reader share the lock | kills between open and header or in a row; a full disk; close without the lock | one header; no state is shown and lost; rows reach the file |
| Trigger scripts | hotspot, Bluetooth adapter, countdown | commands, frames, interruption | the radio; the listening loop of the firmware | two clocks that know nothing of each other; a script that is cut leaves its trigger on | a trigger that lasts long enough is found; nothing stays on the air |
| System statistics, page, shell scripts | | sequential, rendering | | | |

`PROJECT.json` lists the hazards of this code line by line, with the properties
that cover them, and the reason where none does.

## The modules

| Module | Models | Composition |
|---|---|---|
| `Esp32Wor` | the kernel driver, the line, the clock | |
| `CaptureLifecycle` | what a power capture promises | abstract specification |
| `PowerCapture` | `PowerCaptureManager` and its threads | implements `CaptureLifecycle` |
| `PowerCapture_proofs` | theorems about `PowerCapture` | extends it |
| `WakeRtt` | `driver_thread`, `_send_one_trigger` | extends `Esp32Wor`: the polls read the driver's own variables |
| `BurstTest` | the burst handlers and thread | the device is two actions on `driver_state` |
| `LogicAnalyzer` | handlers, monitors, detection thread, `sigrok-cli` | |
| `Ina219` | boot, requests and channel choice of the INA219 sensors | the chips are external |
| `Firmware` | `src/main`, all strategies | the access point and the radio are external |
| `ExternalMonitor` | settings, boot, requests and `ina226_thread` of the INA226 / INA228 | the chips are external |
| `EventStream` | `broadcast_sse`, `stream()`, publishers, the page's panels | stands for every status that is broadcast |
| `CsvLog` | `power_log.csv` with the threads of the dashboard and of `serial_logger.py` | the disk is external |
| `TriggerScripts` | the four scripts, in time, against the listening loop | the loop is that of `Firmware`, reduced to its phases and their lengths |
| `WakePath_proofs` | theorems about `Firmware`, `Esp32Wor` and `WakeRtt` | extends `WakeRtt` and `Firmware` |
| `Reporting_proofs` | theorems about `EventStream` and `CsvLog` | extends both |
| `BurstTest_proofs`, `LogicAnalyzer_proofs`, `Ina219_proofs`, `ExternalMonitor_proofs`, `TriggerScripts_proofs` | theorems about the module of that name | extend it |
| `MC*` | constants for TLC | extend the modules |

A definition preceded by a comment `broken: ...` is a plausible bug in the
definition that follows it. It is used by no specification; `PROJECT.json` names
the property that breaks when it takes the place of the right one.

### How the models correspond to the code

One action is one region of code that other threads cannot interrupt or cannot
tell from an uninterrupted one: a lock region, a read or write of a shared
variable outside a lock, or a blocking call. A thread's program counter names
the next such region.

* **`Esp32Wor`**. `IrqSample` is `gpiod_get_value()`, before the spinlock;
  `IrqRise`, `IrqFall` and `IrqIgnore` are the three outcomes inside it. `edge` is the one
  bit in which an interrupt controller remembers an edge. `Tick` keeps a latched
  or running interrupt from waiting longer than `MaxLatency`. `Reprobe` is
  `rmmod` and `insmod`. `since`, `waited`, `tracked`, `seen`, `total`, `lastCount`,
  `sure`, `maybe`, `crowded` are history: what an observer of the line
  with a perfect clock would have written down.
* **`PowerCapture`**. `RecCheck`, `RecLock`, `RecPut`, `RecDrop` are the pieces of
  `record()`; `WOpen` to `WFail` those of `_writer_loop()`, every one of which
  that touches the file system may raise (`"failed"`, the `except` branch). `Restart`
  is the death and restart of the process. Rows are counted, not told apart.
* **`WakeRtt`**. `ReadCount` and `ReadWake` are the two sysfs reads that a decision depends on, in their order (`active` and
  `last_duration_ns`, read beside them, are only shown);
  `Publish`, `WakeMatched`, `Clear` the lock regions. `Stamp` and `Send` are
  the two halves of `_send_one_trigger()`.
* **`BurstTest`**. `CheckRunning` is the lock region of `burst_start()`, `BadRequest` and `Spawn` what comes after it: a body that
  cannot be converted, or the start of the thread, which may fail. `interval` says what `time.sleep()` makes of the interval of a request,
  which nothing checks: in `Pause` it has slept, or raises and ends the thread (`died`). Host and port are taken to be valid; `Begin` is the first lock region of the thread. The waiting loops are one
  action each (`WaitIdle`, `WaitWake`), enabled when they end; `timely` says
  whether the device answers before the tries are used up.
* **`LogicAnalyzer`**. Processes are named by the start request that made them.
  `StopCheck` and `StopTerminate` are the two reads of `la_process` in `la_stop()`.
* **`Ina219`**. The requests and each iteration of `ina_thread` hold `ina_lock` from their first to their
  last look at the selection, so each is one action: `SetHighspeed`, `SetEnabled`, `Reconfigure`, `Sample`, `Idle`;
  `Boot` is `main()` up to the start of the thread. What fails inside a request is a disjunct of its action:
  `Stages` says how far `_configure()` got, and a save either happens or raises, with memory already changed.
  `broken` and `chip` are the bus and the calibration registers. `CheckEvery` stands for the 100 samples
  between two looks at a calibration. `keptSelection` and `keptShunt` are history: what was
  last confirmed to the user and not touched since; a save while a chip is missing drops its calibration from the file, and
  from the claim. A first boot without some chips is covered by restarts before anything was saved.
* **`Firmware`**. `Assert` and `ReportActive` are `wake_gpio_assert()` and the `power_log_state()` after it. `strategy` is fixed when the firmware is built, so it is chosen by
  `Init` and never changes. `log` is the last `power_log_state()`. `Drive` and `InitPin`
  are `wake_gpio_set` and `wake_gpio_init`: the pad follows the register unless it is held.
  `StopRadio` posts the disconnect event that `wifi_connect_deinit()` provokes.
* **`ExternalMonitor`**. A request and an iteration of the thread hold `ina226_lock` throughout, so each is one action; only
  the report of a failed iteration is an action of its own, `ReportError`, because `except OSError` takes the lock again.
  `Apply` and `Refuse` are `_configure_ina226_locked()` with and without an `OSError`: the settings are stored before the
  device is talked to (`Stored`), completed by detection (`Detected`), and saved twice when something fails. Shunts are
  logarithms, so that the correction of a calibration is a sum. A chip that has lost its supply reads 0 in its register.
* **`EventStream`**. A status is the number of its updates, a message the number of its broadcast. `Update` is the lock region,
  `Broadcast` the call after it; `Deliver` is `q.get()`, the write and the page's handler. `Poll` stands for the panels
  that the page also fetches every second; the other panels change with events only.
* **`CsvLog`**. `program` says which of the two programs runs. `SampleWrite`, `SampleFlush`, `ReaderWrite` and
  `ReaderFlush` are the steps under `csv_lock`; `Close` takes no lock, as in the code. `Die` leaves any prefix of the buffer in
  the file, perhaps with half a row. What has been handed to the system counts as written; a loss of power is left out.
* **`TriggerScripts`**. A tick is any unit that divides the times. `After` is the order of the commands,
  `CommandFails` what the scripts make of a failure (only those of the connection are looked at), `Cut` a signal, or Ctrl-C outside
  the `try` block. `Urgent` lists what happens without delay: a countdown, a frame and the end of a phase are not late;
  `restart` is how long the radio may take. The first Bluetooth window after a boot is shorter by the time NimBLE needs to start (`FirstWindow`).

## The runs

| Run | Question | Bounds, and why they are enough |
|---|---|---|
| `esp32_wor` | Does the driver stay in step with the line, debounce, and count right, when edges coalesce and hit the handler half way? | Debounce 2, latency 1, no gap between edges, counter modulo 3, 6 ticks: room for two whole pulses, for glitches before, in and after them, and for a wrap |
| `capture` | Can stops, limits, failures and restarts produce two writers, a torn or changing file or a false report? Does the manager implement the life cycle, and do a stop and the size limit end a capture? | two recorders, two captures, a queue of 3 (more than recorders) that 4 samples can fill, a size limit of 2 rows: a late row of the first capture meets the second, and every limit can be the one that ends a capture |
| `wake_rtt` | Are wakes noticed, matched once and finally displayed? | one sender, two triggers, a list of one sample, a counter modulo 3 that is set to 0 and to its last value at any time, reloads: it can count two wakes between two polls, and wrap by a wake right after it has been stored |
| `burst` | One burst at a time, own counts, honoured stops, an end? | two start requests with intervals that can be slept or not, any number of stops, two cycles, two wakes |
| `analyzer` | One process which can be stopped, a flag that is reset? | two starts, one unplugging, any number of scans and stops |
| `ina219` | Is the selection consistent, does a restart find what was confirmed, is no channel starved? | two channels, two calibrations, two requests of any kind and any failure, two restarts, one lost calibration: enough for a save that fails between two restarts and for a restart without a chip after a save |
| `external_monitor` | Do samples match the settings, is what was confirmed used, restored and shown, is a calibration exact? | an INA226 and an INA228 with conversion times of their own, an older file, two requests of any kind and any failure, two boots, one lost calibration: a request can fail after one that was confirmed, and be followed by a restart |
| `event_stream` | Does a listed client miss anything, does a page that polls converge, is a page that is gone forgotten? | one page with two connections, two publishers that can overtake each other, a queue of 2 that four updates overfill; `NothingMissed` is proved for every number of them |
| `csv_log` | Does the file keep its header and what was shown, do rows reach it? | three lines, a log of two, two starts of either program: the second meets what the first has left, torn rows included |
| `trigger_scripts` | Does a trigger find the device in every phase, and does it go away? | every combination of windows, intervals, restarts and frame distances up to 3 ticks (BLE intervals up to 5), durations up to 7, up to 5 frames; both sides of every premise occur, and an interval shorter than the window |
| `firmware` | Does the line say what happens, is a trigger lost? | five strategies, two access point outages, two retries, one panic, any number of sleeps |
| `firmware_deaf` | **violated**: a DTIM device stays associated | |

Where a component has several properties of one kind they are checked as one conjunction: `Consistent` (`FirmwareConsistent`, `LogConsistent`) is the type
invariant with the structural invariant of a module, `Recovers`, `TriggersAnswered`, `CaptureEnds`, `PagesConverge` and
`RowsReachFile` join liveness properties. The parts keep their names, and are what the sections below speak of. Some
type invariants (`Esp32Wor`, `PowerCapture`, `EventStream`) are proved and no run repeats them.

No run replaces a definition. `MaxTime`, `MaxCaptures`, `MaxSamples`, `MaxSends`,
`MaxRequests`, `MaxBoots`, `MaxLosses`, `MaxBursts`, `MaxWakes`, `MaxStarts`, `MaxUnplugs`, `MaxDrops`, `MaxResets`,
`MaxUpdates`, `MaxConnects`, `MaxLines` and `MaxRuns`
bound counters that the code does not bound; the others stand for constants of the code
at a smaller size. Deadlock is checked everywhere: none of the models can stop, because some
request, poll or unplugging is always possible.

### Properties with a premise

Some properties hold only under a condition that the code does not enforce. The condition is a
history variable, so that every behaviour is explored and only the claim is restricted:

* `BurstTest`: `overlapped`, a second start request got past its check before
  the first thread had set `running`, or while an old thread had still to clear the stop
  event. Without it two bursts run at the same time, count in the same fields and
  reset each other's flag, and a stop request between the check and the clearing of the event is erased.
* `LogicAnalyzer`: `overlapped`, the same for `la_start()`, and for a monitor that has
  still to clear `la_process`: it then erases the handle of the *next* process, which
  no stop request reaches. `abandoned`: a scan missed the busy device and reset the flag.
  `BurstEnds` lets a burst die of its own interval; the first half of `FlagTracksThread` has no premise: only a dead thread
  leaves `running` set. `timely`, in `PacedByWakes`, leaves out a device that answers after the tries are used up.
* `WakeRtt`: `rewritten`, the counter was stored, reloaded or wrapped; the comparison
  `new_wc > prev_wake_count` then misses wakes until the counter has caught up.
* `Firmware`: `frozen`, a panic has left the line HIGH and nothing has driven it since:
  `wake_gpio_init()` does not release the hold of a pad, so the line stays HIGH
  over the next boot until a strategy drives it. Once driven it means a trigger again; a panic while it is LOW changes nothing.
* `Ina219`: `fellBack`, the boot found none of the wanted high-speed channels and took the first chip that
  answered, enabled or not. Only then is a high-speed channel not enabled, and nothing is sampled although a channel is enabled.
* `PowerCapture`: `StoppingEnds` speaks of captures that have a writer. `start()` announces the capture before
  `Thread.start()`, so when no thread can be made it says `running`, and after a stop `stopping`, until a restart.
* `Esp32Wor`: `crowded`, an edge came while the driver was busy with the one before.
* `ExternalMonitor`: finite numbers in requests. `kept`, the last request was answered `ok`. `CalibrationExact` needs it: a calibration whose register write failed
  has already changed the shunt in memory, and the next one corrects a correction. `RestoredByBoot` says nothing of the
  other settings of a disabled monitor, which a boot overwrites with the module's defaults, nor of the
  conversion time of a chip that is detected, which is rounded with the table of an INA226 first.
* `EventStream`: `PushedFollows` speaks of a page that stays connected and listed. A client whose queue was full is dropped,
  its connection stays open and quiet, and a panel that is not polled stays as it is. The last broadcast need not carry
  the last status either: two publishers may overtake each other.
* `CsvLog`: `cut`, a start was killed between creating the file and flushing the header; the file never gets one. Half a row
  that a killed process has left makes one line with the next row, which is lost (`Garbled`). `LinesReachFile` ends with the reader: one
  failing flush, or a serial port that goes away, ends `serial_thread` for good.
* `TriggerScripts`: `Lasting`, how long a trigger must last. `clean`, no command failed and the script was not cut: nothing
  else takes a hotspot or an advertisement down. With the default options ten ESP-NOW frames, 100 ms apart, can all fall between
  two windows of 50 ms, a second apart; BLE advertisements are as far apart as the window is long.

### Fairness

Only what the code schedules: a latched interrupt is taken and its handler returns;
`driver_thread` polls and `ina_thread` samples for ever; a thread that has been started goes on through its steps; a process that has been
terminated ends; a tried association ends one way or the other; `ina226_thread` reports once a second; a
generator writes what is in its queue, and a page loads, reconnects and polls. A thread that waits for `csv_lock` gets it
sooner or later although others take it again and again (strong fairness): they hold it for one row and let it go between two
samples. No fairness for requests, samples, triggers, wakes, restarts, failing calls, a returning access point, disconnections,
a disk that gets room again, or a process that is left alone. `TriggerScripts` has no liveness: its times are bounded.

## What is proved

Every safety property of the runs, invariants and action properties alike, is proved for every value of the constants that
the named assumptions allow; so is the refinement of `CaptureLifecycle`. TLC has checked the same properties, and the
inductive invariants below, on the instances of the runs. The assumptions say that times, sizes and bounds are
naturals, that sizes the code divides by or indexes with are positive, and that the defaults are among the values the code accepts;
where one says more, it is named below. All bounds (`Max...`) are arbitrary, so the theorems hold without them.

A component's names are prefixed where its proofs stand beside those of another (`DriverSpec`, `FirmwareSpec`,
`LogSpec`, `LogConsistent`): one proof module extends both.

**`WakePath_proofs`**: the way of a wake. The firmware, for any number of retries, lost access points and panics:

* `PinMeans`: `FirmwareSpec => []FirmwareConsistent`. `PinInv` adds where the main task is: a line that is HIGH and not `frozen` by a panic belongs to
  the DTIM strategy between its trigger and its sleep. The event task, the access point and the radio leave it alone (`MainAlone`).

The kernel driver, for every debounce time, latency, gap, counter width and set of stored values (`EspAssumption`; stored values fit the counter):

* `DriverTypes`: `NumbersOK` and `FlagsOK` are inductive on their own.
* `LevelAgrees`: the property only speaks of a driver at rest; it is inductive together with what holds in
  between: if nothing is latched, the level that a handler has sampled is still the level of the line (`LevelInv`).
* `CountedWakesApart`: a wake is counted when `pending` is reset, at least the
  debounce time after `last_rise`; `ApartInv` adds that `last_rise` of a pending pulse
  is not before the last counted wake, and that no time stamp lies in the future.
* `CountIsFaithful`: the invariant follows one pulse through the driver: while edges
  do not crowd, either the last edge is latched or sampled and the counts of complete pulses
  may be one ahead of `total`, or the driver has caught up; in each case
  `last_rise` is within `MaxLatency` of the real rise, and the time the interrupt
  has waited bounds how late the next time stamp can be.

`driver_thread` and the senders on top of the driver, for any number of senders and triggers:

* `DriverInside`: every step is a step of the driver or leaves it alone, so the theorems above hold here too.
* `OneSamplePerTrigger`: at most one sample per trigger needs `OnceInv`: a stamp belongs to the newest trigger, which has no sample
  unless the thread is about to clear the stamp, and no trigger to come has one.
* `WakesDetected`: `CountInv` follows the counter between two polls: while nobody rewrites it, it grows at least as much as the
  wakes, and what the thread compares with lies behind. With a counter of a single value (`CountMod = 1`) nothing is ever seen; `RttAssumption`
  leaves that one out.

**`PowerCapture_proofs`**, for any finite set of recorders, any number of captures and samples, every
queue and file size, with and without a time limit and threads that cannot be started (`CaptureAssumption`):

* `TypeCorrect`; in particular no queue exceeds its size.
* `OneWriterAtATime`: `OneWriter` is inductive with the types: a writer at work is the current one and the state
  is live, and `start()` refuses a live state.
* `ActiveAgrees`: needs `StopInv`. A writer that has left its loop was told to stop (`ToldToStop`), a capture that
  runs or has not begun was not (`NotTold`); without them the last step of a writer, which may fail after it has
  written `complete`, could leave `active` set.
* `FinalFilesFrozen`: the writer of a published file is past writing, and a capture that has not begun has no writer
  (`PublishedInv`); without the second half `start()` could reopen a published file.
* `CompleteReports`: the counter of the manager, which a `start()` resets, moves with the file of the writer at work
  (`Counted`), and the size is taken when the file is closed (`Sized`).
* `LossIsBounded`: while a writer loops, accepted rows are in the queue, its hand or the file
  (`Balanced`). From the moment it leaves the loop, the rows missing plus the recorders still pending on its queue are at most the number of
  recorders (`Settled`): no recorder can join, because the stop event is set and a recorder
  picks up a queue only while the state is running.
* `RefinesLifecycle`: `Spec => Lifecycle!Spec`. Steps of recorders and writers that do not touch state, reason or rows stutter;
  `WFinish` is `Complete` by `StopInv`, and `WFail` is `Fail` or `Retract` because an idle manager has no writer left (`IdleInv`).

**`Reporting_proofs`**: what reaches a reader. The event stream, for any pages, publishers, queue size and number of connections (`StreamAssumption`):

* `TypesAndQueues`: the types with two more facts: whatever waits in a queue, also of a client that was dropped, has been
  broadcast (`Queued`, without which a page could show anything), and a connection that has not been made has an empty
  queue and is not listed (`Unmade`).
* `NothingMissed`: a broadcast adds its number to the queue of every client that stays; a new
  connection starts, by `Unmade`, with an empty queue and everything behind it.

The power log, for any number of lines, starts and kills and any size of the log in memory (`LogAssumption`: the four special
lines differ from each other and from the numbered ones). Both theorems follow from `LogInv`:

* `HeaderOnTop`: while the header is owed the file is empty and the threads are not started (`HeaderInv`, `Asleep`), and the buffer
  holds a header in `WriteHeader`'s state only (`HeaderBuffered`). Afterwards rows only grow the file, and the one line they may change is
  half a row, which the header is not (`HeaderStays`).
* `ShownIsKept`: it is stronger for the lines *owed*: those that the page could show and the one that the reader has flushed and not shown yet. A flush finds
  that line in the buffer (`InBuffer`), because nobody else flushes while the reader holds `csv_lock` (`LockOK`);
  a row is swallowed only by half a row, which becomes garbled and pays for it (`WritingSafe`).

**`BurstTest_proofs`**, for any number of requests, cycles and wakes:

* `TypeCorrect`: that `completed` and `errors` have a bound needs a count: they never exceed the triggers of all bursts (`CountersOK`).
* `FlagBacked`: whatever overlaps, `running` is set only while some thread is between its first and its last lock region, or has died there (`Backed`):
  a thread that ends resets the flag for all of them.
* `OneBurstAtATime` (with `FlagBacked`), `CountersAreOwn`, `WakesPace`, `StopIsHonoured` follow from one invariant, which holds until starts overlap: at most one
  burst has been let through and has not finished (`Solo`; one that has died keeps its place), `running` is set exactly from its first to its last lock
  region, and for good when it has died in between (`Flagged`), the counters are its own (`Own`), `wc_before` and the wakes since then bound its triggers (`Paced`), and a burst that was asked to stop
  still finds the event set (`Stopping`).

**`LogicAnalyzer_proofs`**, for any number of requests and unpluggings:

* `TypeCorrect`, with what request numbers mean (`Numbered`).
* `FlagHasOwner`: the flag that is set has a thread that will reset it; this one holds whatever overlaps.
* `OneProcess`, `StopReaches`: until starts overlap or a scan abandons a capture, at most one start is under way (`Solo`), nobody but its thread resets
  the flag (`Flagged`), and from its assignment on `la_process` names its process (`Named`). A process runs only while its handler or its monitor stands behind it (`Placed`).

**`Ina219_proofs`**, for every list of channels and set of shunts, any number of requests, restarts and lost calibrations (`InaAssumption`):

* `SelectionHolds`, `CalibrationInUse`, `RestoredAtBoot` follow from one invariant (`InaInv`). None of the properties says anything about the file
  while nothing is restarted; the invariant does: what was confirmed is in the file, consistent, as long as it is kept (`SelectionInFile`, `ShuntInFile`), and enabled
  channels are present, also after a boot that fell back (`EnabledPresent`).

**`ExternalMonitor_proofs`**, for any chips, shunts and conversion times (`MonitorAssumption`: a chip has some conversion time that is nearest to a given one):

* `SettingsInUse`: the driver object agrees with the settings (`Matches`), what was confirmed is used, and
  is in the file with a conversion time that its chip has (`KeptIsSaved`). Without the last half a boot would round what it finds.
* `ConfirmedSurvivesBoot`, from the same invariant, case by case over the ways a boot can fail.
* `CalibrationsExact`: the samples of a calibration see the register that the iteration before has healed, so the correction starts
  from the shunt in the settings.

**`TriggerScripts_proofs`**, for every set of windows, intervals, restarts, periods, counts and durations (`SettingsAssumption`):

* `NothingLeftOnAir`: `OnAir` says what a run without a failure has put on the air after each command, `OwnCommands` that a script
  leaves alone what the other scripts use.
* `TriggersFound`: while nothing has been found, the time searched is bounded by where the device is in its loop: a hotspot that came up in a window is in none completely
  before the next (`NotScanned`); frames have only met the device's absence, or the next frame comes before the window ends (`NotHeard`). When a trigger lasts longer than the bounds, the
  script cannot be over.

### What the proofs changed in the models

* `TriggerScripts`: the cases of `Away` overlapped, which leaves its value open.
* `WakeRtt`: the counter has more than one value.
* `Ina219`: the lists are sequences without repetition, and `Among` and the rows of `CsvLog` (`Written`) are recursive functions
  instead of library operators that take an operator as a parameter; `LogAssumption` names the differences instead of counting.
* `WakeRtt` extends `Esp32Wor` instead of instantiating it.

### How the proofs are laid out

Each module states the assumptions as a lemma, facts about its operators, the inductive invariant in named parts, a lemma for each part with one step
per action, and the theorems. Facts about recursive functions (`AmongIs`, `WrittenIs`) go through the least number for which the
fact could fail (`Least`, from the well-foundedness of the naturals): induction schemes take a predicate as a parameter, which the provers cannot
instantiate, but the least element of a set of counterexamples is a first-order fact.

### What is model-checked only

Liveness under fairness (`NoStuckPending`, `CaptureEnds`, `Recovers`, `DashboardConverges`, `BurstEnds`, `CapturingSettles`, `TriggersAnswered`,
`ClosedForgotten`, `PagesConverge`, `RowsReachFile`): fairness and `ENABLED` are beyond the prover. So is the violation of `firmware_deaf`, which is a single behaviour.

## What is not modelled, and why

* The page (`dashboard.html`) beyond its connection and its polls: charts and the analysis of waveforms, rendering in a browser.
* Shell scripts: sequential tools around I/O. `flash_esp32.sh` edits `sdkconfig` (lines 119-147) and removes
  only the keys of the strategy that it selects, so an older selection survives.
* `power_log.c` keeps 64 entries and is full after about 31 listen cycles; the table only feeds a summary.
* System statistics: one thread that replaces a dictionary.
* Numbers: NaN and infinity in requests for the external monitor; conversion, averages, energy; the rail mode of the external monitor; the IP address the serial reader finds in a line.
* The device-tree overlay, `setup_rpi.sh`, `verify.sh`, documents.

### Known deviations that no run shows

Each is in the model, and a property above has the premise that leaves it out:

* After the documented `echo 0 > wake_count` (`README.md:213`) wakes are not noticed until the counter has passed its old value.
* A burst whose interval is negative, NaN or too large for `time.sleep()` dies at its first cycle with `running` set; every later start is answered 409
  until the dashboard is restarted (`dashboard.py:2260`, `2310`).
* A request for the external monitor with a NaN or an infinity may leave settings assigned that the driver does not have (outside the model's data).
* A start, or the end of the burst before, erases a stop request that was accepted (`dashboard.py:2296`, `2312`).
* A scan that times out during a capture resets `capturing`, and a second capture starts (`dashboard.py:746`).
* A boot without the high-speed channels picks a channel that is not enabled, and nothing is sampled (`dashboard.py:3071`).
* A calibration after one whose register write failed is answered `ok` and is wrong (`dashboard.py:1683`).
* A client that was dropped with a full queue keeps its connection and gets nothing any more (`dashboard.py:763`).
* Ctrl-C between `nmcli connection up` and the `try` block leaves the hotspot on (`trigger_listen.py:68`).
* A capture outlives its maximum duration while no sample arrives (the limit is looked at in `record()` only); `dropped` of one
  capture may be counted for the next; a stamp whose `sendto()` failed is
  matched with the next wake; a stamp taken between a match and its clearing is erased; the ESP-NOW, BLE and SSID
  strategies notice their trigger without raising the wake line; `ina219_enabled()` may leave an active channel that is
  enabled but not sampled at high speed; a channel that is enabled but not at high speed is never sampled.

## Plan

Done: all modules of the table above, and the proofs of every safety property that a run checks.

1. Refinements worth stating and proving: an abstract round-trip meter (a trigger, at most one sample) that `WakeRtt` implements, and
   an append-only record of what was confirmed that `Ina219` and `ExternalMonitor` both implement.
2. Theorems for the premises: that `overlapped` in `BurstTest` and `LogicAnalyzer` is set only by the interleavings named above.
3. A small model of `flash_esp32.sh`: exactly one strategy selected over a sequence of flashes.
