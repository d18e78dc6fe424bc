------------------------------ MODULE Esp32Wor ------------------------------
(***************************************************************************)
(* The kernel driver driver/esp32_wor.c: one GPIO line driven by the       *)
(* ESP32, an interrupt on both edges, a debounced wake counter and the     *)
(* sysfs attribute that rewrites it.                                       *)
(*                                                                         *)
(* The interrupt controller keeps ONE bit (edge): edges that arrive before *)
(* the handler runs coalesce.  The handler reads the LEVEL of the line     *)
(* before it takes the spinlock, so sampling and updating are two steps    *)
(* and the line may move between them.  Time is counted in ticks.          *)
(***************************************************************************)
EXTENDS Integers

CONSTANTS
    Debounce,     \* DEBOUNCE_NS, in ticks
    MaxLatency,   \* ticks an interrupt may wait or run before it has returned
    MinGap,       \* ticks the line stays at a level at least
    CountMod,     \* 2^32 in the code: wake_count is a u32
    StoreVals,    \* values user space writes to wake_count
    MaxTime       \* bound on the clock

ASSUME EspAssumption ==
    /\ Debounce \in Nat \ {0}
    /\ MaxLatency \in Nat
    /\ MinGap \in Nat
    /\ CountMod \in Nat \ {0}
    /\ StoreVals \subseteq 0 .. CountMod - 1
    /\ MaxTime \in Nat

VARIABLES
    line,           \* level of the wake GPIO: 0 or 1
    now,            \* ktime_get()
    edge,           \* an edge interrupt is latched and not yet taken
    isr, val,       \* handler: "idle" or "sampled", and the level it sampled
    pending, active, last_rise, last_duration, wake_count,  \* struct esp32_wor
    \* History variables, read by properties only (waited also paces Tick):
    since,          \* when the line last changed
    waited,         \* ticks the interrupt has been latched or in service
    tracked,        \* the line is HIGH because of a rise the driver could see
    seen,           \* a handler run has completed since probe
    total,          \* wakes counted since probe, never rewritten nor wrapped
    lastCount,      \* when the last of them was counted
    sure, maybe,    \* complete pulses of width >= Debounce +/- MaxLatency
    crowded         \* an edge has met a driver that was busy with another

drv == <<pending, active, last_rise, last_duration, wake_count>>
phys == <<line, since, tracked, sure, maybe, crowded>>
driverVars == <<phys, drv, now, edge, isr, val, waited, seen, total, lastCount>>

Probed ==
    /\ pending = FALSE /\ active = FALSE
    /\ last_rise = 0 /\ last_duration = 0 /\ wake_count = 0

DriverInit ==
    /\ line \in {0, 1}          \* the line may be HIGH when the driver binds
    /\ now = 1 /\ since = 1    \* the clock is never 0 once the system runs
    /\ edge = FALSE /\ isr = "idle" /\ val = 0
    /\ Probed
    /\ waited = 0 /\ tracked = FALSE /\ seen = FALSE
    /\ total = 0 /\ lastCount = 0 /\ sure = 0 /\ maybe = 0 /\ crowded = FALSE

-----------------------------------------------------------------------------
(* The line and the clock.                                                 *)

\* broken: only rising edges are requested
LatchesRising(level) == level = 1

\* IRQF_TRIGGER_RISING | IRQF_TRIGGER_FALLING
Latches(level) == level \in {0, 1}

Width == now - since
Busy == edge \/ isr # "idle"

Rise ==
    /\ line = 0 /\ Width >= MinGap
    /\ line' = 1 /\ since' = now /\ tracked' = TRUE
    /\ edge' = (edge \/ Latches(1)) /\ crowded' = (crowded \/ Busy)
    /\ UNCHANGED <<drv, now, isr, val, waited, seen, total, lastCount, sure, maybe>>

Fall ==
    /\ line = 1 /\ Width >= MinGap
    /\ line' = 0 /\ since' = now /\ tracked' = FALSE
    /\ edge' = (edge \/ Latches(0)) /\ crowded' = (crowded \/ Busy)
    /\ sure'  = IF tracked /\ Width >= Debounce + MaxLatency THEN sure + 1 ELSE sure
    /\ maybe' = IF tracked /\ Width >= Debounce - MaxLatency THEN maybe + 1 ELSE maybe
    /\ UNCHANGED <<drv, now, isr, val, waited, seen, total, lastCount>>

Tick ==
    /\ now < MaxTime
    /\ Busy => waited < MaxLatency
    /\ now' = now + 1
    /\ waited' = IF Busy THEN waited + 1 ELSE 0
    /\ UNCHANGED <<phys, drv, edge, isr, val, seen, total, lastCount>>

-----------------------------------------------------------------------------
(* esp32_wor_irq(): the level is sampled, then used under the spinlock.    *)

IrqSample ==
    /\ isr = "idle" /\ edge
    /\ isr' = "sampled" /\ val' = line /\ edge' = FALSE
    /\ UNCHANGED <<phys, drv, now, waited, seen, total, lastCount>>

\* broken: a glitch does not re-arm; no debounce; strict debounce
FallingSeenLong == val = 0 /\ pending /\ now - last_rise >= Debounce
ConfirmedAlways(pulse) == pulse \in Nat
ConfirmedStrict(pulse) == pulse > Debounce

RisingSeen == val = 1 /\ ~pending
FallingSeen == val = 0 /\ pending
Confirmed(pulse) == pulse >= Debounce
NextCount(count) == (count + 1) % CountMod

IrqReturn ==
    /\ isr = "sampled" /\ isr' = "idle"
    /\ waited' = 0 /\ seen' = TRUE
    /\ val' = 0                    \* a local of the handler
    /\ UNCHANGED <<phys, now, edge>>

\* a rise: remember when, do not count yet
IrqRise ==
    /\ RisingSeen
    /\ IrqReturn
    /\ pending' = TRUE /\ active' = TRUE /\ last_rise' = now
    /\ UNCHANGED <<last_duration, wake_count, total, lastCount>>

\* a fall: count it when the pulse was long enough, drop it as a glitch if not
IrqFall ==
    /\ FallingSeen
    /\ IrqReturn
    /\ pending' = FALSE /\ active' = FALSE
    /\ \/ /\ Confirmed(now - last_rise)
          /\ wake_count' = NextCount(wake_count)
          /\ last_duration' = now - last_rise
          /\ total' = total + 1 /\ lastCount' = now
       \/ /\ ~Confirmed(now - last_rise)
          /\ UNCHANGED <<wake_count, last_duration, total, lastCount>>
    /\ UNCHANGED last_rise

\* a level that agrees with pending: the edges in between were coalesced
IrqIgnore ==
    /\ ~RisingSeen /\ ~FallingSeen
    /\ IrqReturn
    /\ UNCHANGED <<drv, total, lastCount>>

IrqUpdate == IrqRise \/ IrqFall \/ IrqIgnore

-----------------------------------------------------------------------------
(* wake_count_store() and a reload of the module.                          *)

Store ==
    \E v \in StoreVals :
        /\ wake_count' = v
        /\ UNCHANGED <<phys, pending, active, last_rise, last_duration, now,
                       edge, isr, val, waited, seen, total, lastCount>>

\* rmmod waits for the handler (free_irq); insmod allocates a zeroed struct.
\* A pulse that is under way is no longer one the driver can see whole.
Reprobe ==
    /\ isr = "idle"
    /\ pending' = FALSE /\ active' = FALSE
    /\ last_rise' = 0 /\ last_duration' = 0 /\ wake_count' = 0
    /\ edge' = FALSE /\ waited' = 0
    /\ tracked' = FALSE /\ seen' = FALSE
    /\ total' = 0 /\ lastCount' = 0 /\ sure' = 0 /\ maybe' = 0
    /\ crowded' = FALSE
    /\ UNCHANGED <<line, since, now, isr, val>>

DriverNext == Rise \/ Fall \/ Tick \/ IrqSample \/ IrqUpdate \/ Store \/ Reprobe

\* A latched interrupt is taken and its handler returns; nothing else must happen.
DriverFairness == WF_driverVars(IrqSample) /\ WF_driverVars(IrqUpdate)

DriverSpec == DriverInit /\ [][DriverNext]_driverVars /\ DriverFairness

-----------------------------------------------------------------------------
(* Properties.                                                             *)

NumbersOK ==
    /\ line \in {0, 1} /\ now \in Nat /\ since \in Nat
    /\ isr \in {"idle", "sampled"} /\ val \in {0, 1}
    /\ last_rise \in Nat /\ last_duration \in Nat
    /\ wake_count \in 0 .. CountMod - 1
    /\ waited \in Nat /\ total \in Nat /\ lastCount \in Nat
    /\ sure \in Nat /\ maybe \in Nat
FlagsOK ==
    /\ edge \in BOOLEAN /\ pending \in BOOLEAN /\ active \in BOOLEAN
    /\ tracked \in BOOLEAN /\ seen \in BOOLEAN /\ crowded \in BOOLEAN

\* Types of the driver's fields, the line, the clock and the history variables;
\* wake_count stays a u32.
DriverTypeOK == NumbersOK /\ FlagsOK

Quiescent == isr = "idle" /\ ~edge

\* However edges coalesce or arrive while the handler runs, once the driver has
\* run and has nothing left to do its pending bit is the level of the line: no
\* rise is left open on a LOW line and no HIGH line goes unnoticed.
LevelAgreement == Quiescent /\ seen => (pending <=> line = 1)

\* Two wakes are counted at least Debounce apart, whatever glitches, user-space
\* resets and coalesced edges come in between: every counted wake re-arms.
WakesApart ==
    [][total' > total => (total = 0 \/ now - lastCount >= Debounce)]_driverVars

\* As long as no edge has met a busy driver, it counts every pulse that is longer
\* than the debounce time by the interrupt latency, and none that is shorter by
\* it: the error of the two timestamps is the only one it makes.
CountFaithful == Quiescent /\ ~crowded => sure <= total /\ total <= maybe

\* A line that stays LOW is not left with a rise waiting for its fall.
NoStuckPending == <>[](line = 0) => <>[](~pending)
=============================================================================
