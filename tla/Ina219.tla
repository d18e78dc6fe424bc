------------------------------- MODULE Ina219 -------------------------------
(***************************************************************************)
(* The INA219 channels of rpi/dashboard.py: which channels are enabled and *)
(* which of them are sampled at high speed, the calibration of each chip,  *)
(* the JSON file both are kept in, the boot that reads it and ina_thread,  *)
(* which samples the channels in turn.                                     *)
(*                                                                         *)
(* A request and an iteration of the thread hold ina_lock from the first   *)
(* to the last look at this state, so each is one step; what makes them    *)
(* hard is that a chip or the file system may fail half way through, that  *)
(* chips come and go, and that the process restarts.                       *)
(***************************************************************************)
EXTENDS Integers, Sequences

CONSTANTS
    CliChannels,    \* --ina-channels, a list
    CliHighspeed,   \* --highspeed-channels, a list
    CliChannel,     \* --ina-channel
    Shunts,         \* shunt resistances a user may set
    CliShunt,       \* --shunt-ohms
    CheckEvery,     \* a chip's calibration is looked at once in 100 samples
    MaxRequests,    \* bound on the requests that change something
    MaxBoots,       \* bound on the restarts
    MaxLosses       \* bound on the times a chip loses its calibration

Members(list) == {list[i] : i \in DOMAIN list}
Channels == Members(CliChannels)
Lists == {list \in UNION {[1 .. n -> Channels] : n \in 0 .. Len(CliChannels)} :
            \A i, j \in DOMAIN list : list[i] = list[j] => i = j}

ASSUME InaAssumption ==
    /\ CliChannels \in Seq(Nat \ {0})
    /\ CliChannels \in Lists /\ CliHighspeed \in Lists \ {<<>>} /\ CliChannel \in Nat
    /\ Shunts \subseteq Nat \ {0} /\ CliShunt \in Shunts
    /\ CheckEvery \in Nat \ {0, 1}
    /\ MaxRequests \in Nat /\ MaxBoots \in Nat /\ MaxLosses \in Nat

VARIABLES
    sensors, enabled, highspeed, active,   \* ina_sensors, ina_..._channels; 0 for None
    shunt, scale, count,        \* per sensor: shunt_ohms, the shunt current_lsb_a was
                                \* computed with, _sample_count; 0 without a sensor
    initial, index, last,       \* ina_thread: its argument, its position, the channel
                                \* it has tried to sample
    saved,                      \* ina219_calibration.json
    chip,                       \* the shunt of the calibration register, 0 when cleared
    broken,                     \* channels some of whose I2C transfers fail
    requests, boots, losses,
    \* History variables:
    keptSelection, keptShunt,   \* what the last answer `ok' confirmed and no later
                                \* request or save has changed; <<>> and 0 for nothing
    fellBack                    \* the boot chose a channel that is not enabled

selection == <<enabled, highspeed, active>>
calibration == <<shunt, scale, chip>>
thread == <<initial, index, last, count>>
world == <<broken, requests, boots, losses>>
vars == <<sensors, selection, calibration, thread, saved, world,
          keptSelection, keptShunt, fellBack>>

\* the elements of a list that are in S, in their order
Among(list, S) ==
    LET kept[i \in 0 .. Len(list)] ==
            IF i = 0 THEN <<>>
            ELSE IF list[i] \in S THEN Append(kept[i - 1], list[i]) ELSE kept[i - 1]
    IN  kept[Len(list)]
Nothing == [c \in Channels |-> 0]

-----------------------------------------------------------------------------
(* main(): the command line, the file, and the chips that answer.          *)

\* broken: the list of the file is not used
WantedHighspeedCli == CliHighspeed

\* an empty list in the file counts as none for high speed, not for enabled
WantedEnabled == IF saved.present THEN saved.enabled ELSE CliChannels
WantedHighspeed ==
    IF saved.present /\ saved.highspeed # <<>> THEN saved.highspeed ELSE CliHighspeed

\* when no wanted channel is there, the first one detected, enabled or not
BootHighspeed(detected, able) ==
    LET wanted == Among(WantedHighspeed, detected \cap Members(able))
    IN  IF able # <<>> /\ wanted = <<>>
        THEN <<CHOOSE c \in detected : \A d \in detected : c <= d>>
        ELSE wanted

ActiveOf(list) ==
    IF CliChannel \in Members(list) THEN CliChannel
    ELSE IF list # <<>> THEN list[1] ELSE 0

BootShunt(c) == IF c \in DOMAIN saved.shunts THEN saved.shunts[c] ELSE CliShunt

\* INA219() writes both registers; a chip that does not answer is left out
Detected == {S \in SUBSET Channels : Channels \ broken \subseteq S}

Start(detected) ==
    /\ sensors' = detected
    /\ enabled' = Among(WantedEnabled, detected)
    /\ highspeed' = BootHighspeed(detected, enabled')
    /\ active' = ActiveOf(highspeed')
    /\ shunt' = [c \in Channels |-> IF c \in detected THEN BootShunt(c) ELSE 0]
    /\ scale' = shunt'
    /\ chip' = [c \in Channels |-> IF c \in detected THEN BootShunt(c) ELSE chip[c]]
    /\ initial' = highspeed' /\ index' = 1 /\ last' = 0 /\ count' = Nothing
    /\ fellBack' = ~(Members(highspeed') \subseteq Members(enabled'))

\* the process dies and is started again
Boot ==
    /\ boots < MaxBoots /\ boots' = boots + 1
    /\ \E detected \in Detected : Start(detected)
    /\ UNCHANGED <<saved, broken, requests, losses, keptSelection, keptShunt>>

\* the first boot: there is no file yet, and every chip answers
Init ==
    /\ saved = [present |-> FALSE, enabled |-> <<>>, highspeed |-> <<>>, shunts |-> <<>>]
    /\ sensors = Channels /\ enabled = CliChannels
    /\ highspeed = CliHighspeed /\ active = ActiveOf(CliHighspeed)
    /\ shunt = [c \in Channels |-> CliShunt] /\ scale = shunt /\ chip = shunt
    /\ initial = highspeed /\ index = 1 /\ last = 0 /\ count = Nothing
    /\ broken = {} /\ requests = 0 /\ boots = 0 /\ losses = 0
    /\ keptSelection = <<>> /\ keptShunt = Nothing /\ fellBack = FALSE

-----------------------------------------------------------------------------
(* The chips (external).                                                   *)

Break(c) ==
    /\ broken' = IF c \in broken THEN broken \ {c} ELSE broken \cup {c}
    /\ UNCHANGED <<sensors, selection, calibration, thread, saved, requests, boots, losses,
                   keptSelection, keptShunt, fellBack>>

\* a chip that loses its supply starts with an empty calibration register
LoseCalibration(c) ==
    /\ losses < MaxLosses /\ losses' = losses + 1
    /\ chip' = [chip EXCEPT ![c] = 0]
    /\ UNCHANGED <<sensors, selection, shunt, scale, thread, saved, broken, requests, boots,
                   keptSelection, keptShunt, fellBack>>

\* how far INA219._configure() gets: "config" when the first register cannot be
\* written, "scale" when the second cannot, after current_lsb_a has been set
Stages(c) == IF c \in broken THEN {"config", "scale", "done"} ELSE {"done"}

-----------------------------------------------------------------------------
(* The requests.  Each ends with _save_calibration_config_locked(), which  *)
(* writes a new file and renames it, or raises OSError: memory has changed *)
(* by then.                                                                *)

Requested ==
    /\ sensors # {}
    /\ requests < MaxRequests /\ requests' = requests + 1
    /\ UNCHANGED <<sensors, thread, broken, boots, losses>>

Save == saved' = [present |-> TRUE, enabled |-> enabled', highspeed |-> highspeed',
                  shunts |-> [c \in sensors |-> shunt'[c]]]

SelectionSaved ==
    /\ fellBack' = FALSE
    /\ \/ /\ Save
          /\ keptSelection' = <<enabled', highspeed'>>
          /\ keptShunt' = [c \in Channels |-> IF c \in sensors THEN keptShunt[c] ELSE 0]
       \/ UNCHANGED <<saved, keptShunt>> /\ keptSelection' = <<>>

\* ina219_highspeed()
SetHighspeed ==
    /\ Requested
    /\ highspeed' \in Lists \ {<<>>}
    /\ Members(highspeed') \subseteq sensors \cap Members(enabled)
    /\ active' = IF active \in Members(highspeed') THEN active ELSE highspeed'[1]
    /\ UNCHANGED <<enabled, calibration>>
    /\ SelectionSaved

\* broken: a selection that has become empty is left empty
StillFastOnly(list, able) == Among(list, Members(able))

\* the high-speed channels that are still enabled, or the first enabled one
StillFast(list, able) ==
    IF able # <<>> /\ Among(list, Members(able)) = <<>>
    THEN <<able[1]>> ELSE Among(list, Members(able))

\* ina219_enabled()
SetEnabled ==
    /\ Requested
    /\ enabled' \in Lists /\ Members(enabled') \subseteq sensors
    /\ highspeed' = StillFast(highspeed, enabled')
    /\ active' = IF active \in Members(enabled') THEN active
                 ELSE IF enabled' # <<>> THEN enabled'[1] ELSE 0
    /\ UNCHANGED calibration
    /\ SelectionSaved

\* broken: current_lsb_a is computed once
ConfiguredUnscaled(c, stage, value) ==
    LET full == {d \in DOMAIN value : d < c \/ (d = c /\ stage = "done")}
    IN  /\ shunt' = [d \in Channels |-> IF d \in full THEN value[d] ELSE shunt[d]]
        /\ chip' = [d \in Channels |-> IF d \in full THEN value[d] ELSE chip[d]]
        /\ UNCHANGED scale

\* Channels are configured one after the other: those before c have been, c itself
\* as far as `stage' says, "rejected" (a value that is not positive) not at all.
Configured(c, stage, value) ==
    LET full == {d \in DOMAIN value : d < c \/ (d = c /\ stage = "done")}
        scaled == full \cup {d \in {c} : stage = "scale"}
        named == scaled \cup {d \in {c} : stage = "config"}
    IN  /\ shunt' = [d \in Channels |-> IF d \in named THEN value[d] ELSE shunt[d]]
        /\ scale' = [d \in Channels |-> IF d \in scaled THEN value[d] ELSE scale[d]]
        /\ chip' = [d \in Channels |-> IF d \in full THEN value[d] ELSE chip[d]]

Highest(S) == CHOOSE c \in S : \A d \in S : d <= c

\* ina219_reconfigure() on all sensors, ina219_channel_reconfigure() on one.  An
\* error leaves the channels before it changed, in memory only.
Reconfigure ==
    /\ Requested
    /\ UNCHANGED <<selection, fellBack>>
    /\ \E S \in {sensors} \cup {{c} : c \in sensors} : \E value \in [S -> Shunts] :
        \/ /\ Configured(Highest(S), "done", value)
           /\ \/ /\ Save
                 /\ keptShunt' = [c \in Channels |-> IF c \in S THEN value[c]
                                                ELSE IF c \in sensors THEN keptShunt[c] ELSE 0]
                 /\ keptSelection' = IF keptSelection = <<enabled, highspeed>>
                                     THEN keptSelection ELSE <<>>
              \/ /\ UNCHANGED <<saved, keptSelection>>
                 /\ keptShunt' = [c \in Channels |-> IF c \in S THEN 0 ELSE keptShunt[c]]
        \/ \E c \in S : \E stage \in Stages(c) \cup {"rejected"} :
           /\ stage = "done" => c \in broken     \* status() fails
           /\ Configured(c, stage, value)
           /\ keptShunt' = [d \in Channels |->
                                IF d \in S /\ (d < c \/ (d = c /\ stage # "rejected"))
                                THEN 0 ELSE keptShunt[d]]
           /\ UNCHANGED <<saved, keptSelection>>

-----------------------------------------------------------------------------
(* ina_thread                                                              *)

\* the channels this iteration chooses from
Current ==
    LET usable == sensors \cap Members(enabled)
        fast == Among(highspeed, usable)
    IN  IF fast # <<>> THEN fast ELSE Among(initial, usable)

\* broken: a channel that fails is tried again first
AdvanceIfRead(k, list) == IF list[k] \in broken THEN k ELSE (k % Len(list)) + 1

\* the position moves on before the chip is read
Advance(k, list) == (k % Len(list)) + 1

\* _sample_count: 0, then modulo CheckEvery; the calibration is looked at in the
\* first sample and in every CheckEvery-th
Due(n) == n = 0 \/ n = CheckEvery - 1

\* read_all(): a cleared chip is configured again, as far as the bus lets it; if it
\* raises OSError the thread waits and goes on with the next channel
Sample ==
    /\ Current # <<>>
    /\ LET list == Current
           k == IF index > Len(list) THEN 1 ELSE index
           c == list[k]
       IN  /\ index' = Advance(k, list)
           /\ last' = c
           /\ count' = [count EXCEPT ![c] = IF @ = CheckEvery THEN 1 ELSE @ + 1]
           /\ \/ /\ Due(count[c]) /\ chip[c] = 0
                 /\ \E stage \in Stages(c) \ {"config"} :
                       /\ scale' = [scale EXCEPT ![c] = shunt[c]]
                       /\ chip' = IF stage = "done" THEN [chip EXCEPT ![c] = shunt[c]]
                                  ELSE chip
              \/ /\ Due(count[c]) /\ chip[c] = 0 => c \in broken
                 /\ UNCHANGED <<scale, chip>>
    /\ UNCHANGED <<sensors, selection, shunt, initial, saved, world,
                   keptSelection, keptShunt, fellBack>>

\* "No INA219 high-speed channels available": nothing happens
Idle ==
    /\ Current = <<>> /\ sensors # {} /\ last' = 0
    /\ UNCHANGED <<sensors, selection, calibration, initial, index, count, saved, world,
                   keptSelection, keptShunt, fellBack>>

Next ==
    \/ Boot \/ SetHighspeed \/ SetEnabled \/ Reconfigure \/ Sample \/ Idle
    \/ \E c \in Channels : Break(c) \/ LoseCalibration(c)

\* ina_thread samples for ever; nobody has to send a request or mend a chip.
Spec == Init /\ [][Next]_vars /\ WF_vars(Sample \/ Idle)

-----------------------------------------------------------------------------
(* Properties.                                                             *)

\* Types of the selection, the calibrations, the thread and the file.
TypeOK ==
    /\ sensors \subseteq Channels /\ broken \subseteq Channels
    /\ enabled \in Lists /\ highspeed \in Lists /\ active \in Channels \cup {0}
    /\ shunt \in [Channels -> Shunts \cup {0}] /\ scale \in [Channels -> Shunts \cup {0}]
    /\ chip \in [Channels -> Shunts \cup {0}] /\ count \in [Channels -> 0 .. CheckEvery]
    /\ initial \in Lists /\ index \in 1 .. Len(CliChannels) /\ last \in Channels \cup {0}
    /\ saved.present \in BOOLEAN /\ saved.enabled \in Lists /\ saved.highspeed \in Lists
    /\ requests \in 0 .. MaxRequests /\ boots \in 0 .. MaxBoots /\ losses \in 0 .. MaxLosses
    /\ fellBack \in BOOLEAN

\* Whatever requests fail and whatever chips are missing at a boot: the high-speed
\* channels are enabled, there is one when any channel is enabled, and the chart
\* shows an enabled one, unless the boot fell back on the first chip it found.
SelectionConsistent ==
    ~fellBack =>
        /\ Members(highspeed) \subseteq Members(enabled) /\ Members(enabled) \subseteq sensors
        /\ enabled # <<>> => highspeed # <<>>
        /\ active = 0 \/ active \in Members(enabled)

\* What a request has confirmed is what a restart finds, also when chips were
\* missing at restarts in between: the selection when every chip is there again,
\* the calibration of each chip that is there.
RestoredByBoot ==
    [][boots' > boots =>
        /\ keptSelection # <<>> /\ sensors' = Channels =>
             <<enabled', highspeed'>> = keptSelection
        /\ \A c \in sensors' : keptShunt[c] # 0 => shunt'[c] = keptShunt[c]]_vars

\* Until another request touches it, a confirmed calibration is the one that samples
\* are converted with, or the chip has lost it and reads 0.
ConfirmedInUse ==
    \A c \in sensors : keptShunt[c] # 0 =>
        shunt[c] = keptShunt[c] /\ scale[c] = shunt[c] /\ chip[c] \in {0, shunt[c]}

\* A channel that stays selected is sampled again and again, also when another one
\* fails each time.
NoStarvation ==
    \A c \in Channels : <>[](c \in Members(Current)) => []<>(last = c)

\* A selected chip that has lost its calibration gets it back.
ClearedHeals ==
    \A c \in Channels :
        <>[](c \in Members(Current) /\ c \notin broken) => []<>(chip[c] # 0)

\* The types and the selection.
Consistent == TypeOK /\ SelectionConsistent

\* Whatever fails, what is selected is sampled again, with its calibration.
Recovers == NoStarvation /\ ClearedHeals
=============================================================================
