-------------------------- MODULE CaptureLifecycle --------------------------
(***************************************************************************)
(* What a power capture promises to whoever starts it: it runs until it is *)
(* told to stop, then ends; the rows it counts are fixed when it has ended;*)
(* a failure may end it at any time; a restart forgets it.                 *)
(* The detailed specification is PowerCapture.                             *)
(***************************************************************************)
EXTENDS Naturals

VARIABLES state, reason, count
vars == <<state, reason, count>>

Live == state \in {"running", "stopping"}

Init == state = "idle" /\ reason = "none" /\ count = 0

Start == ~Live /\ state' = "running" /\ reason' = "none" /\ count' = 0

RequestStop ==
    /\ Live
    /\ state' = "stopping"
    /\ reason' \in {"user", "max duration", "max file size"}
    /\ UNCHANGED count

Keep == Live /\ count' = count + 1 /\ UNCHANGED <<state, reason>>

Complete == state = "stopping" /\ state' = "complete" /\ UNCHANGED <<reason, count>>

Fail == Live /\ state' = "error" /\ UNCHANGED <<reason, count>>

\* the file was published, then could not be looked at
Retract == state = "complete" /\ state' = "error" /\ UNCHANGED <<reason, count>>

Restart == Init'

Next == Start \/ RequestStop \/ Keep \/ Complete \/ Fail \/ Retract \/ Restart

Spec == Init /\ [][Next]_vars
=============================================================================
