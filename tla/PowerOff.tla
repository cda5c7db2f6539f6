-------------------------------- MODULE PowerOff --------------------------------
(***************************************************************************)
(* What batteryd promises sleepd about powering the device off: it decides *)
(* once, then asks once, with a reason, and never goes back to running.    *)
(* Nothing is said of what makes it decide.                                *)
(***************************************************************************)
EXTENDS Sequences

CONSTANT Reasons    \* what a request may give as its reason

VARIABLES
    phase,      \* "running", "decided" or "requested"
    requests    \* the machineOff requests made so far

vars == <<phase, requests>>

Init ==
    /\ phase = "running"
    /\ requests = <<>>

Decide ==
    /\ phase = "running"
    /\ phase' = "decided"
    /\ UNCHANGED requests

Ask ==
    /\ phase = "decided"
    /\ phase' = "requested"
    /\ \E reason \in Reasons : requests' = Append(requests, reason)

Next == Decide \/ Ask

\* A decision may stay without a request (ChargingLogic shows where the code
\* leaves one so), hence no fairness.
Safety == Init /\ [][Next]_vars
================================================================================
