-------------------------------- MODULE MCClock --------------------------------
(***************************************************************************)
(* Small instances of TimerSource and WaitObject for TLC, with a second of *)
(* four milliseconds of two microseconds.  They share the clock and        *)
(* nothing else, so that one of them at a time is all there is to see.     *)
(***************************************************************************)
EXTENDS TimerSource, WaitObject

Init == ClockInit /\ TimerInit /\ WaitInit

Next ==
    \/ TimerNext /\ WaitInit /\ UNCHANGED waitVars
    \/ WaitNext /\ timer = "none" /\ UNCHANGED timerVars
    \/ Tick /\ UNCHANGED <<timerVars, waitVars>>

Spec == Init /\ [][Next]_<<now, timerVars, waitVars>>

MCDeltas == {[tv_sec |-> 0, tv_nsec |-> 5], [tv_sec |-> 1, tv_nsec |-> 3]}

MCWaits == {-1, 0, 1, 2, 4}
================================================================================
