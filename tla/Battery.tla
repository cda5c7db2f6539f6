-------------------------------- MODULE Battery --------------------------------
(***************************************************************************)
(* The evaluations of src/batteryd/charging/battery.c: what a percentage   *)
(* is shown as, and the percentage at which the device is to be woken.     *)
(***************************************************************************)
EXTENDS Integers

\* The percentages a suspended device wakes at on its way down.
battlowpercent == {20, 13, 11, 9, 6, 5, 4, 3, 2, 1}

LevelsBelow(percentage) == {l \in battlowpercent : l < percentage}

\* The first level that is still to come, 0 if there is none.
NextLevel(percentage) ==
    IF LevelsBelow(percentage) = {} THEN 0
    ELSE CHOOSE l \in LevelsBelow(percentage) :
            \A k \in LevelsBelow(percentage) : k <= l

\* What battery_set_wakeup_percentage() gives nyx: 0 wakes at no level.
WakeupPercentage(percentage, charging, suspend) ==
    IF charging THEN 0
    ELSE IF suspend THEN NextLevel(percentage)
    ELSE percentage

\* 95 percent and more are shown as 100.
getUiPercent(percent) ==
    LET x == IF percent < 0 THEN 0 ELSE IF percent > 95 THEN 95 ELSE percent
    IN  (x * 100) \div 95
================================================================================
