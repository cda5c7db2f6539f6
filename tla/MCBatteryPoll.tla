----------------------------- MODULE MCBatteryPoll -----------------------------
(***************************************************************************)
(* Small instances of BatteryReport for TLC.                               *)
(***************************************************************************)
EXTENDS BatteryReport

\* battery_read() zeroes the structure when it fails.
MCFailed == [ok |-> FALSE, present |-> FALSE, percentage |-> 0, temperature |-> 0]

MCAbsent == [ok |-> TRUE, present |-> FALSE, percentage |-> 0, temperature |-> 0]

MCPresent(percentage, temperature) ==
    [ok |-> TRUE, present |-> TRUE,
     percentage |-> percentage, temperature |-> temperature]

\* Four degrees, so that a temperature can creep past the tolerance in steps
\* of one, and a percentage that moves with the temperature still.
MCReadings == {MCFailed, MCAbsent, MCPresent(51, 20)}
              \cup {MCPresent(50, t) : t \in 19..22}
================================================================================
