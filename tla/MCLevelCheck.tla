------------------------------ MODULE MCLevelCheck ------------------------------
(***************************************************************************)
(* Small instances of LevelCheck for TLC.                                  *)
(***************************************************************************)
EXTENDS MCChargingLogic, LevelCheck

\* Readings that differ in what a level check makes of them.
MCLevelReadings ==
    {MCNormal, MCFailed, MCFlat, [MCFlat EXCEPT !.voltage = 3700]}

MCLevelEvents == {{}, {"BATTERY_ABSENT"}, {"CHARGER_CONNECTED"}}
================================================================================
