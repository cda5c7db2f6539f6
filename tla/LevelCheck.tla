------------------------------- MODULE LevelCheck -------------------------------
(***************************************************************************)
(* ChargingLogic with a history of what its level checks were shown.       *)
(***************************************************************************)
EXTENDS ChargingLogic

VARIABLE recent     \* for the last level checks: was the level critical?

LevelVars == <<vars, recent>>

\* A sample the comment on CheckCriticalLevels() counts: a level that is
\* known, at or below the critical one and not belied by the voltage, while
\* nothing charges.
Believable ==
    /\ battery.ok
    /\ battery.percentage <= gChargeConfig.critical_percent
    /\ battery.voltage < 3700
    /\ ~ChargerIsCharging

Remember(sample) ==
    recent' = IF Len(recent) < CRITICAL_PERCENT_SAMPLES
                THEN Append(recent, sample)
                ELSE Append(Tail(recent), sample)

LevelInit == Init /\ recent = <<>>

LevelNext ==
    \/ /\ CheckCriticalLevels
       /\ Remember(Believable)
    \/ /\ pc # "check" /\ Next
       /\ UNCHANGED recent
    \/ /\ pc = "check" /\ BatteryChanges
       /\ UNCHANGED recent

LevelSpec == LevelInit /\ [][LevelNext]_LevelVars

\* charging_logic.c:386-391: the device is powered off for its level only when
\* CRITICAL_PERCENT_SAMPLES checks in a row were all shown a believable
\* critical level with nothing charging; a failed read, a charger or a
\* better reading in between starts the row anew.
LevelShutdownIsConfirmed ==
    [][/\ pc = "check" /\ BatteryIsPresent
       /\ current_state \notin ShutdownStates
       /\ current_state' = "shutdown"
       => recent' = [i \in 1..CRITICAL_PERCENT_SAMPLES |-> TRUE]]_LevelVars
================================================================================
