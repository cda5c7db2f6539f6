------------------------------- MODULE MCBatteryd -------------------------------
(***************************************************************************)
(* Small instances of Batteryd for TLC.                                    *)
(***************************************************************************)
EXTENDS Batteryd

MCConfig ==
    [skip_battery_check |-> FALSE, disable_charging |-> FALSE,
     disable_overcharge_check |-> FALSE, fake_battery |-> FALSE,
     critical_percent |-> 3, maxtemp |-> 0]

MCConfigs == {MCConfig}

MCCtia == [charge_min_temp_c |-> 0, charge_max_temp_c |-> 45,
           battery_crit_max_temp |-> 0]

MCNormal == [ok |-> TRUE, present |-> TRUE, percentage |-> 50, voltage |-> 3800,
             temperature |-> 20, capacity_raw |-> 10, capacity_full40 |-> 10,
             age |-> 100]

MCZeroes == [ok |-> FALSE, present |-> FALSE, percentage |-> 0, voltage |-> 0,
             temperature |-> 0, capacity_raw |-> 0, capacity_full40 |-> 0,
             age |-> 0]

\* A battery, none, and no answer.
MCReadings ==
    {MCNormal, [MCZeroes EXCEPT !.ok = TRUE], MCZeroes}

MCStatuses ==
    {ZeroedStatus,
     [connected |-> {"WALL"}, powered |-> {"USB"}, is_charging |-> TRUE]}

MCEvents == {{"CHARGER_CONNECTED"}, {"CHARGER_DISCONNECTED"}, {"BATTERY_ABSENT"}}
================================================================================
