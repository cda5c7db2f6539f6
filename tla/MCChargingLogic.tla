---------------------------- MODULE MCChargingLogic ----------------------------
(***************************************************************************)
(* Small instances of ChargingLogic for TLC.                               *)
(***************************************************************************)
EXTENDS ChargingLogic, SequencesExt

MCNormalConfig ==
    [skip_battery_check |-> FALSE, disable_charging |-> FALSE,
     disable_overcharge_check |-> FALSE, fake_battery |-> FALSE,
     critical_percent |-> 3, maxtemp |-> 0]

MCConfigs ==
    {MCNormalConfig,
     [MCNormalConfig EXCEPT !.skip_battery_check = TRUE],
     [MCNormalConfig EXCEPT !.disable_charging = TRUE],
     [MCNormalConfig EXCEPT !.disable_overcharge_check = TRUE,
                            !.fake_battery = TRUE]}

MCPlainConfigs == {MCNormalConfig}

\* Charging is allowed between 0 and 45 degrees, exclusive (1 stands for the
\* lower limit: nyx means "no limit" by 0); 60 degrees power the device off.
MCCtia == [charge_min_temp_c |-> 1, charge_max_temp_c |-> 45,
           battery_crit_max_temp |-> 0]

MCNormal == [ok |-> TRUE, percentage |-> 50, voltage |-> 3800,
             temperature |-> 20, capacity_raw |-> 10,
             capacity_full40 |-> 10, age |-> 100]

MCFailed == [ok |-> FALSE, percentage |-> 0, voltage |-> 0, temperature |-> 0,
             capacity_raw |-> 0, capacity_full40 |-> 0, age |-> 0]

MCFlat == [MCNormal EXCEPT !.percentage = 3, !.voltage = 3500]

MCReadings ==
    {MCNormal, MCFailed, MCFlat,
     [MCNormal EXCEPT !.capacity_raw = 13],
     [MCNormal EXCEPT !.temperature = 45],
     [MCNormal EXCEPT !.temperature = 60]}

\* The events nyx modules are known to combine: an edge of the charger alone,
\* with a limit, and two edges the daemon was slow to collect.
MCEvents ==
    {{}, {"BATTERY_PRESENT"}, {"BATTERY_ABSENT", "BATTERY_CRITICAL_VOLTAGE"}}
    \cup {{b} : b \in {"CHARGER_CONNECTED", "CHARGER_DISCONNECTED",
                       "CHARGE_COMPLETE", "CHARGE_RESTART",
                       "BATTERY_CRITICAL_VOLTAGE", "BATTERY_TEMPERATURE_LIMIT"}}
    \cup {{"BATTERY_TEMPERATURE_LIMIT", b} :
              b \in {"CHARGER_CONNECTED", "CHARGE_COMPLETE", "BATTERY_CRITICAL_VOLTAGE"}}
    \cup {{"CHARGER_CONNECTED", "CHARGER_DISCONNECTED"},
          {"CHARGE_COMPLETE", "CHARGE_RESTART"}}

MCNormalOrFailed == {MCNormal, MCFailed}

MCVoltageAndTemperature == {{"BATTERY_CRITICAL_VOLTAGE", "BATTERY_TEMPERATURE_LIMIT"}}
================================================================================
