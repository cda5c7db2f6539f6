----------------------------- MODULE ChargingLogic -----------------------------
(***************************************************************************)
(* The charge decision of batteryd (src/batteryd/charging/charging_logic.c):*)
(* the charging state machine, the critical checks that power the device   *)
(* off, and handle_charger_event(), which drives both.                     *)
(*                                                                         *)
(* Everything runs on the main loop's thread, so what the machine asks the *)
(* charger and the battery poll modules cannot change until the call it    *)
(* was made in returns (pc = "mainloop").  The battery itself can: every   *)
(* battery_read() may find another one.                                    *)
(***************************************************************************)
EXTENDS Eval, Sequences

CONSTANTS
    Configs,        \* the configurations gChargeConfig may hold
    Readings,       \* what battery_read() can answer
    Events,         \* what nyx can report at once: sets of event bits
    EnableOutcomes, \* whether nyx_charger_enable_charging() succeeds
    DisableOutcomes,\* whether nyx_charger_disable_charging() succeeds
    CtiaParams,     \* battery_ctia_params: the limits nyx gives
    OVERCHARGE_RETRIES,         \* charging_logic.c:46
    CRITICAL_PERCENT_SAMPLES    \* charging_logic.c:375

BATTERY_MAX_TEMPERATURE_C == 60

EventBits == {"CHARGER_CONNECTED", "CHARGER_DISCONNECTED", "CHARGE_COMPLETE",
              "CHARGE_RESTART", "BATTERY_PRESENT", "BATTERY_ABSENT",
              "BATTERY_CRITICAL_VOLTAGE", "BATTERY_TEMPERATURE_LIMIT"}

NYX_NO_NEW_EVENT == {}

\* ~ok is a battery_read() that returned false and zeroed the structure.
Reading == [ok : BOOLEAN, percentage : Int, voltage : Int, temperature : Int,
            capacity_raw : Int, capacity_full40 : Int, age : Int]

Config == [skip_battery_check : BOOLEAN, disable_charging : BOOLEAN,
           disable_overcharge_check : BOOLEAN, fake_battery : BOOLEAN,
           critical_percent : Int, maxtemp : Int]

Ctia == [charge_min_temp_c : Int, charge_max_temp_c : Int,
         battery_crit_max_temp : Int]

ASSUME DataAssumption == /\ Configs \subseteq Config
                         /\ Readings \subseteq Reading
                         /\ Events \subseteq SUBSET EventBits
                         /\ CtiaParams \in Ctia
ASSUME OutcomesAssumption == /\ EnableOutcomes \subseteq BOOLEAN
                             /\ DisableOutcomes \subseteq BOOLEAN
ASSUME LimitsAssumption == /\ OVERCHARGE_RETRIES \in Nat
                           /\ CRITICAL_PERCENT_SAMPLES \in Nat \ {0}

VARIABLES
    gChargeConfig,      \* the configuration, fixed once started
    current_state,      \* the state of the machine
    charging_enabled,   \* what the daemon last asked of nyx
    shutdown_reason,    \* why the device is to be powered off
    overcharge_count,   \* consecutive overcharged readings
    critical_samples,   \* consecutive critical readings
    event,              \* the event the running call was given
    entered,            \* states ChargeStateIterate() has run the handler of
    pc,                 \* where the running call is
    charger,            \* ChargerIsConnected() and ChargerIsCharging()
    pack,               \* BatteryIsPresent() and BatteryIsAuthentic()
    battery,            \* what the next battery_read() will answer
    nyx_charging,       \* charging is enabled in the hardware
    machineOff          \* the machineOff calls made to sleepd, by reason

daemonVars == <<gChargeConfig, current_state, charging_enabled,
                shutdown_reason, overcharge_count, critical_samples, event,
                entered, pc>>
vars == <<daemonVars, charger, pack, battery, nyx_charging, machineOff>>

ChargeStates == {"idle", "charging", "fault", "chargecomplete", "shutdown",
                 "shutdownwait"}

ShutdownStates == {"shutdown", "shutdownwait"}

Reasons == {"battery voltage below threshold",
            "battery temperature above max allowed",
            "battery removed.", "Critical battery levels"}

kDefaultReason == "Critical battery levels"

Places == {"mainloop", "voltage", "temperature", "update", "iterate", "check",
           "final"}

\* A supply that charges counts as connected (charger_eval.h).
ChargerAnswers == {a \in [connected : BOOLEAN, charging : BOOLEAN] :
                      a.charging => a.connected}

PackStates == {"removed", "unauthentic", "authentic"}

TypeOK ==
    /\ gChargeConfig \in Configs
    /\ current_state \in ChargeStates
    /\ charging_enabled \in {"enabled", "disabled", "notset"}
    /\ shutdown_reason \in Reasons \cup {""}
    /\ overcharge_count \in 0..(OVERCHARGE_RETRIES + 1)
    /\ critical_samples \in 0..(CRITICAL_PERCENT_SAMPLES - 1)
    /\ event \in SUBSET EventBits
    /\ entered \subseteq ChargeStates
    /\ pc \in Places
    /\ charger \in ChargerAnswers
    /\ pack \in PackStates
    /\ battery \in Readings
    /\ nyx_charging \in BOOLEAN
    /\ machineOff \in Seq(Reasons \cup {""})

ChargerIsConnected == charger.connected
ChargerIsCharging == charger.charging
BatteryIsPresent == pack # "removed"
BatteryIsAuthentic == pack = "authentic"

\* ChargeStateInit(): nothing is known of what the hardware was left doing.
Init ==
    /\ gChargeConfig \in Configs
    /\ current_state = "idle"
    /\ charging_enabled = "notset"
    /\ shutdown_reason = ""
    /\ overcharge_count = 0
    /\ critical_samples = 0
    /\ event = NYX_NO_NEW_EVENT
    /\ entered = {}
    /\ pc = "mainloop"
    /\ charger \in ChargerAnswers
    /\ pack \in PackStates
    /\ battery \in Readings
    /\ nyx_charging \in BOOLEAN
    /\ machineOff = <<>>

--------------------------------------------------------------------------------
(***************************************************************************)
(* Driving nyx.                                                            *)
(***************************************************************************)

\* The daemon records disabled whatever nyx answered.
TurnChargingOff ==
    \/ /\ charging_enabled # "disabled"
       /\ charging_enabled' = "disabled"
       /\ shutdown_reason' = ""
       /\ \E done \in DisableOutcomes :
             nyx_charging' = IF done THEN FALSE ELSE nyx_charging
    \/ /\ charging_enabled = "disabled"
       /\ UNCHANGED <<charging_enabled, shutdown_reason, nyx_charging>>

\* TurnChargingON() answers done; enabled is recorded either way.
TurnChargingON(done) ==
    /\ charging_enabled' = "enabled"
    /\ nyx_charging' = IF done THEN TRUE ELSE nyx_charging
    /\ UNCHANGED shutdown_reason

\* The comparison of BatteryOverchargeFault(), raw > 1.2 * (full * age / 100).
Overcharged(reading) ==
    500 * reading.capacity_raw > 6 * reading.capacity_full40 * reading.age

\* Counting stops one above the retries, the count being compared with them.
BatteryOverchargeFault(fault) ==
    \/ /\ ~Overcharged(battery)
       /\ overcharge_count' = 0
       /\ fault = FALSE
    \/ /\ Overcharged(battery)
       /\ overcharge_count < OVERCHARGE_RETRIES
       /\ overcharge_count' = overcharge_count + 1
       /\ fault = FALSE
    \/ /\ Overcharged(battery)
       /\ overcharge_count >= OVERCHARGE_RETRIES
       /\ overcharge_count' = OVERCHARGE_RETRIES + 1
       /\ fault = TRUE

\* Fault: the jump is taken from anywhere.
JumpAgainToShutdownState(reason) ==
    /\ current_state' = "shutdown"
    /\ shutdown_reason' = reason

_JumpToShutdownState(reason) ==
    \/ /\ current_state \notin ShutdownStates
       /\ current_state' = "shutdown"
       /\ shutdown_reason' = reason
    \/ /\ current_state \in ShutdownStates
       /\ UNCHANGED <<current_state, shutdown_reason>>

BatteryTemperatureCriticalShutdown(reading) ==
    reading.temperature >=
        IF CtiaParams.battery_crit_max_temp # 0
          THEN CtiaParams.battery_crit_max_temp
        ELSE IF gChargeConfig.maxtemp # 0
          THEN gChargeConfig.maxtemp
          ELSE BATTERY_MAX_TEMPERATURE_C

BatteryTemperatureLow(reading) ==
    /\ CtiaParams.charge_min_temp_c # 0
    /\ reading.temperature <= CtiaParams.charge_min_temp_c

BatteryTemperatureHigh(reading) ==
    /\ CtiaParams.charge_max_temp_c # 0
    /\ reading.temperature >= CtiaParams.charge_max_temp_c

--------------------------------------------------------------------------------
(***************************************************************************)
(* ChargeStateIterate(), one step per handler call.                        *)
(***************************************************************************)

Running(state) == pc \in {"iterate", "final"} /\ current_state = state

\* The first handler of a pass consumes the event; the others see none.
Edge == IF entered = {} THEN event ELSE NYX_NO_NEW_EVENT

\* Where the caller goes on: ChargingLogicUpdate() to its critical check, any
\* other caller back to the main loop, dropping the event.
EndPass ==
    /\ entered' = {}
    /\ \/ /\ pc = "iterate"
          /\ pc' = "check"
          /\ UNCHANGED event
       \/ /\ pc = "final"
          /\ pc' = "mainloop"
          /\ event' = NYX_NO_NEW_EVENT

\* The handler returned kChargeStateLast.
ReturnLast ==
    /\ EndPass
    /\ UNCHANGED current_state

\* Fault: the pass goes on into a state whose handler it has already run.
UnguardedReturn(next) ==
    /\ current_state' = next
    /\ entered' = entered \cup {current_state}
    /\ UNCHANGED <<pc, event>>

\* Fault: neither is a handler run noted nor its event consumed, as it was
\* before 2026.
EndlessReturn(next) ==
    /\ current_state' = next
    /\ UNCHANGED <<entered, pc, event>>

\* The handler returned state next: the transition is applied, and the pass
\* goes on unless it has already run the handler of next.
Return(next) ==
    /\ current_state' = next
    /\ \/ /\ next \notin entered \cup {current_state}
          /\ entered' = entered \cup {current_state}
          /\ UNCHANGED <<pc, event>>
       \/ /\ next \in entered \cup {current_state}
          /\ EndPass

\* What no handler touches.
HandlerFrame == UNCHANGED <<gChargeConfig, critical_samples, charger, pack, battery>>

StateIdle ==
    /\ Running("idle")
    /\ TurnChargingOff
    /\ IF /\ BatteryIsAuthentic \/ gChargeConfig.fake_battery
          /\ "CHARGER_CONNECTED" \in Edge
         THEN Return("charging")
         ELSE ReturnLast
    /\ UNCHANGED <<overcharge_count, machineOff>>
    /\ HandlerFrame

\* Fault: what TurnChargingON() answers is ignored.
KeepChargingRegardless ==
    \E done \in EnableOutcomes :
        /\ TurnChargingON(done)
        /\ ReturnLast

\* What StateCharging does once it neither has an edge to act on nor a fault.
KeepCharging ==
    \E done \in EnableOutcomes :
        /\ TurnChargingON(done)
        /\ IF done THEN ReturnLast ELSE Return("idle")

ChargingDecision ==
    \/ /\ ~ChargerIsConnected \/ ~BatteryIsAuthentic
       /\ Return("idle")
       /\ UNCHANGED <<overcharge_count, charging_enabled, shutdown_reason, nyx_charging>>
    \/ /\ ChargerIsConnected /\ BatteryIsAuthentic
       /\ "CHARGE_COMPLETE" \in Edge
       /\ Return("chargecomplete")
       /\ UNCHANGED <<overcharge_count, charging_enabled, shutdown_reason, nyx_charging>>
    \/ /\ ChargerIsConnected /\ BatteryIsAuthentic
       /\ "CHARGE_COMPLETE" \notin Edge
       /\ {"CHARGER_DISCONNECTED", "CHARGE_RESTART", "BATTERY_TEMPERATURE_LIMIT"}
             \cap Edge # {}
       /\ Return("idle")
       /\ UNCHANGED <<overcharge_count, charging_enabled, shutdown_reason, nyx_charging>>
    \/ /\ ChargerIsConnected /\ BatteryIsAuthentic
       /\ {"CHARGE_COMPLETE", "CHARGER_DISCONNECTED", "CHARGE_RESTART",
           "BATTERY_TEMPERATURE_LIMIT"} \cap Edge = {}
       /\ \/ /\ gChargeConfig.disable_overcharge_check
             /\ UNCHANGED overcharge_count
             /\ KeepCharging
          \/ /\ ~gChargeConfig.disable_overcharge_check
             /\ BatteryOverchargeFault(FALSE)
             /\ KeepCharging
          \/ /\ ~gChargeConfig.disable_overcharge_check
             /\ BatteryOverchargeFault(TRUE)
             /\ Return("fault")
             /\ UNCHANGED <<charging_enabled, shutdown_reason, nyx_charging>>

StateCharging ==
    /\ Running("charging")
    /\ ChargingDecision
    /\ UNCHANGED machineOff
    /\ HandlerFrame

StateChargeComplete ==
    /\ Running("chargecomplete")
    /\ TurnChargingOff
    /\ IF \/ ~ChargerIsConnected
          \/ {"CHARGER_DISCONNECTED", "CHARGE_RESTART"} \cap Edge # {}
         THEN Return("idle")
         ELSE ReturnLast
    /\ UNCHANGED <<overcharge_count, machineOff>>
    /\ HandlerFrame

StateFault ==
    /\ Running("fault")
    /\ TurnChargingOff
    /\ IF ~ChargerIsConnected \/ ~BatteryIsPresent
         THEN Return("idle")
         ELSE ReturnLast
    /\ UNCHANGED <<overcharge_count, machineOff>>
    /\ HandlerFrame

\* Fault: the default applies to a missing reason only, and no reason is.
EmptyReason == shutdown_reason

\* The reason the device is powered off with: the default if it was reset.
Reason == IF shutdown_reason = "" THEN kDefaultReason ELSE shutdown_reason

\* Fault: the machine stays where it asks from, to ask again.
InsistentStateShutdown ==
    /\ Running("shutdown")
    /\ shutdown_reason' = Reason
    /\ machineOff' = Append(machineOff, Reason)
    /\ ReturnLast
    /\ UNCHANGED <<charging_enabled, overcharge_count, nyx_charging>>
    /\ HandlerFrame

\* MachineShutdown() asks sleepd once; whether the call could be made only
\* reaches stderr.
StateShutdown ==
    /\ Running("shutdown")
    /\ shutdown_reason' = Reason
    /\ machineOff' = Append(machineOff, Reason)
    /\ Return("shutdownwait")
    /\ UNCHANGED <<charging_enabled, overcharge_count, nyx_charging>>
    /\ HandlerFrame

StateShutdownWait ==
    /\ Running("shutdownwait")
    /\ ReturnLast
    /\ UNCHANGED <<charging_enabled, shutdown_reason, overcharge_count,
                   nyx_charging, machineOff>>
    /\ HandlerFrame

StateHandler ==
    \/ StateIdle
    \/ StateCharging
    \/ StateChargeComplete
    \/ StateFault
    \/ StateShutdown
    \/ StateShutdownWait

--------------------------------------------------------------------------------
(***************************************************************************)
(* The critical checks and the calls that lead to them.                    *)
(***************************************************************************)

GoTo(place) == pc' = place /\ UNCHANGED event

ReturnToMainLoop == pc' = "mainloop" /\ event' = NYX_NO_NEW_EVENT

\* battery_state_iterate() runs its own pass: BatteryPoll.
BatteryStateIterate == pack' \in PackStates

\* handle_charger_event() begins.  A disabled check or charging registers no
\* state change callback, but a resume asks for the event all the same.
handle_charger_event ==
    /\ pc = "mainloop"
    /\ \E e \in Events :
          /\ event' = e
          /\ IF {"BATTERY_PRESENT", "BATTERY_ABSENT"} \cap e # {}
               THEN BatteryStateIterate
               ELSE UNCHANGED pack
    /\ pc' = "voltage"
    /\ UNCHANGED <<gChargeConfig, current_state, charging_enabled,
                   shutdown_reason, overcharge_count, critical_samples,
                   entered, charger, battery, nyx_charging, machineOff>>

CheckVoltage ==
    /\ pc = "voltage"
    /\ GoTo("temperature")
    /\ IF "BATTERY_CRITICAL_VOLTAGE" \in event /\ ~ChargerIsCharging
         THEN _JumpToShutdownState("battery voltage below threshold")
         ELSE UNCHANGED <<current_state, shutdown_reason>>
    /\ UNCHANGED <<gChargeConfig, charging_enabled, overcharge_count,
                   critical_samples, entered, charger, pack, battery,
                   nyx_charging, machineOff>>

\* What the reading that a temperature event asks for leads to.
ActOnTemperature ==
    \/ /\ ~battery.ok
       /\ ReturnToMainLoop
       /\ UNCHANGED <<current_state, charging_enabled, shutdown_reason, nyx_charging>>
    \/ /\ battery.ok
       /\ BatteryTemperatureCriticalShutdown(battery)
       /\ _JumpToShutdownState("battery temperature above max allowed")
       /\ GoTo("update")
       /\ UNCHANGED <<charging_enabled, nyx_charging>>
    \/ /\ battery.ok
       /\ ~BatteryTemperatureCriticalShutdown(battery)
       /\ BatteryTemperatureHigh(battery) \/ BatteryTemperatureLow(battery)
       /\ TurnChargingOff
       /\ GoTo("update")
       /\ UNCHANGED current_state
    \/ /\ battery.ok
       /\ ~BatteryTemperatureCriticalShutdown(battery)
       /\ ~(BatteryTemperatureHigh(battery) \/ BatteryTemperatureLow(battery))
       /\ GoTo("update")
       /\ UNCHANGED <<current_state, charging_enabled, shutdown_reason, nyx_charging>>

CheckTemperature ==
    /\ pc = "temperature"
    /\ \/ /\ "BATTERY_TEMPERATURE_LIMIT" \in event
          /\ ActOnTemperature
       \/ /\ "BATTERY_TEMPERATURE_LIMIT" \notin event
          /\ GoTo("update")
          /\ UNCHANGED <<current_state, charging_enabled, shutdown_reason, nyx_charging>>
    /\ UNCHANGED <<gChargeConfig, overcharge_count, critical_samples, entered,
                   charger, pack, battery, machineOff>>

\* ChargingLogicUpdate() up to its first pass; the rest of it is
\* CheckCriticalLevels with the pass it may ask for.
ChargingLogicUpdate ==
    /\ pc = "update"
    /\ IF gChargeConfig.skip_battery_check \/ gChargeConfig.disable_charging
         THEN ReturnToMainLoop
         ELSE GoTo("iterate")
    /\ UNCHANGED <<gChargeConfig, current_state, charging_enabled,
                   shutdown_reason, overcharge_count, critical_samples,
                   entered, charger, pack, battery, nyx_charging, machineOff>>

\* BatteryLevelCheck(), called when nyx reports new readings.
BatteryLevelCheck ==
    /\ pc = "mainloop"
    /\ ~gChargeConfig.skip_battery_check
    /\ GoTo("check")
    /\ UNCHANGED <<gChargeConfig, current_state, charging_enabled,
                   shutdown_reason, overcharge_count, critical_samples,
                   entered, charger, pack, battery, nyx_charging, machineOff>>

LevelIsCritical ==
    critical_percent_eval(battery.percentage, battery.voltage,
                          gChargeConfig.critical_percent)

\* A reading that says the level is critical, and that is acted on.
CriticalSample ==
    /\ battery.ok
    /\ gChargeConfig.critical_percent > 0
    /\ ~ChargerIsCharging
    /\ LevelIsCritical = "YES"

\* Fault: a reading that cannot be made does not end the row.
RowAcrossFailedReads == IF battery.ok THEN 0 ELSE critical_samples

\* What is left of the row when a sample is not critical.
BrokenRow == 0

\* Fault: the row is not cleared by the shutdown it leads to.
RowKept == critical_samples + 1

\* What is left of the row once it has led to a shutdown.
SpentRow == 0

\* The part of CheckCriticalLevels() that counts the row of critical samples.
CriticalLevels ==
    \/ /\ ~CriticalSample
       /\ critical_samples' = BrokenRow
       /\ ReturnToMainLoop
       /\ UNCHANGED <<current_state, shutdown_reason>>
    \/ /\ CriticalSample
       /\ critical_samples + 1 < CRITICAL_PERCENT_SAMPLES
       /\ critical_samples' = critical_samples + 1
       /\ ReturnToMainLoop
       /\ UNCHANGED <<current_state, shutdown_reason>>
    \/ /\ CriticalSample
       /\ critical_samples + 1 >= CRITICAL_PERCENT_SAMPLES
       /\ critical_samples' = SpentRow
       /\ _JumpToShutdownState("Critical battery levels")
       /\ GoTo("final")

\* Its callers have returned already under skip_battery_check.
CheckCriticalLevels ==
    /\ pc = "check"
    /\ \/ /\ ~BatteryIsPresent
          /\ _JumpToShutdownState("battery removed.")
          /\ GoTo("final")
          /\ UNCHANGED critical_samples
       \/ /\ BatteryIsPresent
          /\ CriticalLevels
    /\ UNCHANGED <<gChargeConfig, charging_enabled, overcharge_count, entered,
                   charger, pack, battery, nyx_charging, machineOff>>

--------------------------------------------------------------------------------

\* The battery is pulled, drained, heated or stops answering.
BatteryChanges ==
    /\ battery' \in Readings \ {battery}
    /\ UNCHANGED <<daemonVars, charger, pack, nyx_charging, machineOff>>

\* Another callback of the main loop reads the charger or polls the battery.
ViewsChange ==
    /\ pc = "mainloop"
    /\ charger' \in ChargerAnswers
    /\ pack' \in PackStates
    /\ <<charger, pack>>' # <<charger, pack>>
    /\ UNCHANGED <<daemonVars, battery, nyx_charging, machineOff>>

Step ==
    \/ CheckVoltage
    \/ CheckTemperature
    \/ ChargingLogicUpdate
    \/ StateHandler
    \/ CheckCriticalLevels

Next ==
    \/ Step
    \/ handle_charger_event
    \/ BatteryLevelCheck
    \/ BatteryChanges
    \/ ViewsChange

\* A call runs to its end; nothing makes nyx report an event.
Fairness == WF_vars(Step)

Spec == Init /\ [][Next]_vars /\ Fairness

--------------------------------------------------------------------------------
(***************************************************************************)
(* Properties.                                                             *)
(***************************************************************************)

\* No pass of ChargeStateIterate() runs the handler of a state twice: two
\* states that hand back to each other do not block the main loop.
HandlerRunsOncePerPass ==
    pc \in {"iterate", "final"} => current_state \notin entered

\* sleepd is asked to power the device off once per decision to do so, however
\* many critical conditions meet or repeat afterwards.
OneShutdownRequest ==
    Len(machineOff) = IF current_state = "shutdownwait" THEN 1 ELSE 0

\* The reason sleepd is given is never the empty one ChargeStateReset() leaves
\* when charging is turned off between the decision and the request.
ReasonIsGiven == \A i \in DOMAIN machineOff : machineOff[i] # ""

\* Between two calls the hardware charges exactly as the state says: it is
\* enabled in charging, and disabled in idle, fault and chargecomplete once
\* the daemon has said anything to nyx (and nyx does what it is told).
ChargingFollowsState ==
    pc = "mainloop" =>
        /\ current_state = "charging" => nyx_charging
        /\ /\ current_state \in {"idle", "fault", "chargecomplete"}
           /\ charging_enabled # "notset"
           => ~nyx_charging

\* A decision to power off is never taken back: nothing the charger or the
\* battery does later brings the machine out of the two shutdown states.
ShutdownIsFinal ==
    [][(current_state \in ShutdownStates) => (current_state' \in ShutdownStates)]_vars

\* Every callback returns to the main loop, whatever the battery does while
\* it runs.
EveryCallReturns == pc # "mainloop" ~> pc = "mainloop"

\* charging_logic.c:335 and 494: once the machine has jumped to shutdown the
\* device begins shutting down.
ShutdownIsRequested ==
    (current_state = "shutdown") ~> (current_state = "shutdownwait")

--------------------------------------------------------------------------------
(***************************************************************************)
(* What the rest of the device relies on: PowerOff, of which this is an    *)
(* implementation.                                                         *)
(***************************************************************************)

phase ==
    CASE current_state = "shutdown"     -> "decided"
      [] current_state = "shutdownwait" -> "requested"
      [] OTHER                          -> "running"

Power == INSTANCE PowerOff WITH phase <- phase, requests <- machineOff

\* The charge decision powers the device off the way PowerOff says.
PowersOff == Power!Safety
================================================================================
