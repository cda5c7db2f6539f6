-------------------------- MODULE ChargingLogic_proof --------------------------
(***************************************************************************)
(* What holds of the charge decision for every configuration, every set of *)
(* events and readings, and every limit.                                   *)
(***************************************************************************)
EXTENDS LevelCheck, SequenceTheorems, TLAPS

InPass == pc \in {"iterate", "final"}

\* A pass is recorded only while it runs, and the pass that follows a critical
\* check starts in shutdown.
EnteredOnlyInPass == ~InPass => entered = {}

FinalPassShutsDown == pc = "final" => current_state \in ShutdownStates

IInv ==
    /\ TypeOK
    /\ EnteredOnlyInPass
    /\ FinalPassShutsDown
    /\ HandlerRunsOncePerPass
    /\ OneShutdownRequest
    /\ ReasonIsGiven

--------------------------------------------------------------------------------
(***************************************************************************)
(* The bookkeeping of a pass.                                              *)
(***************************************************************************)

PassState == <<current_state, entered, pc, event>>

\* What a handler's return leaves true of the machine's own bookkeeping.
PassOK ==
    /\ current_state \in ChargeStates
    /\ entered \subseteq ChargeStates
    /\ pc \in Places
    /\ event \in SUBSET EventBits
    /\ EnteredOnlyInPass
    /\ HandlerRunsOncePerPass

\* A handler that returns a state: the transition is applied, and the pass
\* either goes on in a state it has not run or ends.
LEMMA ReturnKeepsPass ==
    ASSUME NEW next \in ChargeStates, IInv, InPass, Return(next)
    PROVE  /\ PassOK'
           /\ current_state' = next
           /\ pc' = "final" => pc = "final"
BY DEF Return, EndPass, IInv, TypeOK, PassOK, EnteredOnlyInPass,
       HandlerRunsOncePerPass, InPass, Places, EventBits, NYX_NO_NEW_EVENT

\* A handler that returns kChargeStateLast ends the pass where it is.
LEMMA ReturnLastKeepsPass ==
    ASSUME IInv, InPass, ReturnLast
    PROVE  /\ PassOK'
           /\ current_state' = current_state
           /\ pc' # "final"
BY DEF ReturnLast, EndPass, IInv, TypeOK, PassOK, EnteredOnlyInPass,
       HandlerRunsOncePerPass, InPass, Places, EventBits, NYX_NO_NEW_EVENT

\* Turning charging off may forget why the device is to be powered off.
LEMMA TurnChargingOffType ==
    ASSUME TypeOK, TurnChargingOff
    PROVE  /\ charging_enabled' \in {"enabled", "disabled", "notset"}
           /\ shutdown_reason' \in Reasons \cup {""}
           /\ nyx_charging' \in BOOLEAN
BY OutcomesAssumption DEF TypeOK, TurnChargingOff

\* The overcharge count stays within its range.
LEMMA OverchargeCountType ==
    ASSUME TypeOK, NEW fault \in BOOLEAN, BatteryOverchargeFault(fault)
    PROVE  overcharge_count' \in 0..(OVERCHARGE_RETRIES + 1)
<1>1. overcharge_count \in 0..(OVERCHARGE_RETRIES + 1) /\ OVERCHARGE_RETRIES \in Nat
  BY LimitsAssumption DEF TypeOK
<1>2. \/ overcharge_count' = 0
      \/ overcharge_count < OVERCHARGE_RETRIES /\ overcharge_count' = overcharge_count + 1
      \/ overcharge_count' = OVERCHARGE_RETRIES + 1
  BY Zenon DEF BatteryOverchargeFault
<1> QED
  BY <1>1, <1>2

\* The reason a shutdown is asked for with is never empty.
LEMMA ReasonType == TypeOK => Reason \in Reasons
BY DEF TypeOK, Reason, Reasons, kDefaultReason

\* A jump leads to shutdown from anywhere but there.
LEMMA JumpType ==
    ASSUME TypeOK, NEW reason \in Reasons, _JumpToShutdownState(reason)
    PROVE  /\ current_state' \in ShutdownStates
           /\ shutdown_reason' \in Reasons \cup {""}
           /\ current_state' = "shutdownwait" <=> current_state = "shutdownwait"
BY DEF TypeOK, _JumpToShutdownState, ShutdownStates

--------------------------------------------------------------------------------
(***************************************************************************)
(* The handlers keep IInv.                                                 *)
(***************************************************************************)

\* The part shared by every handler that makes no request: given the types of
\* what it assigns, the bookkeeping of the pass gives the rest.
LEMMA HandlerKeepsIInv ==
    ASSUME IInv, InPass, PassOK', HandlerFrame, UNCHANGED machineOff,
           pc' = "final" => pc = "final",
           charging_enabled' \in {"enabled", "disabled", "notset"},
           shutdown_reason' \in Reasons \cup {""},
           nyx_charging' \in BOOLEAN,
           overcharge_count' \in 0..(OVERCHARGE_RETRIES + 1),
           current_state = "shutdownwait" <=> current_state' = "shutdownwait",
           current_state \in ShutdownStates => current_state' \in ShutdownStates
    PROVE  IInv'
<1>1. TypeOK'
  BY DEF IInv, TypeOK, PassOK, HandlerFrame
<1>2. EnteredOnlyInPass' /\ HandlerRunsOncePerPass'
  BY DEF PassOK
<1>3. FinalPassShutsDown'
  BY DEF IInv, FinalPassShutsDown
<1>4. OneShutdownRequest' /\ ReasonIsGiven'
  BY DEF IInv, OneShutdownRequest, ReasonIsGiven
<1> QED
  BY <1>1, <1>2, <1>3, <1>4 DEF IInv

LEMMA IdleKeepsIInv == ASSUME IInv, StateIdle PROVE IInv'
<1>1. TypeOK /\ InPass /\ current_state = "idle"
  BY DEF IInv, StateIdle, Running, InPass
<1>2. /\ TurnChargingOff
      /\ HandlerFrame
      /\ UNCHANGED <<overcharge_count, machineOff>>
      /\ Return("charging") \/ ReturnLast
  BY DEF StateIdle
<1>3. "charging" \in ChargeStates
  BY DEF ChargeStates
<1>4. /\ PassOK'
      /\ pc' = "final" => pc = "final"
      /\ current_state' \in {"idle", "charging"}
  BY <1>1, <1>2, <1>3, ReturnKeepsPass, ReturnLastKeepsPass
<1>5. overcharge_count' \in 0..(OVERCHARGE_RETRIES + 1)
  BY <1>1, <1>2 DEF TypeOK
<1> QED
  BY <1>1, <1>2, <1>4, <1>5, TurnChargingOffType, HandlerKeepsIInv DEF ShutdownStates

LEMMA ChargingKeepsIInv == ASSUME IInv, StateCharging PROVE IInv'
<1>1. TypeOK /\ InPass /\ current_state = "charging"
  BY DEF IInv, StateCharging, Running, InPass
<1>2. HandlerFrame /\ UNCHANGED machineOff /\ ChargingDecision
  BY DEF StateCharging
<1>3. {"idle", "charging", "chargecomplete", "fault"} \subseteq ChargeStates
  BY DEF ChargeStates
<1>4. ASSUME \/ ReturnLast
             \/ \E next \in {"idle", "chargecomplete", "fault"} : Return(next)
      PROVE  /\ PassOK'
             /\ pc' = "final" => pc = "final"
             /\ current_state' \in {"idle", "charging", "chargecomplete", "fault"}
  BY <1>1, <1>3, <1>4, ReturnKeepsPass, ReturnLastKeepsPass
<1>5. CASE /\ Return("idle") \/ Return("chargecomplete") \/ Return("fault")
           /\ UNCHANGED <<charging_enabled, shutdown_reason, nyx_charging>>
           /\ overcharge_count' \in 0..(OVERCHARGE_RETRIES + 1)
  BY <1>1, <1>2, <1>4, <1>5, HandlerKeepsIInv DEF TypeOK, ShutdownStates
<1>6. CASE KeepCharging /\ overcharge_count' \in 0..(OVERCHARGE_RETRIES + 1)
  <2>1. PICK done \in EnableOutcomes :
            /\ TurnChargingON(done)
            /\ IF done THEN ReturnLast ELSE Return("idle")
    BY <1>6 DEF KeepCharging
  <2>2. /\ charging_enabled' \in {"enabled", "disabled", "notset"}
        /\ shutdown_reason' \in Reasons \cup {""}
        /\ nyx_charging' \in BOOLEAN
    BY <1>1, <2>1 DEF TypeOK, TurnChargingON
  <2>3. ReturnLast \/ Return("idle")
    BY <2>1
  <2> QED
    BY <1>1, <1>2, <1>4, <1>6, <2>2, <2>3, HandlerKeepsIInv DEF ShutdownStates
<1>7. overcharge_count' \in 0..(OVERCHARGE_RETRIES + 1)
  BY <1>1, <1>2, OverchargeCountType DEF ChargingDecision, TypeOK
<1> QED
  BY <1>2, <1>5, <1>6, <1>7 DEF ChargingDecision

LEMMA ChargeCompleteKeepsIInv == ASSUME IInv, StateChargeComplete PROVE IInv'
<1>1. TypeOK /\ InPass /\ current_state = "chargecomplete"
  BY DEF IInv, StateChargeComplete, Running, InPass
<1>2. /\ TurnChargingOff
      /\ HandlerFrame
      /\ UNCHANGED <<overcharge_count, machineOff>>
      /\ Return("idle") \/ ReturnLast
  BY DEF StateChargeComplete
<1>3. "idle" \in ChargeStates
  BY DEF ChargeStates
<1>4. /\ PassOK'
      /\ pc' = "final" => pc = "final"
      /\ current_state' \in {"idle", "chargecomplete"}
  BY <1>1, <1>2, <1>3, ReturnKeepsPass, ReturnLastKeepsPass
<1>5. overcharge_count' \in 0..(OVERCHARGE_RETRIES + 1)
  BY <1>1, <1>2 DEF TypeOK
<1> QED
  BY <1>1, <1>2, <1>4, <1>5, TurnChargingOffType, HandlerKeepsIInv DEF ShutdownStates

LEMMA FaultKeepsIInv == ASSUME IInv, StateFault PROVE IInv'
<1>1. TypeOK /\ InPass /\ current_state = "fault"
  BY DEF IInv, StateFault, Running, InPass
<1>2. /\ TurnChargingOff
      /\ HandlerFrame
      /\ UNCHANGED <<overcharge_count, machineOff>>
      /\ Return("idle") \/ ReturnLast
  BY DEF StateFault
<1>3. "idle" \in ChargeStates
  BY DEF ChargeStates
<1>4. /\ PassOK'
      /\ pc' = "final" => pc = "final"
      /\ current_state' \in {"idle", "fault"}
  BY <1>1, <1>2, <1>3, ReturnKeepsPass, ReturnLastKeepsPass
<1>5. overcharge_count' \in 0..(OVERCHARGE_RETRIES + 1)
  BY <1>1, <1>2 DEF TypeOK
<1> QED
  BY <1>1, <1>2, <1>4, <1>5, TurnChargingOffType, HandlerKeepsIInv DEF ShutdownStates

\* The one handler that makes a request, and moves on from where it is made.
LEMMA ShutdownKeepsIInv == ASSUME IInv, StateShutdown PROVE IInv'
<1>1. TypeOK /\ InPass /\ current_state = "shutdown"
  BY DEF IInv, StateShutdown, Running, InPass
<1>2. /\ HandlerFrame
      /\ UNCHANGED <<charging_enabled, overcharge_count, nyx_charging>>
      /\ shutdown_reason' = Reason
      /\ machineOff' = Append(machineOff, Reason)
      /\ Return("shutdownwait")
  BY DEF StateShutdown
<1>3. Reason \in Reasons
  BY <1>1, ReasonType
<1>4. /\ PassOK'
      /\ pc' = "final" => pc = "final"
      /\ current_state' = "shutdownwait"
  <2>1. "shutdownwait" \in ChargeStates
    BY DEF ChargeStates
  <2> QED
    BY <1>1, <1>2, <2>1, ReturnKeepsPass
<1>5. machineOff = <<>>
  <2>1. machineOff \in Seq(Reasons \cup {""}) /\ Len(machineOff) = 0
    BY <1>1 DEF IInv, OneShutdownRequest, TypeOK
  <2> QED
    BY <2>1, EmptySeq
<1>6. machineOff' = <<Reason>>
  BY <1>2, <1>5
<1>7. TypeOK'
  <2>1. machineOff' \in Seq(Reasons \cup {""})
    <3>1. machineOff \in Seq(Reasons \cup {""}) /\ Reason \in Reasons \cup {""}
      BY <1>1, <1>3 DEF TypeOK
    <3> QED
      BY <1>2, <3>1, AppendProperties
  <2>2. shutdown_reason' \in Reasons \cup {""}
    BY <1>2, <1>3
  <2>3. UNCHANGED <<gChargeConfig, critical_samples, charger, pack, battery,
                    charging_enabled, overcharge_count, nyx_charging>>
    BY <1>2 DEF HandlerFrame
  <2> QED
    BY <1>1, <1>4, <2>1, <2>2, <2>3 DEF TypeOK, PassOK
<1>8. OneShutdownRequest' /\ ReasonIsGiven'
  <2>1. Len(machineOff') = 1 /\ DOMAIN machineOff' = {1} /\ machineOff'[1] = Reason
    BY <1>6
  <2>2. Reason # ""
    BY <1>3 DEF Reasons
  <2> QED
    BY <1>4, <2>1, <2>2 DEF OneShutdownRequest, ReasonIsGiven
<1>9. FinalPassShutsDown'
  BY <1>4 DEF FinalPassShutsDown, ShutdownStates
<1> QED
  BY <1>4, <1>7, <1>8, <1>9 DEF IInv, PassOK

LEMMA ShutdownWaitKeepsIInv == ASSUME IInv, StateShutdownWait PROVE IInv'
<1>1. TypeOK /\ InPass
  BY DEF IInv, StateShutdownWait, Running, InPass
<1>2. /\ HandlerFrame
      /\ ReturnLast
      /\ UNCHANGED <<charging_enabled, shutdown_reason, overcharge_count,
                     nyx_charging, machineOff>>
  BY DEF StateShutdownWait
<1> QED
  BY <1>1, <1>2, ReturnLastKeepsPass, HandlerKeepsIInv DEF TypeOK

--------------------------------------------------------------------------------
(***************************************************************************)
(* The other steps keep IInv.                                              *)
(***************************************************************************)

\* The part shared by the steps outside the passes: they enter no handler and
\* make no request.
LEMMA CallKeepsIInv ==
    ASSUME IInv, ~InPass, TypeOK', UNCHANGED <<entered, machineOff>>,
           current_state = "shutdownwait" <=> current_state' = "shutdownwait",
           pc' = "final" => current_state' \in ShutdownStates
    PROVE  IInv'
<1>1. entered' = {}
  BY DEF IInv, EnteredOnlyInPass
<1> QED
  BY <1>1 DEF IInv, EnteredOnlyInPass, FinalPassShutsDown,
              HandlerRunsOncePerPass, OneShutdownRequest, ReasonIsGiven

LEMMA EventKeepsIInv == ASSUME IInv, handle_charger_event PROVE IInv'
<1>1. TypeOK'
  BY DataAssumption DEF IInv, TypeOK, handle_charger_event,
                        BatteryStateIterate, Places
<1> QED
  BY <1>1, CallKeepsIInv DEF handle_charger_event, InPass

LEMMA VoltageKeepsIInv == ASSUME IInv, CheckVoltage PROVE IInv'
<1>1. TypeOK /\ pc = "voltage" /\ pc' = "temperature"
  BY DEF IInv, CheckVoltage, GoTo
<1>2. UNCHANGED <<gChargeConfig, charging_enabled, overcharge_count,
                  critical_samples, entered, charger, pack, battery,
                  nyx_charging, machineOff, event>>
  BY DEF CheckVoltage, GoTo
<1>3. /\ current_state' \in ChargeStates
      /\ shutdown_reason' \in Reasons \cup {""}
      /\ current_state = "shutdownwait" <=> current_state' = "shutdownwait"
  <2>1. "battery voltage below threshold" \in Reasons
    BY DEF Reasons
  <2>2. CASE _JumpToShutdownState("battery voltage below threshold")
    BY <1>1, <2>1, <2>2, JumpType DEF ShutdownStates, ChargeStates
  <2>3. CASE UNCHANGED <<current_state, shutdown_reason>>
    BY <1>1, <2>3 DEF TypeOK
  <2> QED
    BY <2>2, <2>3 DEF CheckVoltage
<1>4. TypeOK'
  BY <1>1, <1>2, <1>3 DEF TypeOK, Places
<1> QED
  BY <1>1, <1>2, <1>3, <1>4, CallKeepsIInv DEF InPass

LEMMA TemperatureKeepsIInv == ASSUME IInv, CheckTemperature PROVE IInv'
<1>1. TypeOK /\ pc = "temperature"
  BY DEF IInv, CheckTemperature
<1>2. UNCHANGED <<gChargeConfig, overcharge_count, critical_samples, entered,
                  charger, pack, battery, machineOff>>
  BY DEF CheckTemperature
<1>3. /\ pc' \in {"mainloop", "update"}
      /\ event' \in SUBSET EventBits
  BY <1>1 DEF CheckTemperature, ActOnTemperature, GoTo, ReturnToMainLoop,
              TypeOK, NYX_NO_NEW_EVENT
<1>4. /\ current_state' \in ChargeStates
      /\ shutdown_reason' \in Reasons \cup {""}
      /\ charging_enabled' \in {"enabled", "disabled", "notset"}
      /\ nyx_charging' \in BOOLEAN
      /\ current_state = "shutdownwait" <=> current_state' = "shutdownwait"
  <2>1. "battery temperature above max allowed" \in Reasons
    BY DEF Reasons
  <2>2. CASE /\ _JumpToShutdownState("battery temperature above max allowed")
             /\ UNCHANGED <<charging_enabled, nyx_charging>>
    BY <1>1, <2>1, <2>2, JumpType DEF TypeOK, ShutdownStates, ChargeStates
  <2>3. CASE TurnChargingOff /\ UNCHANGED current_state
    BY <1>1, <2>3, TurnChargingOffType DEF TypeOK
  <2>4. CASE UNCHANGED <<current_state, charging_enabled, shutdown_reason, nyx_charging>>
    BY <1>1, <2>4 DEF TypeOK
  <2> QED
    BY <2>2, <2>3, <2>4 DEF CheckTemperature, ActOnTemperature
<1>5. TypeOK'
  BY <1>1, <1>2, <1>3, <1>4 DEF TypeOK, Places
<1> QED
  BY <1>1, <1>2, <1>3, <1>4, <1>5, CallKeepsIInv DEF InPass

LEMMA UpdateKeepsIInv == ASSUME IInv, ChargingLogicUpdate PROVE IInv'
<1>1. TypeOK /\ pc = "update"
  BY DEF IInv, ChargingLogicUpdate
<1>2. UNCHANGED <<gChargeConfig, current_state, charging_enabled,
                  shutdown_reason, overcharge_count, critical_samples,
                  entered, charger, pack, battery, nyx_charging, machineOff>>
  BY DEF ChargingLogicUpdate
<1>3. pc' \in {"mainloop", "iterate"} /\ event' \in SUBSET EventBits
  BY <1>1 DEF ChargingLogicUpdate, GoTo, ReturnToMainLoop, TypeOK, NYX_NO_NEW_EVENT
<1>4. TypeOK'
  BY <1>1, <1>2, <1>3 DEF TypeOK, Places
<1> QED
  BY <1>1, <1>2, <1>3, <1>4, CallKeepsIInv DEF InPass

LEMMA LevelCheckKeepsIInv == ASSUME IInv, BatteryLevelCheck PROVE IInv'
<1>1. TypeOK'
  BY DEF IInv, TypeOK, BatteryLevelCheck, GoTo, Places
<1> QED
  BY <1>1, CallKeepsIInv DEF BatteryLevelCheck, GoTo, InPass

\* The row of critical samples stays shorter than the one that is acted on,
\* and acting on it is a jump.
LEMMA CriticalLevelsType ==
    ASSUME TypeOK, CriticalLevels
    PROVE  /\ critical_samples' \in 0..(CRITICAL_PERCENT_SAMPLES - 1)
           /\ pc' \in {"mainloop", "final"}
           /\ event' \in SUBSET EventBits
           /\ \/ pc' = "mainloop" /\ UNCHANGED <<current_state, shutdown_reason>>
              \/ _JumpToShutdownState("Critical battery levels")
<1>1. /\ critical_samples \in 0..(CRITICAL_PERCENT_SAMPLES - 1)
      /\ CRITICAL_PERCENT_SAMPLES \in Nat \ {0}
      /\ event \in SUBSET EventBits
  BY LimitsAssumption DEF TypeOK
<1>2. CASE /\ critical_samples' = BrokenRow
           /\ ReturnToMainLoop
           /\ UNCHANGED <<current_state, shutdown_reason>>
  BY <1>1, <1>2 DEF BrokenRow, ReturnToMainLoop, NYX_NO_NEW_EVENT
<1>3. CASE /\ critical_samples + 1 < CRITICAL_PERCENT_SAMPLES
           /\ critical_samples' = critical_samples + 1
           /\ ReturnToMainLoop
           /\ UNCHANGED <<current_state, shutdown_reason>>
  BY <1>1, <1>3 DEF ReturnToMainLoop, NYX_NO_NEW_EVENT
<1>4. CASE /\ critical_samples' = SpentRow
           /\ _JumpToShutdownState("Critical battery levels")
           /\ GoTo("final")
  <2>1. SpentRow \in 0..(CRITICAL_PERCENT_SAMPLES - 1)
    BY <1>1 DEF SpentRow
  <2>2. pc' = "final" /\ event' = event
    BY <1>4 DEF GoTo
  <2> QED
    BY <1>1, <1>4, <2>1, <2>2, Zenon
<1> QED
  BY <1>2, <1>3, <1>4, Zenon DEF CriticalLevels

LEMMA CriticalKeepsIInv == ASSUME IInv, CheckCriticalLevels PROVE IInv'
<1>1. TypeOK /\ pc = "check"
  BY DEF IInv, CheckCriticalLevels
<1>2. UNCHANGED <<gChargeConfig, charging_enabled, overcharge_count, entered,
                  charger, pack, battery, nyx_charging, machineOff>>
  BY DEF CheckCriticalLevels
<1>3. /\ critical_samples' \in 0..(CRITICAL_PERCENT_SAMPLES - 1)
      /\ pc' \in {"mainloop", "final"}
      /\ event' \in SUBSET EventBits
      /\ \/ pc' = "mainloop" /\ UNCHANGED <<current_state, shutdown_reason>>
         \/ \E reason \in Reasons : _JumpToShutdownState(reason)
  <2>1. {"battery removed.", "Critical battery levels"} \subseteq Reasons
    BY DEF Reasons
  <2>2. CASE /\ _JumpToShutdownState("battery removed.")
             /\ GoTo("final")
             /\ UNCHANGED critical_samples
    BY <1>1, <2>1, <2>2 DEF TypeOK, GoTo
  <2>3. CASE CriticalLevels
    BY <1>1, <2>1, <2>3, CriticalLevelsType
  <2> QED
    BY <2>2, <2>3 DEF CheckCriticalLevels
<1>4. /\ current_state' \in ChargeStates
      /\ shutdown_reason' \in Reasons \cup {""}
      /\ current_state = "shutdownwait" <=> current_state' = "shutdownwait"
      /\ pc' = "final" => current_state' \in ShutdownStates
  <2>1. CASE pc' = "mainloop" /\ UNCHANGED <<current_state, shutdown_reason>>
    BY <1>1, <2>1 DEF TypeOK
  <2>2. CASE \E reason \in Reasons : _JumpToShutdownState(reason)
    BY <1>1, <2>2, JumpType DEF ShutdownStates, ChargeStates
  <2> QED
    BY <1>3, <2>1, <2>2
<1>5. TypeOK'
  BY <1>1, <1>2, <1>3, <1>4 DEF TypeOK, Places
<1> QED
  BY <1>1, <1>2, <1>4, <1>5, CallKeepsIInv DEF InPass

\* The environment's steps touch only what the daemon reads.
LEMMA EnvironmentKeepsIInv ==
    ASSUME IInv, BatteryChanges \/ ViewsChange \/ UNCHANGED vars
    PROVE  IInv'
<1>1. UNCHANGED <<daemonVars, machineOff>>
  BY DEF BatteryChanges, ViewsChange, vars
<1>2. /\ charger' \in ChargerAnswers
      /\ pack' \in PackStates
      /\ battery' \in Readings
      /\ nyx_charging' \in BOOLEAN
  BY DEF IInv, TypeOK, BatteryChanges, ViewsChange, vars
<1>3. TypeOK'
  BY <1>1, <1>2 DEF IInv, TypeOK, daemonVars
<1> QED
  BY <1>1, <1>3 DEF IInv, daemonVars, InPass, EnteredOnlyInPass,
                    FinalPassShutsDown, HandlerRunsOncePerPass,
                    OneShutdownRequest, ReasonIsGiven

--------------------------------------------------------------------------------
LEMMA InitImpliesIInv == Init => IInv
<1> SUFFICES ASSUME Init PROVE IInv
  OBVIOUS
<1>1. TypeOK
  <2>1. <<>> \in Seq(Reasons \cup {""})
    BY EmptySeq
  <2>2. /\ overcharge_count \in 0..(OVERCHARGE_RETRIES + 1)
        /\ critical_samples \in 0..(CRITICAL_PERCENT_SAMPLES - 1)
    <3>1. overcharge_count = 0 /\ critical_samples = 0
      BY DEF Init
    <3> QED
      BY <3>1, LimitsAssumption
  <2> QED
    BY <2>1, <2>2 DEF Init, TypeOK, ChargeStates, Places, NYX_NO_NEW_EVENT
<1>2. pc = "mainloop" /\ entered = {} /\ current_state = "idle" /\ machineOff = <<>>
  BY DEF Init
<1>3. EnteredOnlyInPass /\ FinalPassShutsDown /\ HandlerRunsOncePerPass
  BY <1>2 DEF InPass, EnteredOnlyInPass, FinalPassShutsDown, HandlerRunsOncePerPass
<1>4. OneShutdownRequest /\ ReasonIsGiven
  BY <1>2 DEF OneShutdownRequest, ReasonIsGiven
<1> QED
  BY <1>1, <1>3, <1>4 DEF IInv

LEMMA NextKeepsIInv == IInv /\ [Next]_vars => IInv'
<1> SUFFICES ASSUME IInv, [Next]_vars PROVE IInv'
  OBVIOUS
<1>1. CASE CheckVoltage
  BY <1>1, VoltageKeepsIInv
<1>2. CASE CheckTemperature
  BY <1>2, TemperatureKeepsIInv
<1>3. CASE ChargingLogicUpdate
  BY <1>3, UpdateKeepsIInv
<1>4. CASE StateHandler
  BY <1>4, IdleKeepsIInv, ChargingKeepsIInv, ChargeCompleteKeepsIInv,
     FaultKeepsIInv, ShutdownKeepsIInv, ShutdownWaitKeepsIInv DEF StateHandler
<1>5. CASE CheckCriticalLevels
  BY <1>5, CriticalKeepsIInv
<1>6. CASE handle_charger_event
  BY <1>6, EventKeepsIInv
<1>7. CASE BatteryLevelCheck
  BY <1>7, LevelCheckKeepsIInv
<1>8. CASE BatteryChanges \/ ViewsChange \/ UNCHANGED vars
  BY <1>8, EnvironmentKeepsIInv
<1> QED
  BY <1>1, <1>2, <1>3, <1>4, <1>5, <1>6, <1>7, <1>8 DEF Next, Step

\* IInv is an inductive invariant of the charge decision.
THEOREM IInvInvariant == Spec => []IInv
BY InitImpliesIInv, NextKeepsIInv, PTL DEF Spec

\* Every variable keeps its type.
THEOREM TypeCorrect == Spec => []TypeOK
BY IInvInvariant, PTL DEF IInv

\* No pass of ChargeStateIterate() runs a handler twice.
THEOREM PassIsGuarded == Spec => []HandlerRunsOncePerPass
BY IInvInvariant, PTL DEF IInv

\* sleepd is asked once per decision to power off.
THEOREM ShutdownAskedOnce == Spec => []OneShutdownRequest
BY IInvInvariant, PTL DEF IInv

\* And it is given a reason, though turning charging off clears the one that was
\* decided on.
THEOREM ShutdownHasReason == Spec => []ReasonIsGiven
BY IInvInvariant, PTL DEF IInv

--------------------------------------------------------------------------------
(***************************************************************************)
(* The hardware charges as the state says, when nyx does what it is told.  *)
(***************************************************************************)

\* What the daemon takes for off is off.
DisabledIsOff == charging_enabled = "disabled" => ~nyx_charging

Settled ==
    /\ current_state = "charging" => nyx_charging
    /\ /\ current_state \in {"idle", "fault", "chargecomplete"}
       /\ charging_enabled # "notset"
       => ~nyx_charging

\* A temperature limit turns charging off before the state says so; the event
\* that made it do so is still to be handled.
OffBeforeState ==
    /\ current_state = "charging"
    /\ charging_enabled = "disabled"
    /\ "BATTERY_TEMPERATURE_LIMIT" \in event
    /\ ~gChargeConfig.skip_battery_check
    /\ ~gChargeConfig.disable_charging

\* Where no charge decision is made there is no pass and no charging state.
NoDecisionNoCharging ==
    gChargeConfig.skip_battery_check \/ gChargeConfig.disable_charging =>
        /\ current_state \in {"idle"} \cup ShutdownStates
        /\ pc # "iterate"

\* Charging is entered inside a pass only from idle, which turned it off.
ChargingAfterIdle ==
    pc = "iterate" /\ entered # {} /\ current_state = "charging" =>
        /\ entered = {"idle"}
        /\ charging_enabled = "disabled"

HInv ==
    /\ DisabledIsOff
    /\ NoDecisionNoCharging
    /\ ChargingAfterIdle
    /\ pc \in {"mainloop", "voltage", "temperature", "check"} => Settled
    /\ pc = "update" \/ (pc = "iterate" /\ entered = {}) => Settled \/ OffBeforeState

\* Obedient hardware: a charging that is disabled stops.
LEMMA TurnChargingOffTurnsOff ==
    ASSUME DisableOutcomes = {TRUE}, IInv, HInv, TurnChargingOff
    PROVE  charging_enabled' = "disabled" /\ nyx_charging' = FALSE
BY DEF IInv, TypeOK, HInv, DisabledIsOff, TurnChargingOff

\* A handler that leaves charging off, and does not go on to charging from
\* elsewhere than idle, keeps HInv.
LEMMA OffHandlerKeepsHInv ==
    ASSUME IInv, HInv, pc = "iterate", UNCHANGED gChargeConfig,
           charging_enabled' = "disabled", nyx_charging' = FALSE,
           \/ ReturnLast /\ current_state # "charging"
           \/ Return("idle")
           \/ Return("charging") /\ entered = {} /\ current_state = "idle"
    PROVE  HInv'
<1>1. ~gChargeConfig.skip_battery_check /\ ~gChargeConfig.disable_charging
  BY DEF HInv, NoDecisionNoCharging
<1>2. DisabledIsOff' /\ NoDecisionNoCharging'
  BY <1>1 DEF DisabledIsOff, NoDecisionNoCharging
<1>3. CASE ReturnLast /\ current_state # "charging"
  BY <1>2, <1>3 DEF ReturnLast, EndPass, HInv, ChargingAfterIdle, Settled
<1>4. CASE Return("idle")
  BY <1>2, <1>4 DEF Return, EndPass, HInv, ChargingAfterIdle, Settled
<1>5. CASE Return("charging") /\ entered = {} /\ current_state = "idle"
  BY <1>2, <1>5 DEF Return, EndPass, HInv, ChargingAfterIdle, Settled
<1> QED
  BY <1>3, <1>4, <1>5

LEMMA IdleKeepsHInv ==
    ASSUME DisableOutcomes = {TRUE}, IInv, HInv, StateIdle
    PROVE  HInv'
<1>1. current_state = "idle" /\ pc = "iterate"
  BY DEF StateIdle, Running, IInv, FinalPassShutsDown, ShutdownStates
<1>2. charging_enabled' = "disabled" /\ nyx_charging' = FALSE
  BY TurnChargingOffTurnsOff DEF StateIdle
<1>3. ReturnLast \/ (Return("charging") /\ entered = {})
  BY DEF StateIdle, Edge, NYX_NO_NEW_EVENT
<1> QED
  BY <1>1, <1>2, <1>3, OffHandlerKeepsHInv DEF StateIdle, HandlerFrame

LEMMA CompleteOrFaultKeepsHInv ==
    ASSUME DisableOutcomes = {TRUE}, IInv, HInv, StateChargeComplete \/ StateFault
    PROVE  HInv'
<1>1. current_state \in {"chargecomplete", "fault"} /\ pc = "iterate"
  BY DEF StateChargeComplete, StateFault, Running, IInv, FinalPassShutsDown, ShutdownStates
<1>2. charging_enabled' = "disabled" /\ nyx_charging' = FALSE
  BY TurnChargingOffTurnsOff DEF StateChargeComplete, StateFault
<1>3. ReturnLast \/ Return("idle")
  BY DEF StateChargeComplete, StateFault
<1> QED
  BY <1>1, <1>2, <1>3, OffHandlerKeepsHInv
     DEF StateChargeComplete, StateFault, HandlerFrame

\* Whatever takes the machine out of charging, a pass that comes from idle has
\* turned charging off, and one that does not will.
LEMMA LeavingKeepsHInv ==
    ASSUME IInv, HInv, pc = "iterate", current_state = "charging",
           UNCHANGED <<gChargeConfig, nyx_charging>>,
           charging_enabled' \in {charging_enabled, "enabled"},
           \/ Return("idle")
           \/ Return("fault")
           \/ Return("chargecomplete")
    PROVE  HInv'
<1>1. ~gChargeConfig.skip_battery_check /\ ~gChargeConfig.disable_charging
  BY DEF HInv, NoDecisionNoCharging
<1>2. DisabledIsOff' /\ NoDecisionNoCharging'
  BY <1>1 DEF HInv, DisabledIsOff, NoDecisionNoCharging
<1>3. entered = {} \/ (entered = {"idle"} /\ ~nyx_charging)
  BY DEF HInv, ChargingAfterIdle, DisabledIsOff
<1>4. CASE Return("idle")
  BY <1>2, <1>3, <1>4 DEF Return, EndPass, HInv, ChargingAfterIdle, Settled
<1>5. CASE Return("fault")
  BY <1>2, <1>3, <1>5 DEF Return, EndPass, HInv, ChargingAfterIdle, Settled
<1>6. CASE Return("chargecomplete")
  BY <1>2, <1>3, <1>6 DEF Return, EndPass, HInv, ChargingAfterIdle, Settled
<1> QED
  BY <1>4, <1>5, <1>6

LEMMA ChargingKeepsHInv ==
    ASSUME IInv, HInv, StateCharging
    PROVE  HInv'
<1>1. current_state = "charging" /\ pc = "iterate"
  BY DEF StateCharging, Running, IInv, FinalPassShutsDown, ShutdownStates
<1>2. UNCHANGED gChargeConfig
  BY DEF StateCharging, HandlerFrame
<1>3. ~gChargeConfig.skip_battery_check /\ ~gChargeConfig.disable_charging
  BY <1>1 DEF HInv, NoDecisionNoCharging
<1>4. CASE /\ Return("idle") \/ Return("chargecomplete") \/ Return("fault")
           /\ UNCHANGED <<charging_enabled, shutdown_reason, nyx_charging>>
  BY <1>1, <1>2, <1>4, LeavingKeepsHInv
<1>5. CASE KeepCharging
  <2>1. PICK done \in EnableOutcomes :
            /\ TurnChargingON(done)
            /\ IF done THEN ReturnLast ELSE Return("idle")
    BY <1>5 DEF KeepCharging
  <2>2. charging_enabled' = "enabled"
    BY <2>1 DEF TurnChargingON
  <2>3. CASE done /\ ReturnLast
    BY <1>1, <1>2, <1>3, <2>1, <2>2, <2>3
       DEF TurnChargingON, ReturnLast, EndPass, HInv, DisabledIsOff,
           NoDecisionNoCharging, ChargingAfterIdle, Settled
  <2>4. CASE ~done /\ Return("idle")
    <3>1. UNCHANGED nyx_charging
      BY <2>1, <2>4 DEF TurnChargingON
    <3> QED
      BY <1>1, <1>2, <2>2, <2>4, <3>1, LeavingKeepsHInv
  <2> QED
    BY <2>1, <2>3, <2>4
<1> QED
  BY <1>4, <1>5 DEF StateCharging, ChargingDecision

LEMMA ShutdownHandlersKeepHInv ==
    ASSUME IInv, HInv, StateShutdown \/ StateShutdownWait
    PROVE  HInv'
<1>1. /\ current_state \in ShutdownStates
      /\ current_state' = "shutdownwait"
      /\ UNCHANGED <<gChargeConfig, charging_enabled, nyx_charging>>
      /\ pc' = pc \/ pc' \in {"check", "mainloop"}
  BY DEF StateShutdown, StateShutdownWait, Running, ShutdownStates, Return,
         ReturnLast, EndPass, HandlerFrame
<1> QED
  BY <1>1 DEF HInv, DisabledIsOff, NoDecisionNoCharging, ChargingAfterIdle,
              Settled, ShutdownStates

\* A jump to shutdown, or nothing, with charging left alone.
LEMMA JumpKeepsHInv ==
    ASSUME IInv, HInv, ~InPass,
           pc' \in {"mainloop", "temperature", "update", "check", "final"},
           pc # "update",
           UNCHANGED <<gChargeConfig, charging_enabled, nyx_charging, entered>>,
           \/ UNCHANGED current_state
           \/ current_state' \in ShutdownStates
    PROVE  HInv'
<1>1. Settled
  BY DEF IInv, TypeOK, Places, HInv, InPass
<1> QED
  BY <1>1 DEF HInv, DisabledIsOff, NoDecisionNoCharging, ChargingAfterIdle,
              Settled, ShutdownStates

LEMMA TemperatureKeepsHInv ==
    ASSUME DisableOutcomes = {TRUE}, IInv, HInv, CheckTemperature
    PROVE  HInv'
<1>1. pc = "temperature" /\ UNCHANGED <<gChargeConfig, entered>>
  BY DEF CheckTemperature
<1>2. CASE /\ "BATTERY_TEMPERATURE_LIMIT" \in event
           /\ TurnChargingOff
           /\ GoTo("update")
           /\ UNCHANGED current_state
  <2>1. charging_enabled' = "disabled" /\ nyx_charging' = FALSE
    BY <1>2, TurnChargingOffTurnsOff
  <2>2. pc' = "update" /\ UNCHANGED <<event, current_state>>
    BY <1>2 DEF GoTo
  <2> QED
    BY <1>1, <1>2, <2>1, <2>2
       DEF HInv, DisabledIsOff, NoDecisionNoCharging, ChargingAfterIdle, Settled,
           OffBeforeState, ShutdownStates
<1>3. CASE /\ pc' \in {"mainloop", "update"}
           /\ UNCHANGED <<charging_enabled, nyx_charging>>
           /\ \/ UNCHANGED current_state
              \/ current_state' \in ShutdownStates
  BY <1>1, <1>3, JumpKeepsHInv DEF InPass
<1> QED
  BY <1>1, <1>2, <1>3 DEF CheckTemperature, ActOnTemperature, GoTo,
     ReturnToMainLoop, _JumpToShutdownState, ShutdownStates

LEMMA UpdateKeepsHInv ==
    ASSUME IInv, HInv, ChargingLogicUpdate
    PROVE  HInv'
<1>1. /\ pc = "update"
      /\ UNCHANGED <<gChargeConfig, current_state, charging_enabled, nyx_charging, entered>>
  BY DEF ChargingLogicUpdate
<1>2. entered = {}
  BY <1>1 DEF IInv, EnteredOnlyInPass, InPass
<1>3. Settled \/ OffBeforeState
  BY <1>1 DEF HInv
<1>4. CASE /\ gChargeConfig.skip_battery_check \/ gChargeConfig.disable_charging
           /\ pc' = "mainloop"
  BY <1>1, <1>2, <1>3, <1>4 DEF HInv, DisabledIsOff, NoDecisionNoCharging,
     ChargingAfterIdle, Settled, OffBeforeState
<1>5. CASE /\ ~gChargeConfig.skip_battery_check /\ ~gChargeConfig.disable_charging
           /\ pc' = "iterate" /\ UNCHANGED event
  BY <1>1, <1>2, <1>3, <1>5 DEF HInv, DisabledIsOff, NoDecisionNoCharging,
     ChargingAfterIdle, Settled, OffBeforeState
<1> QED
  BY <1>4, <1>5 DEF ChargingLogicUpdate, GoTo, ReturnToMainLoop

LEMMA NextKeepsHInv ==
    ASSUME DisableOutcomes = {TRUE}, IInv, HInv, [Next]_vars
    PROVE  HInv'
<1>1. CASE CheckVoltage
  BY <1>1, JumpKeepsHInv DEF CheckVoltage, GoTo, InPass, _JumpToShutdownState, ShutdownStates
<1>2. CASE CheckTemperature
  BY <1>2, TemperatureKeepsHInv
<1>3. CASE ChargingLogicUpdate
  BY <1>3, UpdateKeepsHInv
<1>4. CASE StateHandler
  BY <1>4, IdleKeepsHInv, ChargingKeepsHInv, CompleteOrFaultKeepsHInv,
     ShutdownHandlersKeepHInv DEF StateHandler
<1>5. CASE CheckCriticalLevels
  <2>1. /\ pc = "check"
        /\ UNCHANGED <<gChargeConfig, charging_enabled, nyx_charging, entered>>
    BY <1>5 DEF CheckCriticalLevels
  <2>2. /\ pc' \in {"mainloop", "final"}
        /\ UNCHANGED current_state \/ current_state' \in ShutdownStates
    BY <1>5 DEF CheckCriticalLevels, CriticalLevels, GoTo, ReturnToMainLoop,
       _JumpToShutdownState, ShutdownStates
  <2> QED
    BY <2>1, <2>2, JumpKeepsHInv DEF InPass
<1>6. CASE handle_charger_event
  BY <1>6 DEF handle_charger_event, HInv, DisabledIsOff, NoDecisionNoCharging,
     ChargingAfterIdle, Settled
<1>7. CASE BatteryLevelCheck
  BY <1>7, JumpKeepsHInv DEF BatteryLevelCheck, GoTo, InPass
<1>8. CASE BatteryChanges \/ ViewsChange \/ UNCHANGED vars
  BY <1>8 DEF BatteryChanges, ViewsChange, vars, daemonVars, HInv, DisabledIsOff,
     NoDecisionNoCharging, ChargingAfterIdle, Settled, OffBeforeState
<1> QED
  BY <1>1, <1>2, <1>3, <1>4, <1>5, <1>6, <1>7, <1>8 DEF Next, Step

LEMMA InitImpliesHInv == Init => HInv
  BY DEF Init, HInv, DisabledIsOff, NoDecisionNoCharging, ChargingAfterIdle, Settled

LEMMA HInvFollows == HInv => ChargingFollowsState
  BY DEF HInv, Settled, ChargingFollowsState

\* Where nyx obeys a request to stop charging, the hardware is left charging
\* between two calls in charging and never in idle, fault or chargecomplete.
THEOREM HardwareFollowsState ==
    ASSUME DisableOutcomes = {TRUE}
    PROVE  Spec => []ChargingFollowsState
<1>1. IInv /\ HInv /\ [Next]_vars => HInv'
  BY NextKeepsHInv
<1> QED
  BY <1>1, InitImpliesHInv, HInvFollows, IInvInvariant, PTL DEF Spec

--------------------------------------------------------------------------------
(***************************************************************************)
(* The charge decision implements PowerOff.                                *)
(***************************************************************************)

\* A step that makes no request either decides or leaves the phase alone.
LEMMA QuietStep ==
    ASSUME TypeOK, TypeOK', UNCHANGED machineOff,
           current_state \in ShutdownStates => UNCHANGED current_state,
           current_state' # "shutdownwait" \/ UNCHANGED current_state
    PROVE  Power!Decide \/ UNCHANGED <<phase, machineOff>>
BY DEF TypeOK, Power!Decide, phase, ShutdownStates, ChargeStates

\* A handler of the states that charge or rest stays among them.
LEMMA ChargingHandlerStep ==
    ASSUME IInv, StateIdle \/ StateCharging \/ StateChargeComplete \/ StateFault
    PROVE  /\ UNCHANGED machineOff
           /\ current_state \notin ShutdownStates
           /\ current_state' \notin ShutdownStates
BY DEF StateIdle, StateCharging, ChargingDecision, KeepCharging,
       StateChargeComplete, StateFault, Running, Return, ReturnLast, ShutdownStates

\* Every step of the charge decision is one of PowerOff, or changes nothing
\* PowerOff knows.
LEMMA StepSimulation ==
    ASSUME IInv, IInv', [Next]_vars
    PROVE  [Power!Next]_<<phase, machineOff>>
<1> USE DEF IInv
<1>1. CASE CheckVoltage
  BY <1>1, QuietStep DEF CheckVoltage, _JumpToShutdownState, ShutdownStates, Power!Next
<1>2. CASE CheckTemperature
  BY <1>2, QuietStep DEF CheckTemperature, ActOnTemperature, _JumpToShutdownState,
     ShutdownStates, Power!Next
<1>3. CASE ChargingLogicUpdate
  BY <1>3, QuietStep DEF ChargingLogicUpdate, Power!Next
<1>4. CASE StateIdle \/ StateCharging \/ StateChargeComplete \/ StateFault
  BY <1>4, ChargingHandlerStep, QuietStep DEF ShutdownStates, Power!Next
<1>5. CASE StateShutdown
  <2>1. /\ current_state = "shutdown" /\ current_state' = "shutdownwait"
        /\ machineOff' = Append(machineOff, Reason)
    BY <1>5 DEF StateShutdown, Running, Return
  <2>2. phase = "decided" /\ phase' = "requested"
    BY <2>1 DEF phase
  <2> QED
    BY <2>1, <2>2, ReasonType DEF Power!Next, Power!Ask
<1>6. CASE StateShutdownWait
  BY <1>6, QuietStep DEF StateShutdownWait, ReturnLast, Power!Next
<1>7. CASE CheckCriticalLevels
  BY <1>7, QuietStep DEF CheckCriticalLevels, CriticalLevels, _JumpToShutdownState,
     ShutdownStates, Power!Next
<1>8. CASE handle_charger_event \/ BatteryLevelCheck
  BY <1>8, QuietStep DEF handle_charger_event, BatteryLevelCheck, Power!Next
<1>9. CASE BatteryChanges \/ ViewsChange \/ UNCHANGED vars
  BY <1>9, QuietStep DEF BatteryChanges, ViewsChange, vars, daemonVars, Power!Next
<1> QED
  BY <1>1, <1>2, <1>3, <1>4, <1>5, <1>6, <1>7, <1>8, <1>9 DEF Next, Step, StateHandler

\* The charge decision powers the device off the way PowerOff promises: it
\* decides once, asks once with one of its reasons, and never goes back.
THEOREM Implements == Spec => PowersOff
<1>1. Init => Power!Init
  BY DEF Init, Power!Init, phase
<1>2. IInv /\ IInv' /\ [Next]_vars => [Power!Next]_Power!vars
  BY StepSimulation DEF Power!vars
<1> QED
  BY <1>1, <1>2, IInvInvariant, PTL DEF Spec, PowersOff, Power!Safety

\* A decision to power off is never taken back.
THEOREM ShutdownStays == Spec => ShutdownIsFinal
<1>1. IInv /\ IInv' /\ [Next]_vars =>
          (current_state \in ShutdownStates => current_state' \in ShutdownStates)
  BY StepSimulation DEF Power!Next, Power!Decide, Power!Ask, phase, IInv, TypeOK,
     ChargeStates, ShutdownStates
<1> QED
  BY <1>1, IInvInvariant, PTL DEF Spec, ShutdownIsFinal

--------------------------------------------------------------------------------
(***************************************************************************)
(* The row of critical levels.                                             *)
(***************************************************************************)

N == CRITICAL_PERCENT_SAMPLES

\* Unless the device is to be powered off already, the count is at most the
\* number of last checks that were all shown a believable critical level.
RowInv ==
    /\ recent \in Seq(BOOLEAN)
    /\ Len(recent) <= N
    /\ current_state \notin ShutdownStates =>
          /\ critical_samples <= Len(recent)
          /\ \A i \in 1..Len(recent) :
                Len(recent) - critical_samples < i => recent[i] = TRUE

\* A check is remembered last, and the checks before it in their order.
LEMMA RememberIs ==
    ASSUME RowInv, NEW b \in BOOLEAN, Remember(b)
    PROVE  \E drop \in {0, 1} :
              /\ recent' \in Seq(BOOLEAN)
              /\ Len(recent') = Len(recent) + 1 - drop /\ Len(recent') <= N
              /\ drop = 1 => Len(recent) = N
              /\ recent'[Len(recent')] = b
              /\ \A i \in 1..Len(recent') - 1 : recent'[i] = recent[i + drop]
<1> DEFINE n == Len(recent)
<1>1. recent \in Seq(BOOLEAN) /\ n \in Nat /\ n <= N /\ N \in Nat \ {0}
  BY LenProperties, LimitsAssumption DEF RowInv, N
<1>2. CASE n < N
  <2>1. recent' = Append(recent, b)
    BY <1>2 DEF Remember, N
  <2>2. /\ recent' \in Seq(BOOLEAN) /\ Len(recent') = n + 1 /\ recent'[n + 1] = b
        /\ \A i \in 1..n : recent'[i] = recent[i]
    BY <1>1, <2>1, AppendProperties
  <2> QED
    BY <1>1, <1>2, <2>2
<1>3. CASE n = N
  <2> DEFINE t == Tail(recent)
  <2>1. recent' = Append(t, b)
    BY <1>1, <1>3 DEF Remember, N
  <2>2. recent # <<>>
    BY <1>1, <1>3, EmptySeq
  <2>3. /\ t \in Seq(BOOLEAN) /\ Len(t) = n - 1
        /\ \A i \in 1..n - 1 : t[i] = recent[i + 1]
    BY <1>1, <2>2, HeadTailProperties
  <2> HIDE DEF t
  <2>4. /\ recent' \in Seq(BOOLEAN) /\ Len(recent') = n /\ recent'[n] = b
        /\ \A i \in 1..n - 1 : recent'[i] = t[i]
    BY <1>1, <2>1, <2>3, AppendProperties
  <2> QED
    BY <1>1, <1>3, <2>3, <2>4
<1>4. n < N \/ n = N
  <2> HIDE DEF n, N
  <2> QED
    BY <1>1
<1> QED
  BY <1>2, <1>3, <1>4

\* What CheckCriticalLevels() counts is believable (critical_percent_eval).
LEMMA CriticalIsBelievable ==
    ASSUME IInv, CriticalSample
    PROVE  Believable
<1>1. /\ battery.percentage \in Int /\ battery.voltage \in Int
      /\ gChargeConfig.critical_percent \in Int
  <2>1. battery \in Reading /\ gChargeConfig \in Config
    BY DataAssumption DEF IInv, TypeOK
  <2> QED
    BY <2>1 DEF Reading, Config
<1> QED
  BY <1>1 DEF CriticalSample, Believable, LevelIsCritical, critical_percent_eval,
              CRITICAL_PERCENT_PLAUSIBLE_MAX_MV

\* The count and the row grow together and are broken together.
LEMMA CheckKeepsRow ==
    ASSUME IInv, RowInv, CheckCriticalLevels, Remember(Believable)
    PROVE  /\ RowInv'
           /\ BatteryIsPresent /\ current_state \notin ShutdownStates
              /\ current_state' = "shutdown"
              => recent' = [i \in 1..N |-> TRUE]
<1> DEFINE b == Believable
           n == Len(recent)
           c == critical_samples
<1>1. b \in BOOLEAN
  BY DEF Believable
<1>2. PICK drop \in {0, 1} :
         /\ recent' \in Seq(BOOLEAN)
         /\ Len(recent') = n + 1 - drop /\ Len(recent') <= N
         /\ drop = 1 => n = N
         /\ recent'[Len(recent')] = b
         /\ \A i \in 1..Len(recent') - 1 : recent'[i] = recent[i + drop]
  BY <1>1, RememberIs
<1>3. n \in Nat /\ N \in Nat \ {0} /\ c \in 0..N - 1
  BY LenProperties, LimitsAssumption DEF RowInv, IInv, TypeOK, N
<1>4. CASE current_state' \in ShutdownStates /\ ~BatteryIsPresent
  BY <1>2, <1>4 DEF RowInv
<1>5. CASE BatteryIsPresent /\ ~CriticalSample
  <2>1. critical_samples' = 0 /\ UNCHANGED current_state
    BY <1>5 DEF CheckCriticalLevels, CriticalLevels, BrokenRow
  <2>2. RowInv'
    BY <1>2, <1>3, <2>1 DEF RowInv
  <2> QED
    BY <2>1, <2>2 DEF ShutdownStates
<1>6. CASE /\ CriticalSample /\ c + 1 < N
           /\ critical_samples' = c + 1 /\ UNCHANGED current_state
  <2>1. b = TRUE
    BY <1>6, CriticalIsBelievable
  <2>2. ASSUME current_state \notin ShutdownStates
        PROVE  /\ c + 1 <= Len(recent')
               /\ \A i \in 1..Len(recent') : Len(recent') - (c + 1) < i => recent'[i] = TRUE
    <3>1. /\ c <= n
          /\ \A i \in 1..n : n - c < i => recent[i] = TRUE
      BY <2>2 DEF RowInv
    <3> HIDE DEF b, n, c
    <3>2. c + 1 <= Len(recent')
      BY <1>2, <1>3, <1>6, <3>1
    <3>3. ASSUME NEW i \in 1..Len(recent'), Len(recent') - (c + 1) < i
          PROVE  recent'[i] = TRUE
      <4>1. CASE i = Len(recent')
        BY <1>2, <2>1, <4>1
      <4>2. CASE i # Len(recent')
        <5>1. i \in 1..Len(recent') - 1 /\ i + drop \in 1..n /\ n - c < i + drop
          BY <1>2, <1>3, <3>3, <4>2
        <5> QED
          BY <1>2, <3>1, <5>1
      <4> QED
        BY <4>1, <4>2
    <3> QED
      BY <3>2, <3>3
  <2> QED
    BY <1>2, <1>6, <2>2 DEF RowInv, ShutdownStates
<1>7. CASE BatteryIsPresent /\ CriticalSample /\ c + 1 >= N
           /\ _JumpToShutdownState("Critical battery levels")
  <2>1. current_state' \in ShutdownStates
    BY <1>7 DEF _JumpToShutdownState, ShutdownStates
  <2>2. RowInv'
    BY <1>2, <2>1 DEF RowInv
  <2>3. ASSUME current_state \notin ShutdownStates
        PROVE  recent' = [i \in 1..N |-> TRUE]
    <3>1. /\ c <= n /\ n <= N
          /\ \A i \in 1..n : n - c < i => recent[i] = TRUE
      BY <2>3 DEF RowInv
    <3>2. b = TRUE
      BY <1>7, CriticalIsBelievable
    <3>a. c + 1 >= N
      BY <1>7
    <3> HIDE DEF b, n, c, N
    <3>3. c = N - 1
      BY <1>3, <3>a
    <3>4. Len(recent') = N
      BY <1>2, <1>3, <3>1, <3>3
    <3>5. ASSUME NEW i \in 1..N
          PROVE  recent'[i] = TRUE
      <4>1. CASE i = N
        BY <1>2, <3>2, <3>4, <4>1
      <4>2. CASE i # N
        <5>1. i \in 1..Len(recent') - 1 /\ i + drop \in 1..n /\ n - c < i + drop
          BY <1>2, <1>3, <3>1, <3>3, <3>4, <4>2
        <5> QED
          BY <1>2, <3>1, <5>1
      <4> QED
        BY <4>1, <4>2
    <3>6. recent' \in [1..N -> BOOLEAN]
      BY <1>2, <3>4, LenProperties
    <3> QED
      BY <3>5, <3>6
  <2> QED
    BY <2>2, <2>3
<1>8. \/ ~BatteryIsPresent /\ _JumpToShutdownState("battery removed.")
      \/ BatteryIsPresent /\ CriticalLevels
  BY DEF CheckCriticalLevels
<1>9. CASE ~BatteryIsPresent /\ _JumpToShutdownState("battery removed.")
  <2>1. current_state' \in ShutdownStates
    BY <1>9 DEF _JumpToShutdownState, ShutdownStates
  <2> QED
    BY <1>4, <1>9, <2>1
<1>10. CASE BatteryIsPresent /\ CriticalLevels
  <2>1. \/ ~CriticalSample
        \/ /\ CriticalSample /\ c + 1 < N
           /\ critical_samples' = c + 1 /\ UNCHANGED current_state
        \/ /\ CriticalSample /\ c + 1 >= N
           /\ _JumpToShutdownState("Critical battery levels")
    BY <1>10 DEF CriticalLevels, N
  <2> QED
    BY <1>5, <1>6, <1>7, <1>10, <2>1
<1> QED
  BY <1>8, <1>9, <1>10

\* Nothing else touches the count, or lifts a decision to power off.
LEMMA OthersKeepRow ==
    ASSUME IInv, IInv', RowInv, [Next]_vars, UNCHANGED recent, ~CheckCriticalLevels
    PROVE  RowInv'
<1>1. UNCHANGED critical_samples
  BY DEF Next, Step, CheckVoltage, CheckTemperature, ChargingLogicUpdate, StateHandler,
     StateIdle, StateCharging, StateChargeComplete, StateFault, StateShutdown,
     StateShutdownWait, HandlerFrame, handle_charger_event, BatteryLevelCheck,
     BatteryChanges, ViewsChange, daemonVars, vars
<1>2. current_state \in ShutdownStates => current_state' \in ShutdownStates
  BY StepSimulation DEF Power!Next, Power!Decide, Power!Ask, phase, IInv, TypeOK,
     ChargeStates, ShutdownStates
<1> QED
  BY <1>1, <1>2 DEF RowInv

\* The device is powered off for its level only after CRITICAL_PERCENT_SAMPLES
\* checks in a row that were all shown a believable critical level with nothing
\* charging (CheckCriticalLevels, critical_percent_eval): for every number of
\* samples, every configuration and every reading.
THEOREM LevelShutdownConfirmed == LevelSpec => LevelShutdownIsConfirmed
<1>1. LevelInit => IInv /\ RowInv
  <2>1. <<>> \in Seq(BOOLEAN) /\ Len(<<>>) = 0
    BY EmptySeq
  <2>2. ASSUME LevelInit
        PROVE  RowInv
    <3>1. recent = <<>> /\ critical_samples = 0 /\ N \in Nat \ {0}
      BY <2>2, LimitsAssumption DEF LevelInit, Init, N
    <3> HIDE DEF N
    <3>2. 1..Len(recent) = {} /\ 0 <= N
      BY <2>1, <3>1
    <3> QED
      BY <2>1, <3>1, <3>2 DEF RowInv
  <2> QED
    BY <2>2, InitImpliesIInv DEF LevelInit
<1>2. [LevelNext]_LevelVars => [Next]_vars
  BY DEF LevelNext, LevelVars, Next, Step
<1>3. IInv /\ [LevelNext]_LevelVars => IInv'
  BY <1>2, NextKeepsIInv
<1>4. [LevelNext]_LevelVars =>
         \/ CheckCriticalLevels /\ Remember(Believable)
         \/ UNCHANGED recent /\ ~CheckCriticalLevels
         \/ UNCHANGED LevelVars
  BY DEF LevelNext, LevelVars, CheckCriticalLevels, BatteryChanges, daemonVars, GoTo,
     ReturnToMainLoop, CriticalLevels
<1>5. RowInv /\ UNCHANGED LevelVars => RowInv'
  BY DEF RowInv, LevelVars, vars, daemonVars
<1>6. IInv /\ RowInv /\ [LevelNext]_LevelVars => RowInv'
  BY <1>2, <1>3, <1>4, <1>5, CheckKeepsRow, OthersKeepRow
<1>7. IInv /\ RowInv /\ [LevelNext]_LevelVars =>
         (/\ pc = "check" /\ BatteryIsPresent
          /\ current_state \notin ShutdownStates
          /\ current_state' = "shutdown"
          => recent' = [i \in 1..CRITICAL_PERCENT_SAMPLES |-> TRUE])
  <2> SUFFICES ASSUME IInv, RowInv, [LevelNext]_LevelVars, pc = "check", BatteryIsPresent,
                      current_state \notin ShutdownStates, current_state' = "shutdown"
               PROVE  recent' = [i \in 1..N |-> TRUE]
    BY DEF N
  <2>1. CheckCriticalLevels /\ Remember(Believable)
    BY DEF LevelNext, LevelVars, vars, BatteryChanges, daemonVars, ShutdownStates
  <2> QED
    BY <2>1, CheckKeepsRow
<1> QED
  BY <1>1, <1>3, <1>6, <1>7, PTL DEF LevelSpec, LevelShutdownIsConfirmed
================================================================================
