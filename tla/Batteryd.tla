-------------------------------- MODULE Batteryd --------------------------------
(***************************************************************************)
(* The daemon at run time: the battery poll (BatteryPoll) and the charge   *)
(* decision (ChargingLogic) with the callbacks as they chain them, the     *)
(* charger's status they share (charger.c), the wakeup percentage          *)
(* (battery.c) and the suspend and resume signals (suspend.c).             *)
(*                                                                         *)
(* A callback is the sequence of calls it still has to make.  The steps of *)
(* a call are those of the component it is in; what ChargingLogic takes    *)
(* for granted of its surroundings, that nobody else acts while a call of  *)
(* its own runs, is what this module has to show.                          *)
(***************************************************************************)
EXTENDS Eval, Battery, Sequences

CONSTANTS
    Configs,        \* the configurations gChargeConfig may hold
    Readings,       \* what battery_read() can answer
    Statuses,       \* what nyx can answer about the charger
    Events,         \* what nyx can report at once: sets of event bits
    QueryOutcomes,  \* whether nyx answers about the charger
    AuthOutcomes,   \* what battery_authenticate() can answer
    EnableOutcomes, \* whether nyx_charger_enable_charging() succeeds
    DisableOutcomes,\* whether nyx_charger_disable_charging() succeeds
    CtiaParams,     \* the limits nyx gives
    OVERCHARGE_RETRIES,
    CRITICAL_PERCENT_SAMPLES,
    BAD_SAMPLES_THRESHOLD,
    MAX_CHECKS      \* bound: checks that resumes have left to the main loop

\* nyx_battery_status_t, and whether battery_read() returned true.
Reading == [ok : BOOLEAN, present : BOOLEAN, percentage : Int, voltage : Int,
            temperature : Int, capacity_raw : Int, capacity_full40 : Int,
            age : Int]

ASSUME ReadingsAssumption == Readings \subseteq Reading
ASSUME StatusesAssumption == Statuses \subseteq ChargerStatus
ASSUME QueriesAssumption == QueryOutcomes \subseteq BOOLEAN
ASSUME ChecksAssumption == MAX_CHECKS \in Nat

VARIABLES
    \* of ChargingLogic
    gChargeConfig, current_state, charging_enabled, shutdown_reason,
    overcharge_count, critical_samples, event, entered, pc, nyx_charging,
    machineOff,
    \* of BatteryPoll
    state_node, debounce_bad, last, searching, iterating,
    pollEntered,
    \* of Charger
    currStatus,     \* the last successful read
    \* of this module
    calls,          \* the calls the running callback has still to make
    reported,       \* the event the running callback has still to act on
    checks,         \* resumes whose check the main loop has not run yet
    wakeup,         \* the percentage nyx was told to wake the device at
    weighed,        \* the percentage that one was worked out from
    seen,           \* history: what was plugged in when nyx reported the event
                    \*   the running call is about, if it answered
    missed,         \* history: a reading has shown the poll no battery
    battery,        \* what the next battery_read() will answer
    status          \* what is plugged in

logicVars == <<gChargeConfig, current_state, charging_enabled, shutdown_reason,
               overcharge_count, critical_samples, event, entered, pc,
               nyx_charging, machineOff>>
pollVars == <<state_node, debounce_bad, last, searching, iterating,
              pollEntered>>
wakeupVars == <<wakeup, weighed>>
plantVars == <<battery, status>>
vars == <<logicVars, pollVars, currStatus, calls, reported, checks, wakeupVars,
          seen, missed, plantVars>>

--------------------------------------------------------------------------------
(***************************************************************************)
(* The components, each with what it sees of the others.                   *)
(***************************************************************************)

PollReading(r) ==
    [ok |-> r.ok, present |-> r.present,
     percentage |-> r.percentage, temperature |-> r.temperature]

LogicReading(r) ==
    [ok |-> r.ok, percentage |-> r.percentage, voltage |-> r.voltage,
     temperature |-> r.temperature, capacity_raw |-> r.capacity_raw,
     capacity_full40 |-> r.capacity_full40, age |-> r.age]

\* ChargerIsConnected() and ChargerIsCharging(), out of the last read.
ChargerAnswer == [connected |-> charger_view(currStatus).any,
                  charging  |-> currStatus.is_charging]

\* BatteryIsPresent() and BatteryIsAuthentic(), out of the poll's state.
PackAnswer ==
    CASE state_node = "removed"   -> "removed"
      [] state_node = "authentic" -> "authentic"
      [] OTHER                    -> "unauthentic"

Poll == INSTANCE BatteryPoll WITH
            Readings <- {PollReading(r) : r \in Readings},
            battery  <- PollReading(battery),
            entered  <- pollEntered

Logic == INSTANCE ChargingLogic WITH
            Readings <- {LogicReading(r) : r \in Readings},
            battery  <- LogicReading(battery),
            charger  <- ChargerAnswer,
            pack     <- PackAnswer

\* What the components assume of their constants.
ASSUME DecisionAssumption == /\ Configs \subseteq Logic!Config
                             /\ Events \subseteq SUBSET Logic!EventBits
                             /\ CtiaParams \in Logic!Ctia
                             /\ EnableOutcomes \subseteq BOOLEAN
                             /\ DisableOutcomes \subseteq BOOLEAN
                             /\ OVERCHARGE_RETRIES \in Nat
                             /\ CRITICAL_PERCENT_SAMPLES \in Nat \ {0}
ASSUME PollAssumption == /\ AuthOutcomes \subseteq BOOLEAN
                         /\ BAD_SAMPLES_THRESHOLD \in Nat

Calls == {"battery_state_iterate", "handle_charger_event", "BatteryLevelCheck",
          "decide", "ChargerResync"}

TypeOK ==
    /\ Logic!TypeOK
    /\ Poll!TypeOK
    /\ currStatus \in Statuses \cup {ZeroedStatus}
    /\ calls \in Seq(Calls)
    /\ reported \in SUBSET Logic!EventBits
    /\ checks \in 0..MAX_CHECKS
    /\ wakeup \in Int /\ weighed \in Int
    /\ seen \in SUBSET Statuses
    /\ missed \in BOOLEAN
    /\ battery \in Readings
    /\ status \in Statuses

\* The hooks have run: batterypoll_init()'s pass, the last of them, is about to.
Init ==
    /\ battery \in Readings
    /\ status \in Statuses
    /\ currStatus = ZeroedStatus
    /\ state_node = "debounce"
    /\ debounce_bad = 0
    /\ last = [percentage |-> 0, temperature |-> 0]
    /\ searching = FALSE
    /\ iterating = TRUE
    /\ pollEntered = {}
    /\ gChargeConfig \in Configs
    /\ current_state = "idle"
    /\ charging_enabled = "notset"
    /\ shutdown_reason = ""
    /\ overcharge_count = 0
    /\ critical_samples = 0
    /\ event = {}
    /\ entered = {}
    /\ pc = "mainloop"
    /\ nyx_charging \in BOOLEAN
    /\ machineOff = <<>>
    /\ calls = <<"battery_state_iterate">>
    /\ reported = {}
    /\ checks = 0
    /\ wakeup = 0
    /\ weighed = 0
    /\ seen = {}
    /\ missed = FALSE

AtMainLoop == calls = <<>>

InCall(call) == calls # <<>> /\ Head(calls) = call

--------------------------------------------------------------------------------
(***************************************************************************)
(* What both the callbacks and the decision use.                           *)
(***************************************************************************)

\* A read of the charger: it is remembered unless nyx does not answer.
ChargerRead(answered) ==
    currStatus' = IF answered THEN status ELSE currStatus

\* A failed read is zeroes, the percentage among them.
battery_set_wakeup_percentage(charging, suspend) ==
    /\ wakeup' = WakeupPercentage(battery.percentage, charging, suspend)
    /\ weighed' = battery.percentage

\* Fault: the bit for a missing battery is not tested.
InsertionBits == {"BATTERY_PRESENT"}

PackBits == {"BATTERY_PRESENT", "BATTERY_ABSENT"}

\* handle_charger_event() begins with a pass of the poll if the event is about
\* the battery.
EventCalls(e) ==
    IF e \cap PackBits # {}
      THEN <<"battery_state_iterate", "handle_charger_event">>
      ELSE <<"handle_charger_event">>

--------------------------------------------------------------------------------
(***************************************************************************)
(* The callbacks.                                                          *)
(***************************************************************************)

\* What a callback that only begins leaves alone.
CallbackFrame ==
    UNCHANGED <<logicVars, pollVars, missed, plantVars>>

\* Fault: the event is acted on with the charger as it was last read.
notifyStateChangeUnread ==
    /\ AtMainLoop
    /\ ~gChargeConfig.skip_battery_check /\ ~gChargeConfig.disable_charging
    /\ \E e \in Events : reported' = e /\ calls' = EventCalls(e)
    /\ seen' = {status}
    /\ UNCHANGED <<currStatus, checks, wakeupVars>>
    /\ CallbackFrame

\* nyx reports an event: the charger is read before the event is acted on.
notifyStateChange ==
    /\ AtMainLoop
    /\ ~gChargeConfig.skip_battery_check /\ ~gChargeConfig.disable_charging
    /\ \E e \in Events : reported' = e /\ calls' = EventCalls(e)
    /\ \E answered \in QueryOutcomes :
          /\ ChargerRead(answered)
          /\ seen' = IF answered THEN {status} ELSE {}
    /\ UNCHANGED <<checks, wakeupVars>>
    /\ CallbackFrame

\* nyx reports new readings: the level is checked before the charger is read.
notifyBatteryStatus ==
    /\ AtMainLoop
    /\ calls' = <<"BatteryLevelCheck", "ChargerResync">>
    /\ UNCHANGED <<currStatus, reported, checks, wakeupVars, seen>>
    /\ CallbackFrame

\* Fault: nothing keeps the timer out of a running callback.
ReadChargerAtAnyTime ==
    /\ \E answered \in QueryOutcomes : ChargerRead(answered)
    /\ UNCHANGED <<calls, reported, checks, wakeupVars, seen>>
    /\ CallbackFrame

\* nyx reports a new charger status, a client asks for it or the timer of
\* ChargerResync() fires (Charger has what each tells the bus).
ReadCharger ==
    /\ AtMainLoop
    /\ \E answered \in QueryOutcomes : ChargerRead(answered)
    /\ UNCHANGED <<calls, reported, checks, wakeupVars, seen>>
    /\ CallbackFrame

\* BatteryCheckReason() leaves the check to the main loop.  It is called for a
\* resume of the kernel's if the reason can be read.
BatteryCheckReason ==
    \/ UNCHANGED checks
    \/ checks < MAX_CHECKS /\ checks' = checks + 1

resumeSignal ==
    /\ AtMainLoop
    /\ battery_set_wakeup_percentage(FALSE, FALSE)
    /\ BatteryCheckReason
    /\ UNCHANGED <<currStatus, calls, reported, seen>>
    /\ CallbackFrame

suspendedSignal ==
    /\ AtMainLoop
    /\ battery_set_wakeup_percentage(FALSE, TRUE)
    /\ UNCHANGED <<currStatus, calls, reported, checks, seen>>
    /\ CallbackFrame

\* Fault: the check runs again although it has been removed from the queue.
RepeatedCheckReasonHelper ==
    /\ AtMainLoop
    /\ checks' = checks - 1
    /\ calls' = <<"battery_state_iterate">>
    /\ UNCHANGED <<currStatus, reported, wakeupVars, seen>>
    /\ CallbackFrame

\* The event nyx has, if any, is handed over without a read of the charger.
getNewEvent(after) ==
    \/ \E e \in Events : reported' = e /\ calls' = EventCalls(e) \o after
    \/ FALSE \in QueryOutcomes /\ calls' = after /\ UNCHANGED reported

\* A check's turn comes: the battery is polled after the event.
_battery_check_reason_helper ==
    /\ AtMainLoop
    /\ checks > 0
    /\ checks' = checks - 1
    /\ getNewEvent(<<"battery_state_iterate">>)
    /\ UNCHANGED <<currStatus, wakeupVars, seen>>
    /\ CallbackFrame

Callback ==
    \/ notifyStateChange
    \/ notifyBatteryStatus
    \/ ReadCharger
    \/ resumeSignal
    \/ suspendedSignal
    \/ _battery_check_reason_helper

--------------------------------------------------------------------------------
(***************************************************************************)
(* The calls.                                                              *)
(***************************************************************************)

BeginPass ==
    /\ InCall("battery_state_iterate")
    /\ UNCHANGED <<battery, status, logicVars, currStatus, calls, reported,
                   checks, wakeupVars, seen, missed>>
    /\ Poll!battery_state_iterate

\* The handler of inserted is the one that does not read the battery.
PassStep ==
    /\ InCall("battery_state_iterate")
    /\ UNCHANGED <<battery, status, logicVars, currStatus, reported, checks,
                   wakeupVars, seen>>
    /\ Poll!Handler
    /\ calls' = IF iterating' THEN calls ELSE Tail(calls)
    /\ missed' = \/ missed
                 \/ state_node # "inserted" /\ battery.ok /\ ~battery.present

\* After the pass the wakeup percentage is set anew if nothing charges.
handle_charger_event ==
    /\ InCall("handle_charger_event")
    /\ UNCHANGED <<battery, status, pollVars, currStatus, checks, seen, missed>>
    /\ Logic!handle_charger_event
    /\ event' = reported
    /\ reported' = {}
    /\ calls' = <<"decide">> \o Tail(calls)
    /\ IF reported \cap PackBits # {} /\ current_state = "idle"
         THEN battery_set_wakeup_percentage(FALSE, FALSE)
         ELSE UNCHANGED wakeupVars

BatteryLevelCheck ==
    /\ InCall("BatteryLevelCheck")
    /\ UNCHANGED <<battery, status, pollVars, currStatus, reported, checks,
                   wakeupVars, seen, missed>>
    /\ \/ /\ gChargeConfig.skip_battery_check
          /\ calls' = Tail(calls)
          /\ UNCHANGED logicVars
       \/ /\ Logic!BatteryLevelCheck
          /\ calls' = <<"decide">> \o Tail(calls)

\* Fault: the wakeup percentage stays as charging left it.
chargerDisableChargingOnly == UNCHANGED wakeupVars

chargerDisableCharging == battery_set_wakeup_percentage(FALSE, FALSE)

\* Called when nyx has enabled charging, which every pass that stays in
\* charging asks of it.
chargerEnableCharging == battery_set_wakeup_percentage(TRUE, FALSE)

TurnedOff == charging_enabled # "disabled" /\ charging_enabled' = "disabled"

TurnedOn ==
    /\ pc \in {"iterate", "final"}
    /\ current_state = "charging" /\ current_state' = "charging"

\* A step of the charge decision, with what it does to the wakeup percentage.
Decide ==
    /\ InCall("decide")
    /\ UNCHANGED <<battery, status, pollVars, currStatus, reported, checks, missed>>
    /\ Logic!Step
    /\ \/ pc' = "mainloop" /\ calls' = Tail(calls) /\ seen' = {}
       \/ pc' # "mainloop" /\ UNCHANGED <<calls, seen>>
    /\ IF TurnedOff THEN chargerDisableCharging
       ELSE IF TurnedOn THEN chargerEnableCharging
       ELSE UNCHANGED wakeupVars

ChargerResync ==
    /\ InCall("ChargerResync")
    /\ \E answered \in QueryOutcomes : ChargerRead(answered)
    /\ calls' = Tail(calls)
    /\ UNCHANGED <<reported, checks, wakeupVars, seen>>
    /\ CallbackFrame

Call ==
    \/ BeginPass
    \/ PassStep
    \/ handle_charger_event
    \/ BatteryLevelCheck
    \/ Decide
    \/ ChargerResync

--------------------------------------------------------------------------------

\* The battery is pulled, put back, drained or stops answering.
BatteryChanges ==
    /\ battery' \in Readings \ {battery}
    /\ UNCHANGED <<logicVars, pollVars, currStatus, calls, reported, checks,
                   wakeupVars, seen, missed, status>>

PlugChanges ==
    /\ status' \in Statuses \ {status}
    /\ UNCHANGED <<logicVars, pollVars, currStatus, calls, reported, checks,
                   wakeupVars, seen, missed, battery>>

Next == Callback \/ Call \/ BatteryChanges \/ PlugChanges

\* A callback runs to its end; nothing makes nyx call back.
Fairness == WF_vars(Call)

Spec == Init /\ [][Next]_vars /\ Fairness

--------------------------------------------------------------------------------
(***************************************************************************)
(* Properties.                                                             *)
(***************************************************************************)

\* The callbacks, as they are chained, give the charge decision the
\* surroundings that ChargingLogic takes for granted: what it asks the charger
\* and the poll does not change under a running call, whichever callback the
\* call came from.  What is shown of ChargingLogic therefore holds here.
ChargeDecisionIsComposed == Logic!Init /\ [][Logic!Next]_(Logic!vars)

\* From the reading to sleepd: the device is never powered off for a removed
\* battery unless the poll has been shown a reading without one.
RemovalWasRead ==
    "battery removed." \in {machineOff[i] : i \in DOMAIN machineOff} => missed

\* charger.c:382-389: a pass that an event drives does not stay in charging on
\* a charger view older than the event, if nyx answers.
DecidesOnFreshCharger ==
    [][/\ pc = "iterate" /\ pc' = "check" /\ current_state' = "charging"
       => \A s \in seen : charger_view(s).any]_vars

\* Whatever suspends, resumes, events and failed switches follow one another:
\* a device that does not charge has a level to wake at, unless the reading
\* that was worked out from was failed or at the last percent.
WakeupIsArmed == wakeup = 0 => nyx_charging \/ weighed <= 1

AbsenceReported == notifyStateChange /\ "BATTERY_ABSENT" \in reported'

\* A battery that is gone for good powers the device off if nyx goes on
\* reporting that it is, though no timer polls it: the reports alone take the
\* poll through debounce and the decision to sleepd.
RemovedBatteryPowersOff ==
    /\ <>[](battery.ok /\ ~battery.present)
    /\ []<><<AbsenceReported>>_vars
    => <>(current_state = "shutdownwait")
================================================================================
