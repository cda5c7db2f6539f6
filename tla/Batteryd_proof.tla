----------------------------- MODULE Batteryd_proof -----------------------------
(***************************************************************************)
(* That the composed daemon implements the charge decision, and that a     *)
(* device which does not charge has a level to wake at.                    *)
(***************************************************************************)
EXTENDS Batteryd, SequenceTheorems, TLAPS

\* The call of the charge decision is the first of the calls to make, and it is
\* what runs whenever the decision is not at the main loop.
DecideIsFirst == \A i \in DOMAIN calls : i > 1 => calls[i] # "decide"

CallInv ==
    /\ calls \in Seq(Calls)
    /\ DecideIsFirst
    /\ InCall("decide") <=> pc # "mainloop"

ViewTypes ==
    /\ currStatus \in ChargerStatus
    /\ status \in Statuses
    /\ battery \in Readings

ComposedInv == CallInv /\ ViewTypes

LEMMA ZeroedIsAStatus == ZeroedStatus \in ChargerStatus
  BY DEF ZeroedStatus, ChargerStatus

LEMMA AnswersAreAnswers ==
    ASSUME currStatus \in ChargerStatus
    PROVE  ChargerAnswer \in Logic!ChargerAnswers
  BY DEF ChargerAnswer, Logic!ChargerAnswers, ChargerStatus, charger_view

LEMMA PackAnswers == PackAnswer \in Logic!PackStates
  BY DEF PackAnswer, Logic!PackStates

LEMMA InitComposed == Init => ComposedInv
<1> SUFFICES ASSUME Init PROVE ComposedInv
  OBVIOUS
<1>1. calls = <<"battery_state_iterate">> /\ pc = "mainloop"
  BY DEF Init
<1>2. calls \in Seq(Calls) /\ Head(calls) # "decide" /\ DOMAIN calls = 1..1
  BY <1>1 DEF Calls
<1>3. CallInv
  BY <1>1, <1>2 DEF CallInv, DecideIsFirst, InCall
<1>4. ViewTypes
  BY ZeroedIsAStatus DEF Init, ViewTypes
<1> QED
  BY <1>3, <1>4 DEF ComposedInv

\* Calls without the decision among them.
LEMMA NoDecide ==
    ASSUME NEW c \in Seq(Calls), \A i \in DOMAIN c : c[i] # "decide"
    PROVE  /\ \A i \in DOMAIN c : i > 1 => c[i] # "decide"
           /\ ~(c # <<>> /\ Head(c) = "decide")
           /\ <<"decide">> \o c \in Seq(Calls)
           /\ Head(<<"decide">> \o c) = "decide"
           /\ <<"decide">> \o c # <<>>
           /\ \A i \in DOMAIN (<<"decide">> \o c) :
                 i > 1 => (<<"decide">> \o c)[i] # "decide"
  BY DEF Calls

LEMMA TailHasNoDecide ==
    ASSUME CallInv, calls # <<>>
    PROVE  /\ Tail(calls) \in Seq(Calls)
           /\ \A i \in DOMAIN Tail(calls) : Tail(calls)[i] # "decide"
  BY DEF CallInv, DecideIsFirst, Calls

\* What a list of at most three calls without the decision is to CallInv.
LEMMA FreshCalls ==
    ASSUME pc' = "mainloop",
           \/ calls' = <<"battery_state_iterate">>
           \/ calls' = <<"handle_charger_event">>
           \/ calls' = <<"battery_state_iterate", "handle_charger_event">>
           \/ calls' = <<"handle_charger_event", "battery_state_iterate">>
           \/ calls' = <<"battery_state_iterate", "handle_charger_event",
                         "battery_state_iterate">>
           \/ calls' = <<"BatteryLevelCheck", "ChargerResync">>
    PROVE  CallInv'
<1>1. CASE calls' = <<"battery_state_iterate">>
  BY <1>1 DEF CallInv, DecideIsFirst, InCall, Calls
<1>2. CASE calls' = <<"handle_charger_event">>
  BY <1>2 DEF CallInv, DecideIsFirst, InCall, Calls
<1>3. CASE calls' = <<"battery_state_iterate", "handle_charger_event">>
  BY <1>3 DEF CallInv, DecideIsFirst, InCall, Calls
<1>4. CASE calls' = <<"handle_charger_event", "battery_state_iterate">>
  BY <1>4 DEF CallInv, DecideIsFirst, InCall, Calls
<1>5. CASE calls' = <<"battery_state_iterate", "handle_charger_event",
                      "battery_state_iterate">>
  BY <1>5 DEF CallInv, DecideIsFirst, InCall, Calls
<1>6. CASE calls' = <<"BatteryLevelCheck", "ChargerResync">>
  BY <1>6 DEF CallInv, DecideIsFirst, InCall, Calls
<1> QED
  BY <1>1, <1>2, <1>3, <1>4, <1>5, <1>6

\* A call that leaves the decision alone ends, or goes on.
LEMMA PoppedCalls ==
    ASSUME CallInv, calls # <<>>, calls' = Tail(calls), pc' = "mainloop"
    PROVE  CallInv'
BY TailHasNoDecide, NoDecide DEF CallInv, DecideIsFirst, InCall

\* A call hands over to the decision.
LEMMA DecisionCalls ==
    ASSUME CallInv, calls # <<>>, calls' = <<"decide">> \o Tail(calls),
           pc' # "mainloop"
    PROVE  CallInv'
BY TailHasNoDecide, NoDecide DEF CallInv, DecideIsFirst, InCall

LEMMA SameCalls ==
    ASSUME CallInv, UNCHANGED calls, pc' = "mainloop" <=> pc = "mainloop"
    PROVE  CallInv'
BY DEF CallInv, DecideIsFirst, InCall

\* A step that leaves what the charge decision owns alone is none of its steps,
\* or changes what it sees between two of its calls.
LEMMA OutsideTheDecision ==
    ASSUME ViewTypes, ViewTypes', pc = "mainloop", UNCHANGED <<logicVars, battery>>
    PROVE  [Logic!Next]_(Logic!vars)
<1>1. ChargerAnswer' \in Logic!ChargerAnswers
  BY AnswersAreAnswers, ZeroedIsAStatus
  DEF ViewTypes, ChargerAnswer, Logic!ChargerAnswers, ChargerStatus, charger_view
<1>2. PackAnswer' \in Logic!PackStates
  BY DEF PackAnswer, Logic!PackStates
<1>3. UNCHANGED LogicReading(battery)
  BY DEF LogicReading
<1>4. CASE <<ChargerAnswer, PackAnswer>>' # <<ChargerAnswer, PackAnswer>>
  <2>1. Logic!ViewsChange
    BY <1>1, <1>2, <1>3, <1>4
    DEF Logic!ViewsChange, Logic!daemonVars, logicVars
  <2> QED
    BY <2>1 DEF Logic!Next
<1>5. CASE <<ChargerAnswer, PackAnswer>>' = <<ChargerAnswer, PackAnswer>>
  BY <1>3, <1>5 DEF Logic!vars, Logic!daemonVars, logicVars
<1> QED
  BY <1>4, <1>5

\* The plant acts between any two steps, and only the battery is the
\* decision's to read.
LEMMA PlantOfTheDecision ==
    ASSUME battery' \in Readings, UNCHANGED <<logicVars, pollVars, currStatus>>
    PROVE  [Logic!Next]_(Logic!vars)
<1>1. UNCHANGED <<ChargerAnswer, PackAnswer>>
  BY DEF ChargerAnswer, PackAnswer, pollVars
<1>2. LogicReading(battery)' \in {LogicReading(r) : r \in Readings}
  BY DEF LogicReading
<1>3. CASE LogicReading(battery)' = LogicReading(battery)
  BY <1>1, <1>3 DEF Logic!vars, Logic!daemonVars, logicVars
<1>4. CASE LogicReading(battery)' # LogicReading(battery)
  <2>1. Logic!BatteryChanges
    BY <1>1, <1>2, <1>4 DEF Logic!BatteryChanges, Logic!daemonVars, logicVars
  <2> QED
    BY <2>1 DEF Logic!Next
<1> QED
  BY <1>3, <1>4

--------------------------------------------------------------------------------
(***************************************************************************)
(* Every step keeps the calls in order, and is one of the decision's or    *)
(* none of its business.                                                   *)
(***************************************************************************)

LEMMA AtMainLoopNothingDecides ==
    ASSUME ComposedInv, AtMainLoop
    PROVE  pc = "mainloop"
BY DEF ComposedInv, CallInv, AtMainLoop, InCall

LEMMA OtherCallsDoNotDecide ==
    ASSUME ComposedInv, NEW call \in Calls \ {"decide"}, InCall(call)
    PROVE  pc = "mainloop" /\ calls # <<>>
BY DEF ComposedInv, CallInv, InCall

LEMMA ReadKeepsViews ==
    ASSUME ViewTypes, UNCHANGED <<battery, status>>,
           \/ UNCHANGED currStatus
           \/ \E answered \in QueryOutcomes : ChargerRead(answered)
    PROVE  ViewTypes'
BY StatusesAssumption DEF ViewTypes, ChargerRead

\* What appending to, and dropping from, the short lists gives.
LEMMA ShortLists ==
    ASSUME NEW a \in Calls, NEW b \in Calls, NEW c \in Calls
    PROVE  /\ <<a>> \o <<b>> = <<a, b>>
           /\ <<a, b>> \o <<c>> = <<a, b, c>>
           /\ Tail(<<a, b>>) = <<b>>
           /\ <<a>> \o Tail(<<b>>) = <<a>>
<1>1. <<a>> \o <<b>> = <<a, b>>
  <2>1. <<a>> \o <<b>> \in Seq(Calls) /\ <<a, b>> \in Seq(Calls)
    OBVIOUS
  <2>2. Len(<<a>> \o <<b>>) = 2 /\ Len(<<a, b>>) = 2
    OBVIOUS
  <2>3. \A i \in 1..2 : (<<a>> \o <<b>>)[i] = <<a, b>>[i]
    OBVIOUS
  <2> QED
    BY <2>1, <2>2, <2>3, SeqEqual
<1>2. <<a, b>> \o <<c>> = <<a, b, c>>
  <2>1. <<a, b>> \o <<c>> \in Seq(Calls) /\ <<a, b, c>> \in Seq(Calls)
    OBVIOUS
  <2>2. Len(<<a, b>> \o <<c>>) = 3 /\ Len(<<a, b, c>>) = 3
    OBVIOUS
  <2>3. \A i \in 1..3 : (<<a, b>> \o <<c>>)[i] = <<a, b, c>>[i]
    OBVIOUS
  <2> QED
    BY <2>1, <2>2, <2>3, SeqEqual
<1>3. Tail(<<a, b>>) = <<b>>
  OBVIOUS
<1>4. Tail(<<b>>) = <<>>
  OBVIOUS
<1>5. <<a>> \o <<>> = <<a>>
  OBVIOUS
<1> QED
  BY <1>1, <1>2, <1>3, <1>4, <1>5

LEMMA EventCallsAre ==
    ASSUME NEW e
    PROVE  \/ EventCalls(e) = <<"handle_charger_event">>
           \/ EventCalls(e) = <<"battery_state_iterate", "handle_charger_event">>
BY DEF EventCalls

LEMMA CallbackIsComposed ==
    ASSUME ComposedInv, Callback
    PROVE  ComposedInv' /\ [Logic!Next]_(Logic!vars)
<1>1. AtMainLoop /\ CallbackFrame
  BY DEF Callback, notifyStateChange, notifyBatteryStatus, ReadCharger,
     resumeSignal, suspendedSignal, _battery_check_reason_helper
<1>2. pc = "mainloop" /\ pc' = "mainloop" /\ UNCHANGED <<logicVars, battery, status>>
  BY <1>1, AtMainLoopNothingDecides DEF CallbackFrame, logicVars, plantVars
<1>3. CallInv'
  <2>1. CASE notifyStateChange
    BY <2>1, <1>2, EventCallsAre, FreshCalls DEF notifyStateChange
  <2>2. CASE notifyBatteryStatus
    BY <2>2, <1>2, FreshCalls DEF notifyBatteryStatus
  <2>3. CASE ReadCharger \/ resumeSignal \/ suspendedSignal
    <3>1. UNCHANGED calls
      BY <2>3 DEF ReadCharger, resumeSignal, suspendedSignal
    <3> QED
      BY <3>1, <1>2, SameCalls DEF ComposedInv
  <2>4. CASE _battery_check_reason_helper
    <3>1. CASE calls' = <<"battery_state_iterate">>
      BY <3>1, <1>2, FreshCalls
    <3>2. CASE \E e \in Events :
                  calls' = EventCalls(e) \o <<"battery_state_iterate">>
      <4> PICK e \in Events : calls' = EventCalls(e) \o <<"battery_state_iterate">>
        BY <3>2
      <4>1. \/ calls' = <<"handle_charger_event", "battery_state_iterate">>
            \/ calls' = <<"battery_state_iterate", "handle_charger_event",
                          "battery_state_iterate">>
        <5>1. CASE EventCalls(e) = <<"handle_charger_event">>
          BY <5>1, ShortLists DEF Calls
        <5>2. CASE EventCalls(e) = <<"battery_state_iterate", "handle_charger_event">>
          BY <5>2, ShortLists DEF Calls
        <5> QED
          BY <5>1, <5>2, EventCallsAre
      <4> QED
        BY <4>1, <1>2, FreshCalls
    <3> QED
      BY <2>4, <3>1, <3>2 DEF _battery_check_reason_helper, getNewEvent
  <2> QED
    BY <2>1, <2>2, <2>3, <2>4 DEF Callback
<1>4. ViewTypes'
  <2>1. \/ UNCHANGED currStatus
        \/ \E answered \in QueryOutcomes : ChargerRead(answered)
    BY DEF Callback, notifyStateChange, notifyBatteryStatus, ReadCharger,
       resumeSignal, suspendedSignal, _battery_check_reason_helper
  <2> QED
    BY <2>1, <1>2, ReadKeepsViews DEF ComposedInv
<1>5. [Logic!Next]_(Logic!vars)
  BY <1>2, <1>4, OutsideTheDecision DEF ComposedInv
<1> QED
  BY <1>3, <1>4, <1>5 DEF ComposedInv

LEMMA PassIsComposed ==
    ASSUME ComposedInv, BeginPass \/ PassStep
    PROVE  ComposedInv' /\ [Logic!Next]_(Logic!vars)
<1>1. InCall("battery_state_iterate") /\ UNCHANGED <<battery, status, logicVars, currStatus>>
  BY DEF BeginPass, PassStep
<1>2. pc = "mainloop" /\ pc' = "mainloop" /\ calls # <<>>
  BY <1>1, OtherCallsDoNotDecide DEF Calls, logicVars
<1>3. calls' = calls \/ calls' = Tail(calls)
  BY DEF BeginPass, PassStep
<1>4. CallInv'
  BY <1>2, <1>3, PoppedCalls, SameCalls DEF ComposedInv
<1>5. ViewTypes'
  BY <1>1, ReadKeepsViews DEF ComposedInv
<1> QED
  BY <1>1, <1>2, <1>4, <1>5, OutsideTheDecision DEF ComposedInv

LEMMA EventIsComposed ==
    ASSUME ComposedInv, handle_charger_event
    PROVE  ComposedInv' /\ [Logic!Next]_(Logic!vars)
<1>1. Logic!handle_charger_event
  BY DEF handle_charger_event
<1>2. pc' = "voltage"
  BY <1>1 DEF Logic!handle_charger_event
<1>3. calls # <<>> /\ calls' = <<"decide">> \o Tail(calls)
  BY DEF handle_charger_event, InCall
<1>4. CallInv'
  BY <1>2, <1>3, DecisionCalls DEF ComposedInv
<1>5. ViewTypes'
  BY ReadKeepsViews DEF handle_charger_event, ComposedInv
<1> QED
  BY <1>1, <1>4, <1>5 DEF ComposedInv, Logic!Next

LEMMA LevelCheckIsComposed ==
    ASSUME ComposedInv, BatteryLevelCheck
    PROVE  ComposedInv' /\ [Logic!Next]_(Logic!vars)
<1>1. InCall("BatteryLevelCheck") /\ UNCHANGED <<battery, status, pollVars, currStatus>>
  BY DEF BatteryLevelCheck
<1>2. pc = "mainloop" /\ calls # <<>>
  BY <1>1, OtherCallsDoNotDecide DEF Calls
<1>3. ViewTypes'
  BY <1>1, ReadKeepsViews DEF ComposedInv
<1>4. CASE calls' = Tail(calls) /\ UNCHANGED logicVars
  <2>1. pc' = "mainloop"
    BY <1>2, <1>4 DEF logicVars
  <2>2. CallInv'
    BY <1>2, <1>4, <2>1, PoppedCalls DEF ComposedInv
  <2> QED
    BY <1>1, <1>2, <1>3, <1>4, <2>2, OutsideTheDecision DEF ComposedInv
<1>5. CASE Logic!BatteryLevelCheck /\ calls' = <<"decide">> \o Tail(calls)
  <2>1. pc' # "mainloop"
    BY <1>5 DEF Logic!BatteryLevelCheck, Logic!GoTo
  <2>2. CallInv'
    BY <1>2, <1>5, <2>1, DecisionCalls DEF ComposedInv
  <2> QED
    BY <1>3, <1>5, <2>2 DEF ComposedInv, Logic!Next
<1> QED
  BY <1>4, <1>5 DEF BatteryLevelCheck

LEMMA DecideIsComposed ==
    ASSUME ComposedInv, Decide
    PROVE  ComposedInv' /\ [Logic!Next]_(Logic!vars)
<1>1. calls # <<>> /\ pc # "mainloop"
  BY DEF Decide, InCall, ComposedInv, CallInv
<1>2. CallInv'
  BY <1>1, PoppedCalls, SameCalls DEF Decide, ComposedInv
<1>3. ViewTypes'
  BY ReadKeepsViews DEF Decide, ComposedInv
<1>4. Logic!Step
  BY DEF Decide
<1> QED
  BY <1>2, <1>3, <1>4 DEF ComposedInv, Logic!Next

LEMMA ResyncIsComposed ==
    ASSUME ComposedInv, ChargerResync
    PROVE  ComposedInv' /\ [Logic!Next]_(Logic!vars)
<1>1. InCall("ChargerResync") /\ CallbackFrame
  BY DEF ChargerResync
<1>2. /\ pc = "mainloop" /\ pc' = "mainloop" /\ calls # <<>>
      /\ UNCHANGED <<logicVars, battery, status>>
  BY <1>1, OtherCallsDoNotDecide DEF Calls, CallbackFrame, logicVars, plantVars
<1>3. CallInv'
  BY <1>2, PoppedCalls DEF ChargerResync, ComposedInv
<1>4. ViewTypes'
  BY <1>2, ReadKeepsViews DEF ChargerResync, ComposedInv
<1> QED
  BY <1>2, <1>3, <1>4, OutsideTheDecision DEF ComposedInv

LEMMA PlantIsComposed ==
    ASSUME ComposedInv, BatteryChanges \/ PlugChanges \/ UNCHANGED vars
    PROVE  ComposedInv' /\ [Logic!Next]_(Logic!vars)
<1>1. /\ UNCHANGED <<logicVars, pollVars, currStatus, calls>>
      /\ battery' \in Readings /\ status' \in Statuses
  BY DEF BatteryChanges, PlugChanges, vars, plantVars, ComposedInv, ViewTypes
<1>2. CallInv'
  BY <1>1, SameCalls DEF logicVars, ComposedInv
<1>3. ViewTypes'
  BY <1>1 DEF ComposedInv, ViewTypes
<1> QED
  BY <1>1, <1>2, <1>3, PlantOfTheDecision DEF ComposedInv

LEMMA NextIsComposed ==
    ASSUME ComposedInv, [Next]_vars
    PROVE  ComposedInv' /\ [Logic!Next]_(Logic!vars)
BY CallbackIsComposed, PassIsComposed, EventIsComposed, LevelCheckIsComposed,
   DecideIsComposed, ResyncIsComposed, PlantIsComposed
DEF Next, Call

\* The first state of the daemon is one of the charge decision's.
LEMMA InitDecides == Init => Logic!Init
<1> SUFFICES ASSUME Init PROVE Logic!Init
  OBVIOUS
<1>1. ChargerAnswer \in Logic!ChargerAnswers
  BY InitComposed, AnswersAreAnswers DEF ComposedInv, ViewTypes
<1>2. PackAnswer \in Logic!PackStates
  BY PackAnswers
<1>3. LogicReading(battery) \in {LogicReading(r) : r \in Readings}
  BY DEF Init
<1> QED
  BY <1>1, <1>2, <1>3 DEF Init, Logic!Init, Logic!NYX_NO_NEW_EVENT

LEMMA ComposedInvariant == Spec => []ComposedInv
BY InitComposed, NextIsComposed, PTL DEF Spec

\* The callbacks as they are chained drive the charge decision through steps of
\* ChargingLogic only: nobody changes what a running call has asked.
THEOREM DaemonDecides == Spec => ChargeDecisionIsComposed
<1>1. ComposedInv /\ [Next]_vars => [Logic!Next]_(Logic!vars)
  BY NextIsComposed
<1> QED
  BY <1>1, InitDecides, ComposedInvariant, PTL DEF Spec, ChargeDecisionIsComposed

--------------------------------------------------------------------------------
(***************************************************************************)
(* A pass that an event drives asks the charger as it was read for it.     *)
(***************************************************************************)

EventCallLists ==
    {<<"handle_charger_event">>,
     <<"battery_state_iterate", "handle_charger_event">>,
     <<"decide">>}

\* What the event found plugged in is what the charger is remembered as.
SeenInv == seen # {} => seen = {currStatus} /\ calls \in EventCallLists

LEMMA InitSeen == Init => SeenInv
BY DEF Init, SeenInv

LEMMA NextKeepsSeen ==
    ASSUME SeenInv, [Next]_vars
    PROVE  SeenInv'
<1>1. CASE notifyStateChange
  <2>1. calls' \in EventCallLists
    BY <1>1, EventCallsAre DEF notifyStateChange, EventCallLists
  <2>2. PICK answered \in QueryOutcomes :
            ChargerRead(answered) /\ seen' = IF answered THEN {status} ELSE {}
    BY <1>1 DEF notifyStateChange
  <2>3. seen' # {} => seen' = {currStatus'}
    BY <2>2 DEF ChargerRead
  <2> QED
    BY <2>1, <2>3 DEF SeenInv
<1>2. CASE UNCHANGED seen /\ AtMainLoop
  BY <1>2 DEF SeenInv, AtMainLoop, EventCallLists
<1>3. CASE BeginPass \/ PassStep
  <2>1. SUFFICES ASSUME seen # {} PROVE calls' \in EventCallLists
    BY <1>3 DEF BeginPass, PassStep, SeenInv
  <2>2. calls = <<"battery_state_iterate", "handle_charger_event">>
    <3>1. Head(calls) = "battery_state_iterate"
      BY <1>3 DEF BeginPass, PassStep, InCall
    <3>2. /\ Head(<<"decide">>) = "decide"
          /\ Head(<<"handle_charger_event">>) = "handle_charger_event"
      OBVIOUS
    <3>3. calls \in EventCallLists
      BY <2>1 DEF SeenInv
    <3> QED
      BY <3>1, <3>2, <3>3 DEF EventCallLists
  <2>3. Tail(calls) = <<"handle_charger_event">>
    BY <2>2, ShortLists DEF Calls
  <2> QED
    BY <1>3, <2>2, <2>3 DEF BeginPass, PassStep, EventCallLists
<1>4. CASE handle_charger_event
  <2>1. SUFFICES ASSUME seen # {} PROVE calls' \in EventCallLists
    BY <1>4 DEF handle_charger_event, SeenInv
  <2>2. calls = <<"handle_charger_event">>
    BY <1>4, <2>1 DEF handle_charger_event, InCall, SeenInv, EventCallLists
  <2>3. <<"decide">> \o Tail(calls) = <<"decide">>
    BY <2>2, ShortLists DEF Calls
  <2> QED
    BY <1>4, <2>3 DEF handle_charger_event, EventCallLists
<1>5. CASE BatteryLevelCheck \/ ChargerResync
  BY <1>5 DEF BatteryLevelCheck, ChargerResync, InCall, SeenInv, EventCallLists
<1>6. CASE Decide
  BY <1>6 DEF Decide, SeenInv
<1>7. CASE BatteryChanges \/ PlugChanges \/ UNCHANGED vars
  BY <1>7 DEF BatteryChanges, PlugChanges, vars, SeenInv
<1> QED
  BY <1>1, <1>2, <1>3, <1>4, <1>5, <1>6, <1>7
  DEF Next, Call, Callback, notifyBatteryStatus, ReadCharger, resumeSignal,
      suspendedSignal, _battery_check_reason_helper

\* A pass that ends in charging has asked whether a charger is connected.
LEMMA ChargingAsked ==
    ASSUME Logic!Step, pc = "iterate", pc' = "check", current_state' = "charging"
    PROVE  ChargerAnswer.connected
<1>1. Logic!StateHandler
  BY DEF Logic!Step, Logic!CheckVoltage, Logic!CheckTemperature,
     Logic!ChargingLogicUpdate, Logic!CheckCriticalLevels
<1>2. CASE Logic!StateCharging
  BY <1>2 DEF Logic!StateCharging, Logic!Running, Logic!ChargingDecision,
     Logic!Return, Logic!ChargerIsConnected
<1>3. ~Logic!StateIdle
  BY DEF Logic!StateIdle, Logic!Running, Logic!Edge, Logic!NYX_NO_NEW_EVENT,
     Logic!Return, Logic!ReturnLast
<1>4. /\ ~Logic!StateChargeComplete /\ ~Logic!StateFault
      /\ ~Logic!StateShutdown /\ ~Logic!StateShutdownWait
  BY DEF Logic!StateChargeComplete, Logic!StateFault, Logic!StateShutdown,
     Logic!StateShutdownWait, Logic!Running, Logic!Return, Logic!ReturnLast
<1> QED
  BY <1>1, <1>2, <1>3, <1>4 DEF Logic!StateHandler

\* A pass that an event drives never stays in charging on a read of the charger
\* that is older than the event.
THEOREM DecisionIsFresh == Spec => DecidesOnFreshCharger
<1>1. ASSUME ComposedInv, SeenInv, Next, pc = "iterate", pc' = "check",
             current_state' = "charging", NEW s \in seen
      PROVE  charger_view(s).any
  <2>1. Logic!Step
    BY <1>1, AtMainLoopNothingDecides, OtherCallsDoNotDecide
    DEF Next, Call, Callback, notifyStateChange, notifyBatteryStatus, ReadCharger,
        resumeSignal, suspendedSignal, _battery_check_reason_helper, BeginPass,
        PassStep, handle_charger_event, BatteryLevelCheck, ChargerResync, Decide,
        BatteryChanges, PlugChanges, Calls, logicVars
  <2>2. ChargerAnswer.connected
    BY <1>1, <2>1, ChargingAsked
  <2>3. s = currStatus
    BY <1>1 DEF SeenInv
  <2> QED
    BY <2>2, <2>3 DEF ChargerAnswer
<1>2. Spec => []SeenInv
  BY InitSeen, NextKeepsSeen, PTL DEF Spec
<1>3. ComposedInv /\ SeenInv /\ [Next]_vars =>
          [/\ pc = "iterate" /\ pc' = "check" /\ current_state' = "charging"
           => \A s \in seen : charger_view(s).any]_vars
  BY <1>1
<1> QED
  BY <1>2, <1>3, ComposedInvariant, PTL DEF Spec, DecidesOnFreshCharger

--------------------------------------------------------------------------------
(***************************************************************************)
(* The level a device wakes at.                                            *)
(***************************************************************************)

\* getUiPercent(): what is shown grows with the battery, is a percentage whatever
\* the battery says, and is full just from 95 percent on.
THEOREM ShownPercentFollows ==
    ASSUME NEW p \in Int, NEW q \in Int, p <= q
    PROVE  /\ getUiPercent(p) \in 0..100
           /\ getUiPercent(p) <= getUiPercent(q)
           /\ getUiPercent(p) = 100 <=> p >= 95
  BY DEF getUiPercent

\* The next level is one of the list, and there is none at the last percent
\* only.
LEMMA NextLevelIsAhead ==
    ASSUME NEW percentage \in Int
    PROVE  /\ percentage > 1 => /\ NextLevel(percentage) \in battlowpercent
                                /\ NextLevel(percentage) < percentage
           /\ percentage <= 1 => NextLevel(percentage) = 0
<1>1. CASE percentage <= 1
  <2>1. LevelsBelow(percentage) = {}
    BY <1>1 DEF LevelsBelow, battlowpercent
  <2> QED
    BY <1>1, <2>1 DEF NextLevel
<1>2. CASE percentage > 1
  <2>1. PICK l \in LevelsBelow(percentage) : \A k \in LevelsBelow(percentage) : k <= l
    <3>1. 1 \in LevelsBelow(percentage)
      BY <1>2 DEF LevelsBelow, battlowpercent
    <3>2. \E l \in LevelsBelow(percentage) : \A k \in LevelsBelow(percentage) : k <= l
      BY <3>1 DEF LevelsBelow, battlowpercent
    <3> QED
      BY <3>2
  <2>2. NextLevel(percentage) \in LevelsBelow(percentage)
    BY <2>1 DEF NextLevel
  <2> QED
    BY <1>2, <2>2 DEF LevelsBelow
<1> QED
  BY <1>1, <1>2

\* A level that is worked out is none only at the last percent.
LEMMA ArmedUnlessLast ==
    ASSUME battery \in Readings, NEW suspend \in BOOLEAN,
           battery_set_wakeup_percentage(FALSE, suspend)
    PROVE  wakeup' = 0 => weighed' <= 1
<1>1. battery.percentage \in Int
  BY ReadingsAssumption DEF Reading
<1>2. CASE suspend
  BY <1>1, <1>2, NextLevelIsAhead
  DEF battery_set_wakeup_percentage, WakeupPercentage, battlowpercent
<1>3. CASE ~suspend
  BY <1>1, <1>3 DEF battery_set_wakeup_percentage, WakeupPercentage
<1> QED
  BY <1>2, <1>3

\* A step of the decision that keeps the device charging has been told that it
\* does, and only one that turns charging off ends it.
LEMMA ChargingIsTold ==
    ASSUME Logic!Step
    PROVE  /\ TurnedOn => nyx_charging' = TRUE
           /\ ~TurnedOff => nyx_charging' \in {nyx_charging, TRUE}
<1>1. CASE Logic!CheckVoltage \/ Logic!ChargingLogicUpdate \/ Logic!CheckCriticalLevels
  BY <1>1 DEF Logic!CheckVoltage, Logic!ChargingLogicUpdate,
     Logic!CheckCriticalLevels, TurnedOn
<1>2. CASE Logic!CheckTemperature
  BY <1>2 DEF Logic!CheckTemperature, Logic!ActOnTemperature,
     Logic!TurnChargingOff, TurnedOn, TurnedOff
<1>3. CASE Logic!StateCharging
  BY <1>3 DEF Logic!StateCharging, Logic!Running, Logic!ChargingDecision,
     Logic!KeepCharging, Logic!TurnChargingON, Logic!Return, Logic!ReturnLast,
     TurnedOn, TurnedOff
<1>4. CASE Logic!StateIdle \/ Logic!StateChargeComplete \/ Logic!StateFault
  BY <1>4 DEF Logic!StateIdle, Logic!StateChargeComplete, Logic!StateFault,
     Logic!Running, Logic!TurnChargingOff, TurnedOn, TurnedOff
<1>5. CASE Logic!StateShutdown \/ Logic!StateShutdownWait
  BY <1>5 DEF Logic!StateShutdown, Logic!StateShutdownWait, Logic!Running, TurnedOn
<1> QED
  BY <1>1, <1>2, <1>3, <1>4, <1>5 DEF Logic!Step, Logic!StateHandler

LEMMA NextKeepsWakeup ==
    ASSUME battery \in Readings, WakeupIsArmed, [Next]_vars
    PROVE  WakeupIsArmed'
<1>1. CASE UNCHANGED wakeupVars /\ UNCHANGED nyx_charging
  BY <1>1 DEF WakeupIsArmed, wakeupVars
<1>2. CASE \E suspend \in BOOLEAN : battery_set_wakeup_percentage(FALSE, suspend)
  BY <1>2, ArmedUnlessLast DEF WakeupIsArmed
<1>3. CASE Decide
  <2>1. CASE TurnedOff
    BY <1>2, <1>3, <2>1 DEF Decide, chargerDisableCharging
  <2>2. CASE ~TurnedOff /\ TurnedOn
    BY <1>3, <2>2, ChargingIsTold DEF Decide, WakeupIsArmed
  <2>3. CASE ~TurnedOff /\ ~TurnedOn
    BY <1>3, <2>3, ChargingIsTold DEF Decide, WakeupIsArmed, wakeupVars
  <2> QED
    BY <2>1, <2>2, <2>3
<1>4. CASE handle_charger_event
  <2>1. UNCHANGED nyx_charging
    BY <1>4 DEF handle_charger_event, Logic!handle_charger_event
  <2> QED
    BY <1>1, <1>2, <1>4, <2>1 DEF handle_charger_event
<1>5. CASE BatteryLevelCheck
  BY <1>1, <1>5 DEF BatteryLevelCheck, Logic!BatteryLevelCheck, logicVars
<1>6. CASE resumeSignal \/ suspendedSignal
  BY <1>2, <1>6 DEF resumeSignal, suspendedSignal
<1>7. CASE notifyStateChange \/ notifyBatteryStatus \/ ReadCharger
           \/ _battery_check_reason_helper \/ ChargerResync
  BY <1>1, <1>7 DEF notifyStateChange, notifyBatteryStatus, ReadCharger,
     _battery_check_reason_helper, ChargerResync, CallbackFrame, logicVars
<1>8. CASE BeginPass \/ PassStep
  BY <1>1, <1>8 DEF BeginPass, PassStep, logicVars
<1>9. CASE BatteryChanges \/ PlugChanges \/ UNCHANGED vars
  BY <1>1, <1>9 DEF BatteryChanges, PlugChanges, vars, logicVars
<1> QED
  BY <1>3, <1>4, <1>5, <1>6, <1>7, <1>8, <1>9 DEF Next, Call, Callback

\* A device that does not charge has a level to wake at, unless the reading
\* that one was worked out from was failed or at the last percent.
THEOREM WakeupAlwaysArmed == Spec => []WakeupIsArmed
<1>1. Init => WakeupIsArmed
  <2>1. 0 <= 1
    OBVIOUS
  <2> QED
    BY <2>1 DEF Init, WakeupIsArmed
<1>2. ComposedInv /\ WakeupIsArmed /\ [Next]_vars => WakeupIsArmed'
  BY NextKeepsWakeup DEF ComposedInv, ViewTypes
<1> QED
  BY <1>1, <1>2, ComposedInvariant, PTL DEF Spec

--------------------------------------------------------------------------------
(***************************************************************************)
(* From the reading of an absent battery to sleepd.                        *)
(***************************************************************************)

Given == Logic!Reasons \cup {""}

ReasonTypes ==
    /\ shutdown_reason \in Given
    /\ machineOff \in Seq(Given)

\* Whatever speaks of a removed battery has a reading behind it.
RemovalIsKnown ==
    missed = FALSE =>
        /\ state_node # "removed"
        /\ shutdown_reason # "battery removed."
        /\ \A i \in DOMAIN machineOff : machineOff[i] # "battery removed."

RemovalInv == ReasonTypes /\ RemovalIsKnown /\ missed \in BOOLEAN

LEMMA InitRemoval == Init => RemovalInv
<1> SUFFICES ASSUME Init PROVE RemovalInv
  OBVIOUS
<1>1. /\ machineOff = <<>> /\ shutdown_reason = "" /\ missed = FALSE
      /\ state_node = "debounce"
  BY DEF Init
<1>2. ReasonTypes
  <2>1. machineOff \in Seq(Given)
    BY <1>1, EmptySeq
  <2> QED
    BY <1>1, <2>1 DEF ReasonTypes, Given
<1>3. \A i \in DOMAIN machineOff : machineOff[i] # "battery removed."
  <2>1. Len(machineOff) = 0 /\ machineOff \in Seq(Given)
    BY <1>1, EmptySeq
  <2>2. ASSUME NEW i \in DOMAIN machineOff PROVE FALSE
    <3>1. i \in 1..Len(machineOff)
      BY <2>1
    <3> QED
      BY <2>1, <3>1
  <2> QED
    BY <2>2
<1> QED
  BY <1>1, <1>2, <1>3 DEF RemovalInv, RemovalIsKnown

LEMMA AppendAvoids ==
    ASSUME NEW m \in Seq(Given), NEW r \in Given, NEW bad, r # bad,
           \A i \in DOMAIN m : m[i] # bad
    PROVE  /\ Append(m, r) \in Seq(Given)
           /\ \A i \in DOMAIN Append(m, r) : Append(m, r)[i] # bad
<1>1. Append(m, r) \in Seq(Given) /\ Len(Append(m, r)) = Len(m) + 1
  BY AppendProperties
<1>2. \A i \in 1..Len(m) : Append(m, r)[i] # bad
  BY AppendProperties
<1>3. Append(m, r)[Len(m) + 1] # bad
  BY AppendProperties
<1> QED
  BY <1>1, <1>2, <1>3

\* A pass goes into removed with a reading that shows no battery.
LEMMA PassReads ==
    ASSUME Poll!Handler, state_node # "removed", state_node' = "removed"
    PROVE  state_node = "debounce" /\ battery.ok /\ ~battery.present
<1>1. CASE Poll!StateDebounce
  BY <1>1 DEF Poll!StateDebounce, Poll!Running, Poll!Return, Poll!ReturnLast,
     PollReading
<1>2. CASE Poll!StateRemoved \/ Poll!StateInserted
  BY <1>2 DEF Poll!StateRemoved, Poll!StateInserted, Poll!Running, Poll!Return
<1>3. CASE Poll!StateAuthentic \/ Poll!StateNotAuthentic
  BY <1>3 DEF Poll!StateAuthentic, Poll!StateNotAuthentic,
     Poll!StateAuthenticOrNot, Poll!Running, Poll!Return, Poll!ReturnLast
<1> QED
  BY <1>1, <1>2, <1>3 DEF Poll!Handler

\* What a step of the decision does to the reason and to the requests.
LEMMA ReasonSteps ==
    ASSUME Logic!Step, shutdown_reason \in Given, machineOff \in Seq(Given)
    PROVE  /\ \/ shutdown_reason' \in {shutdown_reason, "",
                                        "battery voltage below threshold",
                                        "battery temperature above max allowed",
                                        "Critical battery levels"}
              \/ shutdown_reason' = "battery removed." /\ PackAnswer = "removed"
           /\ \/ machineOff' = machineOff
              \/ /\ machineOff' = Append(machineOff, Logic!Reason)
                 /\ Logic!Reason \in {shutdown_reason, "Critical battery levels"}
<1>1. CASE Logic!CheckVoltage
  BY <1>1 DEF Logic!CheckVoltage, Logic!_JumpToShutdownState
<1>2. CASE Logic!CheckTemperature
  BY <1>2 DEF Logic!CheckTemperature, Logic!ActOnTemperature,
     Logic!TurnChargingOff, Logic!_JumpToShutdownState
<1>3. CASE Logic!ChargingLogicUpdate
  BY <1>3 DEF Logic!ChargingLogicUpdate
<1>4. CASE Logic!CheckCriticalLevels
  BY <1>4 DEF Logic!CheckCriticalLevels, Logic!CriticalLevels,
     Logic!_JumpToShutdownState, Logic!BatteryIsPresent
<1>5. CASE Logic!StateIdle \/ Logic!StateChargeComplete \/ Logic!StateFault
  BY <1>5 DEF Logic!StateIdle, Logic!StateChargeComplete, Logic!StateFault,
     Logic!TurnChargingOff
<1>6. CASE Logic!StateCharging
  BY <1>6 DEF Logic!StateCharging, Logic!ChargingDecision, Logic!KeepCharging,
     Logic!TurnChargingON
<1>7. CASE Logic!StateShutdown
  BY <1>7 DEF Logic!StateShutdown, Logic!Reason, Logic!kDefaultReason
<1>8. CASE Logic!StateShutdownWait
  BY <1>8 DEF Logic!StateShutdownWait
<1> QED
  BY <1>1, <1>2, <1>3, <1>4, <1>5, <1>6, <1>7, <1>8
  DEF Logic!Step, Logic!StateHandler

LEMMA DecideKeepsRemoval ==
    ASSUME RemovalInv, Decide
    PROVE  RemovalInv'
<1>1. Logic!Step /\ UNCHANGED <<state_node, missed>>
  BY DEF Decide, pollVars
<1>2. PackAnswer = "removed" => state_node = "removed"
  BY DEF PackAnswer
<1>3. ReasonTypes /\ RemovalIsKnown /\ missed \in BOOLEAN
  BY DEF RemovalInv
<1>4. shutdown_reason' \in Given
  BY <1>1, <1>3, ReasonSteps DEF Given, Logic!Reasons, ReasonTypes
<1>5. missed = FALSE => shutdown_reason' # "battery removed."
  BY <1>1, <1>2, <1>3, ReasonSteps DEF RemovalIsKnown, ReasonTypes
<1>6. CASE machineOff' = machineOff
  BY <1>1, <1>3, <1>4, <1>5, <1>6 DEF RemovalInv, ReasonTypes, RemovalIsKnown
<1>7. CASE /\ machineOff' = Append(machineOff, Logic!Reason)
           /\ Logic!Reason \in {shutdown_reason, "Critical battery levels"}
  <2>1. Logic!Reason \in Given /\ (missed = FALSE => Logic!Reason # "battery removed.")
    BY <1>3, <1>7 DEF RemovalIsKnown, ReasonTypes, Given, Logic!Reasons
  <2>2. machineOff' \in Seq(Given)
    BY <1>3, <1>7, <2>1, AppendProperties DEF ReasonTypes
  <2>3. missed = FALSE =>
            \A i \in DOMAIN machineOff' : machineOff'[i] # "battery removed."
    BY <1>3, <1>7, <2>1, AppendAvoids DEF RemovalIsKnown, ReasonTypes
  <2> QED
    BY <1>1, <1>3, <1>4, <1>5, <2>2, <2>3 DEF RemovalInv, ReasonTypes, RemovalIsKnown
<1> QED
  BY <1>1, <1>3, <1>6, <1>7, ReasonSteps DEF ReasonTypes

LEMMA NextKeepsRemoval ==
    ASSUME RemovalInv, [Next]_vars
    PROVE  RemovalInv'
<1>1. CASE UNCHANGED <<shutdown_reason, machineOff, state_node, missed>>
  BY <1>1 DEF RemovalInv, ReasonTypes, RemovalIsKnown
<1>2. CASE PassStep
  <2>1. /\ Poll!Handler /\ UNCHANGED <<shutdown_reason, machineOff>>
        /\ missed' = (\/ missed
                      \/ state_node # "inserted" /\ battery.ok /\ ~battery.present)
    BY <1>2 DEF PassStep, logicVars
  <2>2. missed' \in BOOLEAN
    BY <2>1
  <2>3. missed' = FALSE => missed = FALSE
    BY <2>1 DEF RemovalInv
  <2>4. missed' = FALSE => state_node' # "removed"
    BY <2>1, <2>3, PassReads DEF RemovalInv, RemovalIsKnown
  <2> QED
    BY <2>1, <2>2, <2>3, <2>4 DEF RemovalInv, ReasonTypes, RemovalIsKnown
<1>3. CASE Decide
  BY <1>3, DecideKeepsRemoval
<1>4. CASE Callback \/ ChargerResync
  BY <1>1, <1>4 DEF Callback, notifyStateChange, notifyBatteryStatus, ReadCharger,
     resumeSignal, suspendedSignal, _battery_check_reason_helper, ChargerResync,
     CallbackFrame, logicVars, pollVars
<1>5. CASE BeginPass
  BY <1>1, <1>5 DEF BeginPass, Poll!battery_state_iterate, logicVars
<1>6. CASE handle_charger_event \/ BatteryLevelCheck
  BY <1>1, <1>6 DEF handle_charger_event, BatteryLevelCheck, logicVars, pollVars,
     Logic!handle_charger_event, Logic!BatteryLevelCheck
<1>7. CASE BatteryChanges \/ PlugChanges \/ UNCHANGED vars
  BY <1>1, <1>7 DEF BatteryChanges, PlugChanges, vars, logicVars, pollVars
<1> QED
  BY <1>2, <1>3, <1>4, <1>5, <1>6, <1>7 DEF Next, Call

\* The device is never powered off for a removed battery unless the poll has
\* been shown a reading without one.
THEOREM RemovalAlwaysRead == Spec => []RemovalWasRead
<1>1. RemovalInv => RemovalWasRead
  <2> SUFFICES ASSUME RemovalInv,
                      "battery removed." \in {machineOff[i] : i \in DOMAIN machineOff}
               PROVE  missed
    BY DEF RemovalWasRead
  <2>1. missed # FALSE /\ missed \in BOOLEAN
    BY DEF RemovalInv, RemovalIsKnown
  <2> QED
    BY <2>1
<1> QED
  BY <1>1, InitRemoval, NextKeepsRemoval, PTL DEF Spec

--------------------------------------------------------------------------------
(***************************************************************************)
(* What is proved of the components holds of the daemon: its steps are     *)
(* theirs, and its constants are ones they allow.  Decision and Polling    *)
(* are the components with their proofs, as Logic and Poll see them.       *)
(***************************************************************************)

Decision == INSTANCE ChargingLogic_proof WITH
                Readings <- {LogicReading(r) : r \in Readings},
                battery  <- LogicReading(battery),
                charger  <- ChargerAnswer,
                pack     <- PackAnswer,
                recent   <- <<>>

Polling == INSTANCE BatteryPoll_proof WITH
                Readings <- {PollReading(r) : r \in Readings},
                battery  <- PollReading(battery),
                entered  <- pollEntered,
                silent   <- {},
                lost     <- FALSE,
                SendOutcomes <- {}

\* The daemon's constants are constants of the charge decision.
LEMMA DecisionGivens ==
    /\ Configs \subseteq Decision!Config
    /\ {LogicReading(r) : r \in Readings} \subseteq Decision!Reading
    /\ Events \subseteq SUBSET Decision!EventBits
    /\ CtiaParams \in Decision!Ctia
    /\ EnableOutcomes \subseteq BOOLEAN
    /\ DisableOutcomes \subseteq BOOLEAN
    /\ OVERCHARGE_RETRIES \in Nat
    /\ CRITICAL_PERCENT_SAMPLES \in Nat \ {0}
<1>1. {LogicReading(r) : r \in Readings} \subseteq Decision!Reading
  BY ReadingsAssumption DEF LogicReading, Reading, Decision!Reading
<1> QED
  BY <1>1, DecisionAssumption
  DEF Logic!Config, Decision!Config, Logic!EventBits, Decision!EventBits,
      Logic!Ctia, Decision!Ctia

\* And of the poll.
LEMMA PollGivens ==
    /\ {PollReading(r) : r \in Readings} \subseteq Polling!Reading
    /\ AuthOutcomes \subseteq BOOLEAN
    /\ BAD_SAMPLES_THRESHOLD \in Nat
BY ReadingsAssumption, PollAssumption DEF PollReading, Reading, Polling!Reading

\* The decision seen with its proofs is the decision, definition by definition.
LEMMA SameDecisionHandlers == Logic!StateHandler => Decision!StateHandler
<1>1. Logic!StateIdle => Decision!StateIdle
  BY DEF Logic!StateIdle, Decision!StateIdle, Logic!TurnChargingOff,
      Decision!TurnChargingOff, Logic!BatteryIsAuthentic,
      Decision!BatteryIsAuthentic, Logic!Running, Decision!Running, Logic!Edge,
      Decision!Edge, Logic!EndPass, Decision!EndPass, Logic!ReturnLast,
      Decision!ReturnLast, Logic!Return, Decision!Return, Logic!HandlerFrame,
      Decision!HandlerFrame, Logic!NYX_NO_NEW_EVENT, Decision!NYX_NO_NEW_EVENT
<1>2. Logic!StateCharging => Decision!StateCharging
  BY DEF Logic!StateCharging, Decision!StateCharging, Logic!ChargingDecision,
      Decision!ChargingDecision, Logic!KeepCharging, Decision!KeepCharging,
      Logic!TurnChargingON, Decision!TurnChargingON, Logic!BatteryOverchargeFault,
      Decision!BatteryOverchargeFault, Logic!Overcharged, Decision!Overcharged,
      Logic!ChargerIsConnected, Decision!ChargerIsConnected,
      Logic!BatteryIsAuthentic, Decision!BatteryIsAuthentic, Logic!Running,
      Decision!Running, Logic!Edge, Decision!Edge, Logic!EndPass,
      Decision!EndPass, Logic!ReturnLast, Decision!ReturnLast, Logic!Return,
      Decision!Return, Logic!HandlerFrame, Decision!HandlerFrame,
      Logic!NYX_NO_NEW_EVENT, Decision!NYX_NO_NEW_EVENT
<1>3. Logic!StateChargeComplete => Decision!StateChargeComplete
  BY DEF Logic!StateChargeComplete, Decision!StateChargeComplete,
      Logic!TurnChargingOff, Decision!TurnChargingOff, Logic!ChargerIsConnected,
      Decision!ChargerIsConnected, Logic!Running, Decision!Running, Logic!Edge,
      Decision!Edge, Logic!EndPass, Decision!EndPass, Logic!ReturnLast,
      Decision!ReturnLast, Logic!Return, Decision!Return, Logic!HandlerFrame,
      Decision!HandlerFrame, Logic!NYX_NO_NEW_EVENT, Decision!NYX_NO_NEW_EVENT
<1>4. Logic!StateFault => Decision!StateFault
  BY DEF Logic!StateFault, Decision!StateFault, Logic!TurnChargingOff,
      Decision!TurnChargingOff, Logic!ChargerIsConnected,
      Decision!ChargerIsConnected, Logic!BatteryIsPresent,
      Decision!BatteryIsPresent, Logic!Running, Decision!Running, Logic!Edge,
      Decision!Edge, Logic!EndPass, Decision!EndPass, Logic!ReturnLast,
      Decision!ReturnLast, Logic!Return, Decision!Return, Logic!HandlerFrame,
      Decision!HandlerFrame, Logic!NYX_NO_NEW_EVENT, Decision!NYX_NO_NEW_EVENT
<1>5. Logic!StateShutdown => Decision!StateShutdown
  BY DEF Logic!StateShutdown, Decision!StateShutdown, Logic!Reason, Decision!Reason,
      Logic!kDefaultReason, Decision!kDefaultReason, Logic!Running,
      Decision!Running, Logic!Edge, Decision!Edge, Logic!EndPass,
      Decision!EndPass, Logic!ReturnLast, Decision!ReturnLast, Logic!Return,
      Decision!Return, Logic!HandlerFrame, Decision!HandlerFrame,
      Logic!NYX_NO_NEW_EVENT, Decision!NYX_NO_NEW_EVENT
<1>6. Logic!StateShutdownWait => Decision!StateShutdownWait
  BY DEF Logic!StateShutdownWait, Decision!StateShutdownWait, Logic!Running,
      Decision!Running, Logic!Edge, Decision!Edge, Logic!EndPass,
      Decision!EndPass, Logic!ReturnLast, Decision!ReturnLast, Logic!Return,
      Decision!Return, Logic!HandlerFrame, Decision!HandlerFrame,
      Logic!NYX_NO_NEW_EVENT, Decision!NYX_NO_NEW_EVENT
<1> QED
  BY <1>1, <1>2, <1>3, <1>4, <1>5, <1>6 DEF Logic!StateHandler, Decision!StateHandler

LEMMA SameDecision == Logic!Next => Decision!Next
<1>1. Logic!CheckVoltage => Decision!CheckVoltage
  BY DEF Logic!CheckVoltage, Decision!CheckVoltage, Logic!_JumpToShutdownState,
      Decision!_JumpToShutdownState, Logic!GoTo, Decision!GoTo,
      Logic!ShutdownStates, Decision!ShutdownStates, Logic!ChargerIsCharging,
      Decision!ChargerIsCharging
<1>2. Logic!CheckTemperature => Decision!CheckTemperature
  BY DEF Logic!CheckTemperature, Decision!CheckTemperature, Logic!ActOnTemperature,
      Decision!ActOnTemperature, Logic!BatteryTemperatureCriticalShutdown,
      Decision!BatteryTemperatureCriticalShutdown, Logic!BatteryTemperatureHigh,
      Decision!BatteryTemperatureHigh, Logic!BatteryTemperatureLow,
      Decision!BatteryTemperatureLow, Logic!BATTERY_MAX_TEMPERATURE_C,
      Decision!BATTERY_MAX_TEMPERATURE_C, Logic!TurnChargingOff,
      Decision!TurnChargingOff, Logic!_JumpToShutdownState,
      Decision!_JumpToShutdownState, Logic!GoTo, Decision!GoTo,
      Logic!ReturnToMainLoop, Decision!ReturnToMainLoop, Logic!ShutdownStates,
      Decision!ShutdownStates, Logic!NYX_NO_NEW_EVENT, Decision!NYX_NO_NEW_EVENT
<1>3. Logic!ChargingLogicUpdate => Decision!ChargingLogicUpdate
  BY DEF Logic!ChargingLogicUpdate, Decision!ChargingLogicUpdate,
      Logic!ReturnToMainLoop, Decision!ReturnToMainLoop, Logic!GoTo,
      Decision!GoTo, Logic!NYX_NO_NEW_EVENT, Decision!NYX_NO_NEW_EVENT
<1>4. Logic!CheckCriticalLevels => Decision!CheckCriticalLevels
  BY DEF Logic!CheckCriticalLevels, Decision!CheckCriticalLevels,
      Logic!CriticalLevels, Decision!CriticalLevels, Logic!CriticalSample,
      Decision!CriticalSample, Logic!LevelIsCritical, Decision!LevelIsCritical,
      Logic!critical_percent_eval, Decision!critical_percent_eval,
      Logic!CRITICAL_PERCENT_PLAUSIBLE_MAX_MV,
      Decision!CRITICAL_PERCENT_PLAUSIBLE_MAX_MV, Logic!BrokenRow,
      Decision!BrokenRow, Logic!SpentRow, Decision!SpentRow,
      Logic!BatteryIsPresent, Decision!BatteryIsPresent, Logic!ChargerIsCharging,
      Decision!ChargerIsCharging, Logic!_JumpToShutdownState,
      Decision!_JumpToShutdownState, Logic!GoTo, Decision!GoTo,
      Logic!ReturnToMainLoop, Decision!ReturnToMainLoop, Logic!ShutdownStates,
      Decision!ShutdownStates, Logic!NYX_NO_NEW_EVENT, Decision!NYX_NO_NEW_EVENT
<1>5. Logic!handle_charger_event => Decision!handle_charger_event
  BY DEF Logic!handle_charger_event, Decision!handle_charger_event,
      Logic!BatteryStateIterate, Decision!BatteryStateIterate, Logic!PackStates,
      Decision!PackStates
<1>6. Logic!BatteryLevelCheck => Decision!BatteryLevelCheck
  BY DEF Logic!BatteryLevelCheck, Decision!BatteryLevelCheck, Logic!GoTo,
      Decision!GoTo
<1>7. Logic!BatteryChanges => Decision!BatteryChanges
  BY DEF Logic!BatteryChanges, Decision!BatteryChanges, Logic!daemonVars,
      Decision!daemonVars
<1>8. Logic!ViewsChange => Decision!ViewsChange
  BY DEF Logic!ViewsChange, Decision!ViewsChange, Logic!daemonVars,
      Decision!daemonVars, Logic!ChargerAnswers, Decision!ChargerAnswers,
      Logic!PackStates, Decision!PackStates
<1> QED
  BY <1>1, <1>2, <1>3, <1>4, <1>5, <1>6, <1>7, <1>8, SameDecisionHandlers
  DEF Logic!Next, Decision!Next, Logic!Step, Decision!Step

LEMMA SameDecisionViews ==
    /\ Logic!Init => Decision!Init
    /\ UNCHANGED Logic!vars => UNCHANGED Decision!vars
<1>1. Logic!Init => Decision!Init
    BY DEF Logic!Init, Decision!Init, Logic!ChargerAnswers, Decision!ChargerAnswers,
      Logic!PackStates, Decision!PackStates, Logic!NYX_NO_NEW_EVENT,
      Decision!NYX_NO_NEW_EVENT
<1>2. UNCHANGED Logic!vars => UNCHANGED Decision!vars
  BY DEF Logic!vars, Decision!vars, Logic!daemonVars, Decision!daemonVars
<1> QED
  BY <1>1, <1>2

\* What the decision's invariant says is said of the decision.
LEMMA SameDecisionFacts ==
    Decision!IInv => /\ Logic!TypeOK
                     /\ Logic!HandlerRunsOncePerPass
                     /\ Logic!OneShutdownRequest
                     /\ Logic!ReasonIsGiven
<1>1. Decision!TypeOK => Logic!TypeOK
  BY DEF Logic!TypeOK, Decision!TypeOK, Logic!ChargeStates, Decision!ChargeStates,
      Logic!Reasons, Decision!Reasons, Logic!EventBits, Decision!EventBits,
      Logic!Places, Decision!Places, Logic!ChargerAnswers,
      Decision!ChargerAnswers, Logic!PackStates, Decision!PackStates
<1> QED
  BY <1>1
  DEF Logic!HandlerRunsOncePerPass, Decision!HandlerRunsOncePerPass,
      Logic!OneShutdownRequest, Decision!OneShutdownRequest, Logic!ReasonIsGiven,
      Decision!ReasonIsGiven, Decision!IInv

LEMMA SamePoll == Poll!Next => Polling!Next
<1>1. Poll!StateRemoved => Polling!StateRemoved
  BY DEF Poll!StateRemoved, Polling!StateRemoved, Poll!Running, Polling!Running,
      Poll!Return, Polling!Return, Poll!ReturnLast, Polling!ReturnLast,
      Poll!EndPass, Polling!EndPass
<1>2. Poll!StateDebounce => Polling!StateDebounce
  BY DEF Poll!StateDebounce, Polling!StateDebounce, Poll!Running, Polling!Running,
      Poll!Return, Polling!Return, Poll!ReturnLast, Polling!ReturnLast,
      Poll!EndPass, Polling!EndPass
<1>3. Poll!StateInserted => Polling!StateInserted
  BY DEF Poll!StateInserted, Polling!StateInserted, Poll!Running, Polling!Running,
      Poll!Return, Polling!Return, Poll!ReturnLast, Polling!ReturnLast,
      Poll!EndPass, Polling!EndPass
<1>4. Poll!StateAuthentic => Polling!StateAuthentic
  BY DEF Poll!StateAuthentic, Polling!StateAuthentic, Poll!StateAuthenticOrNot,
      Polling!StateAuthenticOrNot, Poll!Report, Polling!Report, Poll!SampleIsNew,
      Polling!SampleIsNew, Poll!Near, Polling!Near, Poll!AbsDiff, Polling!AbsDiff,
      Poll!SampleOf, Polling!SampleOf, Poll!Running, Polling!Running, Poll!Return,
      Polling!Return, Poll!ReturnLast, Polling!ReturnLast, Poll!EndPass,
      Polling!EndPass
<1>5. Poll!StateNotAuthentic => Polling!StateNotAuthentic
  BY DEF Poll!StateNotAuthentic, Polling!StateNotAuthentic, Poll!StateAuthenticOrNot,
      Polling!StateAuthenticOrNot, Poll!Report, Polling!Report, Poll!SampleIsNew,
      Polling!SampleIsNew, Poll!Near, Polling!Near, Poll!AbsDiff, Polling!AbsDiff,
      Poll!SampleOf, Polling!SampleOf, Poll!Running, Polling!Running, Poll!Return,
      Polling!Return, Poll!ReturnLast, Polling!ReturnLast, Poll!EndPass,
      Polling!EndPass
<1>6. Poll!battery_state_iterate \/ Poll!BatteryChanges =>
          Polling!battery_state_iterate \/ Polling!BatteryChanges
  BY DEF Poll!battery_state_iterate, Polling!battery_state_iterate,
      Poll!BatteryChanges, Polling!BatteryChanges
<1> QED
  BY <1>1, <1>2, <1>3, <1>4, <1>5, <1>6
  DEF Poll!Next, Polling!Next, Poll!Handler, Polling!Handler

LEMMA SamePollViews ==
    /\ Poll!Init => Polling!Init
    /\ UNCHANGED Poll!vars => UNCHANGED Polling!vars
<1>1. Poll!Init => Polling!Init
  BY DEF Poll!Init, Polling!Init
<1>2. UNCHANGED Poll!vars => UNCHANGED Polling!vars
  BY DEF Poll!vars, Polling!vars
<1> QED
  BY <1>1, <1>2

LEMMA SamePollFacts ==
    Polling!IInv => /\ Poll!TypeOK
                    /\ Poll!HandlerRunsOncePerPass
                    /\ Poll!SearchFollowsRemoval
<1>1. Polling!TypeOK => Poll!TypeOK
  BY DEF Poll!TypeOK, Polling!TypeOK, Poll!States, Polling!States, Poll!BadCounts,
      Polling!BadCounts, Poll!Sample, Polling!Sample
<1> QED
  BY <1>1
  DEF Poll!HandlerRunsOncePerPass, Polling!HandlerRunsOncePerPass,
      Poll!SearchFollowsRemoval, Polling!SearchFollowsRemoval, Polling!IInv

\* The poll is driven through steps of BatteryPoll only.
LEMMA InitPolls == Init => Poll!Init
<1> SUFFICES ASSUME Init PROVE Poll!Init
  OBVIOUS
<1>1. PollReading(battery) \in {PollReading(r) : r \in Readings}
  BY DEF Init
<1> QED
  BY <1>1 DEF Init, Poll!Init

LEMMA NextPolls ==
    ASSUME battery \in Readings, [Next]_vars
    PROVE  [Poll!Next]_(Poll!vars)
<1>1. CASE UNCHANGED <<pollVars, battery>>
  BY <1>1 DEF pollVars, Poll!vars, PollReading
<1>2. CASE Callback \/ ChargerResync
  BY <1>1, <1>2 DEF Callback, notifyStateChange, notifyBatteryStatus, ReadCharger,
     resumeSignal, suspendedSignal, _battery_check_reason_helper, ChargerResync,
     CallbackFrame, plantVars
<1>3. CASE BeginPass \/ PassStep
  BY <1>3 DEF BeginPass, PassStep, Poll!Next
<1>4. CASE handle_charger_event \/ BatteryLevelCheck \/ Decide
  BY <1>1, <1>4 DEF handle_charger_event, BatteryLevelCheck, Decide
<1>5. CASE BatteryChanges
  <2>1. /\ UNCHANGED pollVars
        /\ PollReading(battery)' \in {PollReading(r) : r \in Readings}
    BY <1>5 DEF BatteryChanges, PollReading
  <2>2. CASE PollReading(battery)' = PollReading(battery)
    BY <2>1, <2>2 DEF pollVars, Poll!vars
  <2>3. CASE PollReading(battery)' # PollReading(battery)
    <3>1. Poll!BatteryChanges
      BY <2>1, <2>3 DEF Poll!BatteryChanges, pollVars
    <3> QED
      BY <3>1 DEF Poll!Next
  <2> QED
    BY <2>2, <2>3
<1>6. CASE PlugChanges \/ UNCHANGED vars
  BY <1>1, <1>6 DEF PlugChanges, vars, plantVars
<1> QED
  BY <1>2, <1>3, <1>4, <1>5, <1>6 DEF Next, Call

\* The callbacks as they are chained drive the battery poll through steps of
\* BatteryPoll only: a pass is never begun within another, whether an event or
\* a resume asks for it (battery_state_iterate, _battery_check_reason_helper).
THEOREM DaemonPolls == Spec => Poll!Init /\ [][Poll!Next]_(Poll!vars)
<1>1. ComposedInv /\ [Next]_vars => [Poll!Next]_(Poll!vars)
  BY NextPolls DEF ComposedInv, ViewTypes
<1> QED
  BY <1>1, InitPolls, ComposedInvariant, PTL DEF Spec

\* The invariants of the two components are invariants of the daemon.
LEMMA ComponentInvariants == Spec => []Decision!IInv /\ []Polling!IInv
<1>1. Logic!Init => Decision!IInv
  BY DecisionGivens, SameDecisionViews, Decision!InitImpliesIInv
<1>2. Decision!IInv /\ [Logic!Next]_(Logic!vars) => Decision!IInv'
  BY DecisionGivens, SameDecision, SameDecisionViews, Decision!NextKeepsIInv
<1>3. Poll!Init => Polling!IInv
  BY PollGivens, SamePollViews, Polling!InitImpliesIInv
<1>4. Polling!IInv /\ [Poll!Next]_(Poll!vars) => Polling!IInv'
  BY PollGivens, SamePoll, SamePollViews, Polling!NextKeepsIInv
<1> QED
  BY <1>1, <1>2, <1>3, <1>4, DaemonDecides, DaemonPolls, PTL DEF ChargeDecisionIsComposed

\* What is shown of the charge decision and of the poll alone holds of the
\* daemon: no pass of either runs a handler twice, sleepd is asked once and
\* with a reason, and the w1 search follows the battery.
THEOREM ComponentsHold ==
    Spec => [](/\ Logic!HandlerRunsOncePerPass
               /\ Logic!OneShutdownRequest
               /\ Logic!ReasonIsGiven
               /\ Poll!HandlerRunsOncePerPass
               /\ Poll!SearchFollowsRemoval)
BY ComponentInvariants, SameDecisionFacts, SamePollFacts, PTL

\* The daemon powers the device off the way PowerOff promises: it decides once,
\* asks sleepd once with one of its reasons and never goes back, whichever
\* callbacks follow one another (ChargingLogicUpdate, MachineShutdown).
THEOREM DaemonPowersOff == Spec => Logic!PowersOff
<1>1. Logic!Init => Logic!Power!Init
  BY DEF Logic!Init, Logic!Power!Init, Logic!phase
<1>2. Decision!IInv /\ Decision!IInv' /\ [Logic!Next]_(Logic!vars)
          => [Logic!Power!Next]_(Logic!Power!vars)
  <2> SUFFICES ASSUME Decision!IInv, Decision!IInv', [Logic!Next]_(Logic!vars)
               PROVE  [Logic!Power!Next]_(Logic!Power!vars)
    OBVIOUS
  <2>1. [Decision!Next]_(Decision!vars)
    BY SameDecision, SameDecisionViews
  <2>2. [Decision!Power!Next]_<<Decision!phase, machineOff>>
    BY <2>1, DecisionGivens, Decision!StepSimulation
  <2>3. Decision!phase = Logic!phase /\ Decision!phase' = Logic!phase'
    BY DEF Decision!phase, Logic!phase
  <2>4. Decision!Power!Next => Logic!Power!Next
    BY <2>3 DEF Decision!Power!Next, Logic!Power!Next, Decision!Power!Decide,
       Logic!Power!Decide, Decision!Power!Ask, Logic!Power!Ask,
       Decision!Reasons, Logic!Reasons
  <2> QED
    BY <2>2, <2>3, <2>4 DEF Logic!Power!vars
<1> QED
  BY <1>1, <1>2, DaemonDecides, ComponentInvariants, PTL
  DEF ChargeDecisionIsComposed, Logic!PowersOff, Logic!Power!Safety

\* Whichever callbacks follow one another, the hardware charges between two of the
\* decision's calls as its state says (TurnChargingOff, handle_charger_event), where
\* nyx obeys a request to stop charging.
THEOREM DaemonHardwareFollows ==
    ASSUME DisableOutcomes = {TRUE}
    PROVE  Spec => []Logic!ChargingFollowsState
<1>1. Logic!Init => Decision!HInv
  BY DecisionGivens, SameDecisionViews, Decision!InitImpliesHInv
<1>2. Decision!IInv /\ Decision!HInv /\ [Logic!Next]_(Logic!vars) => Decision!HInv'
  BY DecisionGivens, SameDecision, SameDecisionViews, Decision!NextKeepsHInv
<1>3. Decision!HInv => Logic!ChargingFollowsState
  BY DecisionGivens, Decision!HInvFollows
  DEF Logic!ChargingFollowsState, Decision!ChargingFollowsState
<1> QED
  BY <1>1, <1>2, <1>3, DaemonDecides, ComponentInvariants, PTL
  DEF ChargeDecisionIsComposed

--------------------------------------------------------------------------------
(***************************************************************************)
(* Types.                                                                  *)
(***************************************************************************)

\* What neither component holds.
OwnTypes ==
    /\ currStatus \in Statuses \cup {ZeroedStatus}
    /\ reported \in SUBSET Logic!EventBits
    /\ checks \in 0..MAX_CHECKS
    /\ wakeup \in Int /\ weighed \in Int
    /\ seen \in SUBSET Statuses

LEMMA InitOwnTypes == Init => OwnTypes
<1> SUFFICES ASSUME Init PROVE OwnTypes
  OBVIOUS
<1>1. checks = 0 /\ wakeup = 0 /\ weighed = 0 /\ reported = {} /\ seen = {}
  BY DEF Init
<1>2. 0 \in 0..MAX_CHECKS
  BY ChecksAssumption
<1>3. currStatus \in Statuses \cup {ZeroedStatus}
  BY DEF Init
<1> QED
  BY <1>1, <1>2, <1>3 DEF OwnTypes

\* The level a wakeup is armed for is a number, whatever is asked.
LEMMA WakeupIsInt ==
    ASSUME battery \in Readings, NEW charging \in BOOLEAN, NEW suspend \in BOOLEAN,
           battery_set_wakeup_percentage(charging, suspend)
    PROVE  wakeup' \in Int /\ weighed' \in Int
<1>1. battery.percentage \in Int
  BY ReadingsAssumption DEF Reading
<1>2. NextLevel(battery.percentage) \in Int
  BY <1>1, NextLevelIsAhead DEF battlowpercent
<1> QED
  BY <1>1, <1>2 DEF battery_set_wakeup_percentage, WakeupPercentage

LEMMA NextKeepsOwnTypes ==
    ASSUME ViewTypes, OwnTypes, [Next]_vars
    PROVE  OwnTypes'
<1>1. battery \in Readings /\ status \in Statuses
  BY DEF ViewTypes
<1>2. currStatus' \in Statuses \cup {ZeroedStatus}
  <2>1. \/ UNCHANGED currStatus
        \/ \E answered \in QueryOutcomes : ChargerRead(answered)
    BY DEF Next, Callback, Call, notifyStateChange, notifyBatteryStatus, ReadCharger,
       resumeSignal, suspendedSignal, _battery_check_reason_helper, BeginPass, PassStep,
       handle_charger_event, BatteryLevelCheck, Decide, ChargerResync, BatteryChanges,
       PlugChanges, vars
  <2> QED
    BY <1>1, <2>1 DEF ChargerRead, OwnTypes
<1>3. reported' \in SUBSET Logic!EventBits
  <2>1. \/ UNCHANGED reported
        \/ reported' = {}
        \/ \E e \in Events : reported' = e
    BY DEF Next, Callback, Call, notifyStateChange, notifyBatteryStatus, ReadCharger,
       resumeSignal, suspendedSignal, _battery_check_reason_helper, getNewEvent,
       BeginPass, PassStep, handle_charger_event, BatteryLevelCheck, Decide,
       ChargerResync, BatteryChanges, PlugChanges, vars
  <2> QED
    BY <2>1, DecisionAssumption DEF OwnTypes
<1>4. checks' \in 0..MAX_CHECKS
  <2>1. \/ UNCHANGED checks
        \/ checks < MAX_CHECKS /\ checks' = checks + 1
        \/ checks > 0 /\ checks' = checks - 1
    BY DEF Next, Callback, Call, notifyStateChange, notifyBatteryStatus, ReadCharger,
       resumeSignal, BatteryCheckReason, suspendedSignal, _battery_check_reason_helper,
       BeginPass, PassStep, handle_charger_event, BatteryLevelCheck, Decide,
       ChargerResync, BatteryChanges, PlugChanges, vars
  <2> QED
    BY <2>1, ChecksAssumption DEF OwnTypes
<1>5. wakeup' \in Int /\ weighed' \in Int
  <2>1. \/ UNCHANGED wakeupVars
        \/ \E charging \in BOOLEAN, suspend \in BOOLEAN :
              battery_set_wakeup_percentage(charging, suspend)
    BY DEF Next, Callback, Call, notifyStateChange, notifyBatteryStatus, ReadCharger,
       resumeSignal, suspendedSignal, _battery_check_reason_helper, BeginPass, PassStep,
       handle_charger_event, BatteryLevelCheck, Decide, chargerDisableCharging,
       chargerEnableCharging, ChargerResync, BatteryChanges, PlugChanges, vars
  <2> QED
    BY <1>1, <2>1, WakeupIsInt DEF OwnTypes, wakeupVars
<1>6. seen' \in SUBSET Statuses
  <2>1. UNCHANGED seen \/ seen' = {} \/ seen' = {status}
    BY DEF Next, Callback, Call, notifyStateChange, notifyBatteryStatus, ReadCharger,
       resumeSignal, suspendedSignal, _battery_check_reason_helper, BeginPass, PassStep,
       handle_charger_event, BatteryLevelCheck, Decide, ChargerResync, BatteryChanges,
       PlugChanges, vars
  <2> QED
    BY <1>1, <2>1 DEF OwnTypes
<1> QED
  BY <1>2, <1>3, <1>4, <1>5, <1>6 DEF OwnTypes

\* Every variable of the daemon keeps its type, those of its components with
\* what they see of each other.
THEOREM DaemonTypes == Spec => []TypeOK
<1>1. Decision!IInv /\ Polling!IInv /\ ComposedInv /\ RemovalInv /\ OwnTypes => TypeOK
  <2> SUFFICES ASSUME Decision!IInv, Polling!IInv, ComposedInv, RemovalInv, OwnTypes
               PROVE  TypeOK
    OBVIOUS
  <2>1. Logic!TypeOK
    BY SameDecisionFacts
  <2>2. Poll!TypeOK
    BY SamePollFacts
  <2>3. missed \in BOOLEAN
    BY DEF RemovalInv
  <2>4. calls \in Seq(Calls) /\ battery \in Readings /\ status \in Statuses
    BY DEF ComposedInv, CallInv, ViewTypes
  <2> QED
    BY <2>1, <2>2, <2>3, <2>4 DEF TypeOK, OwnTypes
<1>2. ComposedInv /\ OwnTypes /\ [Next]_vars => OwnTypes'
  BY NextKeepsOwnTypes DEF ComposedInv
<1> QED
  BY <1>1, <1>2, InitOwnTypes, ComponentInvariants, ComposedInvariant, InitRemoval,
     NextKeepsRemoval, PTL DEF Spec
================================================================================
