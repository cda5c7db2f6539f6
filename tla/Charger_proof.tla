----------------------------- MODULE Charger_proof -----------------------------
(***************************************************************************)
(* What holds of the charger broadcasts for every set of charger statuses. *)
(***************************************************************************)
EXTENDS Charger, TLAPS

\* What is told of a status nyx can give is a view: dock, wired and charging
\* all imply any (charger_eval.h:52-77).
LEMMA ViewType == \A s \in ChargerStatus, full \in BOOLEAN : ViewOf(s, full) \in View
<1> SUFFICES ASSUME NEW s \in ChargerStatus, NEW full \in BOOLEAN
             PROVE  ViewOf(s, full) \in View
  OBVIOUS
<1>1. s.is_charging \in BOOLEAN
  BY DEF ChargerStatus
<1>2. wired(s) \in BOOLEAN /\ dock(s) \in BOOLEAN
  BY DEF wired, dock
<1> QED
  BY <1>1, <1>2 DEF ViewOf, charger_view, View

LEMMA ZeroedType == ZeroedStatus \in ChargerStatus
BY DEF ZeroedStatus, ChargerStatus

\* The messages that can have been sent.
Messages == {Message(t, v) : t \in Topics, v \in View}

\* A broadcast keeps the types of the record and of the bus.
LEMMA BroadcastType ==
    ASSUME TypeOK, NEW s \in ChargerStatus, NEW force \in BOOLEAN,
           ChargerBroadcast(s, force)
    PROVE  /\ lastBroadcast' \in View
           /\ lastBroadcastValid' \in BOOLEAN
           /\ torn' \in BOOLEAN
           /\ bus' \in [Topics -> {{}} \cup {{m} : m \in Messages}]
<1> DEFINE v == ChargerView(s)
<1>1. v \in View
  BY ViewType DEF TypeOK, ChargerView
<1>2. bus \in [Topics -> {{}} \cup {{m} : m \in Messages}]
  BY DEF TypeOK, Messages
<1>3. CASE UNCHANGED recordVars
  BY <1>2, <1>3 DEF TypeOK, recordVars
<1>4. ASSUME Send(v, Announced(v, force))
      PROVE  /\ lastBroadcast' \in View
             /\ lastBroadcastValid' \in BOOLEAN
             /\ torn' \in BOOLEAN
             /\ bus' \in [Topics -> {{}} \cup {{m} : m \in Messages}]
  <2>1. lastBroadcast' \in View /\ lastBroadcastValid' \in BOOLEAN
    <3> DEFINE complete == Announced(v, force) \cap down = {}
    <3>1. CASE complete
      <4>1. lastBroadcast' = v /\ lastBroadcastValid' = TRUE
        BY <1>4, <3>1 DEF Send
      <4> QED
        BY <1>1, <4>1
    <3>2. CASE ~complete
      <4>1. lastBroadcast' = lastBroadcast /\ lastBroadcastValid' = lastBroadcastValid
        BY <1>4, <3>2 DEF Send
      <4> QED
        BY <4>1 DEF TypeOK
    <3> QED
      BY <3>1, <3>2
  <2>2. \A t \in Topics : Message(t, v) \in Messages
    BY <1>1 DEF Messages
  <2>3. bus' \in [Topics -> {{}} \cup {{m} : m \in Messages}]
    BY <1>2, <1>4, <2>2 DEF Send
  <2>4. torn' \in BOOLEAN
    BY <1>4 DEF Send
  <2> QED
    BY <2>1, <2>3, <2>4
<1> QED
  BY <1>3, <1>4 DEF ChargerBroadcast

\* Every callback that broadcasts is a successful read and a broadcast of it.
LEMMA ReadAndBroadcastParts ==
    ASSUME TypeOK, NEW force \in BOOLEAN, ReadAndBroadcast(force)
    PROVE  \E s \in ChargerStatus :
              /\ currStatus' = s
              /\ ChargerBroadcast(s, force)
              /\ UNCHANGED <<batteryFull, plantVars>>
BY StatusesAssumption, ZeroedType DEF ReadAndBroadcast, ChargerRead

LEMMA NextCases ==
    ASSUME [Next]_vars
    PROVE  \/ \E force \in BOOLEAN : ReadAndBroadcast(force)
           \/ notifyStateChange
           \/ \E full \in BOOLEAN : ChargerNoteBattery(full)
           \/ PlugChanges
           \/ HubChanges
           \/ UNCHANGED vars
BY DEF Next, notifyChargerStatus, chargerStatusQuerySignal, chargerStatusQuery, ChargerResync

--------------------------------------------------------------------------------
\* Every variable keeps its type; in particular the record is a view.
THEOREM TypeCorrect == Spec => []TypeOK
<1>1. Init => TypeOK
  <2> SUFFICES ASSUME Init PROVE TypeOK
    OBVIOUS
  <2>1. lastBroadcast \in View
    BY DEF Init, NothingPlugged, View
  <2>2. bus \in [Topics -> {{}} \cup {{Message(t, w)} : t \in Topics, w \in View}]
    <3>1. bus = [t \in Topics |-> {}]
      BY DEF Init
    <3> QED
      BY <3>1
  <2>3. /\ currStatus \in ChargerStatus
        /\ lastBroadcastValid \in BOOLEAN
        /\ batteryFull \in BOOLEAN
        /\ torn \in BOOLEAN
        /\ status \in Statuses
        /\ readable \in BOOLEAN
        /\ down \in Outages
    BY ZeroedType DEF Init
  <2> QED
    BY <2>1, <2>2, <2>3 DEF TypeOK
<1>2. TypeOK /\ [Next]_vars => TypeOK'
  <2> SUFFICES ASSUME TypeOK, [Next]_vars PROVE TypeOK'
    OBVIOUS
  <2>1. ASSUME NEW force \in BOOLEAN, ReadAndBroadcast(force) PROVE TypeOK'
    <3>1. PICK s \in ChargerStatus :
              /\ currStatus' = s
              /\ ChargerBroadcast(s, force)
              /\ UNCHANGED <<batteryFull, plantVars>>
      BY <2>1, ReadAndBroadcastParts
    <3> QED
      BY <3>1, BroadcastType DEF TypeOK, plantVars, Messages
  <2>2. CASE notifyStateChange
    BY <2>2, StatusesAssumption, ZeroedType
       DEF notifyStateChange, ChargerRead, TypeOK, recordVars, plantVars
  <2>3. ASSUME NEW full \in BOOLEAN, ChargerNoteBattery(full) PROVE TypeOK'
    BY <2>3 DEF ChargerNoteBattery, TypeOK, recordVars, plantVars
  <2>4. CASE PlugChanges
    <3>1. status' \in Statuses /\ readable' \in BOOLEAN
      <4>1. CASE status' \in Statuses \ {status} /\ readable' = readable
        BY <4>1 DEF TypeOK
      <4>2. CASE readable' = ~readable /\ status' = status
        <5>1. status \in Statuses /\ readable \in BOOLEAN
          BY DEF TypeOK
        <5>2. (~readable) \in BOOLEAN
          OBVIOUS
        <5> QED
          BY <4>2, <5>1, <5>2
      <4> QED
        BY <2>4, <4>1, <4>2 DEF PlugChanges
    <3> QED
      BY <2>4, <3>1 DEF PlugChanges, TypeOK, recordVars
  <2>5. CASE HubChanges
    BY <2>5 DEF HubChanges, TypeOK, recordVars
  <2>6. CASE UNCHANGED vars
    BY <2>6 DEF TypeOK, vars, recordVars, plantVars
  <2> QED
    BY <2>1, <2>2, <2>3, <2>4, <2>5, <2>6, NextCases
<1> QED
  BY <1>1, <1>2, PTL DEF Spec

\* The topics a broadcast leaves out say nothing that has changed.
LEMMA UnannouncedStillRight ==
    ASSUME TypeOK, lastBroadcastValid, Tells(lastBroadcast),
           NEW v \in View, NEW force \in BOOLEAN,
           NEW t \in Topics \ Announced(v, force)
    PROVE  bus[t] = {Message(t, v)}
<1>1. /\ lastBroadcast.any = v.any
      /\ t \notin {"USBDockStatus", "chargerStatus"}
  BY DEF Announced
<1>2. Message(t, v) = Message(t, lastBroadcast)
  BY <1>1 DEF Message
<1> QED
  BY <1>2 DEF Tells

\* A broadcast that reaches every topic it goes to tells all of them the same
\* view and records it, if the others had not missed one before.
LEMMA BroadcastTellsRecord ==
    ASSUME TypeOK, RecordIsWhatBusWasTold,
           NEW s \in ChargerStatus, NEW force \in BOOLEAN,
           ChargerBroadcast(s, force)
    PROVE  RecordIsWhatBusWasTold'
<1> DEFINE v == ChargerView(s)
           topics == Announced(v, force)
<1>1. v \in View
  BY ViewType DEF TypeOK, ChargerView
<1>2. CASE UNCHANGED recordVars
  BY <1>2 DEF recordVars, RecordIsWhatBusWasTold, Tells
<1>3. ASSUME Send(v, topics), ~torn'
      PROVE  lastBroadcastValid' /\ Tells(lastBroadcast)'
  <2>1. topics \cap down = {} /\ (topics = Topics \/ ~torn)
    BY <1>3 DEF Send
  <2>2. lastBroadcast' = v /\ lastBroadcastValid' = TRUE
    BY <1>3, <2>1 DEF Send
  <2>3. ASSUME NEW t \in Topics
        PROVE  bus'[t] = {Message(t, v)}
    <3>1. bus'[t] = IF t \in topics THEN {Message(t, v)} ELSE bus[t]
      BY <1>3, <2>1 DEF Send
    <3>2. CASE t \notin topics
      <4>1. lastBroadcastValid
        BY <3>2 DEF Announced
      <4>2. Tells(lastBroadcast)
        BY <2>1, <3>2, <4>1 DEF RecordIsWhatBusWasTold
      <4> QED
        BY <1>1, <3>1, <3>2, <4>1, <4>2, UnannouncedStillRight
    <3> QED
      BY <3>1, <3>2
  <2> QED
    BY <2>2, <2>3 DEF Tells
<1> QED
  BY <1>2, <1>3 DEF ChargerBroadcast, RecordIsWhatBusWasTold

\* Whatever topics fail and when: unless a topic has missed a broadcast that no
\* broadcast to all has followed, every topic was last told the one recorded
\* view, so no two of them disagree about the charger.
THEOREM TopicsAgree == Spec => []RecordIsWhatBusWasTold
<1>1. Init => RecordIsWhatBusWasTold
  BY DEF Init, RecordIsWhatBusWasTold
<1>2. TypeOK /\ RecordIsWhatBusWasTold /\ [Next]_vars => RecordIsWhatBusWasTold'
  <2> SUFFICES ASSUME TypeOK, RecordIsWhatBusWasTold, [Next]_vars
               PROVE  RecordIsWhatBusWasTold'
    OBVIOUS
  <2>1. ASSUME NEW force \in BOOLEAN, ReadAndBroadcast(force)
        PROVE  RecordIsWhatBusWasTold'
    BY <2>1, ReadAndBroadcastParts, BroadcastTellsRecord
  <2>2. ASSUME UNCHANGED recordVars PROVE RecordIsWhatBusWasTold'
    BY <2>2 DEF recordVars, RecordIsWhatBusWasTold, Tells
  <2>3. CASE \/ notifyStateChange
             \/ \E full \in BOOLEAN : ChargerNoteBattery(full)
             \/ PlugChanges
             \/ HubChanges
             \/ UNCHANGED vars
    BY <2>2, <2>3 DEF notifyStateChange, ChargerNoteBattery, PlugChanges, HubChanges, vars
  <2> QED
    BY <2>1, <2>3, NextCases
<1> QED
  BY <1>1, <1>2, TypeCorrect, PTL DEF Spec

--------------------------------------------------------------------------------
\* What a broadcast says of an unplug is what nyx answered just now: a topic
\* that comes to say "not connected" is told so of a status that shows nothing,
\* whatever topics fail.
LEMMA UnplugWasRead ==
    ASSUME TypeOK, NEW force \in BOOLEAN, ReadAndBroadcast(force),
           bus["chargerConnected"] # {[connected |-> FALSE]},
           bus'["chargerConnected"] = {[connected |-> FALSE]}
    PROVE  ~charger_view(status).any
<1> DEFINE v == ChargerView(status)
           t == "chargerConnected"
<1>1. ChargerBroadcast(status, force)
  BY DEF ReadAndBroadcast, ChargerRead
<1>2. Send(v, Announced(v, force))
  BY <1>1 DEF ChargerBroadcast, recordVars
<1>3. t \in Topics
  BY DEF Topics
<1>4. bus'[t] = IF t \in Announced(v, force) \ down THEN {Message(t, v)} ELSE bus[t]
  BY <1>2, <1>3 DEF Send
<1>5. bus'[t] = {Message(t, v)}
  BY <1>4
<1>6. Message(t, v) = [connected |-> v.any]
  BY DEF Message
<1>7. v.any = FALSE
  <2>1. [connected |-> v.any] = [connected |-> FALSE]
    BY <1>5, <1>6
  <2> QED
    BY <2>1
<1>8. v.any = charger_view(status).any
  BY DEF ChargerView, ViewOf, charger_view
<1> QED
  BY <1>7, <1>8

\* sleepd is never told of an unplug that nyx has not just shown, for any set
\* of statuses and of outages: a query that fails says nothing.
THEOREM UnplugIsReal == Spec => NoPhantomUnplug
<1>1. TypeOK /\ [Next]_vars =>
        [/\ bus["chargerConnected"] # {[connected |-> FALSE]}
         /\ bus'["chargerConnected"] = {[connected |-> FALSE]}
         => ~charger_view(status).any]_vars
  <2> SUFFICES ASSUME TypeOK, [Next]_vars,
                      bus["chargerConnected"] # {[connected |-> FALSE]},
                      bus'["chargerConnected"] = {[connected |-> FALSE]}
               PROVE  ~charger_view(status).any
    OBVIOUS
  <2>1. bus' # bus
    OBVIOUS
  <2>2. \E force \in BOOLEAN : ReadAndBroadcast(force)
    BY <2>1, NextCases
       DEF notifyStateChange, ChargerNoteBattery, PlugChanges, HubChanges, vars, recordVars
  <2> QED
    BY <2>2, UnplugWasRead
<1> QED
  BY <1>1, TypeCorrect, PTL DEF Spec, NoPhantomUnplug
================================================================================
