-------------------------------- MODULE Charger --------------------------------
(***************************************************************************)
(* What batteryd tells the bus about the charger                           *)
(* (src/batteryd/charging/charger.c).                                      *)
(*                                                                         *)
(* nyx's callbacks can be missed, so every read of the charger, whoever    *)
(* asked for it, is compared with what the bus was last told, and a timer  *)
(* reads it too.  Every handler runs to its end on the main loop's thread, *)
(* so each is one step.                                                    *)
(***************************************************************************)
EXTENDS Eval

CONSTANTS
    Statuses,   \* what nyx can answer about the charger
    Outages     \* the sets of topics that LSSignalSend() may fail on

Topics == {"USBDockStatus", "chargerStatus", "chargerConnected", "rootConnected"}

ASSUME StatusesAssumption == Statuses \subseteq ChargerStatus
ASSUME OutagesAssumption == Outages \subseteq SUBSET Topics

VARIABLES
    currStatus,         \* the last successful read: answers ChargerIs*()
    lastBroadcast,      \* the view the bus was last told in full
    lastBroadcastValid,
    batteryFull,        \* the battery is full: nothing charges it
    bus,                \* per topic, the last message sent, if any
    torn,               \* history: since a broadcast reached all topics, one failed
    status,             \* what is plugged in
    readable,           \* nyx answers queries about it
    down                \* the topics that cannot be sent on at present

recordVars == <<lastBroadcast, lastBroadcastValid, bus, torn>>
plantVars == <<status, readable, down>>
vars == <<currStatus, recordVars, batteryFull, plantVars>>

\* What a message on topic t says of the view v.  The names and currents that
\* some also carry no decision looks at.
Message(t, v) ==
    CASE t = "USBDockStatus" ->
            [wired |-> v.wired, dock |-> v.dock, charging |-> v.charging]
      [] t = "chargerStatus" ->
            [type |-> charger_view_type(v), connected |-> v.any]
      [] OTHER ->
            [connected |-> v.any]

TypeOK ==
    /\ currStatus \in ChargerStatus
    /\ lastBroadcast \in View
    /\ lastBroadcastValid \in BOOLEAN
    /\ batteryFull \in BOOLEAN
    /\ bus \in [Topics -> {{}} \cup {{Message(t, v)} : t \in Topics, v \in View}]
    /\ torn \in BOOLEAN
    /\ status \in Statuses
    /\ readable \in BOOLEAN
    /\ down \in Outages

NothingPlugged == [wired |-> FALSE, dock |-> FALSE, any |-> FALSE, charging |-> FALSE]

\* ChargerInit().
Init ==
    /\ currStatus = ZeroedStatus
    /\ lastBroadcast = NothingPlugged
    /\ lastBroadcastValid = FALSE
    /\ batteryFull = FALSE
    /\ bus = [t \in Topics |-> {}]
    /\ torn = FALSE
    /\ status \in Statuses
    /\ readable \in BOOLEAN
    /\ down \in Outages

--------------------------------------------------------------------------------

\* The view of s that is told while the battery is full or is not.
ViewOf(s, full) ==
    [charger_view(s) EXCEPT !.charging = @ /\ ~full]

ChargerView(s) == ViewOf(s, batteryFull)

ChargerIsConnected == ChargerView(currStatus).any

ChargerIsCharging == currStatus.is_charging

\* Fault: a query that fails is believed, zeroes and all.
TrustingRead(s) ==
    /\ s = IF readable THEN status ELSE ZeroedStatus
    /\ currStatus' = s

\* ChargerRead() succeeds with s.
ChargerRead(s) ==
    /\ readable
    /\ s = status
    /\ currStatus' = s

\* Fault: the comparison is with the last read instead of the last broadcast.
ChangedSinceRead(v) ==
    ~lastBroadcastValid \/ charger_view_differs(ChargerView(currStatus), v)

Changed(v) ==
    ~lastBroadcastValid \/ charger_view_differs(lastBroadcast, v)

\* Fault: only a cable coming or going is announced to sleepd.
AnnouncedForCables(v, force) ==
    IF force \/ ~lastBroadcastValid \/ lastBroadcast.wired # v.wired
      THEN Topics
      ELSE {"USBDockStatus", "chargerStatus"}

\* The topics a broadcast of v goes to: chargerConnected only when it changes.
Announced(v, force) ==
    IF force \/ ~lastBroadcastValid \/ lastBroadcast.any # v.any
      THEN Topics
      ELSE {"USBDockStatus", "chargerStatus"}

\* Everything is sent that can be; the record is kept only if everything was.
Send(v, topics) ==
    /\ bus' = [t \in Topics |-> IF t \in topics \ down THEN {Message(t, v)} ELSE bus[t]]
    /\ IF topics \cap down = {}
         THEN lastBroadcast' = v /\ lastBroadcastValid' = TRUE
         ELSE UNCHANGED <<lastBroadcast, lastBroadcastValid>>
    /\ torn' = (topics \cap down # {} \/ (torn /\ topics # Topics))

ChargerBroadcast(s, force) ==
    LET v == ChargerView(s)
    IN  IF force \/ Changed(v)
          THEN Send(v, Announced(v, force))
          ELSE UNCHANGED recordVars

\* Read the charger, and broadcast it if it differs or always when force.
ReadAndBroadcast(force) ==
    /\ \E s \in Statuses \cup {ZeroedStatus} :
          /\ ChargerRead(s)
          /\ ChargerBroadcast(s, force)
    /\ UNCHANGED <<batteryFull, plantVars>>

--------------------------------------------------------------------------------
(***************************************************************************)
(* The callbacks.  A read that fails returns at once and changes nothing.  *)
(***************************************************************************)

\* nyx reports a new status; sendChargerStatus(true).
notifyChargerStatus == ReadAndBroadcast(FALSE)

\* A client sends the chargerStatusQuery signal; sendChargerStatus(false).
chargerStatusQuerySignal == ReadAndBroadcast(TRUE)

\* A client calls chargerStatusQuery: it is answered out of the same read.
chargerStatusQuery == ReadAndBroadcast(FALSE)

\* Every CHARGER_RESYNC_SECONDS, and when nyx reports new battery readings.
ChargerResync == ReadAndBroadcast(FALSE)

\* nyx reports an event: the charger is read for the charging logic's sake.
notifyStateChange ==
    /\ \E s \in Statuses \cup {ZeroedStatus} : ChargerRead(s)
    /\ UNCHANGED <<recordVars, batteryFull, plantVars>>

\* A battery payload is built: full is what it says of the battery.
ChargerNoteBattery(full) ==
    /\ full # batteryFull
    /\ batteryFull' = full
    /\ UNCHANGED <<currStatus, recordVars, plantVars>>

--------------------------------------------------------------------------------

\* A charger comes or goes, or is told apart better; nyx stops or resumes
\* answering.
PlugChanges ==
    /\ \/ status' \in Statuses \ {status} /\ UNCHANGED readable
       \/ readable' = ~readable /\ UNCHANGED status
    /\ UNCHANGED <<currStatus, recordVars, batteryFull, down>>

\* The bus loses or regains topics.
HubChanges ==
    /\ down' \in Outages \ {down}
    /\ UNCHANGED <<currStatus, recordVars, batteryFull, status, readable>>

Next ==
    \/ notifyChargerStatus
    \/ chargerStatusQuerySignal
    \/ chargerStatusQuery
    \/ ChargerResync
    \/ notifyStateChange
    \/ \E full \in BOOLEAN : ChargerNoteBattery(full)
    \/ PlugChanges
    \/ HubChanges

\* Only the timer is sure to come: nyx may never call, and no client has to.
Fairness == WF_vars(ChargerResync)

Spec == Init /\ [][Next]_vars /\ Fairness

--------------------------------------------------------------------------------
(***************************************************************************)
(* Properties.                                                             *)
(***************************************************************************)

Tells(v) == \A t \in Topics : bus[t] = {Message(t, v)}

\* charger.c:57-62 and charger_eval.h:22: unless a send has failed, the record
\* is what every topic was last told, so that no two subscribers, of whichever
\* topic, are told of different chargers, and no reads between two broadcasts
\* make them differ.  A broadcast that reaches every topic mends what failed.
RecordIsWhatBusWasTold ==
    ~torn =>
        /\ lastBroadcastValid => Tells(lastBroadcast)
        /\ ~lastBroadcastValid => bus = [t \in Topics |-> {}]

\* sleepd is not told that the charger is gone because nyx did not answer: the
\* last unplug it heard of was one.
NoPhantomUnplug ==
    [][/\ bus["chargerConnected"] # {[connected |-> FALSE]}
       /\ bus'["chargerConnected"] = {[connected |-> FALSE]}
       => ~charger_view(status).any]_vars

Stable(s, full) == status = s /\ readable /\ batteryFull = full /\ down = {}

\* A charger that stays as it is, with nyx answering and the bus up, is in the
\* end what every topic tells, even if nyx never says that it came, whatever
\* was read in between and with the battery's fullness taken into account.
StableChargerIsTold ==
    \A s \in Statuses, full \in BOOLEAN :
        <>[](Stable(s, full) /\ ~torn) => <>[]Tells(ViewOf(s, full))
================================================================================
