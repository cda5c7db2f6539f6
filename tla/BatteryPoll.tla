------------------------------ MODULE BatteryPoll ------------------------------
(***************************************************************************)
(* The battery presence state machine of batteryd                          *)
(* (src/batteryd/charging/batterypoll.c).                                  *)
(*                                                                         *)
(* battery_state_iterate() runs one pass: it calls the handler of the      *)
(* current state until a handler returns kBatteryLast or a state would be  *)
(* entered a second time.  Here a pass is a sequence of steps, one per     *)
(* handler call, and the battery may change between two of them, because   *)
(* every handler reads it afresh.                                          *)
(***************************************************************************)
EXTENDS Integers

CONSTANTS
    Readings,               \* what battery_read() can answer
    AuthOutcomes,           \* what battery_authenticate() can answer
    BAD_SAMPLES_THRESHOLD   \* batterypoll.c:108

\* The fields of nyx_battery_status_t that are looked at here; ~ok is a
\* battery_read() that returned false.
Reading == [ok : BOOLEAN, present : BOOLEAN,
            percentage : Int, temperature : Int]

Sample == [percentage : Int, temperature : Int]

ASSUME ReadingsAssumption == Readings \subseteq Reading
ASSUME OutcomesAssumption == AuthOutcomes \subseteq BOOLEAN
ASSUME ThresholdAssumption == BAD_SAMPLES_THRESHOLD \in Nat

VARIABLES
    state_node,     \* the state whose handler runs next
    debounce_bad,   \* StateDebounce's count of readings without a battery
    last,           \* sample_is_new's last significant sample
    searching,      \* the w1 master is searching for a battery
    iterating,      \* a pass of battery_state_iterate() is under way
    entered,        \* the states the pass has run the handler of
    battery         \* what the next battery_read() will answer

vars == <<state_node, debounce_bad, last, searching, iterating, entered,
          battery>>

States == {"removed", "debounce", "inserted", "authentic", "notauthentic"}

\* debounce_bad is only ever compared with the threshold, so counting stops
\* one above it.
BadCounts == 0..(BAD_SAMPLES_THRESHOLD + 1)

TypeOK ==
    /\ state_node \in States
    /\ debounce_bad \in BadCounts
    /\ last \in Sample
    /\ searching \in BOOLEAN
    /\ iterating \in BOOLEAN
    /\ entered \subseteq States
    /\ battery \in Readings

BatteryIsAuthentic == state_node = "authentic"

BatteryIsPresent == state_node # "removed"

\* batterypoll_init(): the machine starts in debounce with a pass to run.
Init ==
    /\ state_node = "debounce"
    /\ debounce_bad = 0
    /\ last = [percentage |-> 0, temperature |-> 0]
    /\ searching \in BOOLEAN
    /\ iterating = TRUE
    /\ entered = {}
    /\ battery \in Readings

--------------------------------------------------------------------------------
(***************************************************************************)
(* How a pass goes on after a handler.                                     *)
(***************************************************************************)

EndPass ==
    /\ iterating' = FALSE
    /\ entered' = {}

\* Fault: the pseudo-state kBatteryLast is entered like a state.
ReturnIntoLast ==
    /\ EndPass
    /\ state_node' = "last"

\* The handler returned kBatteryLast.
ReturnLast ==
    /\ EndPass
    /\ UNCHANGED state_node

\* Fault: the pass goes on into a state whose handler it has already run.
UnguardedReturn(next) ==
    /\ state_node' = next
    /\ entered' = entered \cup {state_node}
    /\ UNCHANGED iterating

\* The handler returned state next: the transition is applied, and the pass
\* goes on unless it has already run the handler of next.
Return(next) ==
    /\ state_node' = next
    /\ \/ /\ next \notin entered \cup {state_node}
          /\ entered' = entered \cup {state_node}
          /\ UNCHANGED iterating
       \/ /\ next \in entered \cup {state_node}
          /\ EndPass

Running(state) == iterating /\ state_node = state

AbsDiff(a, b) == IF a < b THEN b - a ELSE a - b

SampleOf(reading) == [percentage  |-> reading.percentage,
                      temperature |-> reading.temperature]

\* Percentages are reported to the point, temperatures to one degree.
Near(a, b) == /\ a.percentage = b.percentage
              /\ AbsDiff(a.temperature, b.temperature) <= 1

\* Fault: every sample becomes the one to compare with, reported or not.
ForgetfulSampleIsNew(new) ==
    /\ last' = SampleOf(battery)
    /\ new = ~Near(SampleOf(battery), last)

\* sample_is_new() answers new.
SampleIsNew(new) ==
    \/ /\ new = TRUE
       /\ ~Near(SampleOf(battery), last)
       /\ last' = SampleOf(battery)
    \/ /\ new = FALSE
       /\ Near(SampleOf(battery), last)
       /\ UNCHANGED last

--------------------------------------------------------------------------------
(***************************************************************************)
(* The state handlers.                                                     *)
(***************************************************************************)

\* Fault: a failed read leaves the zeroed structure, which is then believed.
TrustingStateDebounce ==
    /\ Running("debounce")
    /\ \/ /\ battery.ok /\ battery.present
          /\ debounce_bad' = 0
          /\ Return("inserted")
          /\ UNCHANGED searching
       \/ /\ ~(battery.ok /\ battery.present)
          /\ debounce_bad < BAD_SAMPLES_THRESHOLD
          /\ debounce_bad' = debounce_bad + 1
          /\ ReturnLast
          /\ UNCHANGED searching
       \/ /\ ~(battery.ok /\ battery.present)
          /\ debounce_bad >= BAD_SAMPLES_THRESHOLD
          /\ debounce_bad' = BAD_SAMPLES_THRESHOLD + 1
          /\ searching' = TRUE
          /\ Return("removed")
    /\ UNCHANGED <<last, battery>>

StateDebounce ==
    /\ Running("debounce")
    /\ \/ /\ ~battery.ok
          /\ ReturnLast
          /\ UNCHANGED <<debounce_bad, searching>>
       \/ /\ battery.ok /\ battery.present
          /\ debounce_bad' = 0
          /\ Return("inserted")
          /\ UNCHANGED searching
       \/ /\ battery.ok /\ ~battery.present
          /\ debounce_bad < BAD_SAMPLES_THRESHOLD
          /\ debounce_bad' = debounce_bad + 1
          /\ ReturnLast
          /\ UNCHANGED searching
       \/ /\ battery.ok /\ ~battery.present
          /\ debounce_bad >= BAD_SAMPLES_THRESHOLD
          /\ debounce_bad' = BAD_SAMPLES_THRESHOLD + 1
          /\ searching' = TRUE
          /\ Return("removed")
    /\ UNCHANGED <<last, battery>>

StateRemoved ==
    /\ Running("removed")
    /\ \/ /\ battery.ok /\ battery.present
          /\ Return("inserted")
       \/ /\ ~(battery.ok /\ battery.present)
          /\ ReturnLast
    /\ UNCHANGED <<debounce_bad, last, searching, battery>>

\* Fault: the search is left on once a battery is back.
StateInsertedStillSearching ==
    /\ Running("inserted")
    /\ \E authentic \in AuthOutcomes :
          Return(IF authentic THEN "authentic" ELSE "notauthentic")
    /\ UNCHANGED <<debounce_bad, last, searching, battery>>

StateInserted ==
    /\ Running("inserted")
    /\ searching' = FALSE
    /\ \E authentic \in AuthOutcomes :
          Return(IF authentic THEN "authentic" ELSE "notauthentic")
    /\ UNCHANGED <<debounce_bad, last, battery>>

\* A battery that is read and present is reported when its sample is new.  The
\* report, sendBatteryStatus(), asks nyx anew and changes nothing here: what
\* becomes of it is BatteryReport's.
Report == \E new \in BOOLEAN : SampleIsNew(new)

\* Its count of discharging readings only reaches the log, and is left out.
StateAuthenticOrNot ==
    /\ \/ /\ ~battery.ok
          /\ ReturnLast
          /\ UNCHANGED last
       \/ /\ battery.ok /\ ~battery.present
          /\ Return("debounce")
          /\ UNCHANGED last
       \/ /\ battery.ok /\ battery.present
          /\ ReturnLast
          /\ Report
    /\ UNCHANGED <<debounce_bad, searching, battery>>

StateAuthentic ==
    /\ Running("authentic")
    /\ StateAuthenticOrNot

StateNotAuthentic ==
    /\ Running("notauthentic")
    /\ \E authentic \in AuthOutcomes :
          \/ /\ authentic
             /\ Return("authentic")
             /\ UNCHANGED <<debounce_bad, last, searching, battery>>
          \/ /\ ~authentic
             /\ StateAuthenticOrNot

Handler ==
    \/ StateRemoved
    \/ StateDebounce
    \/ StateInserted
    \/ StateAuthentic
    \/ StateNotAuthentic

\* battery_state_iterate() is called: by handle_charger_event() on a present
\* or absent event, and after a resume.
battery_state_iterate ==
    /\ ~iterating
    /\ iterating' = TRUE
    /\ UNCHANGED <<state_node, debounce_bad, last, searching, entered,
                   battery>>

\* The battery is pulled, put back, drained, warmed or stops answering.
BatteryChanges ==
    /\ battery' \in Readings \ {battery}
    /\ UNCHANGED <<state_node, debounce_bad, last, searching, iterating,
                   entered>>

Next == Handler \/ battery_state_iterate \/ BatteryChanges

\* A pass runs to its end on the main loop's thread.  Nothing makes a pass
\* begin: no timer calls battery_state_iterate().
Fairness == WF_vars(Handler)

Spec == Init /\ [][Next]_vars /\ Fairness

--------------------------------------------------------------------------------
(***************************************************************************)
(* Properties.                                                             *)
(***************************************************************************)

\* No pass runs the handler of a state twice, however the battery flaps while
\* it runs (battery_state_iterate's re-entry guard).
HandlerRunsOncePerPass == iterating => state_node \notin entered

\* The w1 search is on exactly while a battery is missing: on in removed, off
\* once a battery has been authenticated or refused.
SearchFollowsRemoval ==
    /\ state_node = "removed" => searching
    /\ state_node \in {"authentic", "notauthentic"} => ~searching

\* The battery is declared removed, which shuts the device down, only on a
\* reading that was made and shows none: failed reads never add up to it.
RemovalIsSeen ==
    [][state_node # "removed" /\ state_node' = "removed"
          => battery.ok /\ ~battery.present]_vars

\* Every pass ends, whatever the battery does meanwhile: the main loop is not
\* blocked for ever.
EveryPassEnds == iterating ~> ~iterating

\* batterypoll.c:38: a battery missing in authentic or notauthentic is looked
\* at again three times before it is declared removed.
RemovalIsDebounced ==
    [][state_node = "debounce" /\ state_node' = "removed"
          => entered \cap {"authentic", "notauthentic"} = {}]_vars
================================================================================
