----------------------------- MODULE BatteryReport -----------------------------
(***************************************************************************)
(* BatteryPoll with what becomes of its reports: the batteryStatus signal, *)
(* which sendBatteryStatus() (src/batteryd/charging/battery.c) makes from  *)
(* a query of its own, and which others send as well.                      *)
(***************************************************************************)
EXTENDS BatteryPoll

CONSTANT SendOutcomes   \* whether nyx answers the query and the bus takes
                        \* the signal

ASSUME SendsAssumption == SendOutcomes \subseteq BOOLEAN

VARIABLES
    silent,     \* the samples handlers have looked at since the last signal
    lost        \* a report of a new sample failed, and no signal came since

ReportVars == <<vars, silent, lost>>

\* The handler of authentic or notauthentic has come to sample_is_new().
Looked ==
    /\ Running("authentic") \/ Running("notauthentic")
    /\ ~iterating' /\ state_node' = state_node
    /\ battery.ok /\ battery.present

\* A signal makes good for what was not told before it; one that fails is not
\* sent again, and leaves unsent and unsentReport.
sendBatteryStatus(unsent, unsentReport) ==
    \E sent \in SendOutcomes :
       \/ /\ sent
          /\ silent' = {}
          /\ lost' = FALSE
       \/ /\ ~sent
          /\ silent' = unsent
          /\ lost' = unsentReport

WithThisSample == silent \cup {SampleOf(battery)}

ReportInit == Init /\ silent = {} /\ lost = FALSE

\* StateAuthenticOrNot()'s last lines, which run within its handler.
ReportIfNew ==
    \/ /\ SampleIsNew(TRUE)
       /\ sendBatteryStatus(WithThisSample, TRUE)
    \/ /\ SampleIsNew(FALSE)
       /\ silent' = WithThisSample
       /\ UNCHANGED lost

\* The senders that sample_is_new() never hears of: notifyBatteryStatus(),
\* battery_set_wakeup_percentage() and batteryStatusQuerySignal().
OtherSender ==
    /\ ~iterating
    /\ sendBatteryStatus(silent, lost)
    /\ UNCHANGED vars

ReportNext ==
    \/ Handler /\ Looked /\ ReportIfNew
    \/ Handler /\ ~Looked /\ UNCHANGED <<silent, lost>>
    \/ battery_state_iterate /\ UNCHANGED <<silent, lost>>
    \/ BatteryChanges /\ UNCHANGED <<silent, lost>>
    \/ OtherSender

ReportSpec == ReportInit /\ [][ReportNext]_ReportVars /\ Fairness

\* A change is not let go by unreported, however slowly it creeps: the samples
\* that the poll has looked at since the last batteryStatus signal, by whom
\* ever it was sent, are of one percentage and no more than the tolerance to
\* either side apart, unless the report of a new sample could not be made
\* (sample_is_new remembers what was significant, not what was read last).
NoChangeGoesUnreported ==
    ~lost => \A a, b \in silent : /\ a.percentage = b.percentage
                                  /\ AbsDiff(a.temperature, b.temperature) <= 2
================================================================================
