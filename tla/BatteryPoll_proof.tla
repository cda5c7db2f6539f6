--------------------------- MODULE BatteryPoll_proof ---------------------------
(***************************************************************************)
(* What holds of the battery state machine for every set of readings,      *)
(* every authentication outcome, every debounce threshold and every fate   *)
(* of the signals.                                                         *)
(***************************************************************************)
EXTENDS BatteryReport, TLAPS

\* Between two passes nothing is recorded as entered.
EnteredOnlyInPass == ~iterating => entered = {}

IInv ==
    /\ TypeOK
    /\ EnteredOnlyInPass
    /\ HandlerRunsOncePerPass
    /\ SearchFollowsRemoval

--------------------------------------------------------------------------------
\* The sample of a reading is a sample.
LEMMA SampleOfReading == TypeOK => SampleOf(battery) \in Sample
BY ReadingsAssumption DEF TypeOK, SampleOf, Sample, Reading

\* A handler that returns a state keeps the bookkeeping of the pass
\* (battery_state_iterate, batterypoll.c:222-247).
LEMMA ReturnKeepsPass ==
    ASSUME NEW next \in States, IInv, iterating, Return(next)
    PROVE  /\ state_node' \in States
           /\ state_node' = next
           /\ iterating' \in BOOLEAN
           /\ entered' \subseteq States
           /\ EnteredOnlyInPass'
           /\ HandlerRunsOncePerPass'
BY DEF Return, EndPass, IInv, TypeOK, EnteredOnlyInPass, HandlerRunsOncePerPass

\* So does one that returns kBatteryLast.
LEMMA ReturnLastKeepsPass ==
    ASSUME IInv, ReturnLast
    PROVE  /\ state_node' \in States
           /\ state_node' = state_node
           /\ iterating' \in BOOLEAN
           /\ entered' \subseteq States
           /\ EnteredOnlyInPass'
           /\ HandlerRunsOncePerPass'
BY DEF ReturnLast, EndPass, IInv, TypeOK, EnteredOnlyInPass, HandlerRunsOncePerPass

\* Reporting a sample stores samples only.
LEMMA ReportType == ASSUME TypeOK, Report PROVE last' \in Sample
BY SampleOfReading DEF Report, SampleIsNew, TypeOK

\* The handler shared by authentic and notauthentic.
LEMMA AuthenticOrNotKeepsIInv ==
    ASSUME IInv, iterating, state_node \in {"authentic", "notauthentic"},
           StateAuthenticOrNot
    PROVE  IInv'
<1>1. TypeOK /\ ~searching
  BY DEF IInv, SearchFollowsRemoval
<1>2. UNCHANGED <<debounce_bad, searching, battery>>
  BY DEF StateAuthenticOrNot
<1>3. CASE ReturnLast /\ UNCHANGED last
  BY <1>1, <1>2, <1>3, ReturnLastKeepsPass DEF IInv, TypeOK, SearchFollowsRemoval
<1>4. CASE Return("debounce") /\ UNCHANGED last
  <2>1. "debounce" \in States
    BY DEF States
  <2> QED
    BY <1>1, <1>2, <1>4, <2>1, ReturnKeepsPass DEF IInv, TypeOK, SearchFollowsRemoval
<1>5. CASE ReturnLast /\ Report
  BY <1>1, <1>2, <1>5, ReturnLastKeepsPass, ReportType
     DEF IInv, TypeOK, SearchFollowsRemoval
<1> QED
  BY <1>3, <1>4, <1>5 DEF StateAuthenticOrNot

LEMMA DebounceKeepsIInv == ASSUME IInv, StateDebounce PROVE IInv'
<1>1. TypeOK /\ iterating /\ state_node = "debounce"
  BY DEF IInv, StateDebounce, Running
<1>2. UNCHANGED <<last, battery>>
  BY DEF StateDebounce
<1>3. CASE ReturnLast /\ UNCHANGED <<debounce_bad, searching>>
  BY <1>1, <1>2, <1>3, ReturnLastKeepsPass DEF IInv, TypeOK, SearchFollowsRemoval
<1>4. CASE debounce_bad' = 0 /\ Return("inserted") /\ UNCHANGED searching
  <2>1. "inserted" \in States /\ 0 \in BadCounts
    BY ThresholdAssumption DEF States, BadCounts
  <2> QED
    BY <1>1, <1>2, <1>4, <2>1, ReturnKeepsPass DEF IInv, TypeOK, SearchFollowsRemoval
<1>5. CASE /\ debounce_bad < BAD_SAMPLES_THRESHOLD
           /\ debounce_bad' = debounce_bad + 1
           /\ ReturnLast
           /\ UNCHANGED searching
  <2>1. debounce_bad' \in BadCounts
    BY <1>1, <1>5, ThresholdAssumption DEF TypeOK, BadCounts
  <2> QED
    BY <1>1, <1>2, <1>5, <2>1, ReturnLastKeepsPass DEF IInv, TypeOK, SearchFollowsRemoval
<1>6. CASE /\ debounce_bad' = BAD_SAMPLES_THRESHOLD + 1
           /\ searching' = TRUE
           /\ Return("removed")
  <2>1. "removed" \in States /\ debounce_bad' \in BadCounts
    BY <1>6, ThresholdAssumption DEF States, BadCounts
  <2> QED
    BY <1>1, <1>2, <1>6, <2>1, ReturnKeepsPass DEF IInv, TypeOK, SearchFollowsRemoval
<1> QED
  BY <1>3, <1>4, <1>5, <1>6 DEF StateDebounce

LEMMA RemovedKeepsIInv == ASSUME IInv, StateRemoved PROVE IInv'
<1>1. TypeOK /\ iterating /\ state_node = "removed"
  BY DEF IInv, StateRemoved, Running
<1>2. UNCHANGED <<debounce_bad, last, searching, battery>>
  BY DEF StateRemoved
<1>3. CASE Return("inserted")
  <2>1. "inserted" \in States
    BY DEF States
  <2> QED
    BY <1>1, <1>2, <1>3, <2>1, ReturnKeepsPass DEF IInv, TypeOK, SearchFollowsRemoval
<1>4. CASE ReturnLast
  BY <1>1, <1>2, <1>4, ReturnLastKeepsPass DEF IInv, TypeOK, SearchFollowsRemoval
<1> QED
  BY <1>3, <1>4 DEF StateRemoved

LEMMA InsertedKeepsIInv == ASSUME IInv, StateInserted PROVE IInv'
<1>1. TypeOK /\ iterating
  BY DEF IInv, StateInserted, Running
<1>2. UNCHANGED <<debounce_bad, last, battery>> /\ searching' = FALSE
  BY DEF StateInserted
<1>3. PICK next \in {"authentic", "notauthentic"} : Return(next)
  BY DEF StateInserted
<1>4. next \in States
  BY DEF States
<1> QED
  BY <1>1, <1>2, <1>3, <1>4, ReturnKeepsPass DEF IInv, TypeOK, SearchFollowsRemoval

LEMMA NotAuthenticKeepsIInv == ASSUME IInv, StateNotAuthentic PROVE IInv'
<1>1. TypeOK /\ iterating /\ state_node = "notauthentic" /\ ~searching
  BY DEF IInv, StateNotAuthentic, Running, SearchFollowsRemoval
<1>2. CASE /\ Return("authentic")
           /\ UNCHANGED <<debounce_bad, last, searching, battery>>
  <2>1. "authentic" \in States
    BY DEF States
  <2> QED
    BY <1>1, <1>2, <2>1, ReturnKeepsPass DEF IInv, TypeOK, SearchFollowsRemoval
<1>3. CASE StateAuthenticOrNot
  BY <1>1, <1>3, AuthenticOrNotKeepsIInv
<1> QED
  BY <1>2, <1>3 DEF StateNotAuthentic

--------------------------------------------------------------------------------
\* The poll starts with nothing entered and no search to end.
LEMMA InitImpliesIInv == Init => IInv
<1> SUFFICES ASSUME Init PROVE IInv
  OBVIOUS
<1>1. TypeOK
  BY ThresholdAssumption DEF Init, TypeOK, States, BadCounts, Sample
<1> QED
  BY <1>1 DEF Init, IInv, EnteredOnlyInPass, HandlerRunsOncePerPass, SearchFollowsRemoval

\* IInv is inductive: one step per handler, the start of a pass and the
\* changes of the battery.
LEMMA NextKeepsIInv == IInv /\ [Next]_vars => IInv'
<1> SUFFICES ASSUME IInv, [Next]_vars PROVE IInv'
  OBVIOUS
<1>1. CASE StateRemoved
  BY <1>1, RemovedKeepsIInv
<1>2. CASE StateDebounce
  BY <1>2, DebounceKeepsIInv
<1>3. CASE StateInserted
  BY <1>3, InsertedKeepsIInv
<1>4. CASE StateAuthentic
  BY <1>4, AuthenticOrNotKeepsIInv DEF StateAuthentic, Running
<1>5. CASE StateNotAuthentic
  BY <1>5, NotAuthenticKeepsIInv
<1>6. CASE battery_state_iterate
  BY <1>6 DEF battery_state_iterate, IInv, TypeOK, EnteredOnlyInPass,
     HandlerRunsOncePerPass, SearchFollowsRemoval
<1>7. CASE BatteryChanges
  BY <1>7 DEF BatteryChanges, IInv, TypeOK, EnteredOnlyInPass,
     HandlerRunsOncePerPass, SearchFollowsRemoval
<1>8. CASE UNCHANGED vars
  BY <1>8 DEF vars, IInv, TypeOK, EnteredOnlyInPass,
     HandlerRunsOncePerPass, SearchFollowsRemoval
<1> QED
  BY <1>1, <1>2, <1>3, <1>4, <1>5, <1>6, <1>7, <1>8 DEF Next, Handler

\* The invariant holds in every state of a run.
THEOREM IInvInvariant == Spec => []IInv
BY InitImpliesIInv, NextKeepsIInv, PTL DEF Spec

\* Every variable keeps its type.
THEOREM TypeCorrect == Spec => []TypeOK
BY IInvInvariant, PTL DEF IInv

\* No pass of battery_state_iterate() runs a handler twice, whatever the
\* battery answers to each of its reads.
THEOREM PassIsGuarded == Spec => []HandlerRunsOncePerPass
BY IInvInvariant, PTL DEF IInv

\* The w1 search is on while a battery is missing and off once one is known.
THEOREM SearchIsRight == Spec => []SearchFollowsRemoval
BY IInvInvariant, PTL DEF IInv

\* A battery is declared removed only by a reading that shows none.
THEOREM RemovalNeedsReading == Spec => RemovalIsSeen
<1>1. [Next]_vars => (/\ state_node # "removed"
                      /\ state_node' = "removed"
                      => battery.ok /\ ~battery.present)
  <2> SUFFICES ASSUME Next, state_node # "removed", state_node' = "removed"
               PROVE  battery.ok /\ ~battery.present
    BY DEF vars
  <2>1. CASE StateRemoved
    BY <2>1 DEF StateRemoved, Running
  <2>2. CASE StateDebounce
    BY <2>2 DEF StateDebounce, Running, Return, ReturnLast
  <2>3. CASE StateInserted
    BY <2>3 DEF StateInserted, Running, Return
  <2>4. CASE StateAuthentic
    BY <2>4 DEF StateAuthentic, StateAuthenticOrNot, Return, ReturnLast
  <2>5. CASE StateNotAuthentic
    BY <2>5 DEF StateNotAuthentic, StateAuthenticOrNot, Return, ReturnLast
  <2>6. CASE battery_state_iterate \/ BatteryChanges
    BY <2>6 DEF battery_state_iterate, BatteryChanges
  <2> QED
    BY <2>1, <2>2, <2>3, <2>4, <2>5, <2>6 DEF Next, Handler
<1> QED
  BY <1>1, PTL DEF Spec, RemovalIsSeen

--------------------------------------------------------------------------------
(***************************************************************************)
(* What becomes of the reports.                                            *)
(***************************************************************************)

\* What was looked at since the last signal is within the tolerance of the
\* sample that sample_is_new() compares with.
SilentIsNear ==
    /\ silent \subseteq Sample
    /\ ~lost => \A sample \in silent : Near(sample, last)

LEMMA NearItself == ASSUME NEW s \in Sample PROVE Near(s, s)
BY DEF Sample, Near, AbsDiff

\* Two samples near a third are of its percentage and two degrees apart.
LEMMA NearTheSame ==
    ASSUME NEW a \in Sample, NEW b \in Sample, NEW c \in Sample,
           Near(a, c), Near(b, c)
    PROVE  /\ a.percentage = b.percentage
           /\ AbsDiff(a.temperature, b.temperature) <= 2
BY DEF Sample, Near, AbsDiff

\* A step with the reports is a step of the poll.
LEMMA ReportsChangeNothing == [ReportNext]_ReportVars => [Next]_vars
BY DEF ReportNext, ReportVars, OtherSender, Next

\* sample_is_new() leaves its memory alone outside the handlers' last lines.
LEMMA LastIsKept ==
    ASSUME Handler, ~Looked
    PROVE  UNCHANGED last
<1>1. CASE StateAuthentic \/ StateNotAuthentic
  <2>1. Running("authentic") \/ Running("notauthentic")
    BY <1>1 DEF StateAuthentic, StateNotAuthentic
  <2>2. ASSUME StateAuthenticOrNot PROVE UNCHANGED last
    BY <2>1, <2>2 DEF StateAuthenticOrNot, Looked, ReturnLast, EndPass
  <2> QED
    BY <1>1, <2>2 DEF StateAuthentic, StateNotAuthentic
<1>2. CASE StateRemoved \/ StateDebounce \/ StateInserted
  BY <1>2 DEF StateRemoved, StateDebounce, StateInserted
<1> QED
  BY <1>1, <1>2 DEF Handler

\* A signal that is sent leaves nothing to be near to.
LEMMA SendKeepsSilence ==
    ASSUME NEW unsent \in SUBSET Sample, NEW unsentReport,
           sendBatteryStatus(unsent, unsentReport),
           ~unsentReport => \A sample \in unsent : Near(sample, last')
    PROVE  SilentIsNear'
<1>1. CASE silent' = {} /\ lost' = FALSE
  BY <1>1 DEF SilentIsNear
<1>2. CASE silent' = unsent /\ lost' = unsentReport
  BY <1>2 DEF SilentIsNear
<1> QED
  BY <1>1, <1>2 DEF sendBatteryStatus

LEMMA SilentIsNearStep ==
    ASSUME TypeOK, SilentIsNear, [ReportNext]_ReportVars
    PROVE  SilentIsNear'
<1>1. SampleOf(battery) \in Sample /\ WithThisSample \in SUBSET Sample
  BY SampleOfReading DEF WithThisSample, SilentIsNear
<1>2. CASE Looked /\ SampleIsNew(TRUE) /\ sendBatteryStatus(WithThisSample, TRUE)
  BY <1>1, <1>2, SendKeepsSilence
<1>3. CASE SampleIsNew(FALSE) /\ silent' = WithThisSample /\ UNCHANGED lost
  <2>1. Near(SampleOf(battery), last) /\ last' = last
    BY <1>3 DEF SampleIsNew
  <2> QED
    BY <1>1, <1>3, <2>1 DEF SilentIsNear, WithThisSample
<1>4. CASE Handler /\ ~Looked /\ UNCHANGED <<silent, lost>>
  BY <1>4, LastIsKept DEF SilentIsNear
<1>5. CASE (battery_state_iterate \/ BatteryChanges) /\ UNCHANGED <<silent, lost>>
  BY <1>5 DEF SilentIsNear, battery_state_iterate, BatteryChanges
<1>6. CASE OtherSender
  <2>1. silent \in SUBSET Sample /\ last' = last
    BY <1>6 DEF SilentIsNear, OtherSender, vars
  <2>2. sendBatteryStatus(silent, lost)
    BY <1>6 DEF OtherSender
  <2>3. ~lost => \A sample \in silent : Near(sample, last')
    BY <2>1 DEF SilentIsNear
  <2> QED
    BY <2>1, <2>2, <2>3, SendKeepsSilence
<1>7. CASE UNCHANGED ReportVars
  BY <1>7 DEF SilentIsNear, ReportVars, vars
<1> QED
  BY <1>2, <1>3, <1>4, <1>5, <1>6, <1>7 DEF ReportNext, ReportIfNew

\* However slowly the samples creep, those looked at since the last
\* batteryStatus signal are no further apart than the tolerance of
\* sample_is_new() on both sides (batterypoll.c:182-195, :338-339), whoever
\* sent that signal and whatever it was answered by nyx, for all readings; a
\* report that fails is the exception, until the next signal that goes out.
THEOREM CreepIsReported == ReportSpec => []NoChangeGoesUnreported
<1>1. ReportInit => Init /\ SilentIsNear
  BY DEF ReportInit, SilentIsNear
<1>2. IInv /\ [ReportNext]_ReportVars => IInv'
  BY ReportsChangeNothing, NextKeepsIInv
<1>3. IInv /\ SilentIsNear /\ [ReportNext]_ReportVars => SilentIsNear'
  BY SilentIsNearStep DEF IInv
<1>4. IInv /\ SilentIsNear => NoChangeGoesUnreported
  BY NearTheSame DEF IInv, TypeOK, SilentIsNear, NoChangeGoesUnreported
<1> QED
  BY <1>1, <1>2, <1>3, <1>4, InitImpliesIInv, PTL DEF ReportSpec
================================================================================
