------------------------------ MODULE WaitObject -------------------------------
(***************************************************************************)
(* The wait object (src/libbatteryd/wait.c): a mutex, a condition variable *)
(* and the threads that use them, which lock before they wait (wait.c:79). *)
(* The condition variable is POSIX's: a signal wakes one waiter, which     *)
(* takes the mutex again before its wait returns, and a deadline that is   *)
(* no valid time fails.                                                    *)
(***************************************************************************)
EXTENDS Clock

CONSTANTS
    Threads,
    INT_SIZE,       \* 2^32: how many values an int has
    Waits,          \* the milliseconds that threads wait; negative is for ever
    Deltas,         \* the times that threads wait
    NoThread

ASSUME WaitsAssumption ==
    /\ INT_SIZE \in Nat \ {0}
    /\ Waits \subseteq Int
    /\ Deltas \subseteq Normalised
    /\ \A d \in Deltas : d.tv_sec >= 0
    /\ NoThread \notin Threads

VARIABLES
    owner,          \* who has the mutex
    at,             \* where each thread is
    until,          \* the deadline of its wait
    earliest,       \* history: when the time it asked for is over; -1 if it
                    \*   asked for milliseconds that are no whole seconds
    aborted         \* g_error() has ended the process

waitVars == <<owner, at, until, earliest, aborted>>

Forever == [tv_sec |-> -1, tv_nsec |-> 0]

Places == {"away", "holding", "waiting", "signalled", "timedout"}

WaitTypeOK ==
    /\ owner \in Threads \cup {NoThread}
    /\ at \in [Threads -> Places]
    /\ until \in [Threads -> Timespec]
    /\ earliest \in [Threads -> Int]
    /\ aborted \in BOOLEAN

WaitInit ==
    /\ owner = NoThread
    /\ at = [t \in Threads |-> "away"]
    /\ until = [t \in Threads |-> Forever]
    /\ earliest = [t \in Threads |-> -1]
    /\ aborted = FALSE

WaitObjectLock(t) ==
    /\ at[t] = "away" /\ owner = NoThread
    /\ owner' = t
    /\ at' = [at EXCEPT ![t] = "holding"]
    /\ UNCHANGED <<until, earliest, aborted>>

WaitObjectUnlock(t) ==
    /\ at[t] = "holding"
    /\ owner' = NoThread
    /\ at' = [at EXCEPT ![t] = "away"]
    /\ UNCHANGED <<until, earliest, aborted>>

\* An int that wraps.
Int32(n) == ((n + INT_SIZE \div 2) % INT_SIZE) - INT_SIZE \div 2

\* What WaitObjectWait() makes of ms: a thousand times too many nanoseconds.
DeltaOf(ms) ==
    IF ms < 0 THEN Forever
    ELSE [tv_sec  |-> ms \div MSEC_PER_SEC,
          tv_nsec |-> Int32((ms % MSEC_PER_SEC) * NSEC_PER_SEC)]

\* pthread_cond_timedwait() fails on a time that is not normalised, and
\* g_error() does not return.
WaitObjectWaitAbsTime(t, abstime) ==
    \/ /\ abstime \in Normalised
       /\ owner' = NoThread
       /\ at' = [at EXCEPT ![t] = "waiting"]
       /\ until' = [until EXCEPT ![t] = abstime]
       /\ UNCHANGED aborted
    \/ /\ abstime \notin Normalised
       /\ aborted' = TRUE
       /\ UNCHANGED <<owner, at, until>>

WaitObjectWaitTimeSpec(t, delta) ==
    /\ at[t] = "holding"
    /\ \/ /\ delta.tv_sec = -1
          /\ owner' = NoThread
          /\ at' = [at EXCEPT ![t] = "waiting"]
          /\ until' = [until EXCEPT ![t] = Forever]
          /\ UNCHANGED aborted
       \/ /\ delta.tv_sec # -1
          /\ WaitObjectWaitAbsTime(t, ClockAccum(ClockGetTime, delta))

WaitObjectWait(t) ==
    \E ms \in Waits :
        /\ WaitObjectWaitTimeSpec(t, DeltaOf(ms))
        /\ earliest' = [earliest EXCEPT ![t] =
              IF ms % MSEC_PER_SEC = 0 THEN now + ms * NSEC_PER_MSEC ELSE -1]

WaitForDelta(t) ==
    \E delta \in Deltas :
        /\ WaitObjectWaitTimeSpec(t, delta)
        /\ earliest' = [earliest EXCEPT ![t] = now + Nsec(delta)]

Waiting == {t \in Threads : at[t] = "waiting"}

Wakes(some) ==
    at' = [t \in Threads |-> IF t \in some THEN "signalled" ELSE at[t]]

Signal == IF Waiting = {} THEN UNCHANGED at ELSE \E t \in Waiting : Wakes({t})

\* Locking, waking and unlocking are one step: nothing else is done in between.
WaitObjectSignal ==
    /\ owner = NoThread
    /\ Signal
    /\ UNCHANGED <<owner, until, earliest, aborted>>

WaitObjectSignalUnlocked ==
    /\ Signal
    /\ UNCHANGED <<owner, until, earliest, aborted>>

WaitObjectBroadcast ==
    /\ owner = NoThread
    /\ Wakes(Waiting)
    /\ UNCHANGED <<owner, until, earliest, aborted>>

WaitObjectBroadcastUnlocked ==
    /\ Wakes(Waiting)
    /\ UNCHANGED <<owner, until, earliest, aborted>>

\* The deadline of a wait has come.
TimesOut(t) ==
    /\ at[t] = "waiting"
    /\ until[t] # Forever
    /\ ~ClockTimeIsGreater(until[t], ClockGetTime)
    /\ at' = [at EXCEPT ![t] = "timedout"]
    /\ UNCHANGED <<owner, until, earliest, aborted>>

\* The wait returns, with the mutex: 0 if woken, 1 if the time is over.
Returns(t) ==
    /\ at[t] \in {"signalled", "timedout"}
    /\ owner = NoThread
    /\ owner' = t
    /\ at' = [at EXCEPT ![t] = "holding"]
    /\ until' = [until EXCEPT ![t] = Forever]
    /\ earliest' = [earliest EXCEPT ![t] = -1]
    /\ UNCHANGED aborted

WaitNext ==
    /\ ~aborted
    /\ \/ \E t \in Threads :
             \/ WaitObjectLock(t)
             \/ WaitObjectUnlock(t)
             \/ WaitObjectWait(t)
             \/ WaitForDelta(t)
             \/ TimesOut(t)
             \/ Returns(t)
       \/ WaitObjectSignal
       \/ WaitObjectSignalUnlocked
       \/ WaitObjectBroadcast
       \/ WaitObjectBroadcastUnlocked
    /\ UNCHANGED now

WaitSpec ==
    /\ ClockInit /\ WaitInit
    /\ [][WaitNext \/ (Tick /\ UNCHANGED waitVars)]_<<now, waitVars>>

--------------------------------------------------------------------------------

\* wait.c:77-84: a wait that times out has not been cut short, and asking for it
\* has not ended the process, whatever the clock showed when it began, unless it
\* asked for milliseconds that are no whole seconds.
WaitsAreKept ==
    /\ \A t \in Threads : at[t] = "timedout" => now >= earliest[t]
    /\ aborted => earliest[owner] = -1
================================================================================
