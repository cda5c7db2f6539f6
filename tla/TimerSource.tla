------------------------------ MODULE TimerSource ------------------------------
(***************************************************************************)
(* The timer source (src/batteryd/utils/timersource.c): one timer, the     *)
(* main loop that it is attached to, which GLib runs, and a thread that    *)
(* changes its interval.                                                   *)
(*                                                                         *)
(* That thread takes no lock, so what the loop reads of the expiration     *)
(* while it is being set is any mixture of what is being stored.           *)
(***************************************************************************)
EXTENDS Clock

CONSTANTS
    USECS_PER_SEC,
    USECS_PER_MSEC,
    NSEC_PER_USEC,  \* 1000
    GUINT_SIZE,     \* 2^32: how many values a guint has
    Intervals,      \* the intervals timers are given, in milliseconds
    Seconds,        \* the intervals timers are given, in seconds
    Granularities   \* the granularities, in milliseconds; 0 is none

ASSUME TimerUnitsAssumption ==
    /\ USECS_PER_MSEC \in Nat \ {0}
    /\ NSEC_PER_USEC \in Nat \ {0}
    /\ USECS_PER_SEC = MSEC_PER_SEC * USECS_PER_MSEC
    /\ NSEC_PER_SEC = USECS_PER_SEC * NSEC_PER_USEC

ASSUME TimersAssumption ==
    /\ GUINT_SIZE \in Nat \ {0}
    /\ Intervals \subseteq 0..GUINT_SIZE - 1
    /\ Seconds \subseteq Nat
    /\ Granularities \subseteq Nat

VARIABLES
    timer,          \* "none", "created", "attached" or "removed"
    expiration,
    interval_ms,
    granularity,
    setting,        \* "no", or whether the expiration is being set "from_poll"
                    \*   or from another "thread"
    stores,         \* what is being stored in the expiration meanwhile
    loop,           \* where the main loop is
    slept_until,    \* when poll() is to return, in microseconds; -1 is never
    woken,          \* the context has been woken up
    due             \* history: when the interval that was asked for is over;
                    \*   -1 once two threads have set the expiration at once

timerVars == <<timer, expiration, interval_ms, granularity, setting, stores,
               loop, slept_until, woken, due>>

--------------------------------------------------------------------------------

Timeval == [tv_sec : Int, tv_usec : Int]

Usec(t) == t.tv_sec * USECS_PER_SEC + t.tv_usec

g_timer_get_current_time ==
    [tv_sec  |-> ClockGetTime.tv_sec,
     tv_usec |-> ClockGetTime.tv_nsec \div NSEC_PER_USEC]

\* The interval after t, before the rounding.
Raw(t, interval) ==
    LET secs == interval \div MSEC_PER_SEC
    IN  [tv_sec  |-> t.tv_sec + secs,
         tv_usec |-> t.tv_usec + (interval - secs * MSEC_PER_SEC) * USECS_PER_MSEC]

Carried(t) ==
    IF t.tv_usec >= USECS_PER_SEC
      THEN [tv_sec |-> t.tv_sec + 1, tv_usec |-> t.tv_usec - USECS_PER_SEC]
      ELSE t

\* Fault: what is cut off is never made up for.
RoundedDown(t, gran) ==
    [tv_sec |-> t.tv_sec, tv_usec |-> t.tv_usec - (t.tv_usec % gran)]

\* To the granularity: down if less than a quarter of it is cut off.
Rounded(t, gran) ==
    LET remainder == t.tv_usec % gran
        up        == IF remainder >= gran \div 4 THEN gran ELSE 0
    IN  [tv_sec |-> t.tv_sec, tv_usec |-> t.tv_usec + up - remainder]

\* The loop leaves a last full second among the microseconds.
AtMostASecond(t) ==
    LET n == IF t.tv_usec > USECS_PER_SEC THEN (t.tv_usec - 1) \div USECS_PER_SEC ELSE 0
    IN  [tv_sec |-> t.tv_sec + n, tv_usec |-> t.tv_usec - n * USECS_PER_SEC]

g_timer_set_expiration(t, interval, gran) ==
    LET e == Carried(Raw(t, interval))
    IN  IF gran = 0 THEN e
        ELSE AtMostASecond(Rounded(e, gran * USECS_PER_MSEC))

\* What the loop can read of the expiration.
Read ==
    IF setting = "no" THEN {expiration}
    ELSE [tv_sec : stores.tv_sec, tv_usec : stores.tv_usec]

\* The milliseconds to e, as prepare() works them out.
MsecTo(e, t) ==
    LET msec == (e.tv_sec - t.tv_sec) * MSEC_PER_SEC
        more == msec + Quotient(e.tv_usec - t.tv_usec, USECS_PER_MSEC)
    IN  IF msec < 0 \/ more < 0 THEN 0 ELSE more

\* As a gint, which is negative from half of what a guint holds on.
Gint(n) == ((n + GUINT_SIZE \div 2) % GUINT_SIZE) - GUINT_SIZE \div 2

IsOver(e, t) ==
    \/ e.tv_sec < t.tv_sec
    \/ e.tv_sec = t.tv_sec /\ e.tv_usec <= t.tv_usec

--------------------------------------------------------------------------------

Loops == {"prepare", "poll", "check", "dispatch"}

NoStores == [tv_sec |-> {}, tv_usec |-> {}]

TimerTypeOK ==
    /\ timer \in {"none", "created", "attached", "removed"}
    /\ expiration \in Timeval
    /\ interval_ms \in 0..GUINT_SIZE - 1
    /\ granularity \in Granularities \cup {0, MSEC_PER_SEC}
    /\ setting \in {"no", "from_poll", "thread"}
    /\ stores \in [tv_sec : SUBSET Int, tv_usec : SUBSET Int]
    /\ loop \in Loops
    /\ slept_until \in Int
    /\ woken \in BOOLEAN
    /\ due \in Int

TimerInit ==
    /\ timer = "none"
    /\ expiration = [tv_sec |-> 0, tv_usec |-> 0]
    /\ interval_ms = 0
    /\ granularity = 0
    /\ setting = "no"
    /\ stores = NoStores
    /\ loop = "prepare"
    /\ slept_until = 0
    /\ woken = FALSE
    /\ due = 0

\* The interval begins now.
Asked(interval) ==
    due' = Usec(g_timer_get_current_time) + interval * USECS_PER_MSEC

\* A timer of a granularity that is given, or in seconds of one of a second.
New(interval, gran) ==
    /\ timer = "none"
    /\ timer' = "created"
    /\ interval_ms' = interval
    /\ granularity' = gran
    /\ expiration' = g_timer_set_expiration(g_timer_get_current_time, interval, gran)
    /\ Asked(interval)
    /\ UNCHANGED <<now, setting, stores, loop, slept_until, woken>>

g_timer_source_new == \E i \in Intervals, g \in Granularities : New(i, g)

g_timer_source_new_seconds ==
    \E s \in Seconds : New((MSEC_PER_SEC * s) % GUINT_SIZE, MSEC_PER_SEC)

\* GLib wakes the loop up for a new source.
Attach ==
    /\ timer = "created"
    /\ timer' = "attached"
    /\ woken' = TRUE
    /\ UNCHANGED <<now, expiration, interval_ms, granularity, setting, stores,
                   loop, slept_until, due>>

\* g_timer_source_set_interval() up to the end of its stores.  From the poll it
\* is called by the loop itself.  A source that was removed has been freed.
SetInterval(interval, by) ==
    /\ timer \in {"created", "attached"}
    /\ setting = "no"
    /\ by = "from_poll" => loop # "poll"
    /\ setting' = by
    /\ interval_ms' = interval
    /\ LET t   == g_timer_get_current_time
           raw == Raw(t, interval)
           e   == g_timer_set_expiration(t, interval, granularity)
       IN  /\ expiration' = e
           /\ stores' =
                [tv_sec  |-> {expiration.tv_sec, raw.tv_sec, e.tv_sec},
                 tv_usec |-> {expiration.tv_usec, raw.tv_usec,
                              Carried(raw).tv_usec, e.tv_usec}]
    /\ Asked(interval)
    /\ UNCHANGED <<now, timer, granularity, loop, slept_until, woken>>

g_timer_source_set_interval ==
    \E i \in Intervals, by \in {"from_poll", "thread"} : SetInterval(i, by)

g_timer_source_set_interval_seconds ==
    \E s \in Seconds, by \in {"from_poll", "thread"} :
       SetInterval((s * MSEC_PER_SEC) % GUINT_SIZE, by)

\* Fault: the loop is not told.
IntervalIsSetUnheard ==
    /\ setting # "no"
    /\ setting' = "no"
    /\ stores' = NoStores
    /\ UNCHANGED <<now, timer, expiration, interval_ms, granularity, loop,
                   slept_until, woken, due>>

\* The call returns, having woken the context up if the source is in one.
IntervalIsSet ==
    /\ setting # "no"
    /\ setting' = "no"
    /\ stores' = NoStores
    /\ expiration' \in IF due = -1 THEN Read ELSE {expiration}
    /\ woken' = (woken \/ (setting = "thread" /\ timer = "attached"))
    /\ UNCHANGED <<now, timer, interval_ms, granularity, loop, slept_until, due>>

\* The loop takes a step of its own.
LoopSteps ==
    /\ setting # "from_poll"
    /\ UNCHANGED <<now, interval_ms, granularity, setting>>

\* Before poll(): ready, or how long to sleep.  Without the timer it sleeps
\* until something else happens.
g_timer_source_prepare ==
    /\ loop = "prepare"
    /\ LoopSteps
    /\ \/ /\ timer = "attached"
          /\ \E e \in Read :
                LET t    == g_timer_get_current_time
                    msec == MsecTo(e, t)
                IN  \/ /\ msec = 0
                       /\ loop' = "dispatch"
                       /\ UNCHANGED slept_until
                    \/ /\ msec # 0
                       /\ loop' = "poll"
                       /\ slept_until' = IF Gint(msec) < 0 THEN -1
                                         ELSE Usec(t) + Gint(msec) * USECS_PER_MSEC
       \/ /\ timer # "attached"
          /\ loop' = "poll"
          /\ slept_until' = -1
    /\ UNCHANGED <<timer, expiration, stores, woken, due>>

\* poll() returns.
PollReturns ==
    /\ loop = "poll"
    /\ LoopSteps
    /\ \/ woken
       \/ slept_until >= 0 /\ Usec(g_timer_get_current_time) >= slept_until
    /\ woken' = FALSE
    /\ loop' = "check"
    /\ slept_until' = 0
    /\ UNCHANGED <<timer, expiration, stores, due>>

g_timer_source_check ==
    /\ loop = "check"
    /\ LoopSteps
    /\ \/ /\ timer = "attached"
          /\ \E e \in Read :
                loop' = IF IsOver(e, g_timer_get_current_time)
                          THEN "dispatch" ELSE "prepare"
       \/ /\ timer # "attached"
          /\ loop' = "prepare"
    /\ UNCHANGED <<timer, expiration, stores, slept_until, woken, due>>

\* The interval begins anew, beside whoever is setting it.
Rearm ==
    LET e == g_timer_set_expiration(g_timer_get_current_time, interval_ms, granularity)
    IN  \/ /\ setting = "no"
           /\ expiration' = e
           /\ Asked(interval_ms)
           /\ UNCHANGED stores
        \/ /\ setting = "thread"
           /\ stores' = [tv_sec  |-> stores.tv_sec \cup {e.tv_sec},
                         tv_usec |-> stores.tv_usec \cup {e.tv_usec}]
           /\ due' = -1
           /\ UNCHANGED expiration

\* The callback wants to be called again, or it does not or there is none.
g_timer_source_dispatch ==
    /\ loop = "dispatch"
    /\ LoopSteps
    /\ loop' = "prepare"
    /\ \/ Rearm /\ UNCHANGED timer
       \/ timer' = "removed" /\ UNCHANGED <<expiration, stores, due>>
    /\ UNCHANGED <<slept_until, woken>>

TimerNext ==
    \/ g_timer_source_new
    \/ g_timer_source_new_seconds
    \/ Attach
    \/ g_timer_source_set_interval
    \/ g_timer_source_set_interval_seconds
    \/ IntervalIsSet
    \/ g_timer_source_prepare
    \/ PollReturns
    \/ g_timer_source_check
    \/ g_timer_source_dispatch

TimerSpec ==
    /\ ClockInit /\ TimerInit
    /\ [][TimerNext \/ (Tick /\ UNCHANGED timerVars)]_<<now, timerVars>>

--------------------------------------------------------------------------------

\* A quarter of the granularity may be cut off and a last millisecond is not
\* waited for: a timer is never taken to be over earlier than that, unless its
\* interval is being set at that moment.
TimerIsNotEarly ==
    [][/\ loop # "dispatch" /\ loop' = "dispatch"
       /\ setting = "no"
       => Usec(g_timer_get_current_time)
            > due - (granularity * USECS_PER_MSEC) \div 4 - USECS_PER_MSEC]_<<now, timerVars>>

\* Whoever sets the interval, and whenever: once the call has returned the main
\* loop does not sleep past the expiration, by more than the millisecond that
\* poll() counts in.  (An interval that is no gint is slept on for ever, and what
\* two threads have set at once may be any time.)
LoopDoesNotOversleep ==
    /\ loop = "poll" /\ ~woken
    /\ timer = "attached" /\ setting = "no" /\ due # -1
    /\ interval_ms + granularity < GUINT_SIZE \div 2
    => /\ slept_until >= 0
       /\ slept_until < Usec(expiration) + USECS_PER_MSEC
================================================================================
