--------------------------------- MODULE Clock ---------------------------------
(***************************************************************************)
(* The clock helper (src/libbatteryd/clock.c).  A time is a struct         *)
(* timespec; the monotonic clock is a count of nanoseconds.  The numbers   *)
(* of the units are parameters, so that a second is short enough for TLC.  *)
(***************************************************************************)
EXTENDS Integers

CONSTANTS
    NSEC_PER_SEC,
    NSEC_PER_MSEC,
    MSEC_PER_SEC,   \* 1000
    MAX_NOW         \* bound: when the model's clock stops

ASSUME UnitsAssumption ==
    /\ NSEC_PER_MSEC \in Nat \ {0}
    /\ MSEC_PER_SEC \in Nat \ {0}
    /\ NSEC_PER_SEC = MSEC_PER_SEC * NSEC_PER_MSEC

ASSUME NowAssumption == MAX_NOW \in Nat

VARIABLE now        \* nanoseconds since the boot

Timespec == [tv_sec : Int, tv_nsec : Int]

Normalised == [tv_sec : Int, tv_nsec : 0..NSEC_PER_SEC - 1]

\* What a time is worth.
Nsec(t) == t.tv_sec * NSEC_PER_SEC + t.tv_nsec

ClockGetTime ==
    [tv_sec |-> now \div NSEC_PER_SEC, tv_nsec |-> now % NSEC_PER_SEC]

ClockTimeIsGreater(a, b) ==
    \/ a.tv_sec > b.tv_sec
    \/ a.tv_sec = b.tv_sec /\ a.tv_nsec > b.tv_nsec

ClockDiff(a, b) ==
    LET sec  == a.tv_sec - b.tv_sec
        nsec == a.tv_nsec - b.tv_nsec
    IN  IF nsec < 0 THEN [tv_sec |-> sec - 1, tv_nsec |-> nsec + NSEC_PER_SEC]
                    ELSE [tv_sec |-> sec, tv_nsec |-> nsec]

\* Fault: the nanoseconds are not carried.
ClockAccumUncarried(sum, b) ==
    [tv_sec |-> sum.tv_sec + b.tv_sec, tv_nsec |-> sum.tv_nsec + b.tv_nsec]

\* The loop carries full seconds; it does not borrow.
ClockAccum(sum, b) ==
    LET nsec  == sum.tv_nsec + b.tv_nsec
        carry == IF nsec >= NSEC_PER_SEC THEN nsec \div NSEC_PER_SEC ELSE 0
    IN  [tv_sec  |-> sum.tv_sec + b.tv_sec + carry,
         tv_nsec |-> nsec - carry * NSEC_PER_SEC]

\* Division and remainder as C has them: towards zero.
Quotient(a, b) == IF a >= 0 THEN a \div b ELSE -((-a) \div b)
Remainder(a, b) == a - Quotient(a, b) * b

ClockAccumMs(sum, duration_ms) ==
    ClockAccum(sum, [tv_sec  |-> Quotient(duration_ms, MSEC_PER_SEC),
                     tv_nsec |-> Remainder(duration_ms, MSEC_PER_SEC) * NSEC_PER_MSEC])

ClockGetMs(ts) == ts.tv_sec * MSEC_PER_SEC + Quotient(ts.tv_nsec, NSEC_PER_MSEC)

\* The clock has been running for less than a second.
ClockInit == now \in 0..NSEC_PER_SEC - 1

\* Time passes.
Tick == now < MAX_NOW /\ now' = now + 1
================================================================================
