------------------------------ MODULE Clock_proof ------------------------------
(***************************************************************************)
(* What the clock helper computes; what the wait object promises, for any  *)
(* number of threads; and what the timer source promises, however a thread *)
(* that sets the interval interleaves with the main loop.  All of it for   *)
(* units, intervals and granularities of any size.                         *)
(***************************************************************************)
EXTENDS TimerSource, WaitObject, TLAPS

\* Quotient and remainder of a division by a positive number.
LEMMA Division ==
    ASSUME NEW a \in Int, NEW b \in Nat \ {0}
    PROVE  /\ a \div b \in Int
           /\ a % b \in 0..b - 1
           /\ a = b * (a \div b) + (a % b)
  OBVIOUS
--------------------------------------------------------------------------------
(***************************************************************************)
(* The clock.                                                              *)
(***************************************************************************)

LEMMA SecondIsPositive == NSEC_PER_SEC \in Nat \ {0}
  <1>1. ASSUME NEW a \in Nat \ {0}, NEW b \in Nat \ {0}
        PROVE  a * b \in Nat \ {0}
    OBVIOUS
  <1> QED BY <1>1, UnitsAssumption

\* More of the same is more.
LEMMA ProductIsMonotone ==
    ASSUME NEW x \in Int, NEW y \in Int, NEW n \in Nat, x <= y
    PROVE  x * n <= y * n
  <1>1. (y - x) * n >= 0
    OBVIOUS
  <1>2. (y - x) * n = y * n - x * n
    OBVIOUS
  <1>3. x * n \in Int /\ y * n \in Int
    OBVIOUS
  <1> QED BY <1>1, <1>2, <1>3

\* A count between one and two of a unit is one of it and the rest.
LEMMA OneOfAUnit ==
    ASSUME NEW n \in Nat \ {0}, NEW a \in n..2 * n - 1
    PROVE  a \div n = 1
  <1> DEFINE q == a \div n
  <1>1. q \in Int /\ a % n \in 0..n - 1 /\ a = n * q + (a % n)
    BY Division
  <1>2. ~(q >= 2)
    <2> SUFFICES ASSUME q >= 2 PROVE FALSE
      OBVIOUS
    <2>1. 2 * n <= q * n
      BY <1>1, ProductIsMonotone
    <2> QED BY <1>1, <2>1
  <1>3. ~(q <= 0)
    <2> SUFFICES ASSUME q <= 0 PROVE FALSE
      OBVIOUS
    <2>1. q * n <= 0 * n
      BY <1>1, ProductIsMonotone
    <2> QED BY <1>1, <2>1
  <1> QED BY <1>1, <1>2, <1>3

\* ClockGetTime(): the time is normalised and worth what the clock shows.
LEMMA ClockGetTimeIsNow ==
    ASSUME now \in Nat
    PROVE  ClockGetTime \in Normalised /\ Nsec(ClockGetTime) = now
  BY SecondIsPositive, Division DEF ClockGetTime, Normalised, Nsec

\* ClockAccum(), for every pair of normalised times: the sum is normalised and
\* is worth what the two are worth together.
THEOREM ClockAccumAdds ==
    ASSUME NEW sum \in Normalised, NEW b \in Normalised
    PROVE  /\ ClockAccum(sum, b) \in Normalised
           /\ Nsec(ClockAccum(sum, b)) = Nsec(sum) + Nsec(b)
  <1> DEFINE nsec == sum.tv_nsec + b.tv_nsec
             sec  == sum.tv_sec + b.tv_sec
  <1>1. NSEC_PER_SEC \in Nat \ {0}
    BY SecondIsPositive
  <1>2. nsec \in 0..2 * NSEC_PER_SEC - 2 /\ sec \in Int
    BY <1>1 DEF Normalised
  <1>3. (sec + 1) * NSEC_PER_SEC = sec * NSEC_PER_SEC + NSEC_PER_SEC
    BY <1>1, <1>2
  <1>4. sec * NSEC_PER_SEC = sum.tv_sec * NSEC_PER_SEC + b.tv_sec * NSEC_PER_SEC
    BY <1>1 DEF Normalised
  <1>5. CASE nsec >= NSEC_PER_SEC
    <2>1. nsec \div NSEC_PER_SEC = 1
      BY <1>1, <1>2, <1>5, OneOfAUnit
    <2>2. ClockAccum(sum, b) = [tv_sec |-> sec + 1, tv_nsec |-> nsec - NSEC_PER_SEC]
      BY <1>1, <1>5, <2>1 DEF ClockAccum
    <2> QED BY <1>1, <1>2, <1>3, <1>4, <1>5, <2>2 DEF Normalised, Nsec
  <1>6. CASE nsec < NSEC_PER_SEC
    <2>1. ClockAccum(sum, b) = [tv_sec |-> sec, tv_nsec |-> nsec]
      BY <1>1, <1>2, <1>6 DEF ClockAccum
    <2> QED BY <1>1, <1>2, <1>4, <1>6, <2>1 DEF Normalised, Nsec
  <1> QED BY <1>1, <1>2, <1>5, <1>6

\* ClockDiff(), for every pair of normalised times: the difference is normalised,
\* also when it is negative, and is worth what it should be.
THEOREM ClockDiffSubtracts ==
    ASSUME NEW a \in Normalised, NEW b \in Normalised
    PROVE  /\ ClockDiff(a, b) \in Normalised
           /\ Nsec(ClockDiff(a, b)) = Nsec(a) - Nsec(b)
  <1> DEFINE sec == a.tv_sec - b.tv_sec
  <1>1. NSEC_PER_SEC \in Nat \ {0}
    BY SecondIsPositive
  <1>2. (sec - 1) * NSEC_PER_SEC = sec * NSEC_PER_SEC - NSEC_PER_SEC
    BY <1>1 DEF Normalised
  <1>3. sec * NSEC_PER_SEC = a.tv_sec * NSEC_PER_SEC - b.tv_sec * NSEC_PER_SEC
    BY <1>1 DEF Normalised
  <1> QED BY <1>1, <1>2, <1>3 DEF ClockDiff, Normalised, Nsec

\* ClockAccumMs(), for durations that are not negative: the sum is normalised and
\* later by just that many milliseconds.  (Of a negative one the loop borrows
\* nothing, and what it leaves may be no valid time.)
THEOREM ClockAccumMsAdds ==
    ASSUME NEW sum \in Normalised, NEW ms \in Nat
    PROVE  /\ ClockAccumMs(sum, ms) \in Normalised
           /\ Nsec(ClockAccumMs(sum, ms)) = Nsec(sum) + ms * NSEC_PER_MSEC
  <1> DEFINE sec == ms \div MSEC_PER_SEC
             rem == ms % MSEC_PER_SEC
             b   == [tv_sec |-> sec, tv_nsec |-> rem * NSEC_PER_MSEC]
  <1>1. /\ NSEC_PER_SEC \in Nat \ {0} /\ NSEC_PER_MSEC \in Nat \ {0}
        /\ MSEC_PER_SEC \in Nat \ {0} /\ NSEC_PER_SEC = MSEC_PER_SEC * NSEC_PER_MSEC
    BY SecondIsPositive, UnitsAssumption
  <1>2. sec \in Int /\ rem \in 0..MSEC_PER_SEC - 1 /\ ms = MSEC_PER_SEC * sec + rem
    BY <1>1, Division
  <1>3. ClockAccumMs(sum, ms) = ClockAccum(sum, b)
    <2>1. Quotient(ms, MSEC_PER_SEC) = sec
      BY DEF Quotient
    <2>2. sec * MSEC_PER_SEC = MSEC_PER_SEC * sec
      BY <1>1, <1>2
    <2>3. Remainder(ms, MSEC_PER_SEC) = rem
      BY <1>1, <1>2, <2>1, <2>2 DEF Remainder
    <2> QED BY <2>1, <2>3 DEF ClockAccumMs
  <1>4. b \in Normalised
    <2>1. 0 * NSEC_PER_MSEC <= rem * NSEC_PER_MSEC
      BY <1>1, <1>2, ProductIsMonotone
    <2>2. rem * NSEC_PER_MSEC <= (MSEC_PER_SEC - 1) * NSEC_PER_MSEC
      BY <1>1, <1>2, ProductIsMonotone
    <2>3. (MSEC_PER_SEC - 1) * NSEC_PER_MSEC = NSEC_PER_SEC - NSEC_PER_MSEC
      BY <1>1
    <2>4. rem * NSEC_PER_MSEC \in Int
      BY <1>1, <1>2
    <2> QED BY <1>1, <1>2, <2>1, <2>2, <2>3, <2>4 DEF Normalised
  <1>5. Nsec(b) = ms * NSEC_PER_MSEC
    <2>1. ms * NSEC_PER_MSEC = (MSEC_PER_SEC * sec) * NSEC_PER_MSEC + rem * NSEC_PER_MSEC
      BY <1>1, <1>2
    <2>2. (MSEC_PER_SEC * sec) * NSEC_PER_MSEC = sec * (MSEC_PER_SEC * NSEC_PER_MSEC)
      BY <1>1, <1>2
    <2> QED BY <1>1, <2>1, <2>2 DEF Nsec
  <1> QED BY <1>3, <1>4, <1>5, ClockAccumAdds

\* ClockGetMs() cuts off less than a millisecond of a normalised time.
THEOREM ClockGetMsTruncates ==
    ASSUME NEW t \in Normalised
    PROVE  /\ ClockGetMs(t) * NSEC_PER_MSEC <= Nsec(t)
           /\ Nsec(t) < (ClockGetMs(t) + 1) * NSEC_PER_MSEC
  <1> DEFINE q == t.tv_nsec \div NSEC_PER_MSEC
             s == t.tv_sec * MSEC_PER_SEC
  <1>1. /\ NSEC_PER_SEC \in Nat \ {0} /\ NSEC_PER_MSEC \in Nat \ {0}
        /\ MSEC_PER_SEC \in Nat \ {0} /\ NSEC_PER_SEC = MSEC_PER_SEC * NSEC_PER_MSEC
    BY SecondIsPositive, UnitsAssumption
  <1>2. t.tv_sec \in Int /\ t.tv_nsec \in Nat /\ s \in Int
    BY <1>1 DEF Normalised
  <1>3. q \in Int /\ ClockGetMs(t) = s + q
    <2>1. NSEC_PER_MSEC \in Nat \ {0}
      BY <1>1
    <2>2. \A a \in Nat : a \div NSEC_PER_MSEC \in Int
      BY <2>1, Division
    <2>3. q \in Int
      BY <1>2, <2>2
    <2> QED BY <1>2, <2>3 DEF ClockGetMs, Quotient
  <1>4. t.tv_sec * NSEC_PER_SEC = s * NSEC_PER_MSEC
    BY <1>1, <1>2
  <1> HIDE DEF q, s
  <1>5. PICK r \in 0..NSEC_PER_MSEC - 1 : t.tv_nsec = NSEC_PER_MSEC * q + r
    <2>1. NSEC_PER_MSEC \in Nat \ {0}
      BY <1>1
    <2>2. \A a \in Nat : /\ a % NSEC_PER_MSEC \in 0..NSEC_PER_MSEC - 1
                         /\ a = NSEC_PER_MSEC * (a \div NSEC_PER_MSEC)
                                  + (a % NSEC_PER_MSEC)
      BY <2>1, Division
    <2> QED BY <1>2, <2>2 DEF q
  <1>6. /\ (s + q) * NSEC_PER_MSEC = s * NSEC_PER_MSEC + NSEC_PER_MSEC * q
        /\ (s + q + 1) * NSEC_PER_MSEC
             = s * NSEC_PER_MSEC + NSEC_PER_MSEC * q + NSEC_PER_MSEC
    BY <1>1, <1>2, <1>3
  <1>7. s * NSEC_PER_MSEC \in Int /\ NSEC_PER_MSEC * q \in Int
    <2> SUFFICES ASSUME NEW n \in Int, NEW x \in Int, NEW y \in Int
                 PROVE  x * n \in Int /\ n * y \in Int
      BY <1>1, <1>2, <1>3
    <2> QED OBVIOUS
  <1>8. Nsec(t) = s * NSEC_PER_MSEC + NSEC_PER_MSEC * q + r
    BY <1>4, <1>5, <1>7 DEF Nsec
  <1> QED BY <1>1, <1>3, <1>5, <1>6, <1>7, <1>8

\* ClockTimeIsGreater() compares what normalised times are worth.
THEOREM ClockTimeIsGreaterCompares ==
    ASSUME NEW a \in Normalised, NEW b \in Normalised
    PROVE  ClockTimeIsGreater(a, b) <=> Nsec(a) > Nsec(b)
  <1>1. NSEC_PER_SEC \in Nat \ {0}
    BY SecondIsPositive
  <1>2. ASSUME NEW x \in Normalised, NEW y \in Normalised, x.tv_sec > y.tv_sec
        PROVE  Nsec(x) > Nsec(y)
    <2>1. (y.tv_sec + 1) * NSEC_PER_SEC <= x.tv_sec * NSEC_PER_SEC
      BY <1>1, <1>2, ProductIsMonotone DEF Normalised
    <2>2. (y.tv_sec + 1) * NSEC_PER_SEC = y.tv_sec * NSEC_PER_SEC + NSEC_PER_SEC
      BY <1>1 DEF Normalised
    <2> QED BY <1>1, <2>1, <2>2 DEF Normalised, Nsec
  <1>3. CASE a.tv_sec = b.tv_sec
    BY <1>1, <1>3 DEF ClockTimeIsGreater, Normalised, Nsec
  <1>4. CASE a.tv_sec > b.tv_sec
    BY <1>1, <1>2, <1>4 DEF ClockTimeIsGreater
  <1>5. CASE b.tv_sec > a.tv_sec
    <2>1. Nsec(b) > Nsec(a)
      BY <1>2, <1>5
    <2> QED BY <1>1, <1>5, <2>1 DEF ClockTimeIsGreater, Normalised, Nsec
  <1> QED BY <1>3, <1>4, <1>5 DEF Normalised

--------------------------------------------------------------------------------
(***************************************************************************)
(* The wait object.                                                        *)
(***************************************************************************)

\* A number below the divisor is its own remainder.
LEMMA SmallRemainder ==
    ASSUME NEW b \in Nat \ {0}, NEW a \in 0..b - 1
    PROVE  a % b = a
  <1>1. a \div b \in Int /\ a % b \in 0..b - 1 /\ a = b * (a \div b) + (a % b)
    BY Division
  <1>2. ~(a \div b >= 1)
    <2> SUFFICES ASSUME a \div b >= 1 PROVE FALSE
      OBVIOUS
    <2>1. 1 * b <= (a \div b) * b
      BY <1>1, ProductIsMonotone
    <2> QED BY <1>1, <2>1
  <1>3. ~(a \div b <= -1)
    <2> SUFFICES ASSUME a \div b <= -1 PROVE FALSE
      OBVIOUS
    <2>1. (a \div b) * b <= (-1) * b
      BY <1>1, ProductIsMonotone
    <2> QED BY <1>1, <2>1
  <1>4. a \div b = 0
    BY <1>1, <1>2, <1>3
  <1> QED BY <1>1, <1>4

\* Zero wraps to itself.
LEMMA ZeroIsAnInt == Int32(0) = 0
  <1>1. INT_SIZE \in Nat \ {0}
    BY WaitsAssumption
  <1>2. INT_SIZE \div 2 \in 0..INT_SIZE - 1
    BY <1>1
  <1>3. (INT_SIZE \div 2) % INT_SIZE = INT_SIZE \div 2
    BY <1>1, <1>2, SmallRemainder
  <1> QED BY <1>1, <1>2, <1>3 DEF Int32

\* A wait of whole seconds becomes a valid time that is worth as much.
LEMMA WholeSeconds ==
    ASSUME NEW ms \in Nat, ms % MSEC_PER_SEC = 0
    PROVE  /\ DeltaOf(ms) \in Normalised
           /\ DeltaOf(ms).tv_sec >= 0
           /\ Nsec(DeltaOf(ms)) = ms * NSEC_PER_MSEC
  <1> DEFINE s == ms \div MSEC_PER_SEC
  <1>1. /\ MSEC_PER_SEC \in Nat \ {0} /\ NSEC_PER_MSEC \in Nat \ {0}
        /\ NSEC_PER_SEC = MSEC_PER_SEC * NSEC_PER_MSEC
    BY UnitsAssumption
  <1>2. s \in Int /\ ms = MSEC_PER_SEC * s
    BY <1>1, Division
  <1>3. s >= 0
    <2> SUFFICES ASSUME s <= -1 PROVE FALSE
      BY <1>2
    <2>1. s * MSEC_PER_SEC <= (-1) * MSEC_PER_SEC
      BY <1>1, <1>2, ProductIsMonotone
    <2> QED BY <1>1, <1>2, <2>1
  <1>4. NSEC_PER_SEC \in Nat \ {0}
    BY SecondIsPositive
  <1>5. DeltaOf(ms) = [tv_sec |-> s, tv_nsec |-> 0]
    <2>1. (ms % MSEC_PER_SEC) * NSEC_PER_SEC = 0
      BY <1>4
    <2> QED BY <2>1, ZeroIsAnInt DEF DeltaOf
  <1>6. s * NSEC_PER_SEC = ms * NSEC_PER_MSEC
    <2>1. s * (MSEC_PER_SEC * NSEC_PER_MSEC) = (MSEC_PER_SEC * s) * NSEC_PER_MSEC
      BY <1>1, <1>2
    <2> QED BY <1>1, <1>2, <2>1
  <1> QED BY <1>2, <1>3, <1>4, <1>5, <1>6 DEF Normalised, Nsec

\* A deadline is no earlier than what was asked for.
DeadlineIsKept(t) ==
    \/ at[t] # "waiting"
    \/ until[t] = Forever
    \/ earliest[t] = -1
    \/ earliest[t] <= Nsec(until[t])

WaitInv ==
    /\ now \in Nat
    /\ owner \in Threads \cup {NoThread}
    /\ at \in [Threads -> Places]
    /\ until \in [Threads -> Normalised \cup {Forever}]
    /\ earliest \in [Threads -> Int]
    /\ aborted \in BOOLEAN
    /\ \A t \in Threads : at[t] = "holding" => owner = t
    /\ \A t \in Threads : DeadlineIsKept(t)
    /\ WaitsAreKept

LEMMA WaitInvHolds == WaitSpec => []WaitInv
  <1>1. ClockInit /\ WaitInit => WaitInv
    <2> SUFFICES ASSUME ClockInit, WaitInit PROVE WaitInv
      OBVIOUS
    <2>1. now \in Nat
      BY SecondIsPositive DEF ClockInit
    <2>2. /\ owner = NoThread /\ aborted = FALSE
          /\ \A t \in Threads : at[t] = "away"
          /\ at \in [Threads -> Places]
          /\ until \in [Threads -> Normalised \cup {Forever}]
          /\ earliest \in [Threads -> Int]
      BY DEF WaitInit, Places
    <2> QED BY <2>1, <2>2 DEF WaitInv, DeadlineIsKept, WaitsAreKept
  <1>2. WaitInv /\ [WaitNext \/ (Tick /\ UNCHANGED waitVars)]_<<now, waitVars>> => WaitInv'
    <2> SUFFICES ASSUME WaitInv, [WaitNext \/ (Tick /\ UNCHANGED waitVars)]_<<now, waitVars>>
                 PROVE  WaitInv'
      OBVIOUS
    <2> USE DEF WaitInv, Places, DeadlineIsKept, WaitsAreKept
    <2>0. NoThread \notin Threads
      BY WaitsAssumption
    <2>1. CASE UNCHANGED <<now, waitVars>>
      BY <2>1 DEF waitVars
    <2>2. CASE Tick /\ UNCHANGED waitVars
      BY <2>2 DEF Tick, waitVars
    <2>3. ASSUME NEW t \in Threads, WaitObjectLock(t), ~aborted, UNCHANGED now
          PROVE  WaitInv'
      BY <2>0, <2>3 DEF WaitObjectLock
    <2>4. ASSUME NEW t \in Threads, WaitObjectUnlock(t), ~aborted, UNCHANGED now
          PROVE  WaitInv'
      BY <2>0, <2>4 DEF WaitObjectUnlock
    <2>5. ASSUME NEW t \in Threads, NEW delta \in Timespec, NEW e \in Int,
                 WaitObjectWaitTimeSpec(t, delta),
                 earliest' = [earliest EXCEPT ![t] = e],
                 \/ e = -1
                 \/ delta.tv_sec = -1
                 \/ delta \in Normalised /\ delta.tv_sec >= 0 /\ e = now + Nsec(delta),
                 ~aborted, UNCHANGED now
          PROVE  WaitInv'
      <3> DEFINE abs == ClockAccum(ClockGetTime, delta)
      <3>1. at[t] = "holding" /\ owner = t
        BY <2>5 DEF WaitObjectWaitTimeSpec
      <3>2. CASE delta.tv_sec = -1
        BY <2>0, <2>5, <3>1, <3>2 DEF WaitObjectWaitTimeSpec, Forever
      <3>3. CASE delta.tv_sec # -1 /\ abs \in Normalised
        <4>1. /\ owner' = NoThread
              /\ at' = [at EXCEPT ![t] = "waiting"]
              /\ until' = [until EXCEPT ![t] = abs]
              /\ UNCHANGED aborted
          BY <2>5, <3>3 DEF WaitObjectWaitTimeSpec, WaitObjectWaitAbsTime
        <4>2. e = -1 \/ e <= Nsec(abs)
          <5>1. CASE e = -1
            BY <5>1
          <5>2. CASE delta \in Normalised /\ e = now + Nsec(delta)
            <6>1. ClockGetTime \in Normalised /\ Nsec(ClockGetTime) = now
              BY ClockGetTimeIsNow
            <6>2. Nsec(abs) = e
              BY <5>2, <6>1, ClockAccumAdds
            <6> QED BY <2>5, <6>2
          <5> QED BY <2>5, <3>3, <5>1, <5>2
        <4> HIDE DEF abs
        <4> QED BY <2>0, <2>5, <3>1, <3>3, <4>1, <4>2
      <3>4. CASE delta.tv_sec # -1 /\ abs \notin Normalised
        <4>1. aborted' = TRUE /\ UNCHANGED <<owner, at, until>>
          BY <2>5, <3>4 DEF WaitObjectWaitTimeSpec, WaitObjectWaitAbsTime
        <4>2. e = -1
          <5>1. ASSUME delta \in Normalised PROVE FALSE
            BY <3>4, <5>1, ClockGetTimeIsNow, ClockAccumAdds
          <5> QED BY <2>5, <3>4, <5>1
        <4> QED BY <2>0, <2>5, <3>1, <4>1, <4>2
      <3> QED BY <3>2, <3>3, <3>4
    <2>6. ASSUME NEW t \in Threads, WaitObjectWait(t), ~aborted, UNCHANGED now
          PROVE  WaitInv'
      <3>1. PICK ms \in Waits :
              /\ WaitObjectWaitTimeSpec(t, DeltaOf(ms))
              /\ earliest' = [earliest EXCEPT ![t] =
                   IF ms % MSEC_PER_SEC = 0 THEN now + ms * NSEC_PER_MSEC ELSE -1]
        BY <2>6 DEF WaitObjectWait
      <3> DEFINE e == IF ms % MSEC_PER_SEC = 0 THEN now + ms * NSEC_PER_MSEC ELSE -1
      <3>2. ms \in Int
        BY WaitsAssumption
      <3>3. e \in Int
        BY <3>2, UnitsAssumption
      <3>4. DeltaOf(ms) \in Timespec
        <4>1. /\ ms \div MSEC_PER_SEC \in Int
              /\ ms % MSEC_PER_SEC \in Int
          BY <3>2, UnitsAssumption, Division
        <4>2. (ms % MSEC_PER_SEC) * NSEC_PER_SEC \in Int
          BY <4>1, SecondIsPositive
        <4>3. ASSUME NEW n \in Int PROVE Int32(n) \in Int
          <5>1. INT_SIZE \in Nat \ {0} /\ INT_SIZE \div 2 \in Int
            BY WaitsAssumption
          <5>2. (n + INT_SIZE \div 2) % INT_SIZE \in Int
            BY <5>1, Division
          <5> QED BY <5>1, <5>2 DEF Int32
        <4> QED BY <4>1, <4>2, <4>3 DEF DeltaOf, Timespec, Forever
      <3>5. \/ e = -1
            \/ DeltaOf(ms).tv_sec = -1
            \/ /\ DeltaOf(ms) \in Normalised /\ DeltaOf(ms).tv_sec >= 0
               /\ e = now + Nsec(DeltaOf(ms))
        <4>1. CASE ms < 0
          BY <4>1 DEF DeltaOf, Forever
        <4>2. CASE ms >= 0 /\ ms % MSEC_PER_SEC = 0
          BY <3>2, <4>2, WholeSeconds
        <4> QED BY <3>2, <4>1, <4>2
      <3> HIDE DEF e
      <3>6. earliest' = [earliest EXCEPT ![t] = e]
        BY <3>1 DEF e
      <3> QED BY <2>5, <2>6, <3>1, <3>3, <3>4, <3>5, <3>6
    <2>7. ASSUME NEW t \in Threads, WaitForDelta(t), ~aborted, UNCHANGED now
          PROVE  WaitInv'
      <3>1. PICK delta \in Deltas :
              /\ WaitObjectWaitTimeSpec(t, delta)
              /\ earliest' = [earliest EXCEPT ![t] = now + Nsec(delta)]
        BY <2>7 DEF WaitForDelta
      <3>2. delta \in Normalised /\ delta.tv_sec >= 0
        BY WaitsAssumption
      <3>3. delta \in Timespec /\ now + Nsec(delta) \in Int
        BY <3>2, SecondIsPositive DEF Normalised, Timespec, Nsec
      <3> QED BY <2>5, <2>7, <3>1, <3>2, <3>3
    <2>8. ASSUME NEW t \in Threads, TimesOut(t), ~aborted, UNCHANGED now
          PROVE  WaitInv'
      <3>1. until[t] \in Normalised
        BY <2>8 DEF TimesOut
      <3>2. Nsec(until[t]) <= now
        <4>1. ~(Nsec(until[t]) > Nsec(ClockGetTime))
          BY <2>8, <3>1, ClockGetTimeIsNow, ClockTimeIsGreaterCompares DEF TimesOut
        <4>2. Nsec(until[t]) \in Int
          BY <3>1, SecondIsPositive DEF Normalised, Nsec
        <4> QED BY <4>1, <4>2, ClockGetTimeIsNow
      <3>3. Nsec(until[t]) \in Int
        BY <3>1, SecondIsPositive DEF Normalised, Nsec
      <3>4. now >= earliest[t]
        BY <2>8, <3>2, <3>3 DEF TimesOut
      <3> QED BY <2>8, <3>4 DEF TimesOut
    <2>9. ASSUME NEW t \in Threads, Returns(t), ~aborted, UNCHANGED now
          PROVE  WaitInv'
      BY <2>0, <2>9 DEF Returns
    <2>10. ASSUME Signal, UNCHANGED <<owner, until, earliest, aborted>>,
                  ~aborted, UNCHANGED now
           PROVE  WaitInv'
      BY <2>10 DEF Signal, Wakes, Waiting
    <2>11. ASSUME Wakes(Waiting), UNCHANGED <<owner, until, earliest, aborted>>,
                  ~aborted, UNCHANGED now
           PROVE  WaitInv'
      BY <2>11 DEF Wakes, Waiting
    <2> QED
      BY <2>1, <2>2, <2>3, <2>4, <2>6, <2>7, <2>8, <2>9, <2>10, <2>11
      DEF WaitNext, WaitObjectSignal, WaitObjectSignalUnlocked,
          WaitObjectBroadcast, WaitObjectBroadcastUnlocked
  <1> QED BY <1>1, <1>2, PTL DEF WaitSpec

\* No wait that asked for a valid time or for whole seconds is cut short or ends
\* the process (WaitObjectWait), for any number of threads.
THEOREM NoWaitIsCutShort == WaitSpec => []WaitsAreKept
  <1>1. WaitInv => WaitsAreKept
    BY DEF WaitInv
  <1> QED BY <1>1, WaitInvHolds, PTL

--------------------------------------------------------------------------------
(***************************************************************************)
(* The timer source.                                                       *)
(***************************************************************************)

Second == USECS_PER_SEC
Milli == USECS_PER_MSEC

LEMMA Units ==
    /\ Milli \in Nat \ {0} /\ Second \in Nat \ {0} /\ MSEC_PER_SEC \in Nat \ {0}
    /\ Second = MSEC_PER_SEC * Milli
    /\ NSEC_PER_USEC \in Nat \ {0}
    /\ NSEC_PER_SEC = Second * NSEC_PER_USEC
  <1>1. ASSUME NEW a \in Nat \ {0}, NEW b \in Nat \ {0}
        PROVE  a * b \in Nat \ {0}
    OBVIOUS
  <1> QED BY <1>1, UnitsAssumption, TimerUnitsAssumption DEF Second, Milli

\* A quotient is below what the dividend is below, in units of the divisor.
LEMMA QuotientIsBelow ==
    ASSUME NEW b \in Nat \ {0}, NEW m \in Nat, NEW a \in Nat, a < m * b
    PROVE  a \div b \in 0..m - 1
  <1> DEFINE q == a \div b
  <1>1. q \in Int /\ a % b \in 0..b - 1 /\ a = b * q + (a % b)
    BY Division
  <1>2. ~(q >= m)
    <2> SUFFICES ASSUME q >= m PROVE FALSE
      OBVIOUS
    <2>1. m * b <= q * b
      BY <1>1, ProductIsMonotone
    <2>2. m * b \in Int /\ q * b = b * q
      BY <1>1
    <2> QED BY <1>1, <2>1, <2>2
  <1>3. ~(q <= -1)
    <2> SUFFICES ASSUME q <= -1 PROVE FALSE
      OBVIOUS
    <2>1. q * b <= (-1) * b
      BY <1>1, ProductIsMonotone
    <2> QED BY <1>1, <2>1
  <1> QED BY <1>1, <1>2, <1>3

\* A remainder is below the divisor and no more than the dividend.
LEMMA RemainderIsBelow ==
    ASSUME NEW b \in Nat \ {0}, NEW a \in Nat
    PROVE  a % b \in 0..b - 1 /\ a % b <= a /\ a \div b \in Nat
  <1>1. a \div b \in Int /\ a % b \in 0..b - 1 /\ a = b * (a \div b) + (a % b)
    BY Division
  <1>2. a \div b >= 0
    <2> SUFFICES ASSUME a \div b <= -1 PROVE FALSE
      BY <1>1
    <2>1. (a \div b) * b <= (-1) * b
      BY <1>1, ProductIsMonotone
    <2> QED BY <1>1, <2>1
  <1>3. 0 * b <= (a \div b) * b
    BY <1>1, <1>2, ProductIsMonotone
  <1> QED BY <1>1, <1>2, <1>3

--------------------------------------------------------------------------------
(***************************************************************************)
(* The expiration.                                                         *)
(***************************************************************************)

\* A time as the timer reads it off the clock.
Moment == [tv_sec : Int, tv_usec : 0..Second - 1]

LEMMA UsecIsInt ==
    ASSUME NEW t, t.tv_sec \in Int, t.tv_usec \in Int
    PROVE  Usec(t) \in Int
  <1>1. t.tv_sec * Second \in Int
    BY Units
  <1> QED BY <1>1 DEF Usec, Second

LEMMA CurrentTimeIsAMoment ==
    ASSUME now \in Nat
    PROVE  /\ g_timer_get_current_time \in Moment
           /\ Usec(g_timer_get_current_time) \in Nat
  <1>1. ClockGetTime.tv_sec \in Int /\ ClockGetTime.tv_nsec \in 0..NSEC_PER_SEC - 1
    BY ClockGetTimeIsNow DEF Normalised
  <1>2. ClockGetTime.tv_nsec \div NSEC_PER_USEC \in 0..Second - 1
    <2> DEFINE n == ClockGetTime.tv_nsec
    <2>1. n \in Nat /\ n < Second * NSEC_PER_USEC
      BY <1>1, Units, SecondIsPositive
    <2> HIDE DEF n
    <2> QED BY <2>1, Units, QuotientIsBelow DEF n
  <1>3. ClockGetTime.tv_sec >= 0
    <2> SUFFICES ASSUME ClockGetTime.tv_sec <= -1 PROVE FALSE
      BY <1>1
    <2>1. ClockGetTime.tv_sec * NSEC_PER_SEC <= (-1) * NSEC_PER_SEC
      BY <1>1, SecondIsPositive, ProductIsMonotone
    <2>2. ClockGetTime.tv_sec * NSEC_PER_SEC + ClockGetTime.tv_nsec = now
      BY ClockGetTimeIsNow DEF Nsec
    <2> QED BY <1>1, <2>1, <2>2, SecondIsPositive
  <1>4. g_timer_get_current_time \in Moment
    BY <1>1, <1>2 DEF g_timer_get_current_time, Moment
  <1>5. 0 * Second <= ClockGetTime.tv_sec * Second
    BY <1>1, <1>3, Units, ProductIsMonotone
  <1>6. ClockGetTime.tv_sec * Second \in Int
    BY <1>1, Units
  <1>7. Usec(g_timer_get_current_time)
          = ClockGetTime.tv_sec * Second + ClockGetTime.tv_nsec \div NSEC_PER_USEC
    BY DEF Usec, g_timer_get_current_time, Second
  <1>8. 0 * Second = 0
    BY Units
  <1> QED BY <1>2, <1>4, <1>5, <1>6, <1>7, <1>8

\* Before the rounding, an interval after t is exactly that.
LEMMA CarriedIsExact ==
    ASSUME NEW t \in Moment, NEW interval \in Nat
    PROVE  /\ Carried(Raw(t, interval)) \in Moment
           /\ Usec(Carried(Raw(t, interval))) = Usec(t) + interval * Milli
  <1> DEFINE secs == interval \div MSEC_PER_SEC
             rest == interval - secs * MSEC_PER_SEC
  <1>1. secs \in Int /\ rest \in 0..MSEC_PER_SEC - 1
    <2>1. /\ secs \in Int /\ interval % MSEC_PER_SEC \in 0..MSEC_PER_SEC - 1
          /\ interval = MSEC_PER_SEC * secs + (interval % MSEC_PER_SEC)
      BY Units, Division
    <2> QED BY <2>1, Units
  <1>2. rest * Milli \in 0..Second - 1
    <2>1. 0 * Milli <= rest * Milli
      BY <1>1, Units, ProductIsMonotone
    <2>2. rest * Milli <= (MSEC_PER_SEC - 1) * Milli
      BY <1>1, Units, ProductIsMonotone
    <2>3. (MSEC_PER_SEC - 1) * Milli = Second - Milli
      BY Units
    <2>4. rest * Milli \in Int /\ 0 * Milli = 0
      BY <1>1, Units
    <2> QED BY <2>1, <2>2, <2>3, <2>4, Units
  <1>3. Raw(t, interval) = [tv_sec |-> t.tv_sec + secs, tv_usec |-> t.tv_usec + rest * Milli]
    BY DEF Raw, Milli
  <1>4. interval * Milli = secs * Second + rest * Milli
    <2>1. secs * (MSEC_PER_SEC * Milli) = (secs * MSEC_PER_SEC) * Milli
      BY <1>1, Units
    <2>2. rest * Milli = interval * Milli - (secs * MSEC_PER_SEC) * Milli
      BY <1>1, Units
    <2> QED BY <1>1, <2>1, <2>2, Units
  <1>5. /\ (t.tv_sec + secs) * Second = t.tv_sec * Second + secs * Second
        /\ (t.tv_sec + secs + 1) * Second = t.tv_sec * Second + secs * Second + Second
        /\ t.tv_sec * Second \in Int /\ secs * Second \in Int
    BY <1>1, Units DEF Moment
  <1> HIDE DEF secs, rest
  <1>6. CASE t.tv_usec + rest * Milli >= Second
    <2>1. Carried(Raw(t, interval)) = [tv_sec |-> t.tv_sec + secs + 1,
                                       tv_usec |-> t.tv_usec + rest * Milli - Second]
      BY <1>1, <1>2, <1>3, <1>6, Units DEF Carried, Second, Moment
    <2>2. Carried(Raw(t, interval)) \in Moment
      BY <1>1, <1>2, <1>6, <2>1, Units DEF Moment
    <2>3. Usec(Carried(Raw(t, interval)))
            = (t.tv_sec + secs + 1) * Second + t.tv_usec + rest * Milli - Second
      BY <1>1, <1>2, <2>1, <1>5, Units DEF Usec, Second, Moment
    <2> QED BY <1>1, <1>2, <1>4, <1>5, <2>2, <2>3, Units DEF Usec, Second, Moment
  <1>7. CASE t.tv_usec + rest * Milli < Second
    <2>1. Carried(Raw(t, interval)) = [tv_sec |-> t.tv_sec + secs,
                                       tv_usec |-> t.tv_usec + rest * Milli]
      BY <1>2, <1>3, <1>7, Units DEF Carried, Second, Moment
    <2>2. Carried(Raw(t, interval)) \in Moment
      BY <1>1, <1>2, <1>7, <2>1, Units DEF Moment
    <2>3. Usec(Carried(Raw(t, interval)))
            = (t.tv_sec + secs) * Second + t.tv_usec + rest * Milli
      BY <1>1, <1>2, <2>1, <1>5, Units DEF Usec, Second, Moment
    <2>4. Usec(t) = t.tv_sec * Second + t.tv_usec
      BY DEF Usec, Second
    <2>5. t.tv_usec \in Int /\ rest * Milli \in Int
      BY <1>2, Units DEF Moment
    <2>6. Usec(Carried(Raw(t, interval))) = Usec(t) + interval * Milli
      BY <1>4, <1>5, <2>3, <2>4, <2>5
    <2> QED BY <2>2, <2>6
  <1> QED BY <1>2, <1>6, <1>7, Units DEF Moment

\* The carry of the last loop keeps the time and leaves at most a second.
LEMMA AtMostASecondIsExact ==
    ASSUME NEW t, t \in [tv_sec : Int, tv_usec : Nat]
    PROVE  /\ AtMostASecond(t) \in [tv_sec : Int, tv_usec : 0..Second]
           /\ Usec(AtMostASecond(t)) = Usec(t)
  <1> DEFINE n == (t.tv_usec - 1) \div Second
  <1>1. CASE t.tv_usec <= Second
    <2>1. AtMostASecond(t) = [tv_sec |-> t.tv_sec, tv_usec |-> t.tv_usec]
      BY <1>1, Units DEF AtMostASecond, Second
    <2> QED BY <1>1, <2>1, Units DEF Usec
  <1>2. CASE t.tv_usec > Second
    <2>1. /\ n \in Int /\ (t.tv_usec - 1) % Second \in 0..Second - 1
          /\ t.tv_usec - 1 = Second * n + ((t.tv_usec - 1) % Second)
      <3> DEFINE u == t.tv_usec - 1
      <3>1. u \in Int
        OBVIOUS
      <3> HIDE DEF u
      <3>2. /\ u \div Second \in Int /\ u % Second \in 0..Second - 1
            /\ u = Second * (u \div Second) + (u % Second)
        BY <3>1, Units, Division
      <3> QED BY <3>2 DEF u
    <2>2. AtMostASecond(t) = [tv_sec |-> t.tv_sec + n, tv_usec |-> t.tv_usec - n * Second]
      BY <1>2, Units DEF AtMostASecond, Second
    <2>3. /\ (t.tv_sec + n) * Second = t.tv_sec * Second + n * Second
          /\ t.tv_sec * Second \in Int /\ n * Second \in Int
          /\ n * Second = Second * n
      BY <2>1, Units
    <2> HIDE DEF n
    <2>4. t.tv_usec - n * Second \in 0..Second
      BY <2>1, <2>3, Units
    <2> QED BY <2>1, <2>2, <2>3, <2>4 DEF Usec, Second
  <1> QED BY <1>1, <1>2, Units

\* What the rounding does to a time: it takes less than a quarter of the
\* granularity away and adds less than there is left of it.
LEMMA RoundedIsNear ==
    ASSUME NEW t \in Moment, NEW gran \in Nat \ {0}
    PROVE  /\ Rounded(t, gran) \in [tv_sec : Int, tv_usec : Nat]
           /\ Usec(Rounded(t, gran)) >= Usec(t) - gran \div 4
           /\ gran \div 4 >= 1 => Usec(Rounded(t, gran)) > Usec(t) - gran \div 4
           /\ Usec(Rounded(t, gran)) <= Usec(t) + gran
  <1> DEFINE r  == t.tv_usec % gran
             up == IF r >= gran \div 4 THEN gran ELSE 0
  <1>1. r \in 0..gran - 1 /\ r <= t.tv_usec
    BY RemainderIsBelow DEF Moment
  <1>2. gran \div 4 \in 0..gran
    OBVIOUS
  <1>3. Rounded(t, gran) = [tv_sec |-> t.tv_sec, tv_usec |-> t.tv_usec + up - r]
    BY DEF Rounded, Moment
  <1>4. t.tv_sec * Second \in Int
    BY Units DEF Moment
  <1> HIDE DEF r
  <1> QED BY <1>1, <1>2, <1>3, <1>4 DEF Moment, Usec, Second

\* A time that g_timer_set_expiration() leaves behind.
Expiration == [tv_sec : Int, tv_usec : 0..Second]

\* When an interval that begins at t is over, and the quarter of a granularity.
Nominal(t, interval) == Usec(t) + interval * Milli
Quarter(gran) == (gran * Milli) \div 4

LEMMA QuarterIsNat ==
    ASSUME NEW gran \in Nat
    PROVE  Quarter(gran) \in Nat /\ gran * Milli \in Nat
  <1>1. gran * Milli \in Nat
    BY Units
  <1> QED BY <1>1 DEF Quarter

\* The expiration is less than a quarter of the granularity early, or not at
\* all if there is no quarter, and at most the granularity late.
LEMMA ExpirationIsNear ==
    ASSUME NEW t \in Moment, NEW interval \in Nat, NEW gran \in Nat,
           NEW e, e = g_timer_set_expiration(t, interval, gran)
    PROVE  /\ e \in Expiration
           /\ Usec(e) >= Nominal(t, interval) - Quarter(gran)
           /\ Quarter(gran) >= 1 => Usec(e) > Nominal(t, interval) - Quarter(gran)
           /\ Usec(e) <= Nominal(t, interval) + gran * Milli
  <1> DEFINE c == Carried(Raw(t, interval))
             g == gran * Milli
  <1>1. c \in Moment /\ Usec(c) = Usec(t) + interval * Milli
    BY CarriedIsExact
  <1>2. Usec(c) \in Int
    BY <1>1, UsecIsInt DEF Moment
  <1>3. CASE gran = 0
    <2>1. g_timer_set_expiration(t, interval, gran) = c
      BY <1>3 DEF g_timer_set_expiration
    <2>2. g = 0
      BY <1>3, Units
    <2>3. c \in Expiration
      BY <1>1, Units DEF Moment, Expiration
    <2>4. Quarter(gran) = 0
      BY <2>2 DEF Quarter
    <2> HIDE DEF c
    <2> QED BY <1>1, <1>2, <1>3, <2>1, <2>2, <2>3, <2>4 DEF Nominal
  <1>4. CASE gran # 0
    <2>1. g \in Nat \ {0}
      BY <1>4, Units
    <2> DEFINE r == Rounded(c, g)
    <2>2. g_timer_set_expiration(t, interval, gran) = AtMostASecond(r)
      BY <1>4 DEF g_timer_set_expiration, Milli
    <2> HIDE DEF c, g
    <2>3. /\ r \in [tv_sec : Int, tv_usec : Nat]
          /\ Usec(r) >= Usec(c) - g \div 4
          /\ g \div 4 >= 1 => Usec(r) > Usec(c) - g \div 4
          /\ Usec(r) <= Usec(c) + g
      BY <1>1, <2>1, RoundedIsNear
    <2> HIDE DEF r
    <2>4. AtMostASecond(r) \in Expiration /\ Usec(AtMostASecond(r)) = Usec(r)
      BY <2>3, AtMostASecondIsExact DEF Expiration
    <2> QED BY <1>1, <2>2, <2>3, <2>4 DEF g, Nominal, Quarter
  <1> QED BY <1>3, <1>4

\* g_timer_set_expiration(): a timer that has just been armed is not over yet,
\* so that the main loop does not spin on it, if its interval is at least a
\* quarter of its granularity.
THEOREM ArmedTimerIsNotOver ==
    ASSUME NEW t \in Moment, NEW interval \in Nat, NEW gran \in Nat,
           interval > 0,
           interval * Milli >= Quarter(gran)
    PROVE  Usec(g_timer_set_expiration(t, interval, gran)) > Usec(t)
  <1> DEFINE e == g_timer_set_expiration(t, interval, gran)
  <1>1. /\ e \in Expiration
        /\ Usec(e) >= Nominal(t, interval) - Quarter(gran)
        /\ Quarter(gran) >= 1 => Usec(e) > Nominal(t, interval) - Quarter(gran)
    BY ExpirationIsNear
  <1> HIDE DEF e
  <1>2. Usec(t) \in Int /\ Usec(e) \in Int
    BY <1>1, UsecIsInt DEF Moment, Expiration
  <1>3. interval * Milli \in Nat \ {0} /\ Quarter(gran) \in Nat
    BY Units, QuarterIsNat
  <1>4. Usec(e) > Usec(t)
    BY <1>1, <1>2, <1>3 DEF Nominal
  <1> QED BY <1>4 DEF e

\* The milliseconds that prepare() works out: none are left only in the last
\* one, and otherwise they are not past the expiration by a whole one.
LEMMA MsecToIsNear ==
    ASSUME NEW e \in Expiration, NEW t \in Moment
    PROVE  /\ MsecTo(e, t) \in Nat
           /\ MsecTo(e, t) = 0 => Usec(t) > Usec(e) - Milli
           /\ MsecTo(e, t) # 0 => Usec(t) + MsecTo(e, t) * Milli < Usec(e) + Milli
  <1> DEFINE s    == e.tv_sec - t.tv_sec
             d    == e.tv_usec - t.tv_usec
             q    == Quotient(d, Milli)
             msec == s * MSEC_PER_SEC
             more == msec + q
  <1>1. s \in Int /\ d \in Int /\ d <= Second
    BY Units DEF Expiration, Moment
  <1>2. /\ q \in Int
        /\ q * Milli - d < Milli
        /\ d - q * Milli < Milli
    <2>1. CASE d >= 0
      <3>1. /\ d \div Milli \in Int /\ d % Milli \in 0..Milli - 1
            /\ d = Milli * (d \div Milli) + (d % Milli)
        BY <1>1, Units, Division
      <3>2. q = d \div Milli
        BY <2>1 DEF Quotient
      <3> HIDE DEF d, q
      <3> QED BY <1>1, <3>1, <3>2, Units
    <2>2. CASE d < 0
      <3> DEFINE n == -d
      <3>1. n \in Int
        BY <1>1
      <3>2. q = -(n \div Milli)
        BY <1>1, <2>2 DEF Quotient
      <3> HIDE DEF n
      <3>3. /\ n \div Milli \in Int /\ n % Milli \in 0..Milli - 1
            /\ n = Milli * (n \div Milli) + (n % Milli)
        BY <3>1, Units, Division
      <3>4. d = -n
        BY <1>1 DEF n
      <3> HIDE DEF d, q
      <3>5. q * Milli = -(Milli * (n \div Milli))
        BY <3>2, <3>3, Units
      <3> QED BY <1>1, <3>1, <3>2, <3>3, <3>4, <3>5, Units
    <2> QED BY <1>1, <2>1, <2>2
  <1>3. Usec(e) - Usec(t) = s * Second + d
    <2>1. /\ s * Second = e.tv_sec * Second - t.tv_sec * Second
          /\ e.tv_sec * Second \in Int /\ t.tv_sec * Second \in Int
      BY Units DEF Expiration, Moment
    <2> QED BY <2>1, Units DEF Usec, Second, Expiration, Moment
  <1>4. Usec(e) \in Int /\ Usec(t) \in Int
    BY UsecIsInt DEF Expiration, Moment
  <1>5. MsecTo(e, t) = IF msec < 0 \/ more < 0 THEN 0 ELSE more
    BY DEF MsecTo, Milli
  <1> HIDE DEF s, d, q
  <1>6. /\ msec \in Int /\ more \in Int /\ q * Milli \in Int /\ s * Second \in Int
        /\ more * Milli \in Int
    BY <1>1, <1>2, Units
  <1>7. more * Milli = s * Second + q * Milli
    <2>1. (s * MSEC_PER_SEC + q) * Milli = s * (MSEC_PER_SEC * Milli) + q * Milli
      BY <1>1, <1>2, Units
    <2> QED BY <2>1, Units
  <1>8. CASE msec < 0
    <2>1. ~(s >= 0)
      <3> SUFFICES ASSUME s >= 0 PROVE FALSE
        OBVIOUS
      <3>1. 0 * MSEC_PER_SEC <= s * MSEC_PER_SEC
        BY <1>1, Units, ProductIsMonotone
      <3> QED BY <1>1, <1>6, <1>8, <3>1, Units
    <2>2. s * Second <= (-1) * Second
      BY <1>1, <2>1, Units, ProductIsMonotone
    <2>3. Usec(e) <= Usec(t)
      BY <1>1, <1>3, <1>4, <1>6, <2>2, Units
    <2> HIDE DEF msec, more
    <2> QED BY <1>4, <1>5, <1>8, <2>3, Units
  <1>9. CASE msec >= 0 /\ more <= 0
    <2>1. more * Milli <= 0 * Milli
      BY <1>6, <1>9, Units, ProductIsMonotone
    <2>2. 0 * Milli = 0
      BY Units
    <2> HIDE DEF msec, more
    <2>3. Usec(e) - Usec(t) < Milli
      BY <1>1, <1>2, <1>3, <1>6, <1>7, <2>1, <2>2, Units
    <2>4. MsecTo(e, t) = 0
      BY <1>5, <1>6, <1>9
    <2> QED BY <1>4, <2>3, <2>4, Units
  <1>10. CASE msec >= 0 /\ more > 0
    <2> HIDE DEF msec, more
    <2>1. MsecTo(e, t) = more
      BY <1>5, <1>6, <1>10
    <2>2. more * Milli < Usec(e) - Usec(t) + Milli
      BY <1>1, <1>2, <1>3, <1>4, <1>6, <1>7, Units
    <2> QED BY <1>4, <1>6, <1>10, <2>1, <2>2, Units
  <1> QED BY <1>6, <1>8, <1>9, <1>10

\* What check() finds to be over is in the past.
LEMMA OverIsPast ==
    ASSUME NEW e \in Expiration, NEW t \in Moment, IsOver(e, t)
    PROVE  Usec(e) <= Usec(t)
  <1>1. CASE e.tv_sec < t.tv_sec
    <2>1. (e.tv_sec + 1) * Second <= t.tv_sec * Second
      BY <1>1, Units, ProductIsMonotone DEF Expiration, Moment
    <2>2. /\ (e.tv_sec + 1) * Second = e.tv_sec * Second + Second
          /\ e.tv_sec * Second \in Int /\ t.tv_sec * Second \in Int
      BY Units DEF Expiration, Moment
    <2> QED BY <2>1, <2>2, Units DEF Expiration, Moment, Usec, Second
  <1>2. CASE e.tv_sec = t.tv_sec /\ e.tv_usec <= t.tv_usec
    <2>1. e.tv_sec * Second \in Int
      BY Units DEF Expiration
    <2> QED BY <1>2, <2>1 DEF Expiration, Moment, Usec, Second
  <1> QED BY <1>1, <1>2 DEF IsOver

--------------------------------------------------------------------------------
(***************************************************************************)
(* The timer and the main loop.                                            *)
(***************************************************************************)

\* The time the timer reads when the clock shows n.
TimeAt(n) ==
    [tv_sec  |-> n \div NSEC_PER_SEC,
     tv_usec |-> (n % NSEC_PER_SEC) \div NSEC_PER_USEC]

LEMMA TimeAtNow == g_timer_get_current_time = TimeAt(now)
  BY DEF g_timer_get_current_time, ClockGetTime, TimeAt

LEMMA TimeAtIsAMoment ==
    ASSUME NEW n \in Nat
    PROVE  /\ TimeAt(n) \in Moment
           /\ Usec(TimeAt(n)) \in Nat
           /\ NSEC_PER_USEC * Usec(TimeAt(n)) <= n
           /\ n < NSEC_PER_USEC * Usec(TimeAt(n)) + NSEC_PER_USEC
  <1> DEFINE s == n \div NSEC_PER_SEC
             m == n % NSEC_PER_SEC
             u == m \div NSEC_PER_USEC
  <1>1. s \in Nat /\ m \in 0..NSEC_PER_SEC - 1 /\ n = NSEC_PER_SEC * s + m
    <2>1. s \in Nat /\ m \in 0..NSEC_PER_SEC - 1
      BY SecondIsPositive, RemainderIsBelow
    <2>2. n = NSEC_PER_SEC * s + m
      BY SecondIsPositive, Division
    <2> QED BY <2>1, <2>2
  <1> HIDE DEF s, m
  <1>2. m \in Nat /\ m < Second * NSEC_PER_USEC
    BY <1>1, Units, SecondIsPositive
  <1>3. /\ u \in 0..Second - 1
        /\ NSEC_PER_USEC * u <= m
        /\ m < NSEC_PER_USEC * u + NSEC_PER_USEC
    <2>1. u \in 0..Second - 1
      BY <1>2, Units, QuotientIsBelow
    <2>2. m % NSEC_PER_USEC \in 0..NSEC_PER_USEC - 1 /\ m = NSEC_PER_USEC * u + (m % NSEC_PER_USEC)
      BY <1>2, Units, Division
    <2> QED BY <1>2, <2>1, <2>2, Units
  <1>4. TimeAt(n) = [tv_sec |-> s, tv_usec |-> u]
    BY DEF TimeAt, s, m
  <1> HIDE DEF u
  <1>5. Usec(TimeAt(n)) = s * Second + u
    BY <1>4 DEF Usec, Second
  <1>6. s * Second \in Nat
    BY <1>1, Units
  <1>7. NSEC_PER_USEC * (s * Second + u) = NSEC_PER_SEC * s + NSEC_PER_USEC * u
    <2>1. NSEC_PER_USEC * (s * Second + u) = (Second * NSEC_PER_USEC) * s + NSEC_PER_USEC * u
      BY <1>1, <1>3, Units
    <2> QED BY <2>1, Units
  <1>8. NSEC_PER_SEC * s \in Int /\ NSEC_PER_USEC * u \in Int
    BY <1>1, <1>3, Units, SecondIsPositive
  <1>9. NSEC_PER_USEC * Usec(TimeAt(n)) = NSEC_PER_SEC * s + NSEC_PER_USEC * u
    BY <1>5, <1>7
  <1> QED BY <1>1, <1>3, <1>4, <1>5, <1>6, <1>8, <1>9, Units DEF Moment

LEMMA TimeAtIsMonotone ==
    ASSUME NEW n \in Nat
    PROVE  Usec(TimeAt(n)) <= Usec(TimeAt(n + 1))
  <1> DEFINE a == Usec(TimeAt(n))
             b == Usec(TimeAt(n + 1))
             k == NSEC_PER_USEC
  <1>1. /\ a \in Nat /\ b \in Nat /\ k \in Nat
        /\ k * a <= n /\ n + 1 < k * b + k
    BY TimeAtIsAMoment, Units
  <1> HIDE DEF a, b, k
  <1>2. ~(b + 1 <= a)
    <2> SUFFICES ASSUME b + 1 <= a PROVE FALSE
      OBVIOUS
    <2>1. (b + 1) * k <= a * k
      BY <1>1, ProductIsMonotone
    <2>2. (b + 1) * k = k * b + k /\ a * k = k * a /\ k * b \in Int /\ k * a \in Int
      BY <1>1
    <2> QED BY <1>1, <2>1, <2>2
  <1> QED BY <1>1, <1>2 DEF a, b

\* A gint holds what is below half of what a guint holds.
LEMMA GintIsExact ==
    ASSUME NEW n \in Nat, n < GUINT_SIZE \div 2
    PROVE  Gint(n) = n
  <1>1. GUINT_SIZE \in Nat \ {0}
    BY TimersAssumption
  <1>2. n + GUINT_SIZE \div 2 \in 0..GUINT_SIZE - 1
    BY <1>1
  <1>3. (n + GUINT_SIZE \div 2) % GUINT_SIZE = n + GUINT_SIZE \div 2
    BY <1>1, <1>2, SmallRemainder
  <1> QED BY <1>1, <1>2, <1>3 DEF Gint

LEMMA GintIsInt == ASSUME NEW n \in Int PROVE Gint(n) \in Int
  <1>1. GUINT_SIZE \in Nat \ {0} /\ GUINT_SIZE \div 2 \in Int
    BY TimersAssumption
  <1>2. (n + GUINT_SIZE \div 2) % GUINT_SIZE \in Int
    BY <1>1, Division
  <1> QED BY <1>1, <1>2 DEF Gint

\* The expiration is that of the interval asked for, unless two threads have
\* set it at once.
ExpirationIsKept ==
    /\ expiration \in Expiration
    /\ due \in Nat
    /\ Usec(expiration) >= due - Quarter(granularity)
    /\ Usec(expiration) <= due + granularity * Milli
    /\ due <= Nominal(TimeAt(now), interval_ms)

TimerTypes ==
    /\ now \in Nat
    /\ timer \in {"none", "created", "attached", "removed"}
    /\ interval_ms \in Nat
    /\ granularity \in Nat
    /\ setting \in {"no", "from_poll", "thread"}
    /\ loop \in Loops
    /\ woken \in BOOLEAN

TimerInv ==
    /\ TimerTypes
    /\ due # -1 => ExpirationIsKept
    /\ setting = "from_poll" => loop # "poll"
    /\ LoopDoesNotOversleep

\* Arming: the interval begins at the time the clock shows.
LEMMA ArmingKeepsExpiration ==
    ASSUME NEW interval \in Nat, now \in Nat, now' = now, granularity' \in Nat,
           interval_ms' = interval,
           expiration' = g_timer_set_expiration(g_timer_get_current_time,
                                                interval, granularity'),
           Asked(interval)
    PROVE  ExpirationIsKept' /\ due' # -1
  <1> DEFINE t == TimeAt(now)
  <1>1. t \in Moment /\ Usec(t) \in Nat
    BY TimeAtIsAMoment
  <1>2. expiration' = g_timer_set_expiration(t, interval, granularity')
    BY TimeAtNow
  <1>3. due' = Nominal(t, interval)
    BY TimeAtNow DEF Asked, Nominal, Milli
  <1>4. TimeAt(now') = t
    OBVIOUS
  <1> HIDE DEF t
  <1>5. /\ expiration' \in Expiration
        /\ Usec(expiration') >= Nominal(t, interval) - Quarter(granularity')
        /\ Usec(expiration') <= Nominal(t, interval) + granularity' * Milli
    BY <1>1, <1>2, ExpirationIsNear
  <1>6. Nominal(t, interval) \in Nat
    BY <1>1, Units DEF Nominal
  <1> QED BY <1>3, <1>4, <1>5, <1>6 DEF ExpirationIsKept, Nominal, Usec

LEMMA TimerInvHolds == TimerSpec => []TimerInv
  <1>1. ClockInit /\ TimerInit => TimerInv
    <2> SUFFICES ASSUME ClockInit, TimerInit PROVE TimerInv
      OBVIOUS
    <2>1. TimerTypes
      <3>1. now \in Nat
        BY SecondIsPositive DEF ClockInit
      <3> QED BY <3>1 DEF TimerInit, TimerTypes, Loops
    <2>2. Usec(expiration) = 0
      <3>1. 0 * Second = 0
        BY Units
      <3> QED BY <3>1 DEF TimerInit, Usec, Second
    <2>3. Quarter(0) \in Nat /\ 0 * Milli \in Nat
      BY QuarterIsNat
    <2>4. Nominal(TimeAt(now), 0) \in Nat
      BY <2>1, <2>3, TimeAtIsAMoment DEF TimerTypes, Nominal
    <2>5. ExpirationIsKept
      BY <2>2, <2>3, <2>4, Units DEF TimerInit, ExpirationIsKept, Expiration
    <2> QED BY <2>1, <2>5 DEF TimerInit, TimerInv, LoopDoesNotOversleep
  <1>2. TimerInv /\ [TimerNext \/ (Tick /\ UNCHANGED timerVars)]_<<now, timerVars>>
          => TimerInv'
    <2> SUFFICES ASSUME TimerInv,
                        [TimerNext \/ (Tick /\ UNCHANGED timerVars)]_<<now, timerVars>>
                 PROVE  TimerInv'
      OBVIOUS
    <2>t. TimerTypes
      BY DEF TimerInv
    <2>g. /\ GUINT_SIZE \in Nat \ {0} /\ Intervals \subseteq Nat
          /\ Granularities \subseteq Nat /\ MSEC_PER_SEC \in Nat
          /\ \A s \in Seconds : (s * MSEC_PER_SEC) % GUINT_SIZE \in Nat
          /\ \A s \in Seconds : (MSEC_PER_SEC * s) % GUINT_SIZE \in Nat
      <3>1. GUINT_SIZE \in Nat \ {0} /\ MSEC_PER_SEC \in Nat
        BY Units, TimersAssumption
      <3>2. ASSUME NEW s \in Seconds
            PROVE  s * MSEC_PER_SEC \in Int /\ MSEC_PER_SEC * s \in Int
        BY <3>1, TimersAssumption
      <3>3. ASSUME NEW n \in Int PROVE n % GUINT_SIZE \in Nat
        BY <3>1, Division
      <3> QED BY <3>1, <3>2, <3>3, TimersAssumption
    <2>1. CASE UNCHANGED <<now, timerVars>>
      <3>1. UNCHANGED <<now, timer, expiration, interval_ms, granularity, setting,
                        loop, slept_until, woken, due>>
        BY <2>1 DEF timerVars
      <3> QED BY <3>1 DEF TimerInv, TimerTypes, ExpirationIsKept, LoopDoesNotOversleep
    <2>2. CASE Tick /\ UNCHANGED timerVars
      <3>1. /\ UNCHANGED <<timer, expiration, interval_ms, granularity, setting,
                           loop, slept_until, woken, due>>
            /\ now' = now + 1
        BY <2>2 DEF Tick, timerVars
      <3>2. TimerTypes'
        BY <2>t, <3>1 DEF TimerTypes
      <3>3. LoopDoesNotOversleep'
        BY <3>1 DEF TimerInv, LoopDoesNotOversleep
      <3>4. ASSUME due # -1 PROVE ExpirationIsKept'
        <4>1. Usec(TimeAt(now)) <= Usec(TimeAt(now + 1))
          BY <2>t, TimeAtIsMonotone DEF TimerTypes
        <4>2. /\ Usec(TimeAt(now)) \in Nat /\ Usec(TimeAt(now + 1)) \in Nat
              /\ interval_ms * Milli \in Nat
          BY <2>t, TimeAtIsAMoment, Units DEF TimerTypes
        <4>3. ExpirationIsKept
          BY <3>4 DEF TimerInv
        <4>4. due <= Usec(TimeAt(now + 1)) + interval_ms * Milli
          BY <4>1, <4>2, <4>3 DEF ExpirationIsKept, Nominal
        <4> QED BY <3>1, <4>3, <4>4 DEF ExpirationIsKept, Nominal
      <3> QED BY <3>1, <3>2, <3>3, <3>4 DEF TimerInv
    <2>3. ASSUME NEW i \in Nat, NEW g \in Nat, New(i, g)
          PROVE  TimerInv'
      <3>1. ExpirationIsKept' /\ due' # -1
        BY <2>t, <2>3, ArmingKeepsExpiration DEF New, TimerTypes
      <3>2. TimerTypes'
        BY <2>t, <2>3 DEF New, TimerTypes
      <3> QED BY <2>3, <3>1, <3>2 DEF New, TimerInv, LoopDoesNotOversleep
    <2>4. CASE Attach
      <3>1. UNCHANGED <<now, expiration, interval_ms, granularity, setting, loop,
                        slept_until, due>> /\ timer' = "attached" /\ woken' = TRUE
        BY <2>4 DEF Attach
      <3> QED BY <2>t, <3>1
              DEF TimerInv, TimerTypes, ExpirationIsKept, LoopDoesNotOversleep
    <2>5. ASSUME NEW i \in Nat, NEW by \in {"from_poll", "thread"}, SetInterval(i, by)
          PROVE  TimerInv'
      <3>1. /\ UNCHANGED <<now, timer, granularity, loop, slept_until, woken>>
            /\ setting' = by /\ interval_ms' = i
            /\ by = "from_poll" => loop # "poll"
            /\ expiration' = g_timer_set_expiration(g_timer_get_current_time, i, granularity)
            /\ Asked(i)
        BY <2>5 DEF SetInterval
      <3>2. ExpirationIsKept' /\ due' # -1
        BY <2>t, <3>1, ArmingKeepsExpiration DEF TimerTypes
      <3>3. TimerTypes'
        BY <2>t, <3>1 DEF TimerTypes
      <3> QED BY <3>1, <3>2, <3>3 DEF TimerInv, LoopDoesNotOversleep
    <2>6. CASE IntervalIsSet
      <3>1. /\ UNCHANGED <<now, timer, interval_ms, granularity, loop, slept_until, due>>
            /\ setting # "no" /\ setting' = "no"
            /\ due # -1 => expiration' = expiration
            /\ woken' = (woken \/ (setting = "thread" /\ timer = "attached"))
        BY <2>6 DEF IntervalIsSet
      <3>2. TimerTypes'
        BY <2>t, <3>1 DEF TimerTypes
      <3>3. due' # -1 => ExpirationIsKept'
        BY <3>1 DEF TimerInv, ExpirationIsKept
      <3>4. LoopDoesNotOversleep'
        BY <2>t, <3>1 DEF TimerInv, TimerTypes, LoopDoesNotOversleep
      <3> QED BY <3>1, <3>2, <3>3, <3>4 DEF TimerInv
    <2>7. CASE g_timer_source_prepare
      <3>1. /\ UNCHANGED <<now, timer, expiration, interval_ms, granularity, setting,
                           woken, due>>
            /\ loop' \in {"poll", "dispatch"}
            /\ setting # "from_poll"
        BY <2>7 DEF g_timer_source_prepare, LoopSteps
      <3>2. due' # -1 => ExpirationIsKept'
        BY <3>1 DEF TimerInv, ExpirationIsKept
      <3> DEFINE t == TimeAt(now)
      <3>3. t \in Moment /\ Usec(t) \in Nat /\ g_timer_get_current_time = t
        BY <2>t, TimeAtIsAMoment, TimeAtNow DEF TimerTypes
      <3>4. LoopDoesNotOversleep'
        <4> SUFFICES ASSUME loop' = "poll", timer = "attached", setting = "no",
                            due # -1,
                            interval_ms + granularity < GUINT_SIZE \div 2
                     PROVE  /\ slept_until' >= 0
                            /\ slept_until' < Usec(expiration) + Milli
          BY <3>1 DEF LoopDoesNotOversleep, Usec, Milli
        <4> DEFINE msec == MsecTo(expiration, t)
        <4>1. /\ msec # 0
              /\ slept_until' = IF Gint(msec) < 0 THEN -1
                                ELSE Usec(t) + Gint(msec) * Milli
          BY <2>7, <3>3 DEF g_timer_source_prepare, Read, Milli
        <4>2. ExpirationIsKept
          BY DEF TimerInv
        <4>3. expiration \in Expiration /\ Usec(expiration) \in Int
          BY <4>2, UsecIsInt DEF ExpirationIsKept, Expiration
        <4> HIDE DEF t
        <4>4. msec \in Nat /\ Usec(t) + msec * Milli < Usec(expiration) + Milli
          BY <3>3, <4>1, <4>3, MsecToIsNear
        <4> HIDE DEF msec
        <4>5. Usec(expiration) <= Usec(t) + interval_ms * Milli + granularity * Milli
          <5>1. /\ Usec(expiration) <= due + granularity * Milli
                /\ due <= Usec(t) + interval_ms * Milli /\ due \in Nat
            BY <4>2 DEF ExpirationIsKept, Nominal, t
          <5>2. interval_ms * Milli \in Nat /\ granularity * Milli \in Nat
            BY <2>t, Units DEF TimerTypes
          <5> QED BY <3>3, <4>3, <5>1, <5>2
        <4>6. msec < GUINT_SIZE \div 2
          <5>1. (interval_ms + granularity + 1) * Milli
                  = interval_ms * Milli + granularity * Milli + Milli
            BY <2>t, Units DEF TimerTypes
          <5>2. /\ interval_ms * Milli \in Nat /\ granularity * Milli \in Nat
                /\ msec * Milli \in Int
            BY <2>t, <4>4, Units DEF TimerTypes
          <5>3. msec * Milli < (interval_ms + granularity + 1) * Milli
            BY <3>3, <4>3, <4>4, <4>5, <5>1, <5>2, Units
          <5>4. ~(interval_ms + granularity + 1 <= msec)
            <6> SUFFICES ASSUME interval_ms + granularity + 1 <= msec PROVE FALSE
              OBVIOUS
            <6>1. (interval_ms + granularity + 1) * Milli <= msec * Milli
              BY <2>t, <4>4, Units, ProductIsMonotone DEF TimerTypes
            <6> QED BY <5>1, <5>2, <5>3, <6>1, Units
          <5> QED BY <2>t, <2>g, <4>4, <5>4 DEF TimerTypes
        <4>7. Gint(msec) = msec
          BY <4>4, <4>6, GintIsExact
        <4>8. msec * Milli \in Nat
          BY <4>4, Units
        <4>9. slept_until' = Usec(t) + msec * Milli
          BY <4>1, <4>4, <4>7
        <4> QED BY <3>3, <4>4, <4>8, <4>9
      <3> QED BY <2>t, <3>1, <3>2, <3>4 DEF TimerInv, TimerTypes, Loops
    <2>8. CASE PollReturns \/ g_timer_source_check
      <3>1. /\ UNCHANGED <<now, timer, expiration, interval_ms, granularity, setting, due>>
            /\ woken' \in BOOLEAN
            /\ loop' \in Loops /\ loop' # "poll"
        BY <2>t, <2>8 DEF PollReturns, g_timer_source_check, LoopSteps, TimerTypes, Loops
      <3> QED BY <2>t, <3>1
              DEF TimerInv, TimerTypes, ExpirationIsKept, LoopDoesNotOversleep
    <2>9. CASE g_timer_source_dispatch
      <3>1. /\ UNCHANGED <<now, interval_ms, granularity, setting, woken>>
            /\ loop' = "prepare" /\ timer' \in {timer, "removed"}
        BY <2>9 DEF g_timer_source_dispatch, LoopSteps
      <3>2. due' # -1 => ExpirationIsKept'
        <4>1. CASE /\ expiration' = g_timer_set_expiration(g_timer_get_current_time,
                                                          interval_ms, granularity)
                   /\ Asked(interval_ms)
          BY <2>t, <3>1, <4>1, ArmingKeepsExpiration DEF TimerTypes
        <4>2. CASE due' = -1
          BY <4>2
        <4>3. CASE UNCHANGED <<expiration, due>>
          BY <3>1, <4>3 DEF TimerInv, ExpirationIsKept
        <4> QED BY <2>9, <4>1, <4>2, <4>3 DEF g_timer_source_dispatch, Rearm
      <3> QED BY <2>t, <3>1, <3>2 DEF TimerInv, TimerTypes, Loops, LoopDoesNotOversleep
    <2>10. ASSUME TimerNext PROVE TimerInv'
      <3>1. CASE g_timer_source_new
        BY <2>g, <2>3, <3>1 DEF g_timer_source_new
      <3>2. CASE g_timer_source_new_seconds
        BY <2>g, <2>3, <3>2 DEF g_timer_source_new_seconds
      <3>3. CASE g_timer_source_set_interval
        BY <2>g, <2>5, <3>3 DEF g_timer_source_set_interval
      <3>4. CASE g_timer_source_set_interval_seconds
        BY <2>g, <2>5, <3>4 DEF g_timer_source_set_interval_seconds
      <3> QED
        BY <2>4, <2>6, <2>7, <2>8, <2>9, <2>10, <3>1, <3>2, <3>3, <3>4 DEF TimerNext
    <2> QED BY <2>1, <2>2, <2>10
  <1> QED BY <1>1, <1>2, PTL DEF TimerSpec

\* Once a call that sets the interval has returned, the main loop does not sleep
\* past the expiration (g_timer_source_set_interval), for every interval that is
\* a gint and however the call and the loop have interleaved.
THEOREM LoopNeverOversleeps == TimerSpec => []LoopDoesNotOversleep
  <1>1. TimerInv => LoopDoesNotOversleep
    BY DEF TimerInv
  <1> QED BY <1>1, TimerInvHolds, PTL

\* A timer is never taken to be over earlier than a quarter of its granularity
\* and a millisecond before its interval is (g_timer_source_prepare and
\* g_timer_source_check).
THEOREM NoTimerIsEarly == TimerSpec => TimerIsNotEarly
  <1> DEFINE A == (/\ loop # "dispatch" /\ loop' = "dispatch"
                   /\ setting = "no"
                   => Usec(g_timer_get_current_time)
                        > due - (granularity * USECS_PER_MSEC) \div 4 - USECS_PER_MSEC)
  <1>1. TimerInv /\ [TimerNext \/ (Tick /\ UNCHANGED timerVars)]_<<now, timerVars>>
          => [A]_<<now, timerVars>>
    <2> SUFFICES ASSUME TimerInv,
                        [TimerNext \/ (Tick /\ UNCHANGED timerVars)]_<<now, timerVars>>,
                        loop # "dispatch", loop' = "dispatch", setting = "no"
                 PROVE  Usec(g_timer_get_current_time)
                          > due - Quarter(granularity) - Milli
      BY DEF Quarter, Milli
    <2> DEFINE t == TimeAt(now)
    <2>1. TimerTypes
      BY DEF TimerInv
    <2>2. t \in Moment /\ Usec(t) \in Nat /\ g_timer_get_current_time = t
      BY <2>1, TimeAtIsAMoment, TimeAtNow DEF TimerTypes
    <2>3. Quarter(granularity) \in Nat
      BY <2>1, QuarterIsNat DEF TimerTypes
    <2>4. CASE due = -1
      <3> HIDE DEF t
      <3> QED BY <2>2, <2>3, <2>4, Units
    <2>5. CASE due # -1
      <3>1. ExpirationIsKept
        BY <2>5 DEF TimerInv
      <3>2. expiration \in Expiration /\ Usec(expiration) \in Int
        BY <3>1, UsecIsInt DEF ExpirationIsKept, Expiration
      <3>3. \/ MsecTo(expiration, t) = 0
            \/ IsOver(expiration, t)
        BY <2>2
        DEF TimerNext, Tick, timerVars, g_timer_source_new, g_timer_source_new_seconds,
            New, Attach, g_timer_source_set_interval,
            g_timer_source_set_interval_seconds, SetInterval, IntervalIsSet,
            g_timer_source_prepare, PollReturns, g_timer_source_check,
            g_timer_source_dispatch, Read
      <3> HIDE DEF t
      <3>4. Usec(t) > Usec(expiration) - Milli
        <4>1. CASE MsecTo(expiration, t) = 0
          BY <2>2, <3>2, <4>1, MsecToIsNear
        <4>2. CASE IsOver(expiration, t)
          BY <2>2, <3>2, <4>2, OverIsPast, Units
        <4> QED BY <3>3, <4>1, <4>2
      <3> QED BY <2>2, <2>3, <3>1, <3>2, <3>4, Units DEF ExpirationIsKept
    <2> QED BY <2>4, <2>5
  <1> QED BY <1>1, TimerInvHolds, PTL DEF TimerSpec, TimerIsNotEarly
================================================================================
