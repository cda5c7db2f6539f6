----------------------------- MODULE Startup_proof -----------------------------
(***************************************************************************)
(* What holds of batteryd's start, whatever order its hooks are linked in, *)
(* whatever it is called with and whatever the configuration file holds.   *)
(***************************************************************************)
EXTENDS Startup, SequenceTheorems, WellFoundedInduction, TLAPS

--------------------------------------------------------------------------------
(***************************************************************************)
(* Lists of hooks.                                                         *)
(***************************************************************************)

LEMMA Priorities ==
    /\ \A h \in Hooks : Priority(h) \in Nat
    /\ Priority("config_init") = 0 /\ Priority("BatteryInit") = 0
    /\ Priority("ChargerInit") = 50 /\ Priority("ChargeStateInit") = 50
    /\ Priority("batterypoll_init") = 100
  BY DEF Hooks, Priority, FIRST, EARLY, MIDDLE, END

\* By priority, and no hook twice.
Ordered(list) ==
    /\ list \in Seq(Hooks)
    /\ IsInjective(list)
    /\ \A i, j \in 1..Len(list) : i < j => Priority(list[i]) <= Priority(list[j])

\* A set of positive numbers has a least one.
LEMMA MinIs ==
    ASSUME NEW S \in SUBSET Nat, S # {}
    PROVE  Min(S) \in S /\ \A y \in S : Min(S) <= y
  <1>1. PICK x \in S : \A y \in S : <<y, x>> \notin OpToRel(<, Nat)
    BY NatLessThanWellFounded, WFMin
  <1>2. \A y \in S : ~(y < x)
    BY <1>1, Zenon DEF OpToRel
  <1>3. \A y \in S : x =< y
    BY <1>2
  <1> QED BY <1>3, Zenon DEF Min

\* g_hook_insert_sorted() finds the first hook that is to come no earlier.
LEMMA PlaceIs ==
    ASSUME NEW list \in Seq(Hooks), NEW h \in Hooks
    PROVE  /\ Place(list, h) \in 1..Len(list) + 1
           /\ \A i \in 1..Len(list) :
                 i < Place(list, h) => Priority(list[i]) < Priority(h)
           /\ Place(list, h) <= Len(list)
                 => Priority(h) <= Priority(list[Place(list, h)])
  <1> DEFINE S == {i \in 1..Len(list) : Priority(h) <= Priority(list[i])} \cup {Len(list) + 1}
  <1>1. Len(list) \in Nat /\ S \in SUBSET Nat /\ S # {}
    BY LenProperties
  <1>2. Place(list, h) \in S /\ \A y \in S : Place(list, h) <= y
    BY <1>1, MinIs DEF Place
  <1>3. \A i \in 1..Len(list) : Priority(list[i]) \in Nat
    BY Priorities, ElementOfSeq
  <1>4. Priority(h) \in Nat
    BY Priorities
  <1> DEFINE p == Place(list, h)
             n == Len(list)
  <1>5. p \in 1..n + 1 /\ (p <= n => Priority(h) <= Priority(list[p]))
    BY <1>1, <1>2
  <1>6. ASSUME NEW i \in 1..n, i < p
        PROVE  Priority(list[i]) < Priority(h)
    <2>1. i \notin S
      BY <1>1, <1>2, <1>5, <1>6
    <2>2. ~(Priority(h) <= Priority(list[i]))
      BY <2>1
    <2>3. Priority(list[i]) \in Nat
      BY <1>3
    <2> QED BY <1>4, <2>2, <2>3
  <1> QED BY <1>5, <1>6

LEMMA ListFacts ==
    ASSUME NEW list, Ordered(list)
    PROVE  /\ list \in Seq(Hooks) /\ Len(list) \in Nat /\ DOMAIN list = 1..Len(list)
           /\ \A i \in 1..Len(list) : list[i] \in Hooks /\ Priority(list[i]) \in Nat
           /\ \A h : h \in ToSet(list) <=> \E i \in 1..Len(list) : list[i] = h
  <1>1. list \in Seq(Hooks) /\ Len(list) \in Nat /\ DOMAIN list = 1..Len(list)
    BY LenProperties DEF Ordered
  <1> QED BY <1>1, ElementOfSeq, Priorities DEF ToSet

\* Where everything is once a hook was inserted.
LEMMA InsertIs ==
    ASSUME NEW list, Ordered(list), NEW h \in Hooks, NEW p \in 1..Len(list) + 1,
           NEW new, new = InsertAt(list, p, h)
    PROVE  /\ new \in Seq(Hooks) /\ Len(new) = Len(list) + 1
           /\ \A i \in 1..p - 1 : new[i] = list[i]
           /\ new[p] = h
           /\ \A i \in p + 1..Len(list) + 1 : new[i] = list[i - 1]
  <1> DEFINE a == SubSeq(list, 1, p - 1)
             b == SubSeq(list, p, Len(list))
  <1>1. list \in Seq(Hooks) /\ Len(list) \in Nat
        /\ \A i \in 1..Len(list) : list[i] \in Hooks
    BY ListFacts
  <1>2. /\ a \in Seq(Hooks) /\ Len(a) = p - 1
        /\ \A i \in 1..p - 1 : a[i] = list[i]
    <2>1. \A i \in 1..p - 1 : list[i] \in Hooks
      BY <1>1
    <2>2. (IF 1 <= p - 1 THEN p - 1 - 1 + 1 ELSE 0) = p - 1 /\ p - 1 - 1 + 1 = p - 1
      BY <1>1
    <2>3. \A i \in 1..p - 1 : 1 + i - 1 = i
      OBVIOUS
    <2> QED BY <1>1, <2>1, <2>2, <2>3, SubSeqProperties
  <1>3. /\ b \in Seq(Hooks) /\ Len(b) = Len(list) + 1 - p
        /\ \A i \in 1..Len(list) + 1 - p : b[i] = list[p + i - 1]
    <2>1. \A i \in p..Len(list) : list[i] \in Hooks
      BY <1>1
    <2>2. /\ (IF p <= Len(list) THEN Len(list) - p + 1 ELSE 0) = Len(list) + 1 - p
          /\ Len(list) - p + 1 = Len(list) + 1 - p
      BY <1>1
    <2> QED BY <1>1, <2>1, <2>2, SubSeqProperties
  <1>4. /\ <<h>> \in Seq(Hooks) /\ Len(<<h>>) = 1 /\ <<h>>[1] = h
    OBVIOUS
  <1> HIDE DEF a, b
  <1>5. /\ a \o <<h>> \in Seq(Hooks) /\ Len(a \o <<h>>) = p
        /\ \A i \in 1..p : (a \o <<h>>)[i] = IF i <= p - 1 THEN a[i] ELSE <<h>>[i - (p - 1)]
    BY <1>1, <1>2, <1>4, ConcatProperties
  <1>6. /\ new \in Seq(Hooks) /\ Len(new) = Len(list) + 1
        /\ \A i \in 1..Len(list) + 1 :
              new[i] = IF i <= p THEN (a \o <<h>>)[i] ELSE b[i - p]
    <2>1. new = (a \o <<h>>) \o b
      BY DEF InsertAt, a, b
    <2>2. p + (Len(list) + 1 - p) = Len(list) + 1
      BY <1>1
    <2> DEFINE c == a \o <<h>>
    <2>3. c \in Seq(Hooks) /\ Len(c) = p /\ new = c \o b
      BY <1>5, <2>1 DEF a, b
    <2> HIDE DEF a, b, c
    <2>4. /\ c \o b \in Seq(Hooks) /\ Len(c \o b) = Len(c) + Len(b)
          /\ \A i \in 1..Len(c) + Len(b) :
                (c \o b)[i] = IF i <= Len(c) THEN c[i] ELSE b[i - Len(c)]
      BY <1>3, <2>3, ConcatProperties
    <2>5. Len(c) + Len(b) = Len(list) + 1
      BY <1>3, <2>2, <2>3
    <2>6. \A i \in 1..Len(list) + 1 : new[i] = IF i <= p THEN c[i] ELSE b[i - p]
      BY <2>3, <2>4, <2>5
    <2> QED BY <2>3, <2>4, <2>5, <2>6 DEF c
  <1>7. \A i \in 1..p - 1 : new[i] = list[i]
    BY <1>1, <1>2, <1>5, <1>6
  <1>8. new[p] = h
    BY <1>1, <1>4, <1>5, <1>6
  <1>9. ASSUME NEW i \in p + 1..Len(list) + 1
        PROVE  new[i] = list[i - 1]
    <2>1. i - p \in 1..Len(list) + 1 - p /\ p + (i - p) - 1 = i - 1 /\ ~(i <= p)
          /\ i \in 1..Len(list) + 1
      BY <1>1
    <2> QED BY <1>3, <1>6, <2>1
  <1> QED BY <1>6, <1>7, <1>8, <1>9

\* g_hook_insert_sorted() keeps the list in order and everything that is in it,
\* and does not change how two hooks that are in it stand to each other.
LEMMA InsertKeepsOrder ==
    ASSUME NEW list, Ordered(list), NEW h \in Hooks, h \notin ToSet(list),
           NEW new, new = InsertAt(list, Place(list, h), h)
    PROVE  Ordered(new) /\ ToSet(new) = ToSet(list) \cup {h}
  <1> DEFINE p == Place(list, h)
             n == Len(list)
  <1>1. /\ n \in Nat /\ DOMAIN list = 1..n
        /\ \A i \in 1..n : list[i] \in Hooks /\ Priority(list[i]) \in Nat
    BY ListFacts
  <1>2. /\ p \in 1..n + 1
        /\ \A i \in 1..n : i < p => Priority(list[i]) < Priority(h)
        /\ p <= n => Priority(h) <= Priority(list[p])
    BY PlaceIs, ListFacts
  <1>3. /\ new \in Seq(Hooks) /\ Len(new) = n + 1
        /\ \A i \in 1..p - 1 : new[i] = list[i]
        /\ new[p] = h
        /\ \A i \in p + 1..n + 1 : new[i] = list[i - 1]
    BY <1>2, InsertIs
  <1>4. \A i \in 1..n : list[i] # h
    BY ListFacts
  <1>5. \A i, j \in 1..n : list[i] = list[j] => i = j
    BY <1>1 DEF Ordered, IsInjective
  <1>6. \A i, j \in 1..n : i < j => Priority(list[i]) <= Priority(list[j])
    BY DEF Ordered
  <1>7. DOMAIN new = 1..n + 1
    BY <1>3, LenProperties
  <1> HIDE DEF p, n
  <1> DEFINE old == [i \in 1..n + 1 |-> IF i < p THEN i ELSE i - 1]
  <1>8. \A i \in 1..n + 1 : i # p => old[i] \in 1..n /\ new[i] = list[old[i]]
    BY <1>1, <1>2, <1>3
  <1>9. \A i, j \in 1..n + 1 :
           i # p /\ j # p => /\ old[i] = old[j] => i = j
                             /\ i < j => old[i] < old[j]
    BY <1>1, <1>2
  <1>a. \A k \in 1..n : \E i \in 1..n + 1 : i # p /\ old[i] = k
    <2> TAKE k \in 1..n
    <2>1. CASE k < p
      BY <1>1, <1>2, <2>1
    <2>2. CASE k >= p
      <3>1. k + 1 \in 1..n + 1 /\ k + 1 # p /\ old[k + 1] = k
        BY <1>1, <1>2, <2>2
      <3> QED BY <3>1
    <2> QED BY <1>1, <1>2, <2>1, <2>2
  <1>b. \A i \in 1..n + 1 : /\ i < p => old[i] < p
                            /\ p < i => p <= old[i]
    BY <1>1, <1>2
  <1> HIDE DEF old
  <1>c. IsInjective(new)
    <2> SUFFICES ASSUME NEW i \in 1..n + 1, NEW j \in 1..n + 1, new[i] = new[j]
                 PROVE  i = j
      BY <1>7, Zenon DEF IsInjective
    <2>1. CASE i = p \/ j = p
      BY <1>3, <1>4, <1>8, <2>1
    <2>2. CASE i # p /\ j # p
      <3>1. old[i] \in 1..n /\ old[j] \in 1..n /\ list[old[i]] = list[old[j]]
        BY <1>8, <2>2
      <3>2. old[i] = old[j]
        BY <1>5, <3>1
      <3> QED BY <1>9, <2>2, <3>2
    <2> QED BY <2>1, <2>2
  <1>d. ASSUME NEW i \in 1..n + 1, NEW j \in 1..n + 1, i < j
        PROVE  Priority(new[i]) <= Priority(new[j])
    <2>0. Priority(h) \in Nat
      BY Priorities
    <2>1. CASE i # p /\ j # p
      <3>1. old[i] \in 1..n /\ old[j] \in 1..n /\ old[i] < old[j]
        BY <1>8, <1>9, <1>d, <2>1
      <3>2. new[i] = list[old[i]] /\ new[j] = list[old[j]]
        BY <1>8, <2>1
      <3> QED BY <1>6, <3>1, <3>2
    <2>2. CASE j = p
      <3>1. i # p /\ i < p
        BY <1>1, <1>2, <1>d, <2>2
      <3>2. old[i] \in 1..n /\ old[i] < p /\ new[i] = list[old[i]]
        BY <1>8, <1>b, <3>1
      <3>3. Priority(list[old[i]]) < Priority(h) /\ Priority(list[old[i]]) \in Nat
        BY <1>1, <1>2, <3>2
      <3> QED BY <1>3, <2>0, <2>2, <3>2, <3>3
    <2>3. CASE i = p
      <3>1. j # p /\ p < j
        BY <1>1, <1>2, <1>d, <2>3
      <3>2. old[j] \in 1..n /\ p <= old[j] /\ new[j] = list[old[j]]
        BY <1>8, <1>b, <3>1
      <3>3. p \in 1..n /\ (p = old[j] \/ p < old[j])
        BY <1>1, <1>2, <3>2
      <3>4. Priority(h) <= Priority(list[p])
        BY <1>1, <1>2, <3>3
      <3>5. Priority(list[p]) <= Priority(list[old[j]])
        BY <1>1, <1>6, <3>2, <3>3
      <3>6. Priority(list[p]) \in Nat /\ Priority(list[old[j]]) \in Nat
        BY <1>1, <3>2, <3>3
      <3> QED BY <1>3, <2>0, <2>3, <3>2, <3>4, <3>5, <3>6
    <2> QED BY <2>1, <2>2, <2>3
  <1>e. Ordered(new)
    BY <1>3, <1>c, <1>d DEF Ordered
  <1>f. \A g : g \in ToSet(new) <=> \E i \in 1..n + 1 : new[i] = g
    BY <1>3, <1>e, ListFacts
  <1>g. \A g : g \in ToSet(list) <=> \E i \in 1..n : list[i] = g
    BY ListFacts DEF n
  <1>h. \A g : g \in ToSet(new) => g \in ToSet(list) \/ g = h
    BY <1>3, <1>8, <1>f, <1>g
  <1>i. h \in ToSet(new)
    BY <1>2, <1>3, <1>f
  <1>j. \A g : g \in ToSet(list) => g \in ToSet(new)
    BY <1>8, <1>a, <1>f, <1>g
  <1> QED BY <1>e, <1>h, <1>i, <1>j

--------------------------------------------------------------------------------
(***************************************************************************)
(* The order of the hooks.                                                 *)
(***************************************************************************)

\* The hooks that are still to be run.
Pending == ToSet(namedInitFuncs)

ListInv ==
    /\ Ordered(namedInitFuncs)
    /\ Pending \subseteq registered /\ registered \subseteq Hooks
    /\ pc = "constructors" => Pending = registered
    /\ pc # "constructors" => registered = Hooks
    /\ pc = "mainloop" => Pending = {}

\* What has been run was no less urgent than anything that is still to be run.
OrderInv ==
    \A g \in Pending, h \in registered \ Pending : Priority(h) <= Priority(g)

LEMMA EmptyList == ToSet(<<>>) = {} /\ Ordered(<<>>)
  <1>1. <<>> \in Seq(Hooks) /\ Len(<<>>) = 0 /\ DOMAIN <<>> = {}
    BY EmptySeq
  <1> QED BY <1>1 DEF Ordered, ToSet, IsInjective

\* TheOneInit() runs a hook that none is more urgent than, and runs it once.
LEMMA RunTakesHead ==
    ASSUME ListInv, NEW h, Run(h)
    PROVE  /\ h \in Pending /\ Pending' = Pending \ {h} /\ registered' = registered
           /\ registered = Hooks
           /\ Ordered(namedInitFuncs')
           /\ \A g \in Pending : Priority(h) <= Priority(g)
           /\ \A i \in 1..Len(namedInitFuncs') : namedInitFuncs'[i] = namedInitFuncs[i + 1]
           /\ Len(namedInitFuncs') = Len(namedInitFuncs) - 1
           /\ h = namedInitFuncs[1]
  <1> DEFINE list == namedInitFuncs
             n == Len(list)
             new == namedInitFuncs'
  <1>1. /\ list \in Seq(Hooks) /\ n \in Nat /\ DOMAIN list = 1..n
        /\ \A i \in 1..n : list[i] \in Hooks /\ Priority(list[i]) \in Nat
        /\ \A g : g \in ToSet(list) <=> \E i \in 1..n : list[i] = g
    BY ListFacts DEF ListInv
  <1>2. list # <<>> /\ n # 0 /\ h = list[1]
    BY <1>1, EmptySeq DEF Run
  <1>3. /\ new \in Seq(Hooks) /\ Len(new) = n - 1
        /\ \A i \in 1..n - 1 : new[i] = list[i + 1]
    BY <1>1, <1>2, HeadTailProperties DEF Run
  <1>4. DOMAIN new = 1..n - 1
    BY <1>3, LenProperties
  <1>5. \A i, j \in 1..n : list[i] = list[j] => i = j
    BY <1>1 DEF ListInv, Ordered, IsInjective
  <1>6. \A i, j \in 1..n : i < j => Priority(list[i]) <= Priority(list[j])
    BY DEF ListInv, Ordered
  <1> HIDE DEF list, n, new
  <1>7. IsInjective(new)
    BY <1>1, <1>2, <1>3, <1>4, <1>5 DEF IsInjective
  <1>8. Ordered(new)
    BY <1>1, <1>2, <1>3, <1>6, <1>7 DEF Ordered
  <1>9. \A g : g \in ToSet(new) <=> \E i \in 1..n - 1 : new[i] = g
    BY <1>4, Zenon DEF ToSet
  <1>10. ToSet(new) = ToSet(list) \ {h}
    <2>1. ASSUME NEW g, g \in ToSet(new) PROVE g \in ToSet(list) /\ g # h
      <3>1. PICK i \in 1..n - 1 : new[i] = g
        BY <1>9, <2>1
      <3>2. i + 1 \in 1..n /\ i + 1 # 1 /\ 1 \in 1..n /\ list[i + 1] = g
        BY <1>1, <1>2, <1>3, <3>1
      <3> QED BY <1>1, <1>2, <1>5, <3>2
    <2>2. ASSUME NEW g, g \in ToSet(list), g # h PROVE g \in ToSet(new)
      <3>1. PICK i \in 1..n : list[i] = g
        BY <1>1, <2>2
      <3>2. i - 1 \in 1..n - 1 /\ (i - 1) + 1 = i
        BY <1>1, <1>2, <2>2, <3>1
      <3>3. new[i - 1] = g
        BY <1>3, <3>1, <3>2
      <3> QED BY <1>9, <3>2, <3>3
    <2> QED BY <2>1, <2>2
  <1>11. \A g \in ToSet(list) : Priority(h) <= Priority(g)
    BY <1>1, <1>2, <1>6
  <1>12. h \in ToSet(list)
    BY <1>1, <1>2
  <1>13. pc # "constructors" /\ registered' = registered
    BY DEF Run
  <1> QED
    BY <1>2, <1>3, <1>8, <1>10, <1>11, <1>12, <1>13 DEF list, n, new, Pending, ListInv

\* How the list of the hooks may change.
LEMMA StepKinds ==
    ASSUME [Next]_vars
    PROVE  \/ \E h \in Hooks : NamedInitFuncAdd(h)
           \/ main
           \/ EnterMainLoop
           \/ \E h : Run(h) /\ pc' \in {"hooks", "aborted"}
           \/ UNCHANGED <<pc, registered, namedInitFuncs>>
  BY Zenon DEF Next, vars, config_init, BatteryInit, BatteryInitFindsNothing, timesaver_init,
     ChargerInit, ChargerInitFindsNothing, ChargeStateInit, SuspendInit, batterypoll_init,
     com_webos_service_battery_lunabus_init, HookFails, Run

LEMMA ListInvInit == Init => ListInv /\ OrderInv
  BY EmptyList DEF Init, ListInv, OrderInv, Pending

LEMMA ListInvStep ==
    ASSUME ListInv, OrderInv, [Next]_vars
    PROVE  ListInv' /\ OrderInv'
  <1>1. ASSUME NEW h \in Hooks, NamedInitFuncAdd(h)
        PROVE  ListInv' /\ OrderInv'
    <2>1. /\ pc = "constructors" /\ pc' = pc /\ h \notin Pending
          /\ registered' = registered \cup {h}
          /\ namedInitFuncs' = InsertAt(namedInitFuncs, Place(namedInitFuncs, h), h)
      BY <1>1 DEF NamedInitFuncAdd, ListInv
    <2>2. Ordered(namedInitFuncs') /\ Pending' = Pending \cup {h}
      BY <2>1, InsertKeepsOrder DEF ListInv, Pending
    <2> QED BY <2>1, <2>2 DEF ListInv, OrderInv
  <1>2. CASE main
    BY <1>2 DEF main, ListInv, OrderInv, Pending
  <1>3. CASE EnterMainLoop
    BY <1>3, EmptyList DEF EnterMainLoop, ListInv, OrderInv, Pending
  <1>4. ASSUME NEW h, Run(h), pc' \in {"hooks", "aborted"}
        PROVE  ListInv' /\ OrderInv'
    <2>1. /\ h \in Pending /\ Pending' = Pending \ {h} /\ registered' = registered
          /\ registered = Hooks
          /\ Ordered(namedInitFuncs')
          /\ \A g \in Pending : Priority(h) <= Priority(g)
      BY <1>4, RunTakesHead
    <2> QED BY <1>4, <2>1 DEF ListInv, OrderInv
  <1>5. CASE UNCHANGED <<pc, registered, namedInitFuncs>>
    BY <1>5 DEF ListInv, OrderInv, Pending
  <1> QED BY <1>1, <1>2, <1>3, <1>4, <1>5, StepKinds

--------------------------------------------------------------------------------
(***************************************************************************)
(* Types.                                                                  *)
(***************************************************************************)

Inputs == [options : OptionSets, file : Files, skip : BOOLEAN]

\* The settings, and what the hooks leave behind.
DataTypeOK ==
    /\ pc \in {"constructors", "hooks", "mainloop", "exited", "aborted"}
    /\ given \in Inputs
    /\ DOMAIN gChargeConfig = Settings /\ IsSetting(gChargeConfig)
    /\ gChargeConfig = [k \in Settings |-> gChargeConfig[k]]
    /\ battDev \in BOOLEAN /\ nyxDev \in BOOLEAN
    /\ matches \subseteq {"batteryStatusQuery", "fakeBatteryStatus",
                          "chargerStatusQuery", "resume", "suspended"}
    /\ callbacks \subseteq {"notifyBatteryStatus", "notifyChargerStatus", "notifyStateChange"}
    /\ ctia \in {"unasked", "known", "refused"}
    /\ polled \in BOOLEAN

LEMMA GivenIs ==
    ASSUME given \in Inputs
    PROVE  /\ given.options["critical_percent"] \in Int
           /\ given.options["fake_battery"] \in BOOLEAN
           /\ \A k \in DOMAIN given.file :
                 /\ k \in Settings /\ k # "skip_battery_check"
                 /\ k = "critical_percent" => given.file[k] \in Int
                 /\ k # "critical_percent" => given.file[k] \in BOOLEAN
           /\ given.skip \in BOOLEAN
  <1>1. given.options \in OptionSets /\ given.file \in Files /\ given.skip \in BOOLEAN
    BY DEF Inputs
  <1>2. DOMAIN given.options = {"fake_battery", "critical_percent"} /\ IsSetting(given.options)
    BY <1>1, OptionSetsAssumption
  <1>3. /\ DOMAIN given.file \subseteq {"fake_battery", "disable_charging", "critical_percent"}
        /\ IsSetting(given.file)
    BY <1>1, FilesAssumption
  <1> QED BY <1>1, <1>2, <1>3 DEF IsSetting, Settings, Switches

\* A setting is of its type, whichever of the sources it comes from.
LEMMA SettingIs ==
    ASSUME NEW f, f = [k \in Settings |-> f[k]]
    PROVE  IsSetting(f) <=> /\ f["critical_percent"] \in Int
                            /\ f["fake_battery"] \in BOOLEAN
                            /\ f["disable_charging"] \in BOOLEAN
                            /\ f["skip_battery_check"] \in BOOLEAN
  <1>1. DOMAIN f = {"fake_battery", "disable_charging", "skip_battery_check",
                    "critical_percent"}
    BY DEF Settings, Switches
  <1> QED BY <1>1 DEF IsSetting

LEMMA WithOptionsIs ==
    ASSUME DataTypeOK,
           NEW f, f = WithOptions(gChargeConfig, given.options)
    PROVE  f = [k \in Settings |-> f[k]] /\ IsSetting(f)
  <1>1. /\ given.options["critical_percent"] \in Int
        /\ given.options["fake_battery"] \in BOOLEAN
    BY GivenIs DEF DataTypeOK
  <1>2. f = [k \in Settings |-> f[k]]
    BY DEF DataTypeOK, WithOptions, Settings
  <1>3. /\ gChargeConfig["critical_percent"] \in Int
        /\ gChargeConfig["disable_charging"] \in BOOLEAN
        /\ gChargeConfig["skip_battery_check"] \in BOOLEAN
    BY SettingIs DEF DataTypeOK
  <1>4. /\ f["critical_percent"] \in Int
        /\ f["fake_battery"] = given.options["fake_battery"]
        /\ f["disable_charging"] = gChargeConfig["disable_charging"]
        /\ f["skip_battery_check"] = gChargeConfig["skip_battery_check"]
    BY <1>1, <1>3 DEF DataTypeOK, WithOptions, Settings, Switches
  <1> QED BY <1>1, <1>2, <1>3, <1>4, SettingIs

LEMMA WithFileIs ==
    ASSUME DataTypeOK,
           NEW f, f = WithFileAndCommandLine(gChargeConfig)
    PROVE  f = [k \in Settings |-> f[k]] /\ IsSetting(f)
  <1>1. f = [k \in Settings |-> f[k]]
    BY DEF WithFileAndCommandLine
  <1>2. /\ gChargeConfig["critical_percent"] \in Int
        /\ gChargeConfig["fake_battery"] \in BOOLEAN
        /\ gChargeConfig["disable_charging"] \in BOOLEAN
        /\ gChargeConfig["skip_battery_check"] \in BOOLEAN
    BY SettingIs DEF DataTypeOK
  <1>3. ASSUME NEW k \in Settings
        PROVE  f[k] = IF k \in DOMAIN given.file THEN given.file[k]
                      ELSE IF k = "skip_battery_check" THEN gChargeConfig[k] \/ given.skip
                      ELSE gChargeConfig[k]
    BY DEF WithFileAndCommandLine
  <1>4. /\ f["critical_percent"] \in Int
        /\ f["fake_battery"] \in BOOLEAN
        /\ f["disable_charging"] \in BOOLEAN
    BY <1>2, <1>3, GivenIs DEF DataTypeOK, Settings, Switches
  <1>5. f["skip_battery_check"] \in BOOLEAN
    <2>1. "skip_battery_check" \in Settings /\ "skip_battery_check" \notin DOMAIN given.file
      BY GivenIs DEF DataTypeOK, Settings, Switches
    <2>2. f["skip_battery_check"] = (gChargeConfig["skip_battery_check"] \/ given.skip)
      BY <1>3, <2>1
    <2> QED BY <2>2, Zenon
  <1> QED BY <1>1, <1>4, <1>5, SettingIs

LEMMA DataTypeInit == Init => DataTypeOK
  <1> SUFFICES ASSUME Init PROVE DataTypeOK
    OBVIOUS
  <1>1. gChargeConfig = [k \in Settings |-> gChargeConfig[k]] /\ DOMAIN gChargeConfig = Settings
    BY DEF Init, DefaultConfig
  <1>2. /\ gChargeConfig["critical_percent"] \in Int
        /\ gChargeConfig["fake_battery"] \in BOOLEAN
        /\ gChargeConfig["disable_charging"] \in BOOLEAN
        /\ gChargeConfig["skip_battery_check"] \in BOOLEAN
    BY DEF Init, DefaultConfig, Settings, Switches
  <1>3. IsSetting(gChargeConfig)
    BY <1>1, <1>2, SettingIs
  <1> QED BY <1>1, <1>3 DEF Init, DataTypeOK, Inputs

LEMMA DataTypeStep ==
    ASSUME DataTypeOK, [Next]_vars
    PROVE  DataTypeOK'
  <1> USE DEF DataTypeOK
  <1>1. ASSUME NEW h \in Hooks, NamedInitFuncAdd(h) PROVE DataTypeOK'
    BY <1>1 DEF NamedInitFuncAdd, Inputs
  <1>2. CASE main
    <2>1. gChargeConfig' = [k \in Settings |-> gChargeConfig'[k]] /\ IsSetting(gChargeConfig')
      BY <1>2, WithOptionsIs DEF main
    <2> QED BY <1>2, <2>1 DEF main, Inputs
  <1>3. CASE config_init
    <2>1. gChargeConfig' = [k \in Settings |-> gChargeConfig'[k]] /\ IsSetting(gChargeConfig')
      BY <1>3, WithFileIs DEF config_init
    <2> QED BY <1>3, <2>1 DEF config_init, Run, Inputs
  <1>4. CASE ChargerInitFindsNothing
    <2>1. gChargeConfig' = [k \in Settings |-> gChargeConfig'[k]]
      BY <1>4 DEF ChargerInitFindsNothing, Settings
    <2>2. /\ gChargeConfig["critical_percent"] \in Int
          /\ gChargeConfig["fake_battery"] \in BOOLEAN
          /\ gChargeConfig["disable_charging"] \in BOOLEAN
      BY SettingIs
    <2>3. /\ gChargeConfig'["critical_percent"] = gChargeConfig["critical_percent"]
          /\ gChargeConfig'["fake_battery"] = gChargeConfig["fake_battery"]
          /\ gChargeConfig'["disable_charging"] = gChargeConfig["disable_charging"]
          /\ gChargeConfig'["skip_battery_check"] = TRUE
      BY <1>4 DEF ChargerInitFindsNothing, Settings, Switches
    <2>4. IsSetting(gChargeConfig')
      BY <2>1, <2>2, <2>3, SettingIs
    <2> QED BY <1>4, <2>1, <2>4 DEF ChargerInitFindsNothing, Run, Inputs
  <1>5. CASE BatteryInit
    BY <1>5 DEF BatteryInit, Run, Inputs
  <1>6. CASE BatteryInitFindsNothing
    BY <1>6 DEF BatteryInitFindsNothing, Run, Inputs
  <1>7. CASE timesaver_init
    BY <1>7 DEF timesaver_init, Run, Inputs
  <1>8. CASE ChargerInit
    BY <1>8 DEF ChargerInit, Run, Inputs
  <1>9. CASE ChargeStateInit
    BY <1>9 DEF ChargeStateInit, Run, Inputs
  <1>10. CASE SuspendInit
    BY <1>10 DEF SuspendInit, Run, Inputs
  <1>11. CASE batterypoll_init
    BY <1>11 DEF batterypoll_init, Run, Inputs
  <1>12. CASE com_webos_service_battery_lunabus_init
    BY <1>12 DEF com_webos_service_battery_lunabus_init, Run, Inputs
  <1>13. CASE HookFails
    BY <1>13 DEF HookFails, Run, Inputs
  <1>14. CASE EnterMainLoop
    BY <1>14 DEF EnterMainLoop, Inputs
  <1>15. CASE UNCHANGED vars
    BY <1>15 DEF vars, Inputs
  <1> QED
    BY <1>1, <1>2, <1>3, <1>4, <1>5, <1>6, <1>7, <1>8, <1>9, <1>10, <1>11, <1>12, <1>13,
       <1>14, <1>15 DEF Next

--------------------------------------------------------------------------------
(***************************************************************************)
(* What the hooks find and leave.                                          *)
(***************************************************************************)

\* What the configuration ends up with, but for the battery check.
Configured == WithFileAndCommandLine(WithOptions(DefaultConfig, given.options))

ConfigInv ==
    /\ pc = "constructors" => gChargeConfig = DefaultConfig
    /\ pc # "constructors" /\ "config_init" \in Pending =>
          gChargeConfig = WithOptions(DefaultConfig, given.options)
    /\ pc # "constructors" /\ "config_init" \notin Pending =>
          /\ \A k \in Settings \ {"skip_battery_check"} : gChargeConfig[k] = Configured[k]
          /\ given.skip => gChargeConfig["skip_battery_check"]

\* Nothing is set up for the charger before its hook is run, and then it is by
\* the configuration, which stays.
ChargerInv ==
    /\ pc = "constructors" \/ "ChargerInit" \in Pending =>
          /\ nyxDev = FALSE
          /\ "notifyStateChange" \notin callbacks
          /\ "chargerStatusQuery" \notin matches
    /\ pc \in {"hooks", "mainloop"} /\ "ChargerInit" \notin Pending =>
          /\ "notifyStateChange" \in callbacks <=>
                 /\ nyxDev
                 /\ ~gChargeConfig["skip_battery_check"]
                 /\ ~gChargeConfig["disable_charging"]
          /\ "chargerStatusQuery" \notin matches => gChargeConfig["skip_battery_check"]

\* The limits are asked for once it is known whether there is a battery.
LimitsInv ==
    /\ pc # "constructors" /\ "ChargeStateInit" \notin Pending /\ battDev => ctia # "unasked"
    /\ polled => pc # "constructors" /\ "batterypoll_init" \notin Pending

DataInv == ConfigInv /\ ChargerInv /\ LimitsInv

LEMMA DataInvInit == Init => DataInv
  BY DEF Init, DataInv, ConfigInv, ChargerInv, LimitsInv, Pending

\* The configuration is read before the charger is looked for.
LEMMA ConfigurationComesFirst ==
    ASSUME ListInv, Run("ChargerInit")
    PROVE  "config_init" \notin Pending
  BY RunTakesHead, Priorities

\* The battery is looked for before its limits are asked for, and they are asked
\* for before the battery poll is started.
LEMMA BatteryComesBeforeLimits ==
    ASSUME ListInv, OrderInv, pc # "constructors", "ChargeStateInit" \notin Pending
    PROVE  "BatteryInit" \notin Pending
  <1>1. "ChargeStateInit" \in registered
    BY DEF ListInv, Hooks
  <1> QED BY <1>1, Priorities DEF OrderInv

LEMMA LimitsComeBeforePoll ==
    ASSUME ListInv, OrderInv, pc # "constructors", "batterypoll_init" \notin Pending
    PROVE  "ChargeStateInit" \notin Pending
  <1>1. "batterypoll_init" \in registered
    BY DEF ListInv, Hooks
  <1> QED BY <1>1, Priorities DEF OrderInv

\* A hook changes nothing but what it sets up.
LEMMA RunShrinks ==
    ASSUME ListInv, NEW h, Run(h)
    PROVE  /\ pc = "hooks" /\ h \in Pending /\ Pending' = Pending \ {h}
           /\ given' = given
  BY RunTakesHead DEF Run

LEMMA ConfigInvStep ==
    ASSUME ListInv, OrderInv, DataTypeOK, ConfigInv, [Next]_vars
    PROVE  ConfigInv'
  <1> USE DEF ConfigInv, Configured
  <1>1. ASSUME NEW h \in Hooks, NamedInitFuncAdd(h) PROVE ConfigInv'
    BY <1>1 DEF NamedInitFuncAdd
  <1>2. CASE main
    <2>1. "config_init" \in Pending /\ Pending' = Pending /\ given' = given
      BY <1>2 DEF main, ListInv, Hooks, Pending
    <2> QED BY <1>2, <2>1 DEF main
  <1>3. CASE config_init
    <2>1. pc = "hooks" /\ Pending' = Pending \ {"config_init"} /\ given' = given
          /\ pc' = pc /\ "config_init" \in Pending
      BY <1>3, RunShrinks DEF config_init
    <2>2. gChargeConfig' = Configured /\ Configured' = Configured
      BY <1>3, <2>1 DEF config_init, WithFileAndCommandLine
    <2>3. given.skip => gChargeConfig'["skip_battery_check"]
      <3>1. "skip_battery_check" \notin DOMAIN given.file
        BY GivenIs DEF DataTypeOK
      <3>2. gChargeConfig'["skip_battery_check"]
              = (gChargeConfig["skip_battery_check"] \/ given.skip)
        BY <1>3, <3>1 DEF config_init, WithFileAndCommandLine, Settings, Switches
      <3> QED BY <3>2, Zenon
    <2> QED BY <2>1, <2>2, <2>3
  <1>4. CASE ChargerInitFindsNothing
    <2>1. pc = "hooks" /\ Pending' = Pending \ {"ChargerInit"} /\ given' = given /\ pc' = pc
      BY <1>4, RunShrinks DEF ChargerInitFindsNothing
    <2>2. "config_init" \notin Pending
      BY <1>4, ConfigurationComesFirst DEF ChargerInitFindsNothing
    <2>3. /\ \A k \in Settings \ {"skip_battery_check"} :
                gChargeConfig'[k] = gChargeConfig[k]
          /\ gChargeConfig'["skip_battery_check"] = TRUE
      BY <1>4 DEF ChargerInitFindsNothing, DataTypeOK, Settings, Switches
    <2>4. Configured' = Configured
      BY <2>1 DEF WithFileAndCommandLine
    <2> QED BY <2>1, <2>2, <2>3, <2>4
  <1>5. ASSUME NEW h \in Hooks \ {"config_init"}, Run(h), UNCHANGED gChargeConfig,
               pc' \in {"hooks", "aborted"}
        PROVE  ConfigInv'
    <2>1. pc = "hooks" /\ Pending' = Pending \ {h} /\ given' = given
      BY <1>5, RunShrinks
    <2>2. Configured' = Configured
      BY <2>1 DEF WithFileAndCommandLine
    <2> QED BY <1>5, <2>1, <2>2
  <1>6. CASE EnterMainLoop
    BY <1>6 DEF EnterMainLoop, Pending, WithFileAndCommandLine
  <1>7. CASE UNCHANGED vars
    BY <1>7 DEF vars, Pending, WithFileAndCommandLine
  <1>8. \/ \E h \in Hooks : NamedInitFuncAdd(h)
        \/ main \/ config_init \/ ChargerInitFindsNothing \/ EnterMainLoop
        \/ UNCHANGED vars
        \/ \E h \in Hooks \ {"config_init"} :
              Run(h) /\ UNCHANGED gChargeConfig /\ pc' \in {"hooks", "aborted"}
    BY DEF Next, BatteryInit, BatteryInitFindsNothing, timesaver_init, ChargerInit,
       ChargeStateInit, SuspendInit, batterypoll_init,
       com_webos_service_battery_lunabus_init, HookFails, Hooks, Run
  <1> QED BY <1>1, <1>2, <1>3, <1>4, <1>5, <1>6, <1>7, <1>8

LEMMA ChargerInvStep ==
    ASSUME ListInv, OrderInv, DataTypeOK, ChargerInv, [Next]_vars
    PROVE  ChargerInv'
  <1> USE DEF ChargerInv
  <1>1. ASSUME NEW h \in Hooks, NamedInitFuncAdd(h) PROVE ChargerInv'
    BY <1>1 DEF NamedInitFuncAdd
  <1>2. CASE main
    <2>1. "ChargerInit" \in Pending /\ Pending' = Pending
      BY <1>2 DEF main, ListInv, Hooks, Pending
    <2> QED BY <1>2, <2>1 DEF main
  <1>3. CASE config_init
    <2>1. Pending' = Pending \ {"config_init"} /\ "config_init" \in Pending /\ pc = "hooks"
      BY <1>3, RunShrinks DEF config_init
    <2>2. "ChargerInit" \in Pending
      <3>1. "ChargerInit" \in registered
        BY <2>1 DEF ListInv, Hooks
      <3> QED BY <2>1, <3>1, Priorities DEF OrderInv
    <2> QED BY <1>3, <2>1, <2>2 DEF config_init
  <1>4. CASE BatteryInit
    <2>1. Pending' = Pending \ {"BatteryInit"} /\ pc = "hooks"
      BY <1>4, RunShrinks DEF BatteryInit
    <2>2. /\ "notifyStateChange" \in callbacks' <=> "notifyStateChange" \in callbacks
          /\ "chargerStatusQuery" \in matches' <=> "chargerStatusQuery" \in matches
      BY <1>4 DEF BatteryInit
    <2> QED BY <1>4, <2>1, <2>2 DEF BatteryInit
  <1>5. CASE ChargerInit
    <2>1. Pending' = Pending \ {"ChargerInit"} /\ pc = "hooks" /\ "ChargerInit" \in Pending
      BY <1>5, RunShrinks DEF ChargerInit
    <2>2. "chargerStatusQuery" \in matches'
      BY <1>5 DEF ChargerInit
    <2>3. "notifyStateChange" \in callbacks' <=>
             /\ nyxDev'
             /\ ~gChargeConfig["skip_battery_check"]
             /\ ~gChargeConfig["disable_charging"]
      BY <1>5, <2>1 DEF ChargerInit
    <2> QED BY <1>5, <2>1, <2>2, <2>3 DEF ChargerInit
  <1>6. CASE ChargerInitFindsNothing
    <2>1. Pending' = Pending \ {"ChargerInit"} /\ pc = "hooks" /\ "ChargerInit" \in Pending
      BY <1>6, RunShrinks DEF ChargerInitFindsNothing
    <2>2. gChargeConfig'["skip_battery_check"] = TRUE
      BY <1>6 DEF ChargerInitFindsNothing, DataTypeOK, Settings, Switches
    <2> QED BY <1>6, <2>1, <2>2 DEF ChargerInitFindsNothing
  <1>7. CASE SuspendInit
    <2>1. Pending' = Pending \ {"SuspendInit"} /\ pc = "hooks"
      BY <1>7, RunShrinks DEF SuspendInit
    <2>2. "chargerStatusQuery" \in matches' <=> "chargerStatusQuery" \in matches
      BY <1>7 DEF SuspendInit
    <2> QED BY <1>7, <2>1, <2>2 DEF SuspendInit
  <1>8. CASE HookFails
    <2>1. PICK h : Run(h)
      BY <1>8 DEF HookFails
    <2>2. Pending' \subseteq Pending /\ pc = "hooks"
      BY <2>1, RunShrinks
    <2> QED BY <1>8, <2>2 DEF HookFails
  <1>9. ASSUME NEW h \in Hooks \ {"ChargerInit"}, Run(h),
               UNCHANGED <<pc, gChargeConfig, nyxDev, matches, callbacks>>
        PROVE  ChargerInv'
    <2>1. Pending' = Pending \ {h} /\ pc = "hooks"
      BY <1>9, RunShrinks
    <2> QED BY <1>9, <2>1
  <1>10. CASE EnterMainLoop
    BY <1>10 DEF EnterMainLoop, Pending
  <1>11. CASE UNCHANGED vars
    BY <1>11 DEF vars, Pending
  <1>12. \/ \E h \in Hooks : NamedInitFuncAdd(h)
         \/ main \/ config_init \/ BatteryInit \/ ChargerInit \/ ChargerInitFindsNothing
         \/ SuspendInit \/ HookFails \/ EnterMainLoop \/ UNCHANGED vars
         \/ \E h \in Hooks \ {"ChargerInit"} :
               Run(h) /\ UNCHANGED <<pc, gChargeConfig, nyxDev, matches, callbacks>>
    BY DEF Next, BatteryInitFindsNothing, timesaver_init, ChargeStateInit,
       batterypoll_init, com_webos_service_battery_lunabus_init, Hooks
  <1> QED
    BY <1>1, <1>2, <1>3, <1>4, <1>5, <1>6, <1>7, <1>8, <1>9, <1>10, <1>11, <1>12

LEMMA LimitsInvStep ==
    ASSUME ListInv, OrderInv, LimitsInv, [Next]_vars
    PROVE  LimitsInv'
  <1> USE DEF LimitsInv
  <1>1. ASSUME NEW h \in Hooks, NamedInitFuncAdd(h) PROVE LimitsInv'
    BY <1>1 DEF NamedInitFuncAdd
  <1>2. CASE main
    <2>1. "ChargeStateInit" \in Pending /\ Pending' = Pending
      BY <1>2 DEF main, ListInv, Hooks, Pending
    <2> QED BY <1>2, <2>1 DEF main
  <1>3. CASE BatteryInit \/ BatteryInitFindsNothing
    <2>1. Run("BatteryInit") /\ UNCHANGED <<pc, ctia, polled>>
      BY <1>3 DEF BatteryInit, BatteryInitFindsNothing
    <2>2. /\ Pending' = Pending \ {"BatteryInit"} /\ pc = "hooks"
          /\ "BatteryInit" \in Pending
      BY <2>1, RunShrinks
    <2>3. "ChargeStateInit" \in Pending
      BY <2>2, BatteryComesBeforeLimits
    <2> QED BY <2>1, <2>2, <2>3
  <1>4. CASE ChargeStateInit
    <2>1. Pending' = Pending \ {"ChargeStateInit"} /\ pc = "hooks"
      BY <1>4, RunShrinks DEF ChargeStateInit
    <2> QED BY <1>4, <2>1 DEF ChargeStateInit
  <1>5. CASE batterypoll_init
    <2>1. Pending' = Pending \ {"batterypoll_init"} /\ pc = "hooks"
      BY <1>5, RunShrinks DEF batterypoll_init
    <2> QED BY <1>5, <2>1 DEF batterypoll_init
  <1>6. ASSUME NEW h \in Hooks \ {"ChargeStateInit"}, Run(h),
               pc' \in {"hooks", "aborted"}, UNCHANGED <<battDev, ctia, polled>>
        PROVE  LimitsInv'
    <2>1. Pending' = Pending \ {h} /\ pc = "hooks"
      BY <1>6, RunShrinks
    <2> QED BY <1>6, <2>1
  <1>7. CASE EnterMainLoop
    BY <1>7 DEF EnterMainLoop, Pending
  <1>8. CASE UNCHANGED vars
    BY <1>8 DEF vars, Pending
  <1>9. \/ \E h \in Hooks : NamedInitFuncAdd(h)
        \/ main \/ BatteryInit \/ BatteryInitFindsNothing \/ ChargeStateInit
        \/ batterypoll_init \/ EnterMainLoop \/ UNCHANGED vars
        \/ \E h \in Hooks \ {"ChargeStateInit"} :
              Run(h) /\ pc' \in {"hooks", "aborted"} /\ UNCHANGED <<battDev, ctia, polled>>
    BY DEF Next, config_init, timesaver_init, ChargerInit, ChargerInitFindsNothing,
       SuspendInit, com_webos_service_battery_lunabus_init, HookFails, Hooks, Run
  <1> QED BY <1>1, <1>2, <1>3, <1>4, <1>5, <1>6, <1>7, <1>8, <1>9

IInv == ListInv /\ OrderInv /\ DataTypeOK /\ DataInv

\* From the first constructor to the main loop (NamedInitFuncAdd, TheOneInit), the
\* list is in order and what each hook leaves is what the ones before it allow.
THEOREM StartupInvHolds == Spec => []IInv
  <1>1. Init => IInv
    BY ListInvInit, DataTypeInit, DataInvInit DEF IInv
  <1>2. IInv /\ [Next]_vars => IInv'
    BY ListInvStep, DataTypeStep, ConfigInvStep, ChargerInvStep, LimitsInvStep
    DEF IInv, DataInv
  <1> QED BY <1>1, <1>2, PTL DEF Spec

\* However main() comes to be called (NamedInitFuncAdd, main, Run), the list holds
\* each hook that was registered and has not been run, once, by priority.
THEOREM StartupTypes == Spec => []TypeOK
  <1>1. IInv => TypeOK
    BY DEF IInv, ListInv, Ordered, Pending, DataTypeOK, Inputs, TypeOK
  <1> QED BY <1>1, StartupInvHolds, PTL

\* The file overrides the options, the options override the defaults, and the
\* command line is heeded (config_init, main), for all options and files and in
\* whatever order the hooks were linked in.
THEOREM PrecedenceHolds == Spec => []PrecedenceIsKept
  <1>1. ASSUME IInv, pc = "mainloop"
        PROVE  /\ \A k \in DOMAIN given.file : gChargeConfig[k] = given.file[k]
               /\ "critical_percent" \notin DOMAIN given.file =>
                     gChargeConfig["critical_percent"] =
                         IF given.options["critical_percent"] < 0
                           THEN DefaultConfig["critical_percent"]
                           ELSE given.options["critical_percent"]
               /\ given.skip => gChargeConfig["skip_battery_check"]
    <2>1. /\ \A k \in Settings \ {"skip_battery_check"} : gChargeConfig[k] = Configured[k]
          /\ given.skip => gChargeConfig["skip_battery_check"]
      BY <1>1 DEF IInv, ListInv, DataInv, ConfigInv
    <2>2. /\ given.options["critical_percent"] \in Int
          /\ \A k \in DOMAIN given.file : k \in Settings \ {"skip_battery_check"}
      BY <1>1, GivenIs DEF IInv, DataTypeOK
    <2>3. \A k \in DOMAIN given.file : Configured[k] = given.file[k]
      BY <2>2 DEF Configured, WithFileAndCommandLine
    <2>4. ASSUME "critical_percent" \notin DOMAIN given.file
          PROVE  Configured["critical_percent"] =
                     IF given.options["critical_percent"] < 0
                       THEN DefaultConfig["critical_percent"]
                       ELSE given.options["critical_percent"]
      <3> DEFINE config == WithOptions(DefaultConfig, given.options)
      <3>1. Configured["critical_percent"] = config["critical_percent"]
        BY <2>4 DEF Configured, WithFileAndCommandLine, Settings
      <3>2. config["critical_percent"] = IF given.options["critical_percent"] >= 0
                                           THEN given.options["critical_percent"]
                                           ELSE DefaultConfig["critical_percent"]
        BY DEF WithOptions, DefaultConfig, Settings
      <3> QED BY <2>2, <3>1, <3>2
    <2>5. "critical_percent" \in Settings \ {"skip_battery_check"}
      BY DEF Settings
    <2> QED BY <2>1, <2>2, <2>3, <2>4, <2>5
  <1>2. IInv => PrecedenceIsKept
    BY <1>1, Zenon DEF PrecedenceIsKept
  <1> QED BY <1>2, StartupInvHolds, PTL

\* Whether batteryd hears of the charger's changes of state is what the
\* configuration it ends up with says (ChargerInit, config_init), in whatever order
\* the hooks were linked.
THEOREM EventsFollow == Spec => []EventsFollowConfiguration
  <1>1. IInv => EventsFollowConfiguration
    BY DEF IInv, ListInv, DataInv, ChargerInv, EventsFollowConfiguration
  <1> QED BY <1>1, StartupInvHolds, PTL

\* The battery poll starts (batterypoll_init) only after the battery was asked
\* for its limits (ChargeStateInit), if there is one.
THEOREM LimitsAreAskedFirst == Spec => []LimitsBeforePoll
  <1>1. IInv => LimitsBeforePoll
    BY LimitsComeBeforePoll DEF IInv, DataInv, LimitsInv, LimitsBeforePoll
  <1> QED BY <1>1, StartupInvHolds, PTL

--------------------------------------------------------------------------------
(***************************************************************************)
(* Two hooks of one priority: the one whose constructor runs last is run   *)
(* first.                                                                  *)
(***************************************************************************)

ConfigIsLast == <<"BatteryInit", "config_init">> \in LinkedBefore

\* The configuration stands before the battery.
ConfigAhead(list) ==
    \A i, j \in 1..Len(list) :
        list[i] = "BatteryInit" /\ list[j] = "config_init" => j < i

TieInv ==
    /\ "config_init" \in registered => "BatteryInit" \in registered
    /\ ConfigAhead(namedInitFuncs)
    /\ pc # "constructors" /\ "BatteryInit" \notin Pending => "config_init" \notin Pending

LEMMA InsertKeepsTie ==
    ASSUME NEW list, Ordered(list), ConfigAhead(list),
           NEW h \in Hooks, h \notin ToSet(list),
           h = "BatteryInit" => "config_init" \notin ToSet(list),
           NEW new, new = InsertAt(list, Place(list, h), h)
    PROVE  ConfigAhead(new)
  <1> DEFINE p == Place(list, h)
             n == Len(list)
  <1>1. /\ n \in Nat
        /\ \A i \in 1..n : Priority(list[i]) \in Nat
        /\ \A g : g \in ToSet(list) <=> \E i \in 1..n : list[i] = g
    BY ListFacts
  <1>2. /\ p \in 1..n + 1
        /\ \A i \in 1..n : i < p => Priority(list[i]) < Priority(h)
    BY PlaceIs DEF Ordered
  <1>3. /\ Len(new) = n + 1
        /\ \A i \in 1..p - 1 : new[i] = list[i]
        /\ new[p] = h
        /\ \A i \in p + 1..n + 1 : new[i] = list[i - 1]
    BY <1>2, InsertIs
  <1>4. \A i, j \in 1..n : list[i] = "BatteryInit" /\ list[j] = "config_init" => j < i
    BY DEF ConfigAhead
  <1> HIDE DEF p, n
  <1>5. ASSUME NEW i \in 1..n + 1, NEW j \in 1..n + 1,
               new[i] = "BatteryInit", new[j] = "config_init"
        PROVE  j < i
    <2>1. CASE h = "BatteryInit"
      <3>1. j # p
        BY <1>3, <1>5, <2>1
      <3>2. \E k \in 1..n : list[k] = "config_init"
        <4>1. CASE j < p
          BY <1>1, <1>2, <1>3, <1>5, <4>1
        <4>2. CASE j > p
          <5>1. j - 1 \in 1..n /\ j \in p + 1..n + 1
            BY <1>1, <1>2, <4>2
          <5> QED BY <1>3, <1>5, <5>1
        <4> QED BY <1>1, <1>2, <3>1, <4>1, <4>2
      <3> QED BY <1>1, <2>1, <3>2
    <2>2. CASE h = "config_init"
      <3>1. i # p /\ Priority(h) = 0
        BY <1>3, <1>5, <2>2, Priorities
      <3>2. ~(1 \in 1..n /\ 1 < p)
        BY <1>1, <1>2, <3>1
      <3>3. p = 1
        BY <1>1, <1>2, <3>2
      <3>4. j = 1
        <4>1. CASE j # 1
          <5>1. j - 1 \in 1..n /\ j \in p + 1..n + 1
            BY <1>1, <3>3, <4>1
          <5>2. list[j - 1] = h
            BY <1>3, <1>5, <2>2, <5>1
          <5> QED BY <1>1, <5>1, <5>2
        <4> QED BY <4>1
      <3> QED BY <1>1, <3>1, <3>3, <3>4
    <2>3. CASE h # "BatteryInit" /\ h # "config_init"
      <3> DEFINE a == IF i < p THEN i ELSE i - 1
                 b == IF j < p THEN j ELSE j - 1
      <3>1. i # p /\ j # p
        BY <1>3, <1>5, <2>3
      <3>2. a \in 1..n /\ list[a] = "BatteryInit"
        BY <1>1, <1>2, <1>3, <1>5, <3>1
      <3>3. b \in 1..n /\ list[b] = "config_init"
        BY <1>1, <1>2, <1>3, <1>5, <3>1
      <3>4. b < a
        BY <1>4, <3>2, <3>3
      <3> QED BY <1>1, <1>2, <3>1, <3>4
    <2> QED BY <2>1, <2>2, <2>3
  <1> QED BY <1>3, <1>5 DEF ConfigAhead

LEMMA TieInvInit == Init => TieInv
  <1>1. Len(<<>>) = 0
    BY EmptySeq
  <1> QED BY <1>1 DEF Init, TieInv, ConfigAhead

LEMMA TieInvStep ==
    ASSUME ConfigIsLast, ListInv, TieInv, [Next]_vars
    PROVE  TieInv'
  <1>1. ASSUME NEW h \in Hooks, NamedInitFuncAdd(h)
        PROVE  TieInv'
    <2>1. /\ pc = "constructors" /\ pc' = pc
          /\ h \notin registered /\ registered' = registered \cup {h}
          /\ h = "config_init" => "BatteryInit" \in registered
          /\ namedInitFuncs' = InsertAt(namedInitFuncs, Place(namedInitFuncs, h), h)
      BY <1>1 DEF NamedInitFuncAdd, ConfigIsLast
    <2>2. Ordered(namedInitFuncs) /\ ToSet(namedInitFuncs) = registered
      BY <2>1 DEF ListInv, Pending
    <2>3. ConfigAhead(namedInitFuncs')
      BY <2>1, <2>2, InsertKeepsTie DEF TieInv
    <2> QED BY <2>1, <2>3 DEF TieInv
  <1>2. CASE main
    <2>1. "BatteryInit" \in Pending /\ Pending' = Pending
      BY <1>2 DEF main, ListInv, Hooks, Pending
    <2> QED BY <1>2, <2>1 DEF main, TieInv, ConfigAhead
  <1>3. CASE EnterMainLoop
    BY <1>3 DEF EnterMainLoop, TieInv, ConfigAhead, Pending
  <1>4. ASSUME NEW h, Run(h), pc' \in {"hooks", "aborted"}
        PROVE  TieInv'
    <2> DEFINE n == Len(namedInitFuncs)
    <2>1. /\ h \in Pending /\ Pending' = Pending \ {h} /\ registered' = registered
          /\ \A i \in 1..n - 1 : namedInitFuncs'[i] = namedInitFuncs[i + 1]
          /\ Len(namedInitFuncs') = n - 1
          /\ h = namedInitFuncs[1]
      BY <1>4, RunTakesHead
    <2>2. /\ n \in Nat
          /\ \A g : g \in Pending <=> \E i \in 1..n : namedInitFuncs[i] = g
      BY ListFacts DEF ListInv, Pending
    <2>3. \A i, j \in 1..n :
             namedInitFuncs[i] = "BatteryInit" /\ namedInitFuncs[j] = "config_init" => j < i
      BY DEF TieInv, ConfigAhead
    <2> HIDE DEF n
    <2>4. ASSUME NEW i \in 1..n - 1, NEW j \in 1..n - 1,
                 namedInitFuncs'[i] = "BatteryInit", namedInitFuncs'[j] = "config_init"
          PROVE  j < i
      <3>1. i + 1 \in 1..n /\ j + 1 \in 1..n
        BY <2>2
      <3>2. j + 1 < i + 1
        BY <2>1, <2>3, <2>4, <3>1
      <3> QED BY <2>2, <3>2
    <2>5. ConfigAhead(namedInitFuncs')
      BY <2>1, <2>4 DEF ConfigAhead
    <2>6. h = "BatteryInit" => "config_init" \notin Pending
      <3> SUFFICES ASSUME h = "BatteryInit", "config_init" \in Pending PROVE FALSE
        OBVIOUS
      <3>1. PICK j \in 1..n : namedInitFuncs[j] = "config_init"
        BY <2>2
      <3>2. 1 \in 1..n /\ ~(j < 1)
        BY <2>2
      <3> QED BY <2>1, <2>3, <3>1, <3>2
    <2>7. pc # "constructors"
      BY <1>4 DEF Run
    <2> QED BY <1>4, <2>1, <2>5, <2>6, <2>7 DEF TieInv
  <1>5. CASE UNCHANGED <<pc, registered, namedInitFuncs>>
    BY <1>5 DEF TieInv, ConfigAhead, Pending
  <1> QED BY <1>1, <1>2, <1>3, <1>4, <1>5, StepKinds

\* Nothing is listened for before the battery's hook is run, and that finds the
\* configuration it ends up with.
FakeInv ==
    /\ pc = "constructors" \/ "BatteryInit" \in Pending =>
          "batteryStatusQuery" \notin matches /\ "fakeBatteryStatus" \notin matches
    /\ "batteryStatusQuery" \in matches =>
          ("fakeBatteryStatus" \in matches <=> gChargeConfig["fake_battery"])

LEMMA FakeInvStep ==
    ASSUME ListInv, DataTypeOK, TieInv, FakeInv, [Next]_vars
    PROVE  FakeInv'
  <1> USE DEF FakeInv
  <1>1. ASSUME NEW h \in Hooks, NamedInitFuncAdd(h) PROVE FakeInv'
    BY <1>1 DEF NamedInitFuncAdd
  <1>2. CASE main
    <2>1. "BatteryInit" \in Pending /\ Pending' = Pending
      BY <1>2 DEF main, ListInv, Hooks, Pending
    <2> QED BY <1>2, <2>1 DEF main
  <1>3. CASE config_init
    <2>1. Pending' = Pending \ {"config_init"} /\ "config_init" \in Pending /\ pc = "hooks"
      BY <1>3, RunShrinks DEF config_init
    <2>2. "BatteryInit" \in Pending
      BY <2>1 DEF TieInv
    <2> QED BY <1>3, <2>1, <2>2 DEF config_init
  <1>4. CASE BatteryInit
    <2>1. Pending' = Pending \ {"BatteryInit"} /\ "BatteryInit" \in Pending /\ pc = "hooks"
      BY <1>4, RunShrinks DEF BatteryInit
    <2>2. "fakeBatteryStatus" \in matches' <=> gChargeConfig["fake_battery"]
      BY <1>4, <2>1 DEF BatteryInit
    <2> QED BY <1>4, <2>1, <2>2 DEF BatteryInit
  <1>5. CASE ChargerInitFindsNothing
    <2>1. Pending' = Pending \ {"ChargerInit"} /\ pc = "hooks"
      BY <1>5, RunShrinks DEF ChargerInitFindsNothing
    <2>2. gChargeConfig'["fake_battery"] = gChargeConfig["fake_battery"]
      BY <1>5 DEF ChargerInitFindsNothing, DataTypeOK, Settings, Switches
    <2> QED BY <1>5, <2>1, <2>2 DEF ChargerInitFindsNothing
  <1>6. ASSUME NEW h, Run(h), UNCHANGED gChargeConfig,
               "batteryStatusQuery" \in matches' <=> "batteryStatusQuery" \in matches,
               "fakeBatteryStatus" \in matches' <=> "fakeBatteryStatus" \in matches,
               pc' \in {"hooks", "aborted"}
        PROVE  FakeInv'
    <2>1. Pending' = Pending \ {h} /\ pc = "hooks"
      BY <1>6, RunShrinks
    <2> QED BY <1>6, <2>1
  <1>7. CASE ChargerInit
    BY <1>6, <1>7 DEF ChargerInit, Run
  <1>8. CASE SuspendInit
    BY <1>6, <1>8 DEF SuspendInit, Run
  <1>9. ASSUME NEW h, Run(h), UNCHANGED <<gChargeConfig, matches>>, pc' \in {"hooks", "aborted"}
        PROVE  FakeInv'
    BY <1>6, <1>9
  <1>10. CASE EnterMainLoop
    BY <1>10 DEF EnterMainLoop, Pending
  <1>11. CASE UNCHANGED vars
    BY <1>11 DEF vars, Pending
  <1>12. \/ \E h \in Hooks : NamedInitFuncAdd(h)
         \/ main \/ config_init \/ BatteryInit \/ ChargerInit \/ ChargerInitFindsNothing
         \/ SuspendInit \/ EnterMainLoop \/ UNCHANGED vars
         \/ \E h : Run(h) /\ UNCHANGED <<gChargeConfig, matches>> /\ pc' \in {"hooks", "aborted"}
    BY DEF Next, BatteryInitFindsNothing, timesaver_init, ChargeStateInit,
       batterypoll_init, com_webos_service_battery_lunabus_init, HookFails, Run
  <1> QED BY <1>1, <1>2, <1>3, <1>4, <1>5, <1>7, <1>8, <1>9, <1>10, <1>11, <1>12

\* batteryd listens for fake batteries exactly if it ends up configured to
\* (BatteryInit), provided that config.c's constructor runs after battery.c's: both
\* hooks are of the first priority, and the list turns them round.
THEOREM FakeBatteryFollows ==
    ASSUME ConfigIsLast
    PROVE  Spec => []FakeBatteryIsHeard
  <1>1. Init => TieInv /\ FakeInv
    BY TieInvInit DEF Init, FakeInv
  <1>2. IInv /\ TieInv /\ FakeInv /\ [Next]_vars => TieInv' /\ FakeInv'
    BY TieInvStep, FakeInvStep DEF IInv
  <1>3. FakeInv => FakeBatteryIsHeard
    BY DEF FakeInv, FakeBatteryIsHeard
  <1> QED BY <1>1, <1>2, <1>3, StartupInvHolds, PTL DEF Spec
================================================================================
