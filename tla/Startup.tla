-------------------------------- MODULE Startup --------------------------------
(***************************************************************************)
(* How batteryd starts (src/batteryd/main.c, config.c.in, utils/init.c):   *)
(* modules register initialization hooks from constructors, which run in   *)
(* the order they were linked in; main() takes the options and runs the    *)
(* hooks by priority; the configuration file and the kernel's command line *)
(* are read by one of them, and the others act on what they find.          *)
(***************************************************************************)
EXTENDS Integers, SequencesExt

CONSTANTS
    LinkedBefore,   \* pairs of hooks: the first one's constructor runs first
    OptionSets,     \* what batteryd may be called with
    Files           \* the settings a configuration file may hold

Hooks == {"config_init", "BatteryInit", "timesaver_init", "ChargerInit",
          "ChargeStateInit", "SuspendInit", "batterypoll_init",
          "com_webos_service_battery_lunabus_init"}

FIRST == 0
EARLY == 10
MIDDLE == 50
END == 100

\* Fault: the configuration is read with the modules that use it.
LateConfigPriority(h) ==
    CASE h = "BatteryInit" -> FIRST
      [] h = "timesaver_init" -> EARLY
      [] h \in {"config_init", "ChargerInit", "ChargeStateInit"} -> MIDDLE
      [] OTHER -> END

\* Fault: the charge decision is set up with the devices.
EarlyLimitsPriority(h) ==
    CASE h \in {"config_init", "BatteryInit", "ChargeStateInit"} -> FIRST
      [] h = "timesaver_init" -> EARLY
      [] h = "ChargerInit" -> MIDDLE
      [] OTHER -> END

Priority(h) ==
    CASE h \in {"config_init", "BatteryInit"} -> FIRST
      [] h = "timesaver_init" -> EARLY
      [] h \in {"ChargerInit", "ChargeStateInit"} -> MIDDLE
      [] OTHER -> END

Switches == {"fake_battery", "disable_charging", "skip_battery_check"}
Settings == Switches \cup {"critical_percent"}

IsSetting(f) ==
    \A k \in DOMAIN f : IF k = "critical_percent" THEN f[k] \in Int ELSE f[k] \in BOOLEAN

\* Below 0 for a percentage that is not given.
ASSUME OptionSetsAssumption ==
    \A o \in OptionSets : DOMAIN o = {"fake_battery", "critical_percent"} /\ IsSetting(o)
ASSUME FilesAssumption ==
    \A f \in Files :
        DOMAIN f \subseteq {"fake_battery", "disable_charging", "critical_percent"} /\ IsSetting(f)
ASSUME LinkedBeforeAssumption == LinkedBefore \subseteq Hooks \X Hooks

VARIABLES
    pc,
    registered,     \* the hooks whose constructors have run
    namedInitFuncs, \* the hooks still to be run, in order
    gChargeConfig,
    given,          \* what this start was given: options, file, command line
    battDev, nyxDev,    \* the devices that were found
    matches,        \* the bus signals batteryd gets
    callbacks,      \* what nyx calls it for
    ctia,           \* whether the battery's limits were asked for
    polled          \* the battery poll has made its first pass

vars == <<pc, registered, namedInitFuncs, gChargeConfig, given, battDev, nyxDev,
          matches, callbacks, ctia, polled>>

TypeOK ==
    /\ pc \in {"constructors", "hooks", "mainloop", "exited", "aborted"}
    /\ registered \subseteq Hooks
    /\ IsInjective(namedInitFuncs) /\ ToSet(namedInitFuncs) \subseteq registered
    /\ \A i, j \in 1..Len(namedInitFuncs) :
          i < j => Priority(namedInitFuncs[i]) <= Priority(namedInitFuncs[j])
    /\ given \in [options : OptionSets, file : Files, skip : BOOLEAN]
    /\ DOMAIN gChargeConfig = Settings /\ IsSetting(gChargeConfig)
    /\ battDev \in BOOLEAN /\ nyxDev \in BOOLEAN
    /\ matches \subseteq {"batteryStatusQuery", "fakeBatteryStatus",
                          "chargerStatusQuery", "resume", "suspended"}
    /\ callbacks \subseteq {"notifyBatteryStatus", "notifyChargerStatus", "notifyStateChange"}
    /\ ctia \in {"unasked", "known", "refused"}
    /\ polled \in BOOLEAN

DefaultConfig == [k \in Settings |-> IF k = "critical_percent" THEN 2 ELSE FALSE]

Init ==
    /\ pc = "constructors"
    /\ registered = {}
    /\ namedInitFuncs = <<>>
    /\ gChargeConfig = DefaultConfig
    /\ given \in [options : OptionSets, file : Files, skip : BOOLEAN]
    /\ battDev = FALSE /\ nyxDev = FALSE
    /\ matches = {} /\ callbacks = {}
    /\ ctia = "unasked" /\ polled = FALSE

--------------------------------------------------------------------------------
(***************************************************************************)
(* Before main(): the constructors.                                        *)
(***************************************************************************)

\* Fault: a hook only looks for its equals.
AmongItsEquals(list, h) ==
    Min({i \in 1..Len(list) : Priority(h) = Priority(list[i])} \cup {Len(list) + 1})

\* Fault: a hook goes after those of its own priority.
AfterItsEquals(list, h) ==
    Min({i \in 1..Len(list) : Priority(h) < Priority(list[i])} \cup {Len(list) + 1})

\* g_hook_insert_sorted(): before the first that GPrioritizedHookCompare() does
\* not put it after.
Place(list, h) ==
    Min({i \in 1..Len(list) : Priority(h) <= Priority(list[i])} \cup {Len(list) + 1})

NamedInitFuncAdd(h) ==
    /\ pc = "constructors"
    /\ h \notin registered
    /\ \A p \in LinkedBefore : p[2] = h => p[1] \in registered
    /\ registered' = registered \cup {h}
    /\ namedInitFuncs' = InsertAt(namedInitFuncs, Place(namedInitFuncs, h), h)
    /\ UNCHANGED <<pc, gChargeConfig, given, battDev, nyxDev, matches, callbacks, ctia, polled>>

--------------------------------------------------------------------------------
(***************************************************************************)
(* main(), up to the main loop.                                            *)
(***************************************************************************)

WithOptions(config, options) ==
    [config EXCEPT !["fake_battery"] = options["fake_battery"],
                   !["critical_percent"] =
                       IF options["critical_percent"] >= 0
                         THEN options["critical_percent"] ELSE @]

\* The bus is joined before the hooks run, or batteryd gives up.
main ==
    /\ pc = "constructors" /\ registered = Hooks
    /\ gChargeConfig' = WithOptions(gChargeConfig, given.options)
    /\ pc' \in {"hooks", "exited"}
    /\ UNCHANGED <<registered, namedInitFuncs, given, battDev, nyxDev, matches, callbacks,
                   ctia, polled>>

EnterMainLoop ==
    /\ pc = "hooks" /\ namedInitFuncs = <<>>
    /\ pc' = "mainloop"
    /\ UNCHANGED <<registered, namedInitFuncs, gChargeConfig, given, battDev, nyxDev,
                   matches, callbacks, ctia, polled>>

\* TheOneInit() runs the next hook, which succeeds or, through HookInit(), aborts.
Run(h) ==
    /\ pc = "hooks"
    /\ namedInitFuncs # <<>> /\ h = Head(namedInitFuncs)
    /\ namedInitFuncs' = Tail(namedInitFuncs)
    /\ UNCHANGED <<registered, given>>

--------------------------------------------------------------------------------
(***************************************************************************)
(* The hooks.                                                              *)
(***************************************************************************)

\* Fault: without a file the command line is not read either.
WithFileThenCommandLine(config) ==
    [k \in Settings |->
        IF k \in DOMAIN given.file THEN given.file[k]
        ELSE IF k = "skip_battery_check" /\ given.file # <<>>
          THEN config[k] \/ given.skip ELSE config[k]]

\* A file that cannot be loaded, or a value in it that cannot be parsed, sets
\* nothing.  The command line is read in any case and can only switch on.
WithFileAndCommandLine(config) ==
    [k \in Settings |->
        IF k \in DOMAIN given.file THEN given.file[k]
        ELSE IF k = "skip_battery_check" THEN config[k] \/ given.skip
        ELSE config[k]]

config_init ==
    /\ Run("config_init")
    /\ gChargeConfig' = WithFileAndCommandLine(gChargeConfig)
    /\ UNCHANGED <<pc, battDev, nyxDev, matches, callbacks, ctia, polled>>

\* No iterator, or a device that does not open: the hook gives up, batteryd goes on.
BatteryInitFindsNothing ==
    /\ Run("BatteryInit")
    /\ battDev' = FALSE
    /\ UNCHANGED <<pc, gChargeConfig, nyxDev, matches, callbacks, ctia, polled>>

\* An iterator without devices leaves the subscriptions and no callback.
BatteryInit ==
    /\ Run("BatteryInit")
    /\ battDev' \in BOOLEAN
    /\ matches' = matches \cup {"batteryStatusQuery"}
         \cup (IF gChargeConfig["fake_battery"] THEN {"fakeBatteryStatus"} ELSE {})
    /\ callbacks' = callbacks \cup (IF battDev' THEN {"notifyBatteryStatus"} ELSE {})
    /\ UNCHANGED <<pc, gChargeConfig, nyxDev, ctia, polled>>

timesaver_init ==
    /\ Run("timesaver_init")
    /\ UNCHANGED <<pc, gChargeConfig, battDev, nyxDev, matches, callbacks, ctia, polled>>

ChargerInitFindsNothing ==
    /\ Run("ChargerInit")
    /\ nyxDev' = FALSE
    /\ gChargeConfig' = [gChargeConfig EXCEPT !["skip_battery_check"] = TRUE]
    /\ UNCHANGED <<pc, battDev, matches, callbacks, ctia, polled>>

ChargerInit ==
    /\ Run("ChargerInit")
    /\ nyxDev' \in BOOLEAN
    /\ matches' = matches \cup {"chargerStatusQuery"}
    /\ callbacks' = callbacks \cup
         (IF ~nyxDev' THEN {}
          ELSE IF gChargeConfig["skip_battery_check"] \/ gChargeConfig["disable_charging"]
            THEN {"notifyChargerStatus"}
            ELSE {"notifyChargerStatus", "notifyStateChange"})
    /\ UNCHANGED <<pc, gChargeConfig, battDev, ctia, polled>>

\* battery_get_ctia_params() cannot ask without a device.
ChargeStateInit ==
    /\ Run("ChargeStateInit")
    /\ ctia' \in IF battDev THEN {"known", "refused"} ELSE {"unasked"}
    /\ UNCHANGED <<pc, gChargeConfig, battDev, nyxDev, matches, callbacks, polled>>

\* A subscription that fails is not worth an abort, nor the next one an attempt.
SuspendInit ==
    /\ Run("SuspendInit")
    /\ \E ok \in {{}, {"resume"}, {"resume", "suspended"}} : matches' = matches \cup ok
    /\ UNCHANGED <<pc, gChargeConfig, battDev, nyxDev, callbacks, ctia, polled>>

batterypoll_init ==
    /\ Run("batterypoll_init")
    /\ polled' = TRUE
    /\ UNCHANGED <<pc, gChargeConfig, battDev, nyxDev, matches, callbacks, ctia>>

com_webos_service_battery_lunabus_init ==
    /\ Run("com_webos_service_battery_lunabus_init")
    /\ UNCHANGED <<pc, gChargeConfig, battDev, nyxDev, matches, callbacks, ctia, polled>>

\* The bus refuses a subscription or the methods: HookInit() aborts.
HookFails ==
    /\ \E h \in {"BatteryInit", "ChargerInit", "com_webos_service_battery_lunabus_init"} : Run(h)
    /\ pc' = "aborted"
    /\ UNCHANGED <<gChargeConfig, battDev, nyxDev, matches, callbacks, ctia, polled>>

Next ==
    \/ \E h \in Hooks : NamedInitFuncAdd(h)
    \/ main
    \/ config_init
    \/ BatteryInit
    \/ BatteryInitFindsNothing
    \/ timesaver_init
    \/ ChargerInit
    \/ ChargerInitFindsNothing
    \/ ChargeStateInit
    \/ SuspendInit
    \/ batterypoll_init
    \/ com_webos_service_battery_lunabus_init
    \/ HookFails
    \/ EnterMainLoop

Spec == Init /\ [][Next]_vars

--------------------------------------------------------------------------------
(***************************************************************************)
(* Properties.                                                             *)
(***************************************************************************)

\* main.c:118-122 and config.c.in:157-159: whatever order things are linked in,
\* the file overrides the options, the options the defaults, and the kernel's
\* command line is heeded with and without a file.
PrecedenceIsKept ==
    pc = "mainloop" =>
        /\ \A k \in DOMAIN given.file : gChargeConfig[k] = given.file[k]
        /\ "critical_percent" \notin DOMAIN given.file =>
               gChargeConfig["critical_percent"] =
                   IF given.options["critical_percent"] < 0
                     THEN DefaultConfig["critical_percent"]
                     ELSE given.options["critical_percent"]
        /\ given.skip => gChargeConfig["skip_battery_check"]

\* charger.c:501-502 and 517-519: once it runs, batteryd hears of the charger's
\* changes of state exactly if the configuration it then has lets it act on them.
EventsFollowConfiguration ==
    pc = "mainloop" =>
        /\ "notifyStateChange" \in callbacks <=>
               /\ nyxDev
               /\ ~gChargeConfig["skip_battery_check"]
               /\ ~gChargeConfig["disable_charging"]
        /\ "chargerStatusQuery" \notin matches => gChargeConfig["skip_battery_check"]

\* charging_logic.c:229: the first pass of the battery poll, which authenticates
\* the battery, is not made before the battery's limits were asked for.
LimitsBeforePoll == polled /\ battDev => ctia # "unasked"

\* battery.c:590: batteryd listens for fake batteries exactly if it ends up
\* configured to, by option or by file.
FakeBatteryIsHeard ==
    pc = "mainloop" /\ "batteryStatusQuery" \in matches =>
        ("fakeBatteryStatus" \in matches <=> gChargeConfig["fake_battery"])
================================================================================
