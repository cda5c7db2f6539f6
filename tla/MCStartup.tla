------------------------------- MODULE MCStartup -------------------------------
(***************************************************************************)
(* Small instances of Startup for TLC.                                     *)
(***************************************************************************)
EXTENDS Startup

MCOptionSets ==
    {[fake_battery |-> f, critical_percent |-> p] : f \in BOOLEAN, p \in {-1, 0, 5}}

MCFiles ==
    {<<>>,
     [fake_battery |-> FALSE, disable_charging |-> FALSE, critical_percent |-> 2],
     [disable_charging |-> TRUE],
     [fake_battery |-> TRUE, critical_percent |-> 7]}

\* CMake appends what it configures to the sources it globs, and the constructors
\* run in the order of the objects.  Every other order is left open.
MCConfigLast == {<<"BatteryInit", "config_init">>}
================================================================================
