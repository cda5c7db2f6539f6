------------------------------- MODULE MCCharger -------------------------------
(***************************************************************************)
(* Small instances of Charger for TLC.                                     *)
(***************************************************************************)
EXTENDS Charger

MCStatus(connected, powered, charging) ==
    [connected |-> connected, powered |-> powered, is_charging |-> charging]

\* Nothing; a port of a computer, charging or not; a mains supply that only
\* shows in its power slot; a dock; and a supply nyx cannot classify.
MCStatuses ==
    {ZeroedStatus,
     MCStatus({"PC"}, {"USB"}, TRUE),
     MCStatus({"PC"}, {}, FALSE),
     MCStatus({}, {"DIRECT"}, TRUE),
     MCStatus({"INDUCTIVE"}, {"INDUCTIVE"}, TRUE),
     MCStatus({}, {}, TRUE)}

\* Of the topics that every broadcast goes to one fails, or of those that hear
\* of a change of connected only.
MCOutages == {{}, {"chargerStatus"}, {"chargerConnected"}}
================================================================================
