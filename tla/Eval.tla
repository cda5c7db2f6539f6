---------------------------------- MODULE Eval ----------------------------------
(***************************************************************************)
(* The two pure evaluations of batteryd: charger_eval.h, what a nyx        *)
(* charger status means for every signal and reply, and critical_eval.h,   *)
(* whether a low state of charge is to be believed.                        *)
(*                                                                         *)
(* The bit masks of nyx are sets of flags.                                 *)
(***************************************************************************)
EXTENDS Integers

\* nyx_charger_connected_t and nyx_charger_powered_t, of the nyx library.
ConnectedFlags == {"PC", "WALL", "DIRECT", "INDUCTIVE"}
PoweredFlags == {"USB", "DIRECT", "INDUCTIVE"}

\* The fields of nyx_charger_status_t a decision is taken from.
ChargerStatus == [connected   : SUBSET ConnectedFlags,
                  powered     : SUBSET PoweredFlags,
                  is_charging : BOOLEAN]

ZeroedStatus == [connected |-> {}, powered |-> {}, is_charging |-> FALSE]

\* charger_view_t; whatever makes a charger, wired, dock or a supply nyx could
\* not classify, makes any.
View == {v \in [wired : BOOLEAN, dock : BOOLEAN, any : BOOLEAN, charging : BOOLEAN] :
            v.wired \/ v.dock \/ v.charging => v.any}

wired(s) == \/ s.connected \cap {"PC", "WALL", "DIRECT"} # {}
            \/ s.powered \cap {"USB", "DIRECT"} # {}

dock(s) == "INDUCTIVE" \in s.connected \/ "INDUCTIVE" \in s.powered

\* Fault: a supply that is neither wired nor a dock does not count.
ClassifiedOnlyView(s) ==
    [wired    |-> wired(s),
     dock     |-> dock(s),
     any      |-> wired(s) \/ dock(s) \/ s.connected # {} \/ s.powered # {},
     charging |-> s.is_charging]

charger_view(s) ==
    [wired    |-> wired(s),
     dock     |-> dock(s),
     any      |-> \/ wired(s)
                  \/ dock(s)
                  \/ s.connected # {}
                  \/ s.powered # {}
                  \/ s.is_charging,
     charging |-> s.is_charging]

\* Every field of the view is compared, and the view has no other.
charger_view_differs(a, b) == a # b

charger_view_type(v) ==
    IF v.dock THEN "inductive" ELSE IF v.wired THEN "usb" ELSE "none"

--------------------------------------------------------------------------------

CRITICAL_PERCENT_PLAUSIBLE_MAX_MV == 3700

critical_percent_t == {"NO", "YES", "IMPLAUSIBLE"}

critical_percent_eval(percentage, voltage_mv, critical_percent) ==
    IF critical_percent <= 0 \/ percentage > critical_percent THEN "NO"
    ELSE IF voltage_mv >= CRITICAL_PERCENT_PLAUSIBLE_MAX_MV THEN "IMPLAUSIBLE"
    ELSE "YES"
================================================================================
