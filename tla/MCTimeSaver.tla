------------------------------ MODULE MCTimeSaver ------------------------------
(***************************************************************************)
(* Small instances of TimeSaver for TLC.                                   *)
(***************************************************************************)
EXTENDS TimeSaver, TLC

MCSymmetry == Permutations(Inodes)

\* Since 2001 every time has as many digits; here, two.
MCTimes == {11, 25}

\* The clock of a device that has lost it: one digit.
MCShortTimes == {2, 11}
================================================================================
