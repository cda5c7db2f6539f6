------------------------------ MODULE MCLibClient ------------------------------
(***************************************************************************)
(* Small instances of LibClient for TLC.                                   *)
(***************************************************************************)
EXTENDS LibClient

MCEitherHandle == {"BatterydClientInit", "BatterydClientInitLunaService"}
================================================================================
