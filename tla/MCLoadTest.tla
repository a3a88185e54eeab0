----------------------------- MODULE MCLoadTest ----------------------------
(***************************************************************************)
(* Instances of LoadTest for TLC.                                          *)
(***************************************************************************)
EXTENDS LoadTest

CONSTANTS t1, t2

============================================================================
