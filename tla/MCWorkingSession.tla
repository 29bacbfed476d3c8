-------------------------- MODULE MCWorkingSession --------------------------
(***************************************************************************)
(* Model checking WorkingSession: two sessions on one socket path.         *)
(***************************************************************************)
EXTENDS WorkingSession

CONSTANTS o1, o2, o3
=============================================================================
