---------------------------- MODULE MCTerminals ----------------------------
(***************************************************************************)
(* The instance of Terminals that TLC checks.                              *)
(***************************************************************************)
EXTENDS Terminals

Everything == AllFaults
BothModes == AllModes
=============================================================================
