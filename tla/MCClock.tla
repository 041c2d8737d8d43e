------------------------------ MODULE MCClock -------------------------------
(***************************************************************************)
(* Instances of Clock for TLC.                                             *)
(***************************************************************************)
EXTENDS Clock
=============================================================================
