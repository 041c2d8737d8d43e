------------------------------ MODULE MCPrinter ------------------------------
(***************************************************************************)
(* Instances of Printer for TLC.                                           *)
(***************************************************************************)
EXTENDS Printer
=============================================================================
