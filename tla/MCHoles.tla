------------------------------- MODULE MCHoles -------------------------------
(***************************************************************************)
(* An instance of Holes for TLC: two chunks of memory with a gap between   *)
(* them, the upper one reported first.                                     *)
(***************************************************************************)
EXTENDS Holes

TwoChunks == <<[base |-> 7, len |-> 3], [base |-> 1, len |-> 5]>>
=============================================================================
