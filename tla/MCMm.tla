-------------------------------- MODULE MCMm --------------------------------
(***************************************************************************)
(* Instances of Mm for TLC.                                                *)
(***************************************************************************)
EXTENDS Mm

NoActs    == {PlainAct}
SomeActs  == {PlainAct, [mask |-> {SIGINT}, flags |-> {"SA_NODEFER", "SA_RESETHAND"}]}
NoMask    == {{}}
SomeMasks == {{}, {SIGHUP, SIGINT}}
=============================================================================
