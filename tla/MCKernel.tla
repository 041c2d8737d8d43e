------------------------------ MODULE MCKernel ------------------------------
(***************************************************************************)
(* Instances of Kernel for TLC: who talks to whom, and which calls happen. *)
(***************************************************************************)
EXTENDS Kernel

\* The servers call the tasks; the driver -5 also calls the clock task and
\* sends to FS on its own, as TTY does to revive a process.
DRIVER == -5
IpcTalks == {<<MM, SYSTASK>>, <<SYSTASK, MM>>, <<MM, FS>>, <<FS, MM>>,
             <<FS, DRIVER>>, <<DRIVER, FS>>, <<DRIVER, CLOCK>>, <<CLOCK, DRIVER>>}
IpcDriver == {DRIVER}

SigTalks == {<<MM, SYSTASK>>, <<SYSTASK, MM>>, <<FS, SYSTASK>>, <<SYSTASK, FS>>}
ForkTalks == {<<MM, SYSTASK>>, <<SYSTASK, MM>>}
ClockDriver == {CLOCK}
=============================================================================
