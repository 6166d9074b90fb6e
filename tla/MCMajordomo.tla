----------------------------- MODULE MCMajordomo -----------------------------
(***************************************************************************)
(* Instances of Majordomo for TLC.                                         *)
(***************************************************************************)
EXTENDS Majordomo

CONSTANT echo

AllEcho == [p \in WorkerProc |-> echo]
AllWantEcho == [c \in Client |-> echo]
=============================================================================
