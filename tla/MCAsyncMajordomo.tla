--------------------------- MODULE MCAsyncMajordomo ---------------------------
(***************************************************************************)
(* Instances of AsyncMajordomo for TLC.                                    *)
(***************************************************************************)
EXTENDS AsyncMajordomo, TLC

CONSTANTS echo, other, p1, p2, q1, q2

(* Every worker provides "echo" and every client wants it.                  *)
AllEcho == [p \in WorkerProc |-> echo]
AllWantEcho == [q \in ClientProc |-> echo]

(* The second client wants a service that only the second worker, if there  *)
(* is one, provides.                                                        *)
SecondProvidesOther == [p \in WorkerProc |-> IF p = p1 THEN echo ELSE other]
SecondWantsOther == [q \in ClientProc |-> IF q = q1 THEN echo ELSE other]

Identities == Permutations(WorkerId) \cup Permutations(ClientId)
=============================================================================
