--------------------------- MODULE MajordomoWorker ---------------------------
(***************************************************************************)
(* The workers of the synchronous Majordomo: MajordomoWorker.{h,cpp} and   *)
(* Worker.cpp.  An iteration of receive() is one action, in two parts when *)
(* it sleeps.  The poll and the heartbeat have the same period, so one     *)
(* flag, `elapsed', tells that either is over.                             *)
(***************************************************************************)
EXTENDS MajordomoBroker

CONSTANTS
  WorkerProc,       \* the worker processes
  ServiceOf,        \* ServiceOf[p]: argv[1] of p
  MaxMissing,       \* gMaxMissingHeartbeats
  NapTicks,         \* the sleep of checkRemoteHeartbeat, in ticks
  NoId              \* the identity of a process that does not run

ASSUME WorkerAssumption ==
  /\ ServiceOf \in [WorkerProc -> Service]
  /\ MaxMissing \in Nat /\ NapTicks \in Nat \ {0}
  /\ NoId \notin WorkerId

VARIABLES
  wId,              \* the identity of mSocket
  missing,          \* mMissingHeartbeat
  elapsed,          \* a period has passed since the last iteration
  nap               \* ticks left of the sleep, -1 when p does not sleep

workerVars == <<wId, missing, elapsed, nap>>

WorkerTypeOK ==
  /\ wId \in [WorkerProc -> WorkerId \cup {NoId}]
  /\ missing \in [WorkerProc -> 0 .. MaxMissing]
  /\ elapsed \in [WorkerProc -> BOOLEAN]
  /\ nap \in [WorkerProc -> -1 .. NapTicks]

WorkerInit ==
  /\ wId = [p \in WorkerProc |-> NoId]
  /\ missing = [p \in WorkerProc |-> 0]
  /\ elapsed = [p \in WorkerProc |-> FALSE]
  /\ nap = [p \in WorkerProc |-> -1]

Polls(p) == wId[p] # NoId /\ nap[p] = -1

(* RandomString::generate: an identity that nothing mentions any more.      *)
FreshId ==
  {w \in WorkerId \ (peers \cup Registered) :
     backUp[w] = <<>> /\ backDown[w] = <<>>}

-----------------------------------------------------------------------------
(* Mutant: the new socket is not announced.                                 *)
ConnectSilently(p, id, left) ==
  /\ peers' = (peers \ {wId[p]}) \cup {id}
  /\ backUp' = [w \in WorkerId |-> IF w = id THEN <<>>
                  ELSE IF w = wId[p] THEN left ELSE backUp[w]]
  /\ backDown' = [w \in WorkerId |->
                    IF w \in {id, wId[p]} THEN <<>> ELSE backDown[w]]
  /\ wId' = [wId EXCEPT ![p] = id]
  /\ missing' = [missing EXCEPT ![p] = 0]
  /\ elapsed' = [elapsed EXCEPT ![p] = FALSE]
  /\ nap' = [nap EXCEPT ![p] = -1]

(* connect(): linger is 0, and the broker reads only `left' of what the old *)
(* socket said.                                                             *)
Connect(p, id, left) ==
  /\ peers' = (peers \ {wId[p]}) \cup {id}
  /\ backUp' = [w \in WorkerId |->
                  IF w = id THEN <<Ready(ServiceOf[p])>>
                  ELSE IF w = wId[p] THEN left ELSE backUp[w]]
  /\ backDown' = [w \in WorkerId |->
                    IF w \in {id, wId[p]} THEN <<>> ELSE backDown[w]]
  /\ wId' = [wId EXCEPT ![p] = id]
  /\ missing' = [missing EXCEPT ![p] = 0]
  /\ elapsed' = [elapsed EXCEPT ![p] = FALSE]
  /\ nap' = [nap EXCEPT ![p] = -1]

(* What the broker still reads of a socket that is closed: at least what    *)
(* its poll has announced.                                                  *)
LeftBy(p) ==
  IF ~up THEN {<<>>}
  ELSE {SubSeq(backUp[wId[p]], 1, n) :
          n \in {k \in 0 .. Len(backUp[wId[p]]) :
                  "back" \in todo /\ k = 0
                    => \E w \in WorkerId \ {wId[p]} : backUp[w] # <<>>}}

WorkerStart(p) ==
  /\ wId[p] = NoId
  /\ \E id \in FreshId : Connect(p, id, <<>>)

(* updateHeartbeat, at the end of an iteration that sent msgs.              *)
Finish(p, msgs) ==
  /\ backUp' = [backUp EXCEPT
       ![wId[p]] = @ \o msgs \o (IF elapsed[p] THEN <<Heartbeat>> ELSE <<>>)]
  /\ elapsed' = [elapsed EXCEPT ![p] = FALSE]

(* handleIncomingMessage: a Request is echoed, a Heartbeat heard.           *)
WorkerReceive(p) ==
  /\ Polls(p)
  /\ backDown[wId[p]] # <<>>
  /\ LET m == Head(backDown[wId[p]])
     IN  Finish(p, IF m.type = "Request" THEN <<Reply(m.ask)>> ELSE <<>>)
  /\ backDown' = [backDown EXCEPT ![wId[p]] = Tail(@)]
  /\ missing' = [missing EXCEPT ![p] = 0]
  /\ UNCHANGED <<wId, nap, peers>>

PollTimedOut(p) == Polls(p) /\ elapsed[p] /\ backDown[wId[p]] = <<>>

(* checkRemoteHeartbeat: one more is missing ...                            *)
WorkerMissed(p) ==
  /\ PollTimedOut(p)
  /\ missing[p] < MaxMissing
  /\ missing' = [missing EXCEPT ![p] = @ + 1]
  /\ Finish(p, <<>>)
  /\ UNCHANGED <<wId, nap, peers, backDown>>

(* ... or too many are: a sleep, and a new socket.                          *)
WorkerSleep(p) ==
  /\ PollTimedOut(p)
  /\ missing[p] >= MaxMissing
  /\ nap' = [nap EXCEPT ![p] = NapTicks]
  /\ UNCHANGED <<wId, missing, elapsed, backVars>>

WorkerWake(p) ==
  /\ nap[p] = 0
  /\ \E id \in FreshId, left \in LeftBy(p) : Connect(p, id, left)

WorkerNext(p) ==
  \/ WorkerReceive(p) \/ WorkerMissed(p) \/ WorkerSleep(p) \/ WorkerWake(p)

(* The process is killed.                                                   *)
WorkerCrash(p) ==
  /\ wId[p] # NoId
  /\ peers' = peers \ {wId[p]}
  /\ \E left \in LeftBy(p) : backUp' = [backUp EXCEPT ![wId[p]] = left]
  /\ backDown' = [backDown EXCEPT ![wId[p]] = <<>>]
  /\ wId' = [wId EXCEPT ![p] = NoId]
  /\ missing' = [missing EXCEPT ![p] = 0]
  /\ elapsed' = [elapsed EXCEPT ![p] = FALSE]
  /\ nap' = [nap EXCEPT ![p] = -1]

WorkerTick ==
  /\ elapsed' = [p \in WorkerProc |-> elapsed[p] \/ Polls(p)]
  /\ nap' = [p \in WorkerProc |-> IF nap[p] > 0 THEN nap[p] - 1 ELSE nap[p]]
  /\ UNCHANGED <<wId, missing>>
=============================================================================
