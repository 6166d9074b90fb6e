------------------------- MODULE AsyncMajordomoWorker -------------------------
(***************************************************************************)
(* The workers of the asynchronous Majordomo: MajordomoWorker.{h,cpp} and  *)
(* the process Worker.cpp makes of it.                                     *)
(*                                                                         *)
(* One iteration of MajordomoWorker::receive is one action: a message is   *)
(* handled or the poll times out, then updateHeartbeat runs.  The poll     *)
(* period and the heartbeat period are the same mSelfHeartbeatPeriod, and  *)
(* a poll that times out does so after the deadline, so one flag tells     *)
(* both: `elapsed' is set when a period has passed since the last          *)
(* iteration.                                                              *)
(***************************************************************************)
EXTENDS AsyncMajordomoNet

CONSTANTS
  WorkerProc,       \* the worker processes
  ServiceOf,        \* ServiceOf[p]: argv[1] of the worker process p
  MaxMissing,       \* gMaxMissingHeartbeats
  NapTicks,         \* the 3 s sleep of checkRemoteHeartbeat, in ticks
  NoId              \* the identity of a process that has no socket

ASSUME WorkerAssumption ==
  /\ IsFiniteSet(WorkerProc)
  /\ ServiceOf \in [WorkerProc -> Service]
  /\ MaxMissing \in Nat
  /\ NapTicks \in Nat \ {0}
  /\ NoId \notin WorkerId \cup ClientId

VARIABLES
  wPhase,           \* "off", "polling" or "asleep" (in checkRemoteHeartbeat)
  wId,              \* the identity of mSocket
  missing,          \* mMissingHeartbeat
  elapsed,          \* a period has passed since the last iteration
  nap               \* ticks left of the sleep

workerVars == <<wPhase, wId, missing, elapsed, nap>>

WorkerTypeOK ==
  /\ wPhase \in [WorkerProc -> {"off", "polling", "asleep"}]
  /\ wId \in [WorkerProc -> WorkerId \cup {NoId}]
  /\ missing \in [WorkerProc -> 0 .. MaxMissing]
  /\ elapsed \in [WorkerProc -> BOOLEAN]
  /\ nap \in [WorkerProc -> 0 .. NapTicks]

WorkerInit ==
  /\ wPhase = [p \in WorkerProc |-> "off"]
  /\ wId = [p \in WorkerProc |-> NoId]
  /\ missing = [p \in WorkerProc |-> 0]
  /\ elapsed = [p \in WorkerProc |-> FALSE]
  /\ nap = [p \in WorkerProc |-> 0]

-----------------------------------------------------------------------------
(* connect(): the old socket, if any, is closed; a socket with the new      *)
(* identity id says Ready.  The broker still reads the `sent' oldest        *)
(* messages of the old one.                                                 *)
Connect(p, id, sent) ==
  LET old == wId[p]
  IN  /\ old # NoId => sent <= Len(backUp[old])
      /\ peers' = (peers \ {old}) \cup {id}
      /\ backUp' = [w \in WorkerId |->
                      IF w = id THEN <<Ready(ServiceOf[p])>>
                      ELSE IF w = old THEN Oldest(backUp[w], sent)
                      ELSE backUp[w]]
      /\ backDown' = [w \in WorkerId |->
                        IF w \in {id, old} THEN <<>> ELSE backDown[w]]
      /\ wId' = [wId EXCEPT ![p] = id]
      /\ missing' = [missing EXCEPT ![p] = 0]
      /\ elapsed' = [elapsed EXCEPT ![p] = FALSE]

(* The end of an iteration that sends msgs: updateHeartbeat adds its        *)
(* heartbeat to them if the deadline has passed.                            *)
FinishIteration(p, msgs) ==
  LET out == msgs \o (IF elapsed[p] THEN <<Heartbeat>> ELSE <<>>)
  IN  /\ Room(backUp[wId[p]], Len(out), BackHwm)
      /\ backUp' = [backUp EXCEPT ![wId[p]] = @ \o out]
      /\ elapsed' = [elapsed EXCEPT ![p] = FALSE]

(* The constructor, in a new process.                                       *)
WorkerStart(p, id) ==
  /\ wPhase[p] = "off"
  /\ Connect(p, id, 0)
  /\ wPhase' = [wPhase EXCEPT ![p] = "polling"]
  /\ UNCHANGED <<nap, frontUp, frontDown>>

(* Mutant: a message from the broker does not reset mMissingHeartbeat.      *)
WorkerReceiveNoReset(p) ==
  /\ wPhase[p] = "polling"
  /\ backDown[wId[p]] # <<>>
  /\ LET m == Head(backDown[wId[p]])
     IN  \/ m.type = "Request"
            /\ FinishIteration(p, <<WorkerReply(m.client, m.body)>>)
         \/ m.type = "Heartbeat"
            /\ FinishIteration(p, <<>>)
  /\ backDown' = [backDown EXCEPT ![wId[p]] = Tail(@)]
  /\ UNCHANGED <<wPhase, wId, missing, nap, peers, frontUp, frontDown>>

(* handleIncomingMessage of a Request (echoed) or of a Heartbeat.           *)
WorkerReceive(p) ==
  /\ wPhase[p] = "polling"
  /\ backDown[wId[p]] # <<>>
  /\ LET m == Head(backDown[wId[p]])
     IN  \/ m.type = "Request"
            /\ FinishIteration(p, <<WorkerReply(m.client, m.body)>>)
         \/ m.type = "Heartbeat"
            /\ FinishIteration(p, <<>>)
  /\ backDown' = [backDown EXCEPT ![wId[p]] = Tail(@)]
  /\ missing' = [missing EXCEPT ![p] = 0]
  /\ UNCHANGED <<wPhase, wId, nap, peers, frontUp, frontDown>>

(* Mutant: a Disconnect is one more sign of life.                           *)
WorkerIgnoresDisconnect(p, id, sent) ==
  /\ wPhase[p] = "polling"
  /\ backDown[wId[p]] # <<>>
  /\ Head(backDown[wId[p]]).type = "Disconnect"
  /\ FinishIteration(p, <<>>)
  /\ backDown' = [backDown EXCEPT ![wId[p]] = Tail(@)]
  /\ missing' = [missing EXCEPT ![p] = 0]
  /\ UNCHANGED <<wPhase, wId, nap, peers, frontUp, frontDown>>

(* handleIncomingMessage of a Disconnect: connect() again.  The deadline it *)
(* sets has not passed when updateHeartbeat looks.                          *)
WorkerReconnect(p, id, sent) ==
  /\ wPhase[p] = "polling"
  /\ backDown[wId[p]] # <<>>
  /\ Head(backDown[wId[p]]).type = "Disconnect"
  /\ Connect(p, id, sent)
  /\ UNCHANGED <<wPhase, nap, frontUp, frontDown>>

PollTimedOut(p) ==
  /\ wPhase[p] = "polling"
  /\ elapsed[p]
  /\ backDown[wId[p]] = <<>>

(* Mutant: mMissingHeartbeat > gMaxMissingHeartbeats.                       *)
WorkerMissedOneMore(p) ==
  /\ PollTimedOut(p)
  /\ missing[p] <= MaxMissing
  /\ missing' = [missing EXCEPT ![p] = @ + 1]
  /\ FinishIteration(p, <<>>)
  /\ UNCHANGED <<wPhase, wId, nap, peers, backDown, frontUp, frontDown>>

(* The poll timed out: checkRemoteHeartbeat counts one more ...             *)
WorkerMissed(p) ==
  /\ PollTimedOut(p)
  /\ missing[p] < MaxMissing
  /\ missing' = [missing EXCEPT ![p] = @ + 1]
  /\ FinishIteration(p, <<>>)
  /\ UNCHANGED <<wPhase, wId, nap, peers, backDown, frontUp, frontDown>>

(* ... or goes to sleep, and makes a new connection when it wakes up.       *)
WorkerSleep(p) ==
  /\ PollTimedOut(p)
  /\ missing[p] >= MaxMissing
  /\ wPhase' = [wPhase EXCEPT ![p] = "asleep"]
  /\ nap' = [nap EXCEPT ![p] = NapTicks]
  /\ UNCHANGED <<wId, missing, elapsed, netVars>>

WorkerWake(p, id, sent) ==
  /\ wPhase[p] = "asleep"
  /\ nap[p] = 0
  /\ Connect(p, id, sent)
  /\ wPhase' = [wPhase EXCEPT ![p] = "polling"]
  /\ UNCHANGED <<nap, frontUp, frontDown>>

(* The process ends: its socket is closed, and the broker still reads what  *)
(* is in left.                                                              *)
WorkerEnds(p, left) ==
  /\ wPhase[p] # "off"
  /\ peers' = peers \ {wId[p]}
  /\ backUp' = [backUp EXCEPT ![wId[p]] = left]
  /\ backDown' = [backDown EXCEPT ![wId[p]] = <<>>]
  /\ wPhase' = [wPhase EXCEPT ![p] = "off"]
  /\ wId' = [wId EXCEPT ![p] = NoId]
  /\ missing' = [missing EXCEPT ![p] = 0]
  /\ elapsed' = [elapsed EXCEPT ![p] = FALSE]
  /\ nap' = [nap EXCEPT ![p] = 0]
  /\ UNCHANGED <<frontUp, frontDown>>

(* The process is killed.                                                   *)
WorkerCrash(p, sent) ==
  /\ wPhase[p] # "off" => sent <= Len(backUp[wId[p]])
  /\ WorkerEnds(p, Oldest(backUp[wId[p]], sent))

(* A worker of another implementation of the protocol says Disconnect       *)
(* before it leaves; MajordomoWorker itself never does.                     *)
WorkerLeave(p) ==
  /\ wPhase[p] = "polling"
  /\ Room(backUp[wId[p]], 1, BackHwm)
  /\ WorkerEnds(p, Append(backUp[wId[p]], Disconnect))

(* A tick of the clock, for the workers.                                    *)
WorkerTick ==
  /\ elapsed' = [p \in WorkerProc |-> elapsed[p] \/ wPhase[p] = "polling"]
  /\ nap' = [p \in WorkerProc |-> IF nap[p] = 0 THEN 0 ELSE nap[p] - 1]
  /\ UNCHANGED <<wPhase, wId, missing>>
=============================================================================
