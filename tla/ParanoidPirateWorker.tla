------------------------ MODULE ParanoidPirateWorker ------------------------
(***************************************************************************)
(* The worker of the Paranoid Pirate: ParanoidPirateWorker.cpp.            *)
(*                                                                         *)
(* An iteration of the loop of main is one action, or two when it handles  *)
(* a request: WorkerTakes until the thread sleeps over it, WorkerReplies   *)
(* from there on.                                                          *)
(***************************************************************************)
EXTENDS ParanoidPirateQueue

CONSTANTS
  Patience,         \* gQueueHeartbeatExpiry, in ticks, rounded up
  NapTicks,         \* interval, the sleep before a new connection
  WorkTicks,        \* the sleep over a request
  OverloadTicks,    \* the sleep of an overloaded worker, on top of it
  Warmup,           \* 3: the requests a worker handles without trouble
  Troubles,         \* what the random numbers may bring afterwards
  NoAddress         \* what a worker without a request has in hand

ASSUME WorkerAssumption ==
  /\ {Patience, NapTicks, WorkTicks} \subseteq Nat \ {0}
  /\ {OverloadTicks, Warmup} \subseteq Nat
  /\ Troubles \subseteq {"crash", "overload"}
  /\ NoAddress \notin Address

VARIABLES
  wPhase,           \* "off", "polling", "busy", "asleep", "leaving", "ended"
  cycles,           \* requests handled, counted up to Warmup + 1
  isRunning,
  hand,             \* the request a busy worker works on
  sleep,            \* ticks left of this_thread::sleep_for
  patience,         \* ticks until queueHeartbeatDeadline, which may be over
  elapsed           \* workerHeartbeatDeadline is over

workerVars == <<wPhase, cycles, isRunning, hand, sleep, patience, elapsed>>

(* The longest a worker is away from its poll.                              *)
Longest == WorkTicks + OverloadTicks + NapTicks

WorkerTypeOK ==
  /\ wPhase \in [Worker -> {"off", "polling", "busy", "asleep", "leaving",
                            "ended"}]
  /\ cycles \in [Worker -> 0 .. Warmup + 1]
  /\ isRunning \in [Worker -> BOOLEAN]
  /\ hand \in [Worker -> Address \cup {NoAddress}]
  /\ sleep \in [Worker -> 0 .. Longest]
  /\ patience \in [Worker -> (0 - Longest) .. Patience + 2 * NapTicks]
  /\ elapsed \in [Worker -> BOOLEAN]

WorkerInit ==
  /\ wPhase = [w \in Worker |-> "off"]
  /\ cycles = [w \in Worker |-> 0]
  /\ isRunning = [w \in Worker |-> TRUE]
  /\ hand = [w \in Worker |-> NoAddress]
  /\ sleep = [w \in Worker |-> 0]
  /\ patience = [w \in Worker |-> Patience]
  /\ elapsed = [w \in Worker |-> FALSE]

-----------------------------------------------------------------------------
(* A socket of w is closed: linger is 0, so the queue reads only the first  *)
(* messages of what is on its way.  What it was told of is among them.      *)
LeftBy(w) ==
  IF up
    THEN {SubSeq(backUp[w], 1, n) :
            n \in {k \in 0 .. Len(backUp[w]) :
                    "back" \in todo /\ k = 0
                      => \E v \in Worker \ {w} : backUp[v] # <<>>}}
    ELSE {<<>>}

(* main up to its loop, createSocket included.                              *)
WorkerStart(w) ==
  /\ wPhase[w] = "off"
  /\ wPhase' = [wPhase EXCEPT ![w] = "polling"]
  /\ connected' = connected \cup {w}
  /\ backUp' = [backUp EXCEPT ![w] = <<Ready>>]
  /\ UNCHANGED <<backDown, cycles, isRunning, hand, sleep, patience, elapsed>>

(* sendHeartbeat and the end of an iteration, after msgs were sent.         *)
Finish(w, before, msgs) ==
  LET out == msgs \o (IF elapsed[w] THEN <<Heartbeat>> ELSE <<>>)
  IN  /\ backUp' = [backUp EXCEPT ![w] = before \o out]
      /\ elapsed' = [elapsed EXCEPT ![w] = FALSE]
      /\ wPhase' = [wPhase EXCEPT
                      ![w] = IF isRunning[w] THEN "polling" ELSE "leaving"]

(* What follows the poll when queueHeartbeatDeadline is `left' ticks away:  *)
(* the queue is taken for lost when it is over.                             *)
AfterPoll(w, msgs, left) ==
  IF left > 0
    THEN /\ Finish(w, backUp[w], msgs)
         /\ patience' = [patience EXCEPT ![w] = left]
         /\ UNCHANGED sleep
    ELSE /\ backUp' = [backUp EXCEPT ![w] = @ \o msgs]
         /\ patience' = [patience EXCEPT ![w] = left + 2 * NapTicks]
         /\ sleep' = [sleep EXCEPT ![w] = NapTicks]
         /\ wPhase' = [wPhase EXCEPT ![w] = "asleep"]
         /\ UNCHANGED elapsed

(* The poll finds nothing, and a deadline is over.                          *)
WorkerTimesOut(w) ==
  /\ wPhase[w] = "polling"
  /\ backDown[w] = <<>>
  /\ elapsed[w] \/ patience[w] <= 0
  /\ AfterPoll(w, <<>>, patience[w])
  /\ UNCHANGED <<connected, backDown, cycles, isRunning, hand>>

(* handleFront, a heartbeat.                                                *)
WorkerHears(w) ==
  /\ wPhase[w] = "polling"
  /\ backDown[w] # <<>> /\ Head(backDown[w]) = Heartbeat
  /\ backDown' = [backDown EXCEPT ![w] = Tail(@)]
  /\ AfterPoll(w, <<>>, Patience)
  /\ UNCHANGED <<connected, cycles, isRunning, hand>>

(* handleFront, a request: how long it takes and whether it is the last.    *)
WorkerTakes(w) ==
  /\ wPhase[w] = "polling"
  /\ backDown[w] # <<>> /\ Head(backDown[w]).type = "work"
  /\ hand' = [hand EXCEPT ![w] = Head(backDown[w]).addr]
  /\ backDown' = [backDown EXCEPT ![w] = Tail(@)]
  /\ cycles' = [cycles EXCEPT ![w] = IF @ > Warmup THEN @ ELSE @ + 1]
  /\ \E luck \in {"normal"} \cup (IF cycles'[w] > Warmup THEN Troubles ELSE {}) :
       /\ isRunning' = [isRunning EXCEPT ![w] = luck # "crash"]
       /\ sleep' = [sleep EXCEPT
            ![w] = WorkTicks + IF luck = "overload" THEN OverloadTicks ELSE 0]
  /\ wPhase' = [wPhase EXCEPT ![w] = "busy"]
  /\ UNCHANGED <<connected, backUp, patience, elapsed>>

(* The rest of that iteration.                                              *)
WorkerReplies(w) ==
  /\ wPhase[w] = "busy" /\ sleep[w] = 0
  /\ hand' = [hand EXCEPT ![w] = NoAddress]
  /\ AfterPoll(w, <<Work(hand[w])>>, patience[w])
  /\ UNCHANGED <<connected, backDown, cycles, isRunning>>

(* Mutant: the new socket is not announced.                                 *)
WorkerReconnectsSilently(w, left) ==
  /\ wPhase[w] = "asleep" /\ sleep[w] = 0
  /\ backDown' = [backDown EXCEPT ![w] = <<>>]
  /\ Finish(w, left, <<>>)
  /\ UNCHANGED <<connected, cycles, isRunning, hand, sleep, patience>>

(* After the sleep: the socket is closed with all it holds, and a new one   *)
(* of the same identity says "ready".                                       *)
WorkerReconnects(w, left) ==
  /\ wPhase[w] = "asleep" /\ sleep[w] = 0
  /\ backDown' = [backDown EXCEPT ![w] = <<>>]
  /\ Finish(w, left, <<Ready>>)
  /\ UNCHANGED <<connected, cycles, isRunning, hand, sleep, patience>>

(* main returns.                                                            *)
WorkerEnds(w, left) ==
  /\ wPhase[w] = "leaving"
  /\ wPhase' = [wPhase EXCEPT ![w] = "ended"]
  /\ connected' = connected \ {w}
  /\ backUp' = [backUp EXCEPT ![w] = left]
  /\ backDown' = [backDown EXCEPT ![w] = <<>>]
  /\ UNCHANGED <<cycles, isRunning, hand, sleep, patience, elapsed>>

WorkerStep(w) ==
  \/ WorkerTimesOut(w)
  \/ WorkerHears(w)
  \/ WorkerTakes(w)
  \/ WorkerReplies(w)
  \/ \E left \in LeftBy(w) : WorkerReconnects(w, left) \/ WorkerEnds(w, left)

(* A tick of the clock.  Deadlines pass while a worker sleeps, too.         *)
WorkerTick ==
  LET runs(w) == wPhase[w] \in {"polling", "busy", "asleep"}
  IN  /\ sleep' = [w \in Worker |-> IF sleep[w] = 0 THEN 0 ELSE sleep[w] - 1]
      /\ patience' = [w \in Worker |->
                        IF runs(w) THEN patience[w] - 1 ELSE patience[w]]
      /\ elapsed' = [w \in Worker |-> elapsed[w] \/ runs(w)]
      /\ UNCHANGED <<wPhase, cycles, isRunning, hand>>
=============================================================================
