--------------------------- MODULE ParanoidPirate ---------------------------
(***************************************************************************)
(* The Paranoid Pirate: its queue, its workers, Lazy Pirate clients, and   *)
(* the clock they share, in ticks of a second.                             *)
(***************************************************************************)
EXTENDS ParanoidPirateWorker, LazyPirateClient

CONSTANT MaxFaults            \* how often the queue crashes

VARIABLE faults

vars == <<queueVars, frontVars, backVars, workerVars, clientVars, faults>>

Init == QueueInit /\ WorkerInit /\ ClientInit /\ faults = 0

QueueFails ==
  /\ faults < MaxFaults
  /\ faults' = faults + 1
  /\ QueueCrash
  /\ UNCHANGED <<workerVars, clientVars>>

QueueStarts == QueueStart /\ UNCHANGED <<workerVars, clientVars, faults>>
QueueActs == QueueStep /\ UNCHANGED <<workerVars, clientVars, faults>>
WorkerStarts(w) ==
  WorkerStart(w) /\ UNCHANGED <<queueVars, frontVars, clientVars, faults>>
WorkerActs(w) ==
  WorkerStep(w) /\ UNCHANGED <<queueVars, frontVars, clientVars, faults>>
ClientStarts(c) ==
  ClientStart(c) /\ UNCHANGED <<queueVars, backVars, workerVars, faults>>
ClientActs(c) ==
  ClientWaits(c) /\ UNCHANGED <<queueVars, backVars, workerVars, faults>>

(* Steps take milliseconds: a second passes while everyone waits for it.    *)
QueueRests == ~up \/ (todo = {} /\ ~SomethingToDo)
WorkerRests(w) ==
  \/ wPhase[w] \in {"off", "ended"}
  \/ wPhase[w] \in {"busy", "asleep"} /\ sleep[w] > 0
  \/ wPhase[w] = "polling" /\ backDown[w] = <<>> /\ patience[w] > 0
     /\ ~elapsed[w]
ClientRests(c) ==
  cPhase[c] = "waiting" => At(c) \notin answers /\ timer[c] > 0

Tick ==
  /\ QueueRests
  /\ \A w \in Worker : WorkerRests(w)
  /\ \A c \in Client : ClientRests(c)
  /\ QueueTick /\ WorkerTick /\ ClientTick
  /\ UNCHANGED <<frontVars, backVars, faults>>

Next ==
  \/ QueueActs \/ QueueStarts \/ QueueFails
  \/ \E w \in Worker : WorkerStarts(w) \/ WorkerActs(w)
  \/ \E c \in Client : ClientStarts(c) \/ ClientActs(c)
  \/ Tick

Spec == Init /\ [][Next]_vars

(* Who runs makes its steps, time passes, and someone starts the queue      *)
(* again.  No one need start a worker or a client.                          *)
Fairness ==
  /\ WF_vars(QueueActs) /\ WF_vars(QueueStarts) /\ WF_vars(Tick)
  /\ \A w \in Worker : WF_vars(WorkerActs(w))
  /\ \A c \in Client : WF_vars(ClientActs(c))

FairSpec == Spec /\ Fairness

-----------------------------------------------------------------------------
TypeOK ==
  /\ QueueTypeOK /\ WorkerTypeOK /\ ClientTypeOK
  /\ faults \in 0 .. MaxFaults

(* The list of idle workers holds each of them once, whatever a worker that *)
(* was taken for dead, or reconnected, says later: else it would be given   *)
(* more requests than it has announced itself for.                          *)
ListedOnce ==
  \A i, j \in 1 .. Len(mWorkers) :
    mWorkers[i].identity = mWorkers[j].identity => i = j

(* An attempt is in one place: waiting for the queue, on its way to one     *)
(* worker, in its hands, on its way back or answered.  No crash and no      *)
(* second attempt multiplies it.                                            *)
Copies(q, a) == Cardinality({i \in 1 .. Len(q) : q[i] = Work(a)})
Places(a) ==
  {<<"front", x>> : x \in asked \cap {a}}
  \cup {<<"client", x>> : x \in answers \cap {a}}
  \cup {<<w, "hand">> : w \in {v \in Worker : hand[v] = a}}
  \cup {<<w, "down">> : w \in {v \in Worker : Copies(backDown[v], a) > 0}}
  \cup {<<w, "up">> : w \in {v \in Worker : Copies(backUp[v], a) > 0}}
OneCopy ==
  \A a \in Address :
    /\ Cardinality(Places(a)) <= 1
    /\ \A w \in Worker :
         Copies(backDown[w], a) <= 1 /\ Copies(backUp[w], a) <= 1

(* A worker that runs is always given work again in the end: after a crash  *)
(* of the queue, after it was taken for dead while overloaded, and after a  *)
(* request for it got lost, it finds its way back into the list.            *)
WorkersReturn ==
  \A w \in Worker :
    []<>(wPhase[w] \in {"off", "ended"} \/ w \in Listed(mWorkers))

(* A worker that has ended leaves the list for good, also when nobody asks  *)
(* for anything: what it said last cannot bring it back for ever.           *)
GhostsForgotten ==
  \A w \in Worker :
    wPhase[w] = "ended" ~> [](w \notin Listed(mWorkers))
=============================================================================
