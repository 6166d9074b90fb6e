------------------------------ MODULE Majordomo ------------------------------
(***************************************************************************)
(* The synchronous Majordomo as a whole: broker, workers, clients, a clock *)
(* and crashes.  A tick is a heartbeat period and waits until everyone has *)
(* done what can be done at once, as processes are fast with respect to it.*)
(***************************************************************************)
EXTENDS MajordomoWorker, MajordomoClient, FiniteSets

CONSTANTS
  Faultable,        \* who may crash: "broker", "worker"
  MaxFaults         \* bound: how many crashes

ASSUME FaultAssumption ==
  Faultable \subseteq {"broker", "worker"} /\ MaxFaults \in Nat

VARIABLE faults     \* how many crashes there were

vars == <<brokerVars, frontVars, backVars, workerVars, clientVars, faults>>

TypeOK ==
  BrokerTypeOK /\ WorkerTypeOK /\ ClientTypeOK /\ faults \in 0 .. MaxFaults

Init == BrokerInit /\ WorkerInit /\ ClientInit /\ faults = 0

BrokerStep == BrokerNext /\ UNCHANGED <<workerVars, clientVars, faults>>
StartBroker == BrokerStart /\ UNCHANGED <<workerVars, clientVars, faults>>
WorkerStep(p) ==
  WorkerNext(p) /\ UNCHANGED <<brokerVars, frontVars, clientVars, faults>>
StartWorker(p) ==
  WorkerStart(p) /\ UNCHANGED <<brokerVars, frontVars, clientVars, faults>>
ClientStep(c) ==
  ClientNext(c) /\ UNCHANGED <<brokerVars, backVars, workerVars, faults>>
StartClient(c) ==
  ClientStart(c) /\ UNCHANGED <<brokerVars, backVars, workerVars, faults>>

Fails(kind) == kind \in Faultable /\ faults < MaxFaults /\ faults' = faults + 1
BrokerFails == Fails("broker") /\ BrokerCrash /\ UNCHANGED <<workerVars, clientVars>>
WorkerFails(p) ==
  Fails("worker") /\ WorkerCrash(p)
  /\ UNCHANGED <<brokerVars, frontVars, clientVars>>

(* What nothing more can be done about before time passes.                  *)
BrokerAtRest == up => todo = {} /\ Readable = {} /\ Expired = {} /\ ~beatDue
WorkerAtRest(p) ==
  \/ wId[p] = NoId
  \/ Polls(p) /\ ~elapsed[p] /\ backDown[wId[p]] = <<>>
  \/ nap[p] > 0
  \/ nap[p] = 0 /\ FreshId = {}
ClientAtRest(c) ==
  \/ cPhase[c] \in {"off", "done"}
  \/ /\ cPhase[c] = "waiting" /\ timer[c] > 0
     /\ \A a \in answers : a.addr # At(c)

Tick ==
  /\ BrokerAtRest
  /\ \A p \in WorkerProc : WorkerAtRest(p)
  /\ \A c \in Client : ClientAtRest(c)
  /\ BrokerTick /\ WorkerTick /\ ClientTick
  /\ UNCHANGED <<frontVars, backVars, faults>>

Next ==
  \/ BrokerStep \/ StartBroker \/ BrokerFails \/ Tick
  \/ \E p \in WorkerProc : WorkerStep(p) \/ StartWorker(p) \/ WorkerFails(p)
  \/ \E c \in Client : ClientStep(c) \/ StartClient(c)

(* Every process runs, what died is started again, and time passes.         *)
Spec ==
  /\ Init /\ [][Next]_vars
  /\ WF_vars(BrokerStep) /\ WF_vars(StartBroker) /\ WF_vars(Tick)
  /\ \A p \in WorkerProc : WF_vars(WorkerStep(p)) /\ WF_vars(StartWorker(p))
  /\ \A c \in Client : WF_vars(ClientStep(c))

-----------------------------------------------------------------------------
(* The places where the broker counts on the worker w.                      *)
Tokens(w) ==
  (UNION {{s} \X {i \in DOMAIN idle[s] : idle[s][i] = w} : s \in Service})
  \cup {<<"up", i>> : i \in {j \in DOMAIN backUp[w] :
                               backUp[w][j].type \in {"Ready", "Reply"}}}
  \cup {<<"down", i>> : i \in {j \in DOMAIN backDown[w] :
                                 backDown[w][j].type = "Request"}}

(* A worker is in the pools at most once and holds at most one request,     *)
(* across purges, late replies and new identities: handleReply returns a    *)
(* worker to the pool without a look whether it is there.                   *)
OneRequestPerWorker == \A w \in WorkerId : Cardinality(Tokens(w)) <= 1

(* A pool holds only workers that are registered for its service: whatever  *)
(* handleReply puts there, the purge finds it.                              *)
IdleAreRegistered ==
  \A s \in Service : \A i \in DOMAIN idle[s] : registered[idle[s][i]] = s

Inv == TypeOK /\ IdleAreRegistered

(* A reply that ends the wait of send() answers the request it waits for:   *)
(* each attempt has an identity of its own, and no late reply crosses over. *)
AnswerFits ==
  [][\A c \in Client :
       cPhase[c] = "waiting" /\ cPhase'[c] = "ready" /\ conn'[c] = conn[c]
         => mReply'[c] = n[c]]_vars

(* After an arrival nothing of that service waits that a worker could do:   *)
(* the loop of handleClientRequest takes up what handleReply and            *)
(* handleReady have left in pendingRequests, however many it hands out.     *)
Arrives(a) == a \notin asked' /\ "front" \in todo /\ "front" \notin todo' /\ up'

ArrivalsHandOut ==
  [][\A a \in asked :
       Arrives(a) => LET s == WantOf[a.addr[1]]
                     IN  idle'[s] = <<>> \/ pending'[s] = <<>>]_vars

(* Whatever crashed, a worker process is registered again and again: after  *)
(* the silence of a broker that does not know it, it makes itself known     *)
(* with a new identity.                                                     *)
WorkersRejoin ==
  \A p \in WorkerProc : []<>(wId[p] \in Registered /\ Polls(p))
=============================================================================
