---------------------------- MODULE AsyncMajordomo ----------------------------
(***************************************************************************)
(* The asynchronous Majordomo as a whole: one broker, its workers and its  *)
(* clients over the links of AsyncMajordomoNet, with a clock and with the  *)
(* failures the design is meant to survive.                                *)
(*                                                                         *)
(* Spec lets the clock tick at any moment, so that every timeout may come  *)
(* too early: it is for safety.  In PromptSpec and FairSpec a tick waits   *)
(* until everyone has done what can be done at once: processes are fast    *)
(* with respect to the 1 s heartbeat.                                      *)
(***************************************************************************)
EXTENDS AsyncMajordomoBroker, AsyncMajordomoWorker, AsyncMajordomoClient

CONSTANTS
  FaultKinds,       \* the failures that may happen
  MaxFaults         \* bound: how many of them happen

ASSUME FaultAssumption ==
  /\ FaultKinds \subseteq {"worker", "broker", "client", "backLink",
                           "frontLink", "leave"}
  /\ MaxFaults \in Nat

VARIABLE faults     \* how many failures there were

vars == <<netVars, brokerVars, workerVars, clientVars, faults>>

TypeOK ==
  /\ NetTypeOK
  /\ BrokerTypeOK
  /\ WorkerTypeOK
  /\ ClientTypeOK
  /\ faults \in 0 .. MaxFaults

Init == NetInit /\ BrokerInit /\ WorkerInit /\ ClientInit /\ faults = 0

-----------------------------------------------------------------------------
(* RandomString::generate does not give an identity that anything still     *)
(* mentions.                                                                *)

(* Mutant: names that are drawn from so few that one comes back whose owner *)
(* is gone but which the broker still knows.                                *)
AnyWorkerId == WorkerId \ peers

FreshWorkerId ==
  {w \in WorkerId :
     /\ w \notin peers \cup Registered
     /\ backUp[w] = <<>> /\ backDown[w] = <<>>
     /\ \A s \in Service : \A i \in 1 .. Len(idle[s]) : idle[s][i] # w}

(* Mutant: names that are drawn from so few that one whose owner is gone    *)
(* comes back while replies to it are on their way.                         *)
AnyClientId == ClientId \ peers

FreshClientId ==
  {c \in ClientId :
     /\ c \notin peers
     /\ frontUp[c] = <<>> /\ frontDown[c] = <<>>
     /\ \A s \in Service :
          \A i \in 1 .. Len(pending[s]) : pending[s][i].client # c
     /\ \A w \in WorkerId :
          /\ \A i \in 1 .. Len(backDown[w]) :
               backDown[w][i].type = "Request" => backDown[w][i].client # c
          /\ \A i \in 1 .. Len(backUp[w]) :
               backUp[w][i].type = "Reply" => backUp[w][i].client # c}

(* A message that the broker's poll has announced is in the broker's own    *)
(* socket: nothing that happens to a peer takes it back, and the handler    *)
(* that poll is going to call finds a message.                              *)
PolledStays ==
  /\ "back" \in todo' => \E w \in WorkerId : backUp'[w] # <<>>
  /\ "front" \in todo' => \E c \in ClientId : frontUp'[c] # <<>>

-----------------------------------------------------------------------------
BrokerStep == BrokerNext /\ UNCHANGED <<workerVars, clientVars, faults>>

WorkerStep(p) ==
  /\ \/ WorkerReceive(p)
     \/ \E id \in FreshWorkerId, n \in 0 .. BackHwm : WorkerReconnect(p, id, n)
     \/ WorkerMissed(p)
     \/ WorkerSleep(p)
     \/ \E id \in FreshWorkerId, n \in 0 .. BackHwm : WorkerWake(p, id, n)
  /\ UNCHANGED <<brokerVars, clientVars, faults>>
  /\ PolledStays

ClientStep(q) ==
  /\ \/ ClientPong(q)
     \/ \E id \in FreshClientId, n \in 0 .. FrontHwm :
          ClientPingTimeout(q, id, n)
     \/ ClientResume(q)
     \/ ClientSend(q)
     \/ ClientReceive(q)
     \/ \E id \in FreshClientId, n \in 0 .. FrontHwm :
          ClientRecvTimeout(q, id, n)
     \/ \E n \in 0 .. FrontHwm : ClientExit(q, n)
  /\ UNCHANGED <<brokerVars, workerVars, faults>>
  /\ PolledStays

(* Someone starts a process.                                                *)
StartBroker == BrokerStart /\ UNCHANGED <<workerVars, clientVars, faults>>
StartWorker(p) ==
  /\ \E id \in FreshWorkerId : WorkerStart(p, id)
  /\ UNCHANGED <<brokerVars, clientVars, faults>>
StartClient(q) ==
  /\ \E id \in FreshClientId : ClientStart(q, id)
  /\ UNCHANGED <<brokerVars, workerVars, faults>>

(* A failure.                                                               *)
Fails(kind) == kind \in FaultKinds /\ faults < MaxFaults /\ faults' = faults + 1

BrokerFails ==
  /\ Fails("broker")
  /\ \E bu \in Cuts(backUp, BackHwm), bd \in Cuts(backDown, BackHwm),
        fu \in Cuts(frontUp, FrontHwm), fd \in Cuts(frontDown, FrontHwm) :
          BrokerCrash(bu, bd, fu, fd)
  /\ UNCHANGED <<workerVars, clientVars>>
WorkerFails(p) ==
  /\ Fails("worker")
  /\ \E n \in 0 .. BackHwm : WorkerCrash(p, n)
  /\ UNCHANGED <<brokerVars, clientVars>>
WorkerLeaves(p) ==
  /\ Fails("leave")
  /\ WorkerLeave(p)
  /\ UNCHANGED <<brokerVars, clientVars>>
ClientFails(q) ==
  /\ Fails("client")
  /\ \E n \in 0 .. FrontHwm : ClientCrash(q, n)
  /\ UNCHANGED <<brokerVars, workerVars>>
BackLinkFails(w) ==
  /\ up
  /\ Fails("backLink")
  /\ \E read, lost, kept \in 0 .. BackHwm :
       BackConnectionReset(w, read, lost, kept)
  /\ UNCHANGED <<brokerVars, workerVars, clientVars>>
FrontLinkFails(c) ==
  /\ up
  /\ Fails("frontLink")
  /\ \E read, lost, kept \in 0 .. FrontHwm :
       FrontConnectionReset(c, read, lost, kept)
  /\ UNCHANGED <<brokerVars, workerVars, clientVars>>

Fault ==
  /\ \/ BrokerFails
     \/ \E p \in WorkerProc : WorkerFails(p) \/ WorkerLeaves(p)
     \/ \E q \in ClientProc : ClientFails(q)
     \/ \E w \in WorkerId : BackLinkFails(w)
     \/ \E c \in ClientId : FrontLinkFails(c)
  /\ PolledStays

(* One heartbeat period passes.                                             *)
Tick ==
  /\ BrokerTick
  /\ WorkerTick
  /\ ClientTick
  /\ UNCHANGED <<netVars, faults>>

Step ==
  \/ BrokerStep
  \/ StartBroker
  \/ \E p \in WorkerProc : WorkerStep(p) \/ StartWorker(p)
  \/ \E q \in ClientProc : ClientStep(q) \/ StartClient(q)
  \/ Fault

Next == Step \/ Tick

Spec == Init /\ [][Next]_vars

-----------------------------------------------------------------------------
(* Promptness and fairness.                                                 *)

BrokerAtRest == ~up \/ (todo = {} /\ Readable = {} /\ Expired = {} /\ ~beatDue)

(* A worker whose queue to the broker is full waits in its send.            *)
WorkerAtRest(p) ==
  CASE wPhase[p] = "off" -> TRUE
    [] wPhase[p] = "asleep" -> nap[p] > 0 \/ FreshWorkerId = {}
    [] wPhase[p] = "polling" ->
         \/ backDown[wId[p]] = <<>> /\ ~elapsed[p]
         \/ ~Room(backUp[wId[p]], 2, BackHwm)

ClientAtRest(q) ==
  CASE cPhase[q] \in {"off", "done"} -> TRUE
    [] cPhase[q] = "pausing" -> timer[q] > 0
    [] cPhase[q] \in {"pinging", "receiving"} ->
         frontDown[cId[q]] = <<>> /\ (timer[q] > 0 \/ FreshClientId = {})
    [] cPhase[q] = "sending" -> ~Room(frontUp[cId[q]], 1, FrontHwm)
    [] cPhase[q] = "stopping" -> FALSE

AtRest ==
  /\ BrokerAtRest
  /\ \A p \in WorkerProc : WorkerAtRest(p)
  /\ \A q \in ClientProc : ClientAtRest(q)

PromptTick == AtRest /\ Tick

PromptNext == Step \/ PromptTick

PromptSpec == Init /\ [][PromptNext]_vars

(* Every process runs, a broker or a worker that died is started again, and *)
(* time passes.  Nothing forces a failure or the start of a client.         *)
Fairness ==
  /\ WF_vars(BrokerStep)
  /\ WF_vars(StartBroker)
  /\ \A p \in WorkerProc : WF_vars(WorkerStep(p)) /\ WF_vars(StartWorker(p))
  /\ \A q \in ClientProc : WF_vars(ClientStep(q))
  /\ WF_vars(PromptTick)

FairSpec == PromptSpec /\ Fairness

-----------------------------------------------------------------------------
(* What holds whatever fails and however late anything is.                  *)

(* Between two handlers a service never has both a worker that waits and a  *)
(* request that waits: handleReady, handleReply and handleClientRequest     *)
(* each end with sendPendingRequests.                                       *)
WorkConserving ==
  \A s \in Service : idle[s] = <<>> \/ pending[s] = <<>>

(* A pool holds only workers that are registered for its service: the purge *)
(* takes a worker out of both maps, and nothing puts it back into the pool  *)
(* alone.                                                                   *)
IdleAreRegistered ==
  \A s \in Service : \A i \in 1 .. Len(idle[s]) : registered[idle[s][i]] = s

(* What a process has at each of its phases: an identity while it has a     *)
(* socket, and no more requests sent than it should.                        *)
PhasesAgree ==
  /\ \A p \in WorkerProc : wPhase[p] # "off" => wId[p] \in WorkerId
  /\ \A q \in ClientProc :
       /\ cPhase[q] \in {"pinging", "pausing", "sending", "receiving",
                         "stopping"} => cId[q] \in ClientId
       /\ cPhase[q] \in {"off", "pinging", "pausing"} => sent[q] = 0
       /\ cPhase[q] = "sending" => sent[q] < Requests

(* Ready is the first thing an identity ever says, and the broker does not  *)
(* know an identity whose Ready is still to come.                           *)
ReadyIsNew ==
  \A w \in WorkerId : \A i \in 1 .. Len(backUp[w]) :
    backUp[w][i].type = "Ready" => i = 1 /\ registered[w] = NoService

(* The inductive invariant behind TypeOK, WorkConserving and                *)
(* IdleAreRegistered (AsyncMajordomoProofs).                                *)
Inv ==
  /\ TypeOK
  /\ PhasesAgree
  /\ WorkConserving
  /\ IdleAreRegistered
  /\ ReadyIsNew

(* The places where the broker counts on the worker w: as a member of a     *)
(* pool, as one it gave a request to, as one whose Ready or Reply is to     *)
(* come.                                                                    *)
Tokens(w) ==
  (UNION {{<<"idle", s>>} \X {i \in 1 .. Len(idle[s]) : idle[s][i] = w} :
            s \in Service})
  \cup {<<"backDown", i>> : i \in {j \in 1 .. Len(backDown[w]) :
                                     backDown[w][j].type = "Request"}}
  \cup {<<"backUp", i>> : i \in {j \in 1 .. Len(backUp[w]) :
                                   backUp[w][j].type \in {"Ready", "Reply"}}}

(* A worker holds at most one request at a time and is in the pools at most *)
(* once: every request it gets is one it asked for with a Ready or a Reply. *)
OneRequestPerWorker == \A w \in WorkerId : Cardinality(Tokens(w)) <= 1

(* Every place where the request b, or its reply, is.                       *)
Places(b) ==
  LET Bears(m) == m.type \in {"Request", "Reply"} /\ m.body = b
      In(name, qs) ==
        UNION {{<<name, x>>} \X {i \in 1 .. Len(qs[x]) : Bears(qs[x][i])} :
                 x \in DOMAIN qs}
  IN  In("frontUp", frontUp) \cup In("frontDown", frontDown)
      \cup In("backUp", backUp) \cup In("backDown", backDown)
      \cup (UNION {{<<"pending", s>>} \X {i \in 1 .. Len(pending[s]) :
                                          pending[s][i].body = b} :
                     s \in Service})
      \cup (UNION {{<<"received", q>>} \X {i \in 1 .. Len(received[q]) :
                                           received[q][i] = b} :
                     q \in ClientProc})

(* A request is executed at most once and answered at most once: it is in   *)
(* one place at a time all its life, whoever reconnects or is purged.       *)
AtMostOnce == \A b \in Body : Cardinality(Places(b)) <= 1

(* recv() hands a client only replies to requests of its own, and each      *)
(* once: an identity is a return address that nobody else takes over while  *)
(* it is in use, and a wait that ends without a reply does not return the   *)
(* one that mReply still holds.                                             *)
RepliesReachTheAsker ==
  \A q \in ClientProc :
    \A i \in 1 .. Len(received[q]) :
      /\ received[q][i][1] = q
      /\ \A j \in 1 .. i - 1 : received[q][j] # received[q][i]

(* A worker is given only requests for the service it provides, through all *)
(* its identities: every way into a pool (Ready, Reply) and out of it agrees*)
(* on the service.                                                          *)
GivenToAProvider ==
  \A p \in WorkerProc : wPhase[p] # "off" =>
    \A i \in 1 .. Len(backDown[wId[p]]) :
      LET m == backDown[wId[p]][i]
      IN  m.type = "Request" => WantOf[m.body[1]] = ServiceOf[p]

(* The requests of q that no worker has been given yet, and those that have *)
(* been.                                                                    *)
Waiting(q) ==
  {n \in 1 .. Requests :
     \/ \E c \in ClientId : \E i \in 1 .. Len(frontUp[c]) :
          frontUp[c][i].type = "Request" /\ frontUp[c][i].body = <<q, n>>
     \/ \E s \in Service : \E i \in 1 .. Len(pending[s]) :
          pending[s][i].body = <<q, n>>}
Given(q) ==
  {n \in 1 .. Requests :
     \/ \E w \in WorkerId : \E i \in 1 .. Len(backDown[w]) :
          backDown[w][i].type = "Request" /\ backDown[w][i].body = <<q, n>>
     \/ \E w \in WorkerId : \E i \in 1 .. Len(backUp[w]) :
          backUp[w][i].type = "Reply" /\ backUp[w][i].body = <<q, n>>
     \/ \E c \in ClientId : \E i \in 1 .. Len(frontDown[c]) :
          frontDown[c][i].type = "Reply" /\ frontDown[c][i].body = <<q, n>>
     \/ \E i \in 1 .. Len(received[q]) : received[q][i] = <<q, n>>}

(* Requests of a client are given to workers in the order it sent them: the *)
(* pending queue is first in, first out.                                    *)
GivenInOrder ==
  \A q \in ClientProc : \A n \in Waiting(q), m \in Given(q) : m < n

(* How far the request b has come.                                          *)
StageOf(b) ==
  LET names == {pl[1][1] : pl \in Places(b)}
  IN  IF "received" \in names THEN "answered"
      ELSE IF names \cap {"backUp", "frontDown"} # {} THEN "replied"
      ELSE IF "backDown" \in names THEN "working"
      ELSE IF names # {} THEN "queued"
      ELSE IF b[2] <= sent[b[1]] THEN "lost" ELSE "unsent"

Lifecycle == INSTANCE RequestLifecycle
               WITH Servers <- Cardinality(WorkerProc),
                    stage <- [b \in Body |-> StageOf(b)]

(* The system implements RequestLifecycle: a request is executed before it  *)
(* is answered, a lost one never comes back, and the workers together never *)
(* hold more requests than there are worker processes, whatever fails.      *)
LifecycleSpec == Lifecycle!Spec

-----------------------------------------------------------------------------
(* What holds when everyone is prompt.                                      *)

(* Nobody is ever taken for dead: the heartbeats of a worker that polls     *)
(* come more often than the broker's expiry, a request in hand or not, and  *)
(* a worker whose broker is up never gives up on it.                        *)
NoFalseAlarm ==
  [][\A p \in WorkerProc :
       LET w == wId[p]
       IN  /\ wPhase'[p] # "asleep"
           /\ wPhase[p] = "polling" /\ w \in Registered /\ up'
                => registered'[w] # NoService]_vars

-----------------------------------------------------------------------------
(* What is reached under fairness.                                          *)

(* Whatever failed, a worker process comes to be registered with the        *)
(* identity it has now: heartbeats, Disconnects and new connections repair  *)
(* a broker that forgot it and a Ready that was lost.                       *)
WorkersRejoin ==
  \A p \in WorkerProc : []<>(wPhase[p] = "polling" /\ wId[p] \in Registered)

(* An identity whose socket is gone is forgotten: it neither stays          *)
(* registered nor keeps a place in a pool.                                  *)
GhostsAreForgotten ==
  \A w \in WorkerId : (w \in Registered \ peers) ~> (w \notin Registered)

IsReceived(b) == \E i \in 1 .. Len(received[b[1]]) : received[b[1]][i] = b
IsPending(b) ==
  \E s \in Service : \E i \in 1 .. Len(pending[s]) : pending[s][i].body = b

(* A request the broker accepted, for a service it knows, is answered when  *)
(* nothing fails and the front link has room for the replies.               *)
AcceptedIsAnswered == \A b \in Body : IsPending(b) ~> IsReceived(b)

-----------------------------------------------------------------------------
(* What the Readme promises and the code does not do.                       *)

(* Readme.md:6, "reliability between broker and workers using two-way       *)
(* heartbeats": a worker that runs is, again and again, one the broker can  *)
(* give a request to or has given one.                                      *)
RunningWorkersServe ==
  \A p \in WorkerProc :
    []<>(wPhase[p] = "polling" /\ wId[p] \in Registered
           /\ Tokens(wId[p]) # {})
=============================================================================
