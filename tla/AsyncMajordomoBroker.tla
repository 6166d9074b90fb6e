------------------------- MODULE AsyncMajordomoBroker -------------------------
(***************************************************************************)
(* The broker of the asynchronous Majordomo: MajordomoBroker.{h,cpp}.      *)
(*                                                                         *)
(* One thread runs MajordomoBroker::run: it polls the two sockets, calls   *)
(* the handler of each readable one once, the back socket first, purges    *)
(* the workers whose heartbeat expired and sends its own heartbeats.       *)
(* `todo' is what is left of the current iteration.  A handler is atomic:  *)
(* nothing else touches the broker's maps.                                 *)
(*                                                                         *)
(* Expiry times are kept as the number of ticks left: `now > expiry' is    *)
(* ttl = 0.  Handlers parse what the codecs of the same code produced, so  *)
(* their parse-error returns are not taken (see AsyncMajordomoCodec).      *)
(***************************************************************************)
EXTENDS AsyncMajordomoNet

CONSTANTS
  Expiry,        \* gWorkerHeartbeatExpiryDuration, in ticks
  NoService      \* the service of an identity that is not registered

ASSUME BrokerAssumption ==
  /\ Expiry \in Nat \ {0}
  /\ NoService \notin Service

VARIABLES
  up,            \* mIsRunning, and the process exists
  todo,          \* the steps left of the current iteration of run()
  registered,    \* mRegisteredWorkers: identity -> serviceName
  ttl,           \* mRegisteredWorkers: identity -> ticks left to its expiry
  services,      \* the keys of mServices
  idle,          \* mServices: serviceName -> idleWorkers
  pending,       \* mServices: serviceName -> pendingRequests
  beatDue        \* now > mHeartbeatDeadline

brokerVars == <<up, todo, registered, ttl, services, idle, pending, beatDue>>

PendingRequest == [client : ClientId, body : Body]

BrokerTypeOK ==
  /\ up \in BOOLEAN
  /\ todo \in SUBSET {"back", "front", "house"}
  /\ registered \in [WorkerId -> Service \cup {NoService}]
  /\ ttl \in [WorkerId -> 0 .. Expiry]
  /\ services \in SUBSET Service
  /\ idle \in [Service -> Seq(WorkerId)]
  /\ pending \in [Service -> Seq(PendingRequest)]
  /\ beatDue \in BOOLEAN

(* The maps of a broker that has just been constructed.  run() starts with  *)
(* a deadline that has already passed.                                      *)
EmptyBroker ==
  [registered |-> [w \in WorkerId |-> NoService],
   ttl |-> [w \in WorkerId |-> 0],
   services |-> {},
   idle |-> [s \in Service |-> <<>>],
   pending |-> [s \in Service |-> <<>>]]

BrokerInit ==
  /\ up = TRUE
  /\ todo = {}
  /\ registered = EmptyBroker.registered
  /\ ttl = EmptyBroker.ttl
  /\ services = EmptyBroker.services
  /\ idle = EmptyBroker.idle
  /\ pending = EmptyBroker.pending
  /\ beatDue = TRUE

Registered == {w \in WorkerId : registered[w] # NoService}

-----------------------------------------------------------------------------
(* Sending.                                                                 *)

(* sendPendingRequests: the oldest pending requests go to the idle workers  *)
(* that have waited longest, one each, until one of the queues is empty.    *)
Forward(reqs, I) ==
  [k \in 1 .. Cardinality(I) |->
     WorkerRequest(Pick(reqs, I)[k].client, Pick(reqs, I)[k].body)]

(* Mutant: the requests are not taken out of pendingRequests.               *)
SendWithoutDequeue(s, idleWorkers, pendingRequests) ==
  LET n == MinOf(Len(idleWorkers), Len(pendingRequests))
  IN  /\ idle' = [idle EXCEPT
                    ![s] = SubSeq(idleWorkers, n + 1, Len(idleWorkers))]
      /\ pending' = [pending EXCEPT ![s] = pendingRequests]
      /\ backDown' = [w \in WorkerId |->
                        Routed(w, backDown[w],
                               Forward(pendingRequests,
                                       {k \in 1 .. n : idleWorkers[k] = w}),
                               BackHwm)]

SendPendingRequests(s, idleWorkers, pendingRequests) ==
  LET n == MinOf(Len(idleWorkers), Len(pendingRequests))
  IN  /\ idle' = [idle EXCEPT
                    ![s] = SubSeq(idleWorkers, n + 1, Len(idleWorkers))]
      /\ pending' = [pending EXCEPT
                       ![s] = SubSeq(pendingRequests, n + 1,
                                     Len(pendingRequests))]
      /\ backDown' = [w \in WorkerId |->
                        Routed(w, backDown[w],
                               Forward(pendingRequests,
                                       {k \in 1 .. n : idleWorkers[k] = w}),
                               BackHwm)]

SendToClient(c, msg) ==
  frontDown' = [frontDown EXCEPT
                  ![c] = Routed(c, frontDown[c], <<msg>>, FrontHwm)]

(* MajordomoBroker::disconnect                                              *)
SendDisconnect(w) ==
  backDown' = [backDown EXCEPT
                 ![w] = Routed(w, backDown[w], <<Disconnect>>, BackHwm)]

-----------------------------------------------------------------------------
(* The front socket.                                                        *)

HandleDiscovery(c, s) ==
  /\ SendToClient(c, DiscoveryReply(s, IF s \in services THEN "Ok"
                                                         ELSE "NotFound"))
  /\ UNCHANGED <<idle, pending, backDown>>

HandleUnknownService(s) ==
  /\ s \notin services
  /\ UNCHANGED <<idle, pending, backDown, frontDown>>

(* Mutant: push_front where the code says push_back.                        *)
HandleKnownServiceNewestFirst(c, s, b) ==
  /\ s \in services
  /\ SendPendingRequests(s, idle[s],
                         <<[client |-> c, body |-> b]>> \o pending[s])
  /\ UNCHANGED frontDown

HandleKnownService(c, s, b) ==
  /\ s \in services
  /\ SendPendingRequests(s, idle[s],
                         Append(pending[s], [client |-> c, body |-> b]))
  /\ UNCHANGED frontDown

HandleClientRequest(c) ==
  /\ "front" \in todo /\ "back" \notin todo
  /\ frontUp[c] # <<>>
  /\ LET m == Head(frontUp[c])
     IN  \/ m.type = "Discovery" /\ HandleDiscovery(c, m.service)
         \/ m.type = "Request" /\ HandleUnknownService(m.service)
         \/ m.type = "Request" /\ HandleKnownService(c, m.service, m.body)
  /\ frontUp' = [frontUp EXCEPT ![c] = Tail(@)]
  /\ todo' = todo \ {"front"}
  /\ UNCHANGED <<up, registered, ttl, services, beatDue, peers, backUp>>

-----------------------------------------------------------------------------
(* The back socket.                                                         *)

HandleReady(w, s) ==
  /\ registered' = [registered EXCEPT ![w] = s]
  /\ ttl' = [ttl EXCEPT ![w] = Expiry]
  /\ services' = services \cup {s}
  /\ SendPendingRequests(s, Append(idle[s], w), pending[s])
  /\ UNCHANGED frontDown

(* Mutant: the worker goes back to the pool, but nobody looks whether a     *)
(* request is waiting (as in App/Majordomo, the synchronous broker).        *)
HandleReplyNoDispatch(w, c, b) ==
  LET s == registered[w]
  IN  /\ w \in Registered
      /\ SendToClient(c, ClientReply(s, b))
      /\ idle' = [idle EXCEPT ![s] = Append(@, w)]
      /\ UNCHANGED <<registered, ttl, services, pending, backDown>>

(* Mutant: the worker goes back to whichever service comes first.           *)
HandleReplyAnyService(w, c, b) ==
  LET s == CHOOSE x \in services : TRUE
  IN  /\ w \in Registered
      /\ SendToClient(c, ClientReply(registered[w], b))
      /\ SendPendingRequests(s, Append(idle[s], w), pending[s])
      /\ UNCHANGED <<registered, ttl, services>>

HandleReply(w, c, b) ==
  LET s == registered[w]
  IN  /\ w \in Registered
      /\ SendToClient(c, ClientReply(s, b))
      /\ SendPendingRequests(s, Append(idle[s], w), pending[s])
      /\ UNCHANGED <<registered, ttl, services>>

(* Mutant: a heartbeat does not push the expiry back.                       *)
HandleHeartbeatNoRefresh(w) ==
  /\ w \in Registered
  /\ UNCHANGED <<registered, ttl, services, idle, pending, backDown, frontDown>>

(* Mutant: a worker that is heard of is put into the pool.                  *)
HandleHeartbeatAsIdle(w) ==
  LET s == registered[w]
  IN  /\ w \in Registered
      /\ ttl' = [ttl EXCEPT ![w] = Expiry]
      /\ SendPendingRequests(s, Append(idle[s], w), pending[s])
      /\ UNCHANGED <<registered, services, frontDown>>

(* handleHeartbeat and refreshHeartbeat of a registered worker.             *)
HandleHeartbeat(w) ==
  /\ w \in Registered
  /\ ttl' = [ttl EXCEPT ![w] = Expiry]
  /\ UNCHANGED <<registered, services, idle, pending, backDown, frontDown>>

(* A Reply or a Heartbeat of an identity the broker does not know.          *)
HandleUnregistered(w) ==
  /\ w \notin Registered
  /\ SendDisconnect(w)
  /\ UNCHANGED <<registered, ttl, services, idle, pending, frontDown>>

(* The positions std::erase_if keeps.                                       *)
Erase(q, W) == Pick(q, {i \in 1 .. Len(q) : q[i] \notin W})

(* The worker leaves the pool of its service but stays registered.          *)
HandleDisconnect(w) ==
  /\ idle' = [s \in Service |->
                IF s = registered[w] THEN Erase(idle[s], {w}) ELSE idle[s]]
  /\ UNCHANGED <<registered, ttl, services, pending, backDown, frontDown>>

HandleWorkerResponse(w) ==
  /\ "back" \in todo
  /\ backUp[w] # <<>>
  /\ LET m == Head(backUp[w])
     IN  \/ m.type = "Heartbeat" /\ HandleHeartbeat(w)
         \/ m.type = "Ready" /\ HandleReady(w, m.service)
         \/ m.type = "Reply" /\ HandleReply(w, m.client, m.body)
         \/ m.type \in {"Heartbeat", "Reply"} /\ HandleUnregistered(w)
         \/ m.type = "Disconnect" /\ HandleDisconnect(w)
  /\ backUp' = [backUp EXCEPT ![w] = Tail(@)]
  /\ todo' = todo \ {"back"}
  /\ UNCHANGED <<up, beatDue, peers, frontUp>>

-----------------------------------------------------------------------------
(* The loop of run().                                                       *)

(* Mutant: only workers that wait in a pool are looked at.                  *)
ExpiredIdle ==
  {w \in Registered :
     ttl[w] = 0 /\ \E s \in Service : \E i \in 1 .. Len(idle[s]) : idle[s][i] = w}

Expired == {w \in Registered : ttl[w] = 0}

Readable == {x \in {"back"} : \E w \in WorkerId : backUp[w] # <<>>}
            \cup {x \in {"front"} : \E c \in ClientId : frontUp[c] # <<>>}

(* mPoller.wait returns: a socket is readable, or 100 ms have passed.  An   *)
(* iteration with nothing to read, to purge or to send changes nothing and  *)
(* is left out.                                                             *)
BrokerWait ==
  /\ up /\ todo = {}
  /\ Readable # {} \/ Expired # {} \/ beatDue
  /\ todo' = Readable \cup {"house"}
  /\ UNCHANGED <<up, registered, ttl, services, idle, pending, beatDue, netVars>>

(* Mutant: the purge leaves the pools alone.                                *)
PurgeWithoutErase ==
  /\ registered' = [w \in WorkerId |->
                      IF w \in Expired THEN NoService ELSE registered[w]]
  /\ UNCHANGED idle

(* purgeExpiredWorker                                                       *)
PurgeExpiredWorker ==
  /\ registered' = [w \in WorkerId |->
                      IF w \in Expired THEN NoService ELSE registered[w]]
  /\ idle' = [s \in Service |->
                Erase(idle[s], {w \in Expired : registered[w] = s})]

(* sendHeartbeat, to the workers that the purge has left.                   *)
SendHeartbeat ==
  /\ backDown' = [w \in WorkerId |->
                    IF beatDue /\ w \in Registered \ Expired
                      THEN Routed(w, backDown[w], <<Heartbeat>>, BackHwm)
                      ELSE backDown[w]]
  /\ beatDue' = FALSE

Housekeeping ==
  /\ todo = {"house"}
  /\ PurgeExpiredWorker
  /\ SendHeartbeat
  /\ todo' = {}
  /\ UNCHANGED <<up, ttl, services, pending, peers, backUp, frontUp, frontDown>>

-----------------------------------------------------------------------------
(* The process.                                                             *)

(* The broker process dies.  Its maps and what its sockets held are gone;   *)
(* what the peers' sockets hold is not: the newest messages of each way up  *)
(* (all but bu[w], fu[c]) and the oldest of each way down (bd[w], fd[c]).   *)
BrokerCrash(bu, bd, fu, fd) ==
  /\ up
  /\ up' = FALSE
  /\ todo' = {}
  /\ registered' = EmptyBroker.registered
  /\ ttl' = EmptyBroker.ttl
  /\ services' = EmptyBroker.services
  /\ idle' = EmptyBroker.idle
  /\ pending' = EmptyBroker.pending
  /\ beatDue' = TRUE
  /\ backUp' = [w \in WorkerId |-> AllButOldest(backUp[w], bu[w])]
  /\ backDown' = [w \in WorkerId |-> Oldest(backDown[w], bd[w])]
  /\ frontUp' = [c \in ClientId |-> AllButOldest(frontUp[c], fu[c])]
  /\ frontDown' = [c \in ClientId |-> Oldest(frontDown[c], fd[c])]
  /\ UNCHANGED peers

(* A new broker process binds the same addresses; the peers' sockets        *)
(* reconnect by themselves with the identities they had.                    *)
BrokerStart ==
  /\ ~up
  /\ up' = TRUE
  /\ UNCHANGED <<todo, registered, ttl, services, idle, pending, beatDue,
                 netVars>>

(* A tick of the clock, for the broker.                                     *)
BrokerTick ==
  /\ ttl' = [w \in WorkerId |-> IF ttl[w] = 0 THEN 0 ELSE ttl[w] - 1]
  /\ beatDue' = TRUE
  /\ UNCHANGED <<up, todo, registered, services, idle, pending>>

BrokerNext ==
  \/ BrokerWait
  \/ \E w \in WorkerId : HandleWorkerResponse(w)
  \/ \E c \in ClientId : HandleClientRequest(c)
  \/ Housekeeping
=============================================================================
