--------------------------- MODULE MajordomoBroker ---------------------------
(***************************************************************************)
(* The broker of the synchronous Majordomo: App/Majordomo/                 *)
(* MajordomoBroker.{h,cpp}.                                                *)
(*                                                                         *)
(* Other than the asynchronous one it has no discovery, does not tell an   *)
(* unknown worker to disconnect, and gives requests to workers only when a *)
(* request arrives.  `todo' is what is left of an iteration of run(): the  *)
(* back socket, the front socket, then the purge and the heartbeats.       *)
(* libzmq's queues stay far below their limits of 1000 messages.           *)
(***************************************************************************)
EXTENDS Subsequences

CONSTANTS
  Service,       \* argv[1] of the workers and of the clients
  WorkerId,      \* the identities RandomString::generate gives to workers
  Client,        \* the client processes
  WantOf,        \* WantOf[c]: the service c asks for
  Requests,      \* how often a client sends (100000 in Client.cpp)
  Retries,       \* 3: the attempts of MajordomoClient::send
  Expiry,        \* gWorkerHeartbeatExpiryDuration, in ticks
  MaxCut,        \* the most messages of a queue that a crash takes or leaves
  NoService      \* the service of an identity that is not registered

ASSUME BrokerAssumption ==
  /\ WantOf \in [Client -> Service]
  /\ {Requests, Retries, Expiry} \subseteq Nat \ {0}
  /\ MaxCut \in Nat
  /\ NoService \notin Service

VARIABLES
  up,            \* the process exists
  todo,          \* the steps left of this iteration
  registered,    \* mRegisteredWorkers: the service of an identity ...
  ttl,           \* ... and the ticks left to its expiry
  services,      \* the keys of mServices
  idle,          \* idleWorkers of a service
  pending,       \* pendingRequests of a service
  beatDue,       \* mHeartbeatDeadline is over
  sockets,       \* the open sockets of clients
  asked,         \* the requests on the way to the broker
  answers,       \* the replies that wait in a client's socket
  peers,         \* the worker identities with an open socket
  backUp,        \* what each worker identity said
  backDown       \* what the broker said to each worker identity

brokerVars == <<up, todo, registered, ttl, services, idle, pending, beatDue>>
frontVars == <<sockets, asked, answers>>
backVars == <<peers, backUp, backDown>>

(* A client makes a new socket after each attempt that fails.               *)
Address == Client \X (0 .. Requests * Retries)

(* PendingRequest: who asks, and the number of its request for the body.    *)
Ask == [addr : Address, n : 1 .. Requests]

Ready(s) == [type |-> "Ready", service |-> s]
Request(a) == [type |-> "Request", ask |-> a]
Reply(a) == [type |-> "Reply", ask |-> a]
Heartbeat == [type |-> "Heartbeat"]

UpMsg == {Ready(s) : s \in Service} \cup {Reply(a) : a \in Ask} \cup {Heartbeat}
DownMsg == {Request(a) : a \in Ask} \cup {Heartbeat}

BrokerTypeOK ==
  /\ up \in BOOLEAN
  /\ todo \subseteq {"back", "front", "house"}
  /\ registered \in [WorkerId -> Service \cup {NoService}]
  /\ ttl \in [WorkerId -> 0 .. Expiry]
  /\ services \subseteq Service
  /\ idle \in [Service -> Seq(WorkerId)]
  /\ pending \in [Service -> Seq(Ask)]
  /\ beatDue \in BOOLEAN
  /\ sockets \subseteq Address /\ asked \subseteq Ask /\ answers \subseteq Ask
  /\ peers \subseteq WorkerId
  /\ backUp \in [WorkerId -> Seq(UpMsg)]
  /\ backDown \in [WorkerId -> Seq(DownMsg)]

Registered == {w \in WorkerId : registered[w] # NoService}
Expired == {w \in Registered : ttl[w] = 0}

(* The maps of a new broker, whose first heartbeat is due at once.          *)
EmptyMaps(reg, left, keys, pool, reqs, due) ==
  /\ reg = [w \in WorkerId |-> NoService]
  /\ left = [w \in WorkerId |-> 0]
  /\ keys = {}
  /\ pool = [s \in Service |-> <<>>]
  /\ reqs = [s \in Service |-> <<>>]
  /\ due = TRUE

BrokerInit ==
  /\ up = TRUE /\ todo = {}
  /\ EmptyMaps(registered, ttl, services, idle, pending, beatDue)
  /\ sockets = {} /\ asked = {} /\ answers = {}
  /\ peers = {}
  /\ backUp = [w \in WorkerId |-> <<>>]
  /\ backDown = [w \in WorkerId |-> <<>>]

-----------------------------------------------------------------------------
(* The handlers.                                                            *)

(* A ROUTER drops what is for an identity without a connection.  What w     *)
(* gets when the k-th of reqs goes to the k-th of the first m workers.      *)
Given(w, workers, reqs, m) ==
  IF w \in peers
    THEN Pick([k \in 1 .. m |-> Request(reqs[k])], {k \in 1 .. m : workers[k] = w})
    ELSE <<>>

(* Mutant: the workers stay in idleWorkers.                                 *)
HandOutKeepingTheWorkers(s, reqs) ==
  LET m == MinOf(Len(idle[s]), Len(reqs))
  IN  /\ pending' = [pending EXCEPT ![s] = SubSeq(reqs, m + 1, Len(reqs))]
      /\ backDown' = [w \in WorkerId |->
                        backDown[w] \o Given(w, idle[s], reqs, m)]
      /\ UNCHANGED idle

(* Mutant: an if where the loop is, so that an arrival hands out one        *)
(* request at most.                                                         *)
HandOutOne(s, reqs) ==
  LET m == IF idle[s] = <<>> THEN 0 ELSE 1
  IN  /\ idle' = [idle EXCEPT ![s] = SubSeq(@, m + 1, Len(@))]
      /\ pending' = [pending EXCEPT ![s] = SubSeq(reqs, m + 1, Len(reqs))]
      /\ backDown' = [w \in WorkerId |->
                        backDown[w] \o Given(w, idle[s], reqs, m)]

(* The loop of handleClientRequest, with forward2Worker, while there are    *)
(* both a request and a worker.                                             *)
HandOut(s, reqs) ==
  LET m == MinOf(Len(idle[s]), Len(reqs))
  IN  /\ idle' = [idle EXCEPT ![s] = SubSeq(@, m + 1, Len(@))]
      /\ pending' = [pending EXCEPT ![s] = SubSeq(reqs, m + 1, Len(reqs))]
      /\ backDown' = [w \in WorkerId |->
                        backDown[w] \o Given(w, idle[s], reqs, m)]

HandleClientRequest(a) ==
  LET s == WantOf[a.addr[1]]
  IN  /\ "front" \in todo /\ "back" \notin todo
      /\ a \in asked
      /\ asked' = asked \ {a}
      /\ todo' = todo \ {"front"}
      /\ IF s \in services THEN HandOut(s, Append(pending[s], a))
                           ELSE UNCHANGED <<idle, pending, backDown>>
      /\ UNCHANGED <<up, registered, ttl, services, beatDue, sockets, answers,
                     peers, backUp>>

HandleReady(w, s) ==
  /\ registered' = [registered EXCEPT ![w] = s]
  /\ ttl' = [ttl EXCEPT ![w] = Expiry]
  /\ services' = services \cup {s}
  /\ idle' = [idle EXCEPT ![s] = Append(@, w)]
  /\ UNCHANGED answers

(* The worker goes back to the pool, the reply to the client if its socket  *)
(* is still open.  Nobody looks at pendingRequests.                         *)
HandleReply(w, a) ==
  /\ IF w \in Registered
       THEN /\ idle' = [idle EXCEPT ![registered[w]] = Append(@, w)]
            /\ answers' = IF a.addr \in sockets THEN answers \cup {a}
                                                ELSE answers
       ELSE UNCHANGED <<idle, answers>>
  /\ UNCHANGED <<registered, ttl, services>>

HandleHeartbeat(w) ==
  /\ ttl' = [ttl EXCEPT ![w] = IF w \in Registered THEN Expiry ELSE @]
  /\ UNCHANGED <<registered, services, idle, answers>>

HandleWorkerResponse(w) ==
  /\ "back" \in todo
  /\ backUp[w] # <<>>
  /\ LET m == Head(backUp[w])
     IN  \/ m.type = "Ready" /\ HandleReady(w, m.service)
         \/ m.type = "Reply" /\ HandleReply(w, m.ask)
         \/ m.type = "Heartbeat" /\ HandleHeartbeat(w)
  /\ backUp' = [backUp EXCEPT ![w] = Tail(@)]
  /\ todo' = todo \ {"back"}
  /\ UNCHANGED <<up, pending, beatDue, sockets, asked, peers, backDown>>

-----------------------------------------------------------------------------
(* The loop of run().                                                       *)

Readable == {x \in {"back"} : \E w \in WorkerId : backUp[w] # <<>>}
            \cup {x \in {"front"} : asked # {}}

(* The poll returns.  An iteration that would do nothing is left out.       *)
BrokerWait ==
  /\ up /\ todo = {}
  /\ Readable # {} \/ Expired # {} \/ beatDue
  /\ todo' = Readable \cup {"house"}
  /\ UNCHANGED <<up, registered, ttl, services, idle, pending, beatDue,
                 frontVars, backVars>>

(* Mutant: a purged worker stays in the pool.                               *)
HousekeepingWithoutErase ==
  /\ todo = {"house"}
  /\ registered' = [w \in WorkerId |->
                      IF w \in Expired THEN NoService ELSE registered[w]]
  /\ backDown' = [w \in WorkerId |->
                    IF beatDue /\ w \in peers \cap (Registered \ Expired)
                      THEN Append(backDown[w], Heartbeat) ELSE backDown[w]]
  /\ beatDue' = FALSE
  /\ todo' = {}
  /\ UNCHANGED <<up, ttl, services, idle, pending, frontVars, peers, backUp>>

(* purgeExpiredWorker and sendHeartbeat.                                    *)
Housekeeping ==
  /\ todo = {"house"}
  /\ registered' = [w \in WorkerId |->
                      IF w \in Expired THEN NoService ELSE registered[w]]
  /\ idle' = [s \in Service |->
                Pick(idle[s], {i \in DOMAIN idle[s] :
                                 ~(idle[s][i] \in Expired
                                   /\ registered[idle[s][i]] = s)})]
  /\ backDown' = [w \in WorkerId |->
                    IF beatDue /\ w \in peers \cap (Registered \ Expired)
                      THEN Append(backDown[w], Heartbeat) ELSE backDown[w]]
  /\ beatDue' = FALSE
  /\ todo' = {}
  /\ UNCHANGED <<up, ttl, services, pending, frontVars, peers, backUp>>

BrokerNext ==
  \/ BrokerWait \/ Housekeeping
  \/ \E w \in WorkerId : HandleWorkerResponse(w)
  \/ \E a \in asked : HandleClientRequest(a)

(* The process dies: of what the workers said the newest may still wait in  *)
(* their sockets, of what it said itself the oldest may still arrive.       *)
BrokerCrash ==
  /\ up
  /\ up' = FALSE /\ todo' = {}
  /\ EmptyMaps(registered', ttl', services', idle', pending', beatDue')
  /\ asked' \in SUBSET asked /\ answers' \in SUBSET answers
  /\ \E cut, left \in [WorkerId -> 0 .. MaxCut] :
       /\ \A w \in WorkerId :
            cut[w] <= Len(backUp[w]) /\ left[w] <= Len(backDown[w])
       /\ backUp' = [w \in WorkerId |->
                       SubSeq(backUp[w], cut[w] + 1, Len(backUp[w]))]
       /\ backDown' = [w \in WorkerId |-> SubSeq(backDown[w], 1, left[w])]
  /\ UNCHANGED <<sockets, peers>>

BrokerStart ==
  /\ ~up
  /\ up' = TRUE
  /\ UNCHANGED <<todo, registered, ttl, services, idle, pending, beatDue,
                 frontVars, backVars>>

BrokerTick ==
  /\ ttl' = [w \in WorkerId |-> IF ttl[w] = 0 THEN 0 ELSE ttl[w] - 1]
  /\ beatDue' = TRUE
  /\ UNCHANGED <<up, todo, registered, services, idle, pending>>
=============================================================================
