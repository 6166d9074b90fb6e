----------------------------- MODULE InterBroker -----------------------------
(***************************************************************************)
(* Brokers that lend each other workers: InterBroker/WorkRouter.cpp and    *)
(* BrokerState.cpp, with the client and worker threads of Client.cpp and   *)
(* Worker.cpp.                                                             *)
(*                                                                         *)
(* A broker serves its own clients first and may pass what it cannot serve *)
(* on to a peer.  Peers are brokers of this code or Foreign ones, about    *)
(* which nothing is known but the form of their messages: they pass on     *)
(* whenever they like, for clients of their own.  `todo' is what is left   *)
(* of an iteration of run(): the sockets with an event, in any order, and  *)
(* last the publication of its state.                                      *)
(***************************************************************************)
EXTENDS Integers, Sequences, FiniteSets

CONSTANTS
  Router,           \* the brokers of this code
  ForeignPeer,      \* peers of another implementation
  PeersOf,          \* argv[2] ...: whom a broker connects to
  RouterWorker,     \* their workers ...
  WorkerHome,       \* ... and the broker of each
  RouterClient,     \* the clients ...
  ClientHome,       \* ... and the broker of each
  Rounds            \* bound: how often a client asks

Peer == Router \cup ForeignPeer

ASSUME RouterAssumption ==
  /\ Router \cap ForeignPeer = {}
  /\ PeersOf \in [Peer -> SUBSET Peer]
  /\ WorkerHome \in [RouterWorker -> Router]
  /\ ClientHome \in [RouterClient -> Peer]
  /\ Rounds \in Nat
  /\ "ready" \notin RouterClient

VARIABLES
  pool,             \* mMyIdleWorkers
  idlePeers,        \* the keys of mIdlePeers
  pollingFront,     \* mIsPollingFront
  events,           \* the steps left of this iteration
  news,             \* what each peer published last and b has not read
  localFront,       \* the requests that wait in the local frontend ...
  remoteFront,      \* ... in the remote frontend, from peers ...
  passed,           \* ... and on the way to a foreign peer
  remoteBack,       \* the answers of peers in the remote backend
  toWorker,         \* what waits in a worker's socket
  fromWorker,       \* what a worker said
  answered,         \* the answers that wait in a client's socket
  asking,           \* a client waits for an answer
  rounds            \* how often it asked

routerVars == <<pool, idlePeers, pollingFront, events>>
wireVars == <<news, localFront, remoteFront, passed, remoteBack, toWorker,
              fromWorker, answered>>
askVars == <<asking, rounds>>
interVars == <<routerVars, wireVars, askVars>>

IsReady == "ready"
Sockets == {"localBack", "remoteBack", "state", "localFront", "remoteFront"}

RouterTypeOK ==
  /\ pool \in [Router -> Seq(RouterWorker)]
  /\ idlePeers \in [Router -> SUBSET Peer]
  /\ pollingFront \in [Router -> BOOLEAN]
  /\ events \in [Router -> SUBSET (Sockets \cup {"publish"})]
  /\ news \in [Router -> [Peer -> {"none", "idle", "busy"}]]
  /\ localFront \in [Router -> SUBSET RouterClient]
  /\ remoteFront \in [Router -> SUBSET RouterClient]
  /\ remoteBack \in [Router -> SUBSET RouterClient]
  /\ passed \subseteq RouterClient /\ answered \subseteq RouterClient
  /\ toWorker \in [RouterWorker -> Seq(RouterClient)]
  /\ fromWorker \in [RouterWorker -> Seq(RouterClient \cup {IsReady})]
  /\ asking \in [RouterClient -> BOOLEAN]
  /\ rounds \in [RouterClient -> 0 .. Rounds]

(* The workers have said that they are ready.                               *)
RouterInit ==
  /\ pool = [b \in Router |-> <<>>]
  /\ idlePeers = [b \in Router |-> {}]
  /\ pollingFront = [b \in Router |-> FALSE]
  /\ events = [b \in Router |-> {}]
  /\ news = [b \in Router |-> [p \in Peer |-> "none"]]
  /\ localFront = [b \in Router |-> {}]
  /\ remoteFront = [b \in Router |-> {}]
  /\ passed = {} /\ answered = {}
  /\ remoteBack = [b \in Router |-> {}]
  /\ toWorker = [w \in RouterWorker |-> <<>>]
  /\ fromWorker = [w \in RouterWorker |-> <<IsReady>>]
  /\ asking = [c \in RouterClient |-> FALSE]
  /\ rounds = [c \in RouterClient |-> 0]

-----------------------------------------------------------------------------
(* The handlers of broker b.                                                *)

Handles(b, socket) ==
  socket \in events[b] /\ events' = [events EXCEPT ![b] = @ \ {socket}]

(* Mutant: getLocalWorker leaves the worker in the queue.                   *)
GiveToWorkerWithoutPop(b, c) ==
  /\ pool[b] # <<>>
  /\ toWorker' = [toWorker EXCEPT ![Head(pool[b])] = Append(@, c)]
  /\ UNCHANGED pool

(* isLocalWorkerAvailable, getLocalWorker and the frames to the worker.     *)
GiveToWorker(b, c) ==
  /\ pool[b] # <<>>
  /\ pool' = [pool EXCEPT ![b] = Tail(@)]
  /\ toWorker' = [toWorker EXCEPT ![Head(pool[b])] = Append(@, c)]

(* getRemotePeer takes the first key of an unordered map.                   *)
PassOn(b, c) ==
  /\ pool[b] = <<>>
  /\ \E p \in idlePeers[b] :
       /\ idlePeers' = [idlePeers EXCEPT ![b] = @ \ {p}]
       /\ IF p \in Router
            THEN /\ remoteFront' = [remoteFront EXCEPT ![p] = @ \cup {c}]
                 /\ UNCHANGED passed
            ELSE passed' = passed \cup {c} /\ UNCHANGED remoteFront

(* "No idle worker!!!": the request is read, and gone.                      *)
HandleLocalFrontend(b, c) ==
  /\ Handles(b, "localFront")
  /\ c \in localFront[b]
  /\ localFront' = [localFront EXCEPT ![b] = @ \ {c}]
  /\ \/ GiveToWorker(b, c) /\ UNCHANGED <<idlePeers, remoteFront, passed>>
     \/ PassOn(b, c) /\ UNCHANGED <<pool, toWorker>>
     \/ /\ pool[b] = <<>> /\ idlePeers[b] = {}
        /\ UNCHANGED <<pool, toWorker, idlePeers, remoteFront, passed>>
  /\ UNCHANGED <<pollingFront, news, remoteBack, fromWorker, answered, askVars>>

HandleRemoteFrontend(b, c) ==
  /\ Handles(b, "remoteFront")
  /\ c \in remoteFront[b]
  /\ remoteFront' = [remoteFront EXCEPT ![b] = @ \ {c}]
  /\ \/ GiveToWorker(b, c)
     \/ pool[b] = <<>> /\ UNCHANGED <<pool, toWorker>>
  /\ UNCHANGED <<idlePeers, pollingFront, news, localFront, passed, remoteBack,
                 fromWorker, answered, askVars>>

(* An answer goes to the client, or to the peer that passed the request on. *)
(* A foreign peer sees to it that its client gets it.                       *)
AnswerOf(b, c) ==
  IF ClientHome[c] \in Router \ {b}
    THEN /\ remoteBack' = [remoteBack EXCEPT ![ClientHome[c]] = @ \cup {c}]
         /\ UNCHANGED answered
    ELSE answered' = answered \cup {c} /\ UNCHANGED remoteBack

HandleLocalBackend(b, w) ==
  /\ Handles(b, "localBack")
  /\ WorkerHome[w] = b /\ fromWorker[w] # <<>>
  /\ fromWorker' = [fromWorker EXCEPT ![w] = Tail(@)]
  /\ pool' = [pool EXCEPT ![b] = Append(@, w)]
  /\ LET said == Head(fromWorker[w])
     IN  IF said = IsReady THEN UNCHANGED <<answered, remoteBack>>
                           ELSE AnswerOf(b, said)
  /\ UNCHANGED <<idlePeers, pollingFront, news, localFront, remoteFront, passed,
                 toWorker, askVars>>

HandleRemoteBackend(b, c) ==
  /\ Handles(b, "remoteBack")
  /\ c \in remoteBack[b]
  /\ remoteBack' = [remoteBack EXCEPT ![b] = @ \ {c}]
  /\ answered' = answered \cup {c}
  /\ UNCHANGED <<pool, idlePeers, pollingFront, news, localFront, remoteFront,
                 passed, toWorker, fromWorker, askVars>>

(* Of the counts in mIdlePeers only zero and not zero make a difference.    *)
HandleStateUpdate(b, p) ==
  /\ Handles(b, "state")
  /\ news[b][p] # "none"
  /\ news' = [news EXCEPT ![b][p] = "none"]
  /\ idlePeers' = [idlePeers EXCEPT
                     ![b] = IF news[b][p] = "idle" THEN @ \cup {p} ELSE @ \ {p}]
  /\ UNCHANGED <<pool, pollingFront, localFront, remoteFront, passed, remoteBack,
                 toWorker, fromWorker, answered, askVars>>

(* A state of p reaches b.  One waits at a time, and none that tells b      *)
(* nothing new.                                                             *)
IsNews(b, p, state) ==
  /\ news[b][p] = "none"
  /\ (state = "idle") # (p \in idlePeers[b])

(* broadcastMyState.                                                        *)
BroadcastMyState(b) ==
  /\ events[b] = {"publish"}
  /\ events' = [events EXCEPT ![b] = {}]
  /\ LET state == IF pool[b] = <<>> THEN "busy" ELSE "idle"
     IN  news' = [q \in Router |-> [p \in Peer |->
                   IF p = b /\ b \in PeersOf[q] /\ IsNews(q, b, state)
                     THEN state ELSE news[q][p]]]
  /\ UNCHANGED <<pool, idlePeers, pollingFront, localFront, remoteFront, passed,
                 remoteBack, toWorker, fromWorker, answered, askVars>>

(* The events of a poll, the two frontends if they are polled.              *)
Announced(b, front) ==
  {s \in {"localBack"} : \E w \in RouterWorker :
                           WorkerHome[w] = b /\ fromWorker[w] # <<>>}
  \cup {s \in {"remoteBack"} : remoteBack[b] # {}}
  \cup {s \in {"state"} : \E p \in Peer : news[b][p] # "none"}
  \cup {s \in {"localFront"} : front /\ localFront[b] # {}}
  \cup {s \in {"remoteFront"} : front /\ remoteFront[b] # {}}

(* Mutant: frontends that were in the poller and are taken out of it do not *)
(* come back: they enter it only before the first request has been read.    *)
HandleCapacityOnce(b) ==
  /\ pool[b] # <<>>
  /\ \/ pollingFront[b]
     \/ \A c \in RouterClient :
          ClientHome[c] = b /\ rounds[c] > 0 => c \in localFront[b]

(* Mutant: the frontends are always in the poller.                          *)
HandleCapacityForGood(b) == TRUE

(* handleCapacity: the frontends are polled while a worker is idle.         *)
HandleCapacity(b) == pool[b] # <<>>

Poll(b) ==
  /\ events[b] = {}
  /\ pollingFront' = [pollingFront EXCEPT ![b] = HandleCapacity(b)]
  /\ events' = [events EXCEPT
                  ![b] = Announced(b, HandleCapacity(b)) \cup {"publish"}]
  /\ UNCHANGED <<pool, idlePeers, wireVars, askVars>>

RouterStep(b) ==
  \/ Poll(b) \/ BroadcastMyState(b)
  \/ \E c \in RouterClient :
       \/ HandleLocalFrontend(b, c)
       \/ HandleRemoteFrontend(b, c)
       \/ HandleRemoteBackend(b, c)
  \/ \E w \in RouterWorker : HandleLocalBackend(b, w)
  \/ \E p \in Peer : HandleStateUpdate(b, p)

-----------------------------------------------------------------------------
(* doWork and doRequest.                                                    *)
DoWork(w) ==
  /\ toWorker[w] # <<>>
  /\ toWorker' = [toWorker EXCEPT ![w] = Tail(@)]
  /\ fromWorker' = [fromWorker EXCEPT ![w] = Append(@, Head(toWorker[w]))]
  /\ UNCHANGED <<routerVars, news, localFront, remoteFront, passed, remoteBack,
                 answered, askVars>>

(* A request, by way of a foreign broker for its clients.                   *)
DoRequest(c) ==
  /\ ~asking[c] /\ rounds[c] < Rounds
  /\ asking' = [asking EXCEPT ![c] = TRUE]
  /\ rounds' = [rounds EXCEPT ![c] = @ + 1]
  /\ IF ClientHome[c] \in Router
       THEN /\ localFront' = [localFront EXCEPT ![ClientHome[c]] = @ \cup {c}]
            /\ UNCHANGED remoteFront
       ELSE /\ \E b \in Router \cap PeersOf[ClientHome[c]] :
                 remoteFront' = [remoteFront EXCEPT ![b] = @ \cup {c}]
            /\ UNCHANGED localFront
  /\ UNCHANGED <<routerVars, news, passed, remoteBack, toWorker, fromWorker,
                 answered>>

ReadAnswer(c) ==
  /\ c \in answered
  /\ answered' = answered \ {c}
  /\ asking' = [asking EXCEPT ![c] = FALSE]
  /\ UNCHANGED <<routerVars, news, localFront, remoteFront, passed, remoteBack,
                 toWorker, fromWorker, rounds>>

(* A foreign peer answers what it was passed, and publishes what it likes.  *)
ForeignAnswers(c) ==
  /\ c \in passed
  /\ passed' = passed \ {c}
  /\ remoteBack' = [remoteBack EXCEPT ![ClientHome[c]] = @ \cup {c}]
  /\ UNCHANGED <<routerVars, news, localFront, remoteFront, toWorker, fromWorker,
                 answered, askVars>>

ForeignPublishes(f, b) ==
  /\ f \in PeersOf[b]
  /\ \E state \in {"idle", "busy"} :
       IsNews(b, f, state) /\ news' = [news EXCEPT ![b][f] = state]
  /\ UNCHANGED <<routerVars, localFront, remoteFront, passed, remoteBack,
                 toWorker, fromWorker, answered, askVars>>

InterNext ==
  \/ \E b \in Router : RouterStep(b)
  \/ \E w \in RouterWorker : DoWork(w)
  \/ \E c \in RouterClient : DoRequest(c) \/ ReadAnswer(c) \/ ForeignAnswers(c)
  \/ \E f \in ForeignPeer, b \in Router : ForeignPublishes(f, b)

(* Every thread runs.  A foreign peer need not do anything.                 *)
InterFairness ==
  /\ \A b \in Router : WF_interVars(RouterStep(b))
  /\ \A w \in RouterWorker : WF_interVars(DoWork(w))
  /\ \A c \in RouterClient : WF_interVars(ReadAnswer(c))

InterSpec == RouterInit /\ [][InterNext]_interVars /\ InterFairness

-----------------------------------------------------------------------------
(* Where a broker counts on the worker w: it never holds two requests, and  *)
(* is in the pool once, whoever asks for the same worker in one poll.       *)
WorkerOnce ==
  \A w \in RouterWorker :
    Cardinality({i \in DOMAIN pool[WorkerHome[w]] : pool[WorkerHome[w]][i] = w})
      + Len(toWorker[w]) + Len(fromWorker[w]) = 1

ForeignersAsked ==
  \E f \in RouterClient : ClientHome[f] \in ForeignPeer /\ rounds[f] > 0

(* Brokers of this code never pass anything on, though each announces its   *)
(* idle workers to all, unless a foreign peer has passed something on to    *)
(* one: the frontends are polled only while a worker is idle, and only a    *)
(* request of a peer could take it from under the handler of the local one. *)
NothingPassedOn ==
  ~ForeignersAsked =>
    /\ passed = {}
    /\ \A b \in Router : remoteFront[b] = {} /\ remoteBack[b] = {}

(* The places of c's request and its answer.                                *)
PlacesOf(c) ==
  {<<"front", b>> : b \in {x \in Router : c \in localFront[x]}}
  \cup {<<"remote", b>> : b \in {x \in Router : c \in remoteFront[x]}}
  \cup {<<"back", b>> : b \in {x \in Router : c \in remoteBack[x]}}
  \cup {<<"passed", p>> : p \in {x \in {"any"} : c \in passed}}
  \cup {<<"answered", p>> : p \in {x \in {"any"} : c \in answered}}
  \cup {<<"worker", w>> : w \in {x \in RouterWorker :
          c \in {toWorker[x][i] : i \in DOMAIN toWorker[x]}
                \cup {fromWorker[x][i] : i \in DOMAIN fromWorker[x]}}}

(* A request is answered at most once, and none is lost unless a foreign    *)
(* peer has asked: then the worker that the poll promised may be gone.      *)
LostOnlyToForeigners ==
  \A c \in RouterClient :
    /\ Cardinality(PlacesOf(c)) <= 1
    /\ asking[c] /\ PlacesOf(c) = {} => ForeignersAsked

(* A client is answered, unless a foreign peer asks for clients of its own: *)
(* a request that waits while the last worker is busy is read when          *)
(* handleCapacity has taken the frontends back into the poller.             *)
ClientsServed ==
  \A c \in {x \in RouterClient : ClientHome[x] \in Router} :
    []<>(~asking[c] \/ ForeignersAsked)
=============================================================================
