----------------------------- MODULE AsyncServer -----------------------------
(***************************************************************************)
(* AsyncClientServer/AsyncClientServer.cpp: clients that send without      *)
(* waiting, workers that send several replies to a request, and a proxy    *)
(* between a ROUTER and a DEALER in the main thread, until SIGINT.         *)
(*                                                                         *)
(* Every reply ends a client's wait early, so that it sends one more       *)
(* request: the requests become ever more, until sockets are full.  Of a   *)
(* message only the client is modelled.  The signal comes to the main      *)
(* thread, as Linux has it while that thread takes it.  "ended" is the end *)
(* of main's joins, before the context waits for what sockets still hold.  *)
(***************************************************************************)
EXTENDS Naturals, Sequences, FiniteSets

CONSTANTS
  AsClient, AsWorker,
  Hwm,              \* how many messages a pipe holds
  MaxReplies        \* how many replies a worker sends at most

ASSUME AsyncServerAssumption == Hwm \in Nat \ {0} /\ MaxReplies \in Nat \ {0}

VARIABLES
  asIsRunning,      \* mIsRunning
  asMain,           \* "proxy", "joinClients", "joinWorkers" or "ended"
  asClient,         \* "waiting", "sending" or "ended"
  asWorker,         \* "waiting", "sending" or "ended"
  asUp,             \* how many requests of a client wait for the proxy
  asDown,           \* the requests that wait for a worker
  asHand,           \* the client a worker is answering ...
  asLeft,           \* ... and how many replies are left
  asBack,           \* the replies of a worker that wait for the proxy
  asReplies         \* how many replies wait for a client

asPipes == <<asUp, asDown, asBack, asReplies>>
asVars == <<asIsRunning, asMain, asClient, asWorker, asHand, asLeft, asPipes>>

Nobody == {}                         \* a set of at most one client

AsInit ==
  /\ asIsRunning = TRUE /\ asMain = "proxy"
  /\ asClient = [c \in AsClient |-> "waiting"]
  /\ asWorker = [w \in AsWorker |-> "waiting"]
  /\ asUp = [c \in AsClient |-> 0] /\ asReplies = [c \in AsClient |-> 0]
  /\ asDown = [w \in AsWorker |-> <<>>] /\ asBack = [w \in AsWorker |-> <<>>]
  /\ asHand = [w \in AsWorker |-> Nobody] /\ asLeft = [w \in AsWorker |-> 0]

-----------------------------------------------------------------------------
(* The wait of a client ends with a reply, which is read, or after a second.*)
AsClientWakes(c) ==
  /\ asClient[c] = "waiting"
  /\ asClient' = [asClient EXCEPT ![c] = "sending"]
  /\ asReplies' = [asReplies EXCEPT ![c] = IF @ = 0 THEN 0 ELSE @ - 1]
  /\ UNCHANGED <<asIsRunning, asMain, asWorker, asHand, asLeft, asUp, asDown,
                 asBack>>

(* The send blocks while the socket is full; then comes the loop's test.    *)
AsClientSends(c) ==
  /\ asClient[c] = "sending" /\ asUp[c] < Hwm
  /\ asUp' = [asUp EXCEPT ![c] = @ + 1]
  /\ asClient' = [asClient EXCEPT
                    ![c] = IF asIsRunning THEN "waiting" ELSE "ended"]
  /\ UNCHANGED <<asIsRunning, asMain, asWorker, asHand, asLeft, asDown, asBack,
                 asReplies>>

(* The handler of a worker, which loops over one to five replies.           *)
AsWorkerReceives(w) ==
  /\ asWorker[w] = "waiting" /\ asDown[w] # <<>>
  /\ asDown' = [asDown EXCEPT ![w] = Tail(@)]
  /\ asHand' = [asHand EXCEPT ![w] = {Head(asDown[w])}]
  /\ \E n \in 1 .. MaxReplies : asLeft' = [asLeft EXCEPT ![w] = n]
  /\ asWorker' = [asWorker EXCEPT ![w] = "sending"]
  /\ UNCHANGED <<asIsRunning, asMain, asClient, asUp, asBack, asReplies>>

AsWorkerReplies(w) ==
  /\ asWorker[w] = "sending" /\ Len(asBack[w]) < Hwm
  /\ \E c \in asHand[w] : asBack' = [asBack EXCEPT ![w] = Append(@, c)]
  /\ asLeft' = [asLeft EXCEPT ![w] = @ - 1]
  /\ IF asLeft[w] > 1 THEN UNCHANGED <<asWorker, asHand>>
     ELSE /\ asHand' = [asHand EXCEPT ![w] = Nobody]
          /\ asWorker' = [asWorker EXCEPT
                            ![w] = IF asIsRunning THEN "waiting" ELSE "ended"]
  /\ UNCHANGED <<asIsRunning, asMain, asClient, asUp, asDown, asReplies>>

(* Mutant: the worker's wait has no timeout.                                *)
AsWorkerEndsOnRequest(w) ==
  /\ asWorker[w] = "waiting" /\ ~asIsRunning /\ asDown[w] # <<>>
  /\ asWorker' = [asWorker EXCEPT ![w] = "ended"]
  /\ UNCHANGED <<asIsRunning, asMain, asClient, asHand, asLeft, asPipes>>

(* A wait of 100 ms in vain, and the loop's test.                           *)
AsWorkerEnds(w) ==
  /\ asWorker[w] = "waiting" /\ ~asIsRunning /\ asDown[w] = <<>>
  /\ asWorker' = [asWorker EXCEPT ![w] = "ended"]
  /\ UNCHANGED <<asIsRunning, asMain, asClient, asHand, asLeft, asPipes>>

-----------------------------------------------------------------------------
(* The proxy reads a request if the DEALER can send it to a worker, which   *)
(* has closed its socket when it has ended.                                 *)
AsForwardRequest(c) ==
  /\ asMain = "proxy" /\ asUp[c] > 0
  /\ asUp' = [asUp EXCEPT ![c] = @ - 1]
  /\ \E w \in AsWorker :
       /\ asWorker[w] # "ended" /\ Len(asDown[w]) < Hwm
       /\ asDown' = [asDown EXCEPT ![w] = Append(@, c)]
  /\ UNCHANGED <<asIsRunning, asMain, asClient, asWorker, asHand, asLeft, asBack,
                 asReplies>>

(* Mutant: a reply waits for room, as with DEALER or mandatory routing.     *)
AsForwardReplyIfRoom(w) ==
  /\ asMain = "proxy" /\ asBack[w] # <<>>
  /\ asReplies[Head(asBack[w])] < Hwm /\ asUp[Head(asBack[w])] < Hwm
  /\ asBack' = [asBack EXCEPT ![w] = Tail(@)]
  /\ asReplies' = [asReplies EXCEPT ![Head(asBack[w])] = @ + 1]
  /\ UNCHANGED <<asIsRunning, asMain, asClient, asWorker, asHand, asLeft, asUp,
                 asDown>>

(* A reply goes to the client, or is dropped: the ROUTER does not wait.     *)
AsForwardReply(w) ==
  /\ asMain = "proxy" /\ asBack[w] # <<>>
  /\ asBack' = [asBack EXCEPT ![w] = Tail(@)]
  /\ asReplies' = [asReplies EXCEPT
                     ![Head(asBack[w])] = IF @ < Hwm THEN @ + 1 ELSE @]
  /\ UNCHANGED <<asIsRunning, asMain, asClient, asWorker, asHand, asLeft, asUp,
                 asDown>>

(* SIGINT: the handler sets the flag, which zmq::proxy does not read.  The   *)
(* signal ends the proxy only if it interrupts its poll; while the proxy    *)
(* forwards it does not, and the proxy runs on, until another one.          *)
AsSignal ==
  /\ asMain = "proxy"
  /\ asIsRunning' = FALSE
  /\ asMain' \in {"proxy", "joinClients"}
  /\ UNCHANGED <<asClient, asWorker, asHand, asLeft, asPipes>>

AsJoin ==
  /\ \/ /\ asMain = "joinClients" /\ \A c \in AsClient : asClient[c] = "ended"
        /\ asMain' = "joinWorkers"
     \/ /\ asMain = "joinWorkers" /\ \A w \in AsWorker : asWorker[w] = "ended"
        /\ asMain' = "ended"
  /\ UNCHANGED <<asIsRunning, asClient, asWorker, asHand, asLeft, asPipes>>

AsClientStep(c) == AsClientWakes(c) \/ AsClientSends(c)
AsWorkerStep(w) == AsWorkerReceives(w) \/ AsWorkerReplies(w) \/ AsWorkerEnds(w)

AsNext ==
  \/ AsSignal \/ AsJoin
  \/ \E c \in AsClient : AsClientStep(c) \/ AsForwardRequest(c)
  \/ \E w \in AsWorker : AsWorkerStep(w) \/ AsForwardReply(w)

(* Every thread runs.  The sockets of the proxy are read in turn, so that   *)
(* no client is passed over whenever there is room for a request.           *)
AsFairness ==
  /\ WF_asVars(AsJoin)
  /\ \A c \in AsClient :
       WF_asVars(AsClientStep(c)) /\ SF_asVars(AsForwardRequest(c))
  /\ \A w \in AsWorker :
       WF_asVars(AsWorkerStep(w)) /\ WF_asVars(AsForwardReply(w))

AsSpec == AsInit /\ [][AsNext]_asVars /\ AsFairness

-----------------------------------------------------------------------------
(* Stuck in a send: nobody empties the socket that is full.                 *)
AsStuck ==
  \/ \E c \in AsClient : asClient[c] = "sending" /\ asUp[c] = Hwm
  \/ \E w \in AsWorker : asWorker[w] = "sending" /\ Len(asBack[w]) = Hwm

AsThreadsEnded ==
  /\ \A c \in AsClient : asClient[c] = "ended"
  /\ \A w \in AsWorker : asWorker[w] = "ended"

(* However many requests the replies lead to, the full sockets never block  *)
(* each other for good: a client that sends gets on, until the signal.      *)
(* After that all threads end and main joins them, or runs its proxy for    *)
(* nobody if the signal was lost on it; unless a client is stuck in a send  *)
(* because the proxy or the workers are gone, or a worker because the proxy *)
(* is.                                                                      *)
AsGetsOn ==
  \A c \in AsClient :
    []<>(IF asIsRunning THEN asClient[c] # "sending"
         ELSE AsStuck \/ (AsThreadsEnded /\ asMain \in {"proxy", "ended"}))
=============================================================================
