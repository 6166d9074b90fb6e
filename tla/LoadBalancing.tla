--------------------------- MODULE LoadBalancing ---------------------------
(***************************************************************************)
(* LoadBalancingBroker/LoadBalancingBroker.cpp: client and worker threads  *)
(* around a broker in the main thread, until SIGINT.                       *)
(*                                                                         *)
(* The signal goes to the main thread, whose poll it interrupts.  A client *)
(* does not look at mIsRunning; main joins the clients, then the workers.  *)
(***************************************************************************)
EXTENDS Sequences, FiniteSets

CONSTANTS LbClient, LbWorker

VARIABLES
  lbIsRunning,      \* mIsRunning
  lbMain,           \* "loop", "joinClients", "joinWorkers" or "ended"
  lbIdle,           \* idleWorkers
  lbEvents,         \* the handlers left of this wait
  lbFront,          \* the clients whose requests wait in the frontend
  lbHand,           \* the client whose request a worker has or was sent ...
  lbBack,           \* ... and what it has sent to the backend
  lbReplied,        \* the clients whose reply has been sent
  lbClient,         \* "new", "waiting" or "ended"
  lbWorker          \* "new", "running" or "ended"

lbMainVars == <<lbMain, lbIdle, lbEvents>>
lbThreadVars == <<lbClient, lbWorker>>
lbVars == <<lbIsRunning, lbMainVars, lbFront, lbHand, lbBack, lbReplied,
            lbThreadVars>>

NoOne == {}                          \* a set of at most one client
Notify == {}                         \* "ready": a reply to nobody

LbInit ==
  /\ lbIsRunning = TRUE /\ lbMain = "loop"
  /\ lbIdle = <<>> /\ lbEvents = {}
  /\ lbFront = {} /\ lbReplied = {}
  /\ lbHand = [w \in LbWorker |-> NoOne]
  /\ lbBack = [w \in LbWorker |-> <<>>]
  /\ lbClient = [c \in LbClient |-> "new"]
  /\ lbWorker = [w \in LbWorker |-> "new"]

-----------------------------------------------------------------------------
LbClientAsks(c) ==
  /\ lbClient[c] = "new"
  /\ lbClient' = [lbClient EXCEPT ![c] = "waiting"]
  /\ lbFront' = lbFront \cup {c}
  /\ UNCHANGED <<lbIsRunning, lbMainVars, lbHand, lbBack, lbReplied, lbWorker>>

LbClientEnds(c) ==
  /\ lbClient[c] = "waiting" /\ c \in lbReplied
  /\ lbClient' = [lbClient EXCEPT ![c] = "ended"]
  /\ lbReplied' = lbReplied \ {c}
  /\ UNCHANGED <<lbIsRunning, lbMainVars, lbFront, lbHand, lbBack, lbWorker>>

(* "ready", then the loop over what comes, which does not block.            *)
LbWorkerStarts(w) ==
  /\ lbWorker[w] = "new"
  /\ lbWorker' = [lbWorker EXCEPT ![w] = "running"]
  /\ lbBack' = [lbBack EXCEPT ![w] = <<Notify>>]
  /\ UNCHANGED <<lbIsRunning, lbMainVars, lbFront, lbHand, lbReplied, lbClient>>

LbWorkerReplies(w) ==
  /\ lbWorker[w] = "running" /\ lbHand[w] # NoOne
  /\ lbBack' = [lbBack EXCEPT ![w] = Append(@, lbHand[w])]
  /\ lbHand' = [lbHand EXCEPT ![w] = NoOne]
  /\ UNCHANGED <<lbIsRunning, lbMainVars, lbFront, lbReplied, lbThreadVars>>

(* Mutant: the receive blocks, so that only a request wakes a worker.       *)
LbWorkerEndsOnRequest(w) ==
  /\ lbWorker[w] = "running" /\ ~lbIsRunning /\ lbHand[w] # NoOne
  /\ lbWorker' = [lbWorker EXCEPT ![w] = "ended"]
  /\ lbHand' = [lbHand EXCEPT ![w] = NoOne]
  /\ UNCHANGED <<lbIsRunning, lbMainVars, lbFront, lbBack, lbReplied, lbClient>>

(* Its loop ends, whether or not there is a request in its socket.          *)
LbWorkerEnds(w) ==
  /\ lbWorker[w] = "running" /\ ~lbIsRunning
  /\ lbWorker' = [lbWorker EXCEPT ![w] = "ended"]
  /\ lbHand' = [lbHand EXCEPT ![w] = NoOne]
  /\ UNCHANGED <<lbIsRunning, lbMainVars, lbFront, lbBack, lbReplied, lbClient>>

-----------------------------------------------------------------------------
(* A wait, which looks at both sockets, whether workers are idle or not.    *)
LbPoll ==
  /\ lbMain = "loop" /\ lbEvents = {} /\ lbIsRunning
  /\ lbEvents' = {e \in {"front"} : lbFront # {}}
                 \cup {e \in {"back"} : \E w \in LbWorker : lbBack[w] # <<>>}
  /\ UNCHANGED <<lbIsRunning, lbMain, lbIdle, lbFront, lbHand, lbBack, lbReplied,
                 lbThreadVars>>

(* The handler of the backend.                                              *)
LbHandleBack(w) ==
  /\ "back" \in lbEvents /\ lbBack[w] # <<>>
  /\ lbEvents' = lbEvents \ {"back"}
  /\ lbBack' = [lbBack EXCEPT ![w] = Tail(@)]
  /\ lbIdle' = Append(lbIdle, w)
  /\ lbReplied' = lbReplied \cup Head(lbBack[w])
  /\ UNCHANGED <<lbIsRunning, lbMain, lbFront, lbHand, lbThreadVars>>

LbNoIdleWorkers ==
  /\ "front" \in lbEvents /\ lbIdle = <<>>
  /\ lbEvents' = lbEvents \ {"front"}
  /\ UNCHANGED <<lbIsRunning, lbMain, lbIdle, lbFront, lbHand, lbBack, lbReplied,
                 lbThreadVars>>

(* Mutant: the worker stays at the head of the queue.                       *)
LbHandleFrontWithoutPop(c) ==
  /\ "front" \in lbEvents /\ lbIdle # <<>> /\ c \in lbFront
  /\ lbEvents' = lbEvents \ {"front"}
  /\ lbFront' = lbFront \ {c}
  /\ lbHand' = [lbHand EXCEPT ![Head(lbIdle)] =
                  IF lbWorker[Head(lbIdle)] = "running" THEN {c} ELSE @]
  /\ UNCHANGED <<lbIsRunning, lbMain, lbIdle, lbBack, lbReplied, lbThreadVars>>

(* The handler of the frontend.                                             *)
LbHandleFront(c) ==
  /\ "front" \in lbEvents /\ lbIdle # <<>> /\ c \in lbFront
  /\ lbEvents' = lbEvents \ {"front"}
  /\ lbFront' = lbFront \ {c}
  /\ lbIdle' = Tail(lbIdle)
  /\ lbHand' = [lbHand EXCEPT ![Head(lbIdle)] =
                  IF lbWorker[Head(lbIdle)] = "running" THEN {c} ELSE @]
  /\ UNCHANGED <<lbIsRunning, lbMain, lbBack, lbReplied, lbThreadVars>>

LbLoopEnds ==
  /\ lbMain = "loop" /\ lbEvents = {} /\ ~lbIsRunning
  /\ lbMain' = "joinClients"
  /\ UNCHANGED <<lbIsRunning, lbIdle, lbEvents, lbFront, lbHand, lbBack,
                 lbReplied, lbThreadVars>>

LbJoin ==
  /\ \/ /\ lbMain = "joinClients" /\ \A c \in LbClient : lbClient[c] = "ended"
        /\ lbMain' = "joinWorkers"
     \/ /\ lbMain = "joinWorkers" /\ \A w \in LbWorker : lbWorker[w] = "ended"
        /\ lbMain' = "ended"
  /\ UNCHANGED <<lbIsRunning, lbIdle, lbEvents, lbFront, lbHand, lbBack,
                 lbReplied, lbThreadVars>>

LbMainStep ==
  \/ LbPoll \/ LbNoIdleWorkers \/ LbLoopEnds \/ LbJoin
  \/ \E w \in LbWorker : LbHandleBack(w)
  \/ \E c \in LbClient : LbHandleFront(c)

(* The signal handler.                                                      *)
LbSignal ==
  /\ lbIsRunning
  /\ lbIsRunning' = FALSE
  /\ UNCHANGED <<lbMainVars, lbFront, lbHand, lbBack, lbReplied, lbThreadVars>>

LbClientStep(c) == LbClientAsks(c) \/ LbClientEnds(c)
LbWorkerStep(w) == LbWorkerStarts(w) \/ LbWorkerReplies(w) \/ LbWorkerEnds(w)

LbNext ==
  \/ LbMainStep \/ LbSignal
  \/ \E c \in LbClient : LbClientStep(c)
  \/ \E w \in LbWorker : LbWorkerStep(w)

(* Every thread runs.  A busy frontend does not keep the poller from the    *)
(* backend: one wait reports both.                                          *)
LbFairness ==
  /\ WF_lbVars(LbMainStep)
  /\ \A c \in LbClient : WF_lbVars(LbClientStep(c))
  /\ \A w \in LbWorker : WF_lbVars(LbWorkerStep(w))

LbSpec == LbInit /\ [][LbNext]_lbVars /\ LbFairness

-----------------------------------------------------------------------------
(* What is with a client that waits for good.                               *)
LbLeftBehind(c) ==
  /\ lbMain = "joinClients" /\ lbClient[c] = "waiting" /\ c \notin lbReplied

(* While nobody interrupts, no client waits for ever, though there may be   *)
(* fewer workers and the frontend is announced while none is idle.  After   *)
(* the signal the program ends, unless a client has asked for what the main *)
(* thread has not sent when it leaves its loop: then it joins that client   *)
(* for ever.  No worker keeps it from ending.                               *)
LbGetsOn ==
  []<>(IF lbIsRunning
         THEN \A c \in LbClient : lbClient[c] # "waiting"
         ELSE \/ lbMain = "ended"
              \/ /\ \E c \in LbClient : LbLeftBehind(c)
                 /\ \A w \in LbWorker : lbWorker[w] # "running")
=============================================================================
