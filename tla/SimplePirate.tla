---------------------------- MODULE SimplePirate ----------------------------
(***************************************************************************)
(* A queue that hands requests to the worker that is idle for longest      *)
(* (SimplePirate/SimplePirateQueue.cpp), its workers                       *)
(* (SimplePirateWorker.cpp) and the clients of the Lazy Pirate, who bring  *)
(* the patience: the queue never learns that a worker died.                *)
(*                                                                         *)
(* A request is <<client, attempt>>; each attempt has a socket of its own. *)
(* Timeouts come at any time.  `spEvents' is what is left of a wait.       *)
(***************************************************************************)
EXTENDS Integers, Sequences, FiniteSets

CONSTANTS
  PirateWorker,     \* the workers, one for each process ever started
  PirateClient,     \* the clients, each with one request
  Attempts,         \* 1 + gRequestRetries
  MaxDead           \* bound: how many workers die

ASSUME SimplePirateAssumption == Attempts \in Nat \ {0} /\ MaxDead \in Nat

VARIABLES
  spIdle,           \* idleWorkers
  spFrontPolled,    \* the frontend is polled
  spEvents,         \* the handlers left of this wait
  spFront,          \* the requests in the frontend
  spDown,           \* those on the way to a worker or in its hands
  spUp,             \* what a worker said
  spWorker,         \* "off", "up" or "dead"
  spAnswers,        \* the answers in the sockets of clients
  spClient,         \* "off", "waiting", "done" or "abandoned"
  attempt           \* which attempt the client is at

spQueueVars == <<spIdle, spFrontPolled, spEvents>>
spClientVars == <<spClient, attempt>>
spVars == <<spQueueVars, spFront, spDown, spUp, spWorker, spAnswers,
            spClientVars>>

Asking == PirateClient \X (1 .. Attempts)
SaysReady == <<>>             \* "ready", where a request may be, too

SimplePirateInit ==
  /\ spIdle = <<>> /\ spFrontPolled = TRUE /\ spEvents = {}
  /\ spFront = {} /\ spAnswers = {}
  /\ spDown = [w \in PirateWorker |-> <<>>]
  /\ spUp = [w \in PirateWorker |-> <<>>]
  /\ spWorker = [w \in PirateWorker |-> "off"]
  /\ spClient = [c \in PirateClient |-> "off"]
  /\ attempt = [c \in PirateClient |-> 1]

-----------------------------------------------------------------------------
(* The queue.                                                               *)

(* Mutant: the poller gets back no frontend that it has lost.               *)
FrontWhileAnyIdle == spFrontPolled /\ spIdle # <<>>

FrontWanted == spIdle # <<>>

(* The head of the loop, and a wait that finds something.                   *)
SpPoll ==
  /\ spEvents = {}
  /\ spFrontPolled' = FrontWanted
  /\ spEvents' = {e \in {"front"} : FrontWanted /\ spFront # {}}
                 \cup {e \in {"back"} : \E w \in PirateWorker : spUp[w] # <<>>}
  /\ spEvents' # {} \/ spFrontPolled' # spFrontPolled
  /\ UNCHANGED <<spIdle, spFront, spDown, spUp, spWorker, spAnswers,
                 spClientVars>>

(* What is sent to a worker that died is dropped.                           *)
SentToWorker(w, a) ==
  IF spWorker[w] = "up" THEN [spDown EXCEPT ![w] = Append(@, a)] ELSE spDown

(* Mutant: the worker is looked up and not taken off the queue.             *)
HandleFrontWithoutPop(a) ==
  /\ "front" \in spEvents /\ a \in spFront
  /\ spEvents' = spEvents \ {"front"}
  /\ spFront' = spFront \ {a}
  /\ spDown' = SentToWorker(Head(spIdle), a)
  /\ UNCHANGED <<spIdle, spFrontPolled, spUp, spWorker, spAnswers, spClientVars>>

(* handleFront is called only while a worker is idle.                       *)
HandleFront(a) ==
  /\ "front" \in spEvents /\ a \in spFront
  /\ spEvents' = spEvents \ {"front"}
  /\ spFront' = spFront \ {a}
  /\ spIdle' = Tail(spIdle)
  /\ spDown' = SentToWorker(Head(spIdle), a)
  /\ UNCHANGED <<spFrontPolled, spUp, spWorker, spAnswers, spClientVars>>

(* handleBack: an answer to a socket that is closed is dropped.             *)
HandleBack(w) ==
  /\ "back" \in spEvents /\ spUp[w] # <<>>
  /\ spEvents' = spEvents \ {"back"}
  /\ spUp' = [spUp EXCEPT ![w] = Tail(@)]
  /\ spIdle' = Append(spIdle, w)
  /\ LET said == Head(spUp[w])
     IN  spAnswers' = spAnswers \cup
           {a \in {said} \ {SaysReady} :
              spClient[a[1]] = "waiting" /\ attempt[a[1]] = a[2]}
  /\ UNCHANGED <<spFrontPolled, spFront, spDown, spWorker, spClientVars>>

SpQueueStep ==
  \/ SpPoll
  \/ \E a \in Asking : HandleFront(a)
  \/ \E w \in PirateWorker : HandleBack(w)

-----------------------------------------------------------------------------
(* The workers.                                                             *)
SpWorkerStarts(w) ==
  /\ spWorker[w] = "off"
  /\ spWorker' = [spWorker EXCEPT ![w] = "up"]
  /\ spUp' = [spUp EXCEPT ![w] = <<SaysReady>>]
  /\ UNCHANGED <<spQueueVars, spFront, spDown, spAnswers, spClientVars>>

SpWorkerReplies(w) ==
  /\ spWorker[w] = "up" /\ spDown[w] # <<>>
  /\ spDown' = [spDown EXCEPT ![w] = Tail(@)]
  /\ spUp' = [spUp EXCEPT ![w] = Append(@, Head(spDown[w]))]
  /\ UNCHANGED <<spQueueVars, spFront, spWorker, spAnswers, spClientVars>>

(* The simulated crash, or any other death of the process.  What it has     *)
(* sent arrives, unless it was still in the socket; what the queue was told *)
(* of is there to be read.                                                  *)
SpWorkerDies(w) ==
  /\ spWorker[w] = "up"
  /\ Cardinality({x \in PirateWorker : spWorker[x] = "dead"}) < MaxDead
  /\ spWorker' = [spWorker EXCEPT ![w] = "dead"]
  /\ spDown' = [spDown EXCEPT ![w] = <<>>]
  /\ \E kept \in {spUp[w], <<>>} :
       /\ "back" \in spEvents => kept # <<>> \/ \E x \in PirateWorker \ {w} :
                                                 spUp[x] # <<>>
       /\ spUp' = [spUp EXCEPT ![w] = kept]
  /\ UNCHANGED <<spQueueVars, spFront, spAnswers, spClientVars>>

-----------------------------------------------------------------------------
(* The clients.                                                             *)
SpAsk(c) ==
  /\ spClient[c] = "off"
  /\ spClient' = [spClient EXCEPT ![c] = "waiting"]
  /\ spFront' = spFront \cup {<<c, 1>>}
  /\ UNCHANGED <<spQueueVars, spDown, spUp, spWorker, spAnswers, attempt>>

SpAnswered(c) ==
  /\ <<c, attempt[c]>> \in spAnswers
  /\ spAnswers' = spAnswers \ {<<c, attempt[c]>>}
  /\ spClient' = [spClient EXCEPT ![c] = "done"]
  /\ UNCHANGED <<spQueueVars, spFront, spDown, spUp, spWorker, attempt>>

(* A wait ends without an answer: the socket is closed, linger 0, and the   *)
(* request gone with it unless it has left; a new socket or the end.        *)
SpTimeout(c) ==
  /\ spClient[c] = "waiting" /\ <<c, attempt[c]>> \notin spAnswers
  /\ \E kept \in {spFront, spFront \ {<<c, attempt[c]>>}} :
       /\ "front" \in spEvents => kept # {}
       /\ IF attempt[c] < Attempts
            THEN /\ attempt' = [attempt EXCEPT ![c] = @ + 1]
                 /\ spFront' = kept \cup {<<c, attempt[c] + 1>>}
                 /\ UNCHANGED spClient
            ELSE /\ spClient' = [spClient EXCEPT ![c] = "abandoned"]
                 /\ spFront' = kept
                 /\ UNCHANGED attempt
  /\ UNCHANGED <<spQueueVars, spDown, spUp, spWorker, spAnswers>>

SimplePirateNext ==
  \/ SpQueueStep
  \/ \E w \in PirateWorker :
       SpWorkerStarts(w) \/ SpWorkerReplies(w) \/ SpWorkerDies(w)
  \/ \E c \in PirateClient : SpAsk(c) \/ SpAnswered(c) \/ SpTimeout(c)

(* The queue and the workers run; nobody need start, die or time out.       *)
SimplePirateFairness ==
  /\ WF_spVars(SpQueueStep)
  /\ \A w \in PirateWorker : WF_spVars(SpWorkerReplies(w))

SimplePirateSpec ==
  SimplePirateInit /\ [][SimplePirateNext]_spVars
  /\ SimplePirateFairness

-----------------------------------------------------------------------------
Dead == {w \in PirateWorker : spWorker[w] = "dead"}
Said(w) == {spUp[w][i] : i \in DOMAIN spUp[w]}
Given(w) == {spDown[w][i] : i \in DOMAIN spDown[w]}

(* The requests that their clients wait for in vain.                        *)
Lost ==
  {a \in Asking :
     /\ spClient[a[1]] = "waiting" /\ attempt[a[1]] = a[2]
     /\ a \notin spFront \cup spAnswers
     /\ \A w \in PirateWorker : a \notin Said(w) \cup Given(w)}

(* Each worker that dies costs one request and no more: it is the one in    *)
(* its hands, or, since the queue has it in its list or will have, the one  *)
(* that it will be sent.  No worker is ever in the list twice.              *)
LossesArePaid ==
  LET Listed == {spIdle[i] : i \in DOMAIN spIdle}
  IN  /\ Cardinality(Lost)
           <= Cardinality({w \in Dead : w \notin Listed /\ spUp[w] = <<>>})
      /\ Cardinality(Listed) = Len(spIdle)

(* The requests in the frontend are taken up unless all workers are dead or *)
(* never started, though the frontend leaves the poller time and again.     *)
AskedIsTaken ==
  []<>(spFront = {} \/ \A w \in PirateWorker : spWorker[w] # "up")
=============================================================================
