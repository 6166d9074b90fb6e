------------------------- MODULE ParanoidPirateQueue -------------------------
(***************************************************************************)
(* The queue of the Paranoid Pirate, ParanoidPirateQueue.cpp with          *)
(* WorkerQueue.{h,cpp}, and its two ROUTER sockets.                        *)
(*                                                                         *)
(* A request is known by the socket it came from: a client opens a socket  *)
(* for each attempt, so the n-th attempt of c is the address <<c, n>>.     *)
(* The front socket reads its peers in turn; as each says one thing only,  *)
(* what waits there is a set.  A worker keeps its identity all its life.   *)
(***************************************************************************)
EXTENDS Subsequences

CONSTANTS
  UpAtFirst,        \* whether the queue runs before anyone else
  Worker,           \* the identities of workers
  Client,           \* the client processes
  Retries,          \* gRequestRetries
  Expiry,           \* gExpiryDuration, in ticks of a second
  Hwm               \* more than a back connection ever holds (1000 in libzmq)

ASSUME QueueAssumption ==
  /\ UpAtFirst \in BOOLEAN
  /\ Retries \in Nat
  /\ Expiry \in Nat \ {0}
  /\ Hwm \in Nat \ {0}

Address == Client \X (1 .. Retries + 1)

Ready == [type |-> "ready"]
Heartbeat == [type |-> "heartbeat"]
Work(a) == [type |-> "work", addr |-> a]      \* a request, or its reply

WorkMsg == {Work(a) : a \in Address}
UpMsg == {Ready, Heartbeat} \cup WorkMsg
DownMsg == {Heartbeat} \cup WorkMsg

VARIABLES
  up,               \* the queue process runs
  todo,             \* what is left of the iteration of its loop
  mWorkers,         \* WorkerQueue::mWorkers
  beat,             \* ticks until mDeadline
  asked,            \* the requests at the front socket
  answers,          \* the replies in the sockets of the clients
  sockets,          \* the client sockets that are open
  connected,        \* the workers with an open socket
  backUp,           \* from the workers to the queue
  backDown          \* from the queue to the workers

queueVars == <<up, todo, mWorkers, beat>>
frontVars == <<asked, answers, sockets>>
backVars == <<connected, backUp, backDown>>

Entry == [identity : Worker, ttl : 0 .. Expiry]

QueueTypeOK ==
  /\ up \in BOOLEAN
  /\ todo \subseteq {"front", "back", "house"}
  /\ mWorkers \in Seq(Entry)
  /\ beat \in 0 .. Expiry
  /\ {asked, answers, sockets} \subseteq SUBSET Address
  /\ connected \subseteq Worker
  /\ backUp \in [Worker -> Seq(UpMsg)]
  /\ backDown \in [Worker -> Seq(DownMsg)]
  /\ \A w \in Worker : Len(backUp[w]) <= Hwm /\ Len(backDown[w]) <= Hwm

QueueInit ==
  /\ up = UpAtFirst
  /\ todo = {}
  /\ mWorkers = <<>>
  /\ beat = 0
  /\ asked = {} /\ answers = {} /\ sockets = {}
  /\ connected = {}
  /\ backUp = [w \in Worker |-> <<>>]
  /\ backDown = [w \in Worker |-> <<>>]

-----------------------------------------------------------------------------
(* WorkerQueue.                                                             *)

Listed(q) == {q[i].identity : i \in 1 .. Len(q)}

(* Mutant: the identity is not looked for.                                  *)
AddAlways(q, w) == Append(q, [identity |-> w, ttl |-> Expiry])

(* add: an identity that is there already keeps its place and its expiry.   *)
Add(q, w) ==
  IF w \in Listed(q) THEN q ELSE Append(q, [identity |-> w, ttl |-> Expiry])

(* remove: all entries of that name.                                       *)
Removed(q, w) == Pick(q, {i \in DOMAIN q : q[i].identity # w})

(* refresh: the first entry of that name.                                   *)
Refresh(q, w) ==
  LET isFirst(i) == /\ q[i].identity = w
                    /\ \A j \in 1 .. i - 1 : q[j].identity # w
  IN  [i \in DOMAIN q |-> IF isFirst(i) THEN [q[i] EXCEPT !.ttl = Expiry]
                                       ELSE q[i]]

(* Mutant: the purge stops at the first worker that lives (as if the list   *)
(* were in the order of the expiries).                                      *)
AliveAfterFirst(q) ==
  IF q # <<>> /\ Head(q).ttl = 0 THEN Tail(q) ELSE q

Alive(q) == Pick(q, {i \in DOMAIN q : q[i].ttl > 0})

-----------------------------------------------------------------------------
(* The handlers.                                                            *)

(* A ROUTER socket drops what is for no one.                                *)
SendToWorker(w, m) ==
  backDown' = [backDown EXCEPT
                 ![w] = IF w \in connected THEN Append(@, m) ELSE @]

SendToClient(a) ==
  answers' = IF a \in sockets THEN answers \cup {a} ELSE answers

(* handleFront.  Without an idle worker nothing is read.                    *)
HandleFront ==
  /\ "front" \in todo
  /\ \/ /\ mWorkers = <<>>
        /\ UNCHANGED <<mWorkers, asked, backDown>>
     \/ /\ mWorkers # <<>>
        /\ \E a \in asked :
             /\ asked' = asked \ {a}
             /\ SendToWorker(Head(mWorkers).identity, Work(a))
        /\ mWorkers' = Tail(mWorkers)
  /\ todo' = todo \ {"front"}
  /\ UNCHANGED <<up, beat, answers, sockets, connected, backUp>>

(* handleBack.                                                              *)
HandleBack(w) ==
  /\ "back" \in todo /\ "front" \notin todo
  /\ backUp[w] # <<>>
  /\ LET m == Head(backUp[w])
     IN  CASE m.type = "ready" ->
                /\ mWorkers' = Add(Removed(mWorkers, w), w)
                /\ UNCHANGED answers
           [] m.type = "heartbeat" ->
                /\ mWorkers' = Refresh(mWorkers, w)
                /\ UNCHANGED answers
           [] m.type = "work" ->
                /\ SendToClient(m.addr)
                /\ mWorkers' = Add(mWorkers, w)
  /\ backUp' = [backUp EXCEPT ![w] = Tail(@)]
  /\ todo' = todo \ {"back"}
  /\ UNCHANGED <<up, beat, asked, sockets, connected, backDown>>

(* The poll returns.  Iterations that would change nothing are left out:    *)
(* those that find requests only, and no worker for them, among them.       *)
Readable == {x \in {"front"} : asked # {}}
            \cup {x \in {"back"} : \E w \in Worker : backUp[w] # <<>>}

SomethingToDo ==
  \/ "back" \in Readable
  \/ "front" \in Readable /\ mWorkers # <<>>
  \/ beat = 0
  \/ Alive(mWorkers) # mWorkers

QueueWait ==
  /\ up /\ todo = {}
  /\ SomethingToDo
  /\ todo' = Readable \cup {"house"}
  /\ UNCHANGED <<up, mWorkers, beat, frontVars, backVars>>

(* sendHeartbeat, to those that wait, the expired ones included; then       *)
(* purge.                                                                   *)
Housekeeping ==
  /\ todo = {"house"}
  /\ backDown' = [w \in Worker |->
       IF beat = 0 /\ w \in Listed(mWorkers) \cap connected
         THEN Append(backDown[w], Heartbeat) ELSE backDown[w]]
  /\ beat' = IF beat = 0 THEN Expiry ELSE beat
  /\ mWorkers' = Alive(mWorkers)
  /\ todo' = {}
  /\ UNCHANGED <<up, frontVars, connected, backUp>>

QueueStep ==
  \/ QueueWait
  \/ HandleFront
  \/ \E w \in Worker : HandleBack(w)
  \/ Housekeeping

-----------------------------------------------------------------------------
(* The process.                                                             *)

QueueStart ==
  /\ ~up
  /\ up' = TRUE
  /\ UNCHANGED <<todo, mWorkers, beat, frontVars, backVars>>

(* What a worker's present socket may still hold of the messages in q: none *)
(* is older than its last "ready", the first thing a socket says.           *)
Unsent(w) ==
  LET q == backUp[w]
      starts == {i \in 1 .. Len(q) + 1 : \A j \in i + 1 .. Len(q) : q[j] # Ready}
  IN  IF w \in connected THEN {SubSeq(q, i, Len(q)) : i \in starts}
                         ELSE {<<>>}

(* The queue dies with all it knows.  The requests in `kept' have not left  *)
(* their sockets; of the replies those in `arrived' have, and of the        *)
(* messages to a worker the oldest.                                         *)
QueueCrash ==
  /\ up
  /\ up' = FALSE
  /\ todo' = {}
  /\ mWorkers' = <<>>
  /\ beat' = 0
  /\ \E kept \in SUBSET (asked \cap sockets) : asked' = kept
  /\ \E arrived \in SUBSET answers : answers' = arrived
  /\ \E left \in [Worker -> UNION {Unsent(w) : w \in Worker}] :
       /\ \A w \in Worker : left[w] \in Unsent(w)
       /\ backUp' = left
  /\ \E n \in [Worker -> 0 .. Hwm] :
       /\ \A w \in Worker : n[w] <= Len(backDown[w])
       /\ backDown' = [w \in Worker |-> SubSeq(backDown[w], 1, n[w])]
  /\ UNCHANGED <<sockets, connected>>

QueueTick ==
  /\ beat' = IF beat = 0 THEN 0 ELSE beat - 1
  /\ mWorkers' = [i \in 1 .. Len(mWorkers) |->
                    [mWorkers[i] EXCEPT !.ttl = IF @ = 0 THEN 0 ELSE @ - 1]]
  /\ UNCHANGED <<up, todo>>
=============================================================================
