--------------------------- MODULE PatternsProofs ---------------------------
(***************************************************************************)
(* The properties of the small patterns, for any numbers of processes.     *)
(*                                                                         *)
(* InterBroker.  NothingPassedOn is not inductive: a broker passes a       *)
(* request on when its handler of the local frontend runs with an empty    *)
(* pool.  It never does: the poll that announced the frontend saw an idle  *)
(* worker, and only the handler of the remote frontend could have taken it *)
(* since.  That one has nothing to do, because no peer passes anything on; *)
(* and so the argument needs the answers, too, which go to peers only for  *)
(* requests of theirs.  WorkerOnce counts the places a worker can be in:   *)
(* the pool and the two queues of its connection.  LostOnlyToForeigners    *)
(* counts those of a request: Undisturbed keeps it away from foreign peers *)
(* until one asks, and the handlers only move it.                          *)
(*                                                                         *)
(* Freelance.  Numbers that wait in the PAIR socket have been had by no    *)
(* server, and every number by one at most: Holds says who had it.         *)
(*                                                                         *)
(* Simple Pirate.  Each request that is lost is paid for by a dead worker, *)
(* one that has left the list and will not come back to it.  OnePlace says *)
(* why no worker pays twice.                                               *)
(*                                                                         *)
(* Lazy Pirate.  What the server has yet to do for a client that is alone, *)
(* less the time it is given, shrinks with every attempt; an overload adds *)
(* to it once.                                                             *)
(*                                                                         *)
(* Task pipeline.  What was sent is in the queues of workers, in the       *)
(* sink's socket or received, so that the sink's count is right.           *)
(*                                                                         *)
(* The codecs   A message is put into frames and read again, one type      *)
(* after the other; the frames themselves do not matter.                   *)
(***************************************************************************)
EXTENDS InterBroker, Freelance, SimplePirate, LazyPirate, TaskPipeline,
        MajordomoCodec, SequenceTheorems, FiniteSetTheorems, FunctionTheorems, TLAPS

(* Lists without repetitions                                               *)
(* A list without repetitions, when its first element is taken or one that  *)
(* is not in it is added; and its length.                                   *)
Elements(q) == {q[i] : i \in DOMAIN q}
NoRepeats(q) == \A i, j \in DOMAIN q : q[i] = q[j] => i = j

LEMMA ListTaken ==
  ASSUME NEW S, NEW q \in Seq(S), q # <<>>, NoRepeats(q)
  PROVE  /\ Tail(q) \in Seq(S) /\ Head(q) \in S /\ NoRepeats(Tail(q))
         /\ Head(q) \in Elements(q)
         /\ \A x : x \in Elements(Tail(q)) <=> x \in Elements(q) /\ x # Head(q)
<1>1. /\ Len(q) \in Nat /\ Len(q) >= 1 /\ DOMAIN q = 1 .. Len(q)
      /\ DOMAIN Tail(q) = 1 .. Len(q) - 1
      /\ \A i \in 1 .. Len(q) - 1 : Tail(q)[i] = q[i + 1]
      /\ Head(q) = q[1]
      /\ Tail(q) \in Seq(S) /\ Head(q) \in S
  BY HeadTailProperties, EmptySeq, LenProperties
<1>2. Head(q) \in Elements(q)
  BY <1>1 DEF Elements
<1>3. NoRepeats(Tail(q))
  <2> SUFFICES ASSUME NEW i \in DOMAIN Tail(q), NEW j \in DOMAIN Tail(q),
                      Tail(q)[i] = Tail(q)[j]
               PROVE  i = j
    BY DEF NoRepeats
  <2>1. i + 1 \in DOMAIN q /\ j + 1 \in DOMAIN q /\ q[i + 1] = q[j + 1]
    BY <1>1
  <2>2. i + 1 = j + 1
    BY <2>1 DEF NoRepeats
  <2> QED
    BY <1>1, <2>2
<1>4. ASSUME NEW x, x \in Elements(Tail(q))
      PROVE  x \in Elements(q) /\ x # Head(q)
  <2>1. PICK i \in 1 .. Len(q) - 1 : x = q[i + 1]
    BY <1>1, <1>4 DEF Elements
  <2>2. i + 1 \in DOMAIN q /\ 1 \in DOMAIN q /\ i + 1 # 1
    BY <1>1
  <2> QED
    BY <1>1, <2>1, <2>2 DEF Elements, NoRepeats
<1>5. ASSUME NEW x, x \in Elements(q), x # Head(q)
      PROVE  x \in Elements(Tail(q))
  <2>1. PICK i \in 1 .. Len(q) : x = q[i]
    BY <1>1, <1>5 DEF Elements
  <2>2. i # 1
    BY <1>1, <1>5, <2>1
  <2>3. i - 1 \in 1 .. Len(q) - 1 /\ q[(i - 1) + 1] = x
    BY <1>1, <2>1, <2>2
  <2> QED
    BY <1>1, <2>3 DEF Elements
<1> QED
  BY <1>1, <1>2, <1>3, <1>4, <1>5

LEMMA ListAdded ==
  ASSUME NEW S, NEW q \in Seq(S), NEW w \in S, NoRepeats(q), w \notin Elements(q)
  PROVE  /\ Append(q, w) \in Seq(S) /\ Append(q, w) # <<>>
         /\ NoRepeats(Append(q, w))
         /\ \A x : x \in Elements(Append(q, w)) <=> x \in Elements(q) \/ x = w
<1>1. /\ Len(q) \in Nat /\ DOMAIN q = 1 .. Len(q)
      /\ DOMAIN Append(q, w) = 1 .. Len(q) + 1
      /\ \A i \in 1 .. Len(q) : Append(q, w)[i] = q[i]
      /\ Append(q, w)[Len(q) + 1] = w
      /\ Append(q, w) \in Seq(S) /\ Append(q, w) # <<>>
  BY AppendProperties, LenProperties
<1>2. \A x : x \in Elements(Append(q, w)) <=> x \in Elements(q) \/ x = w
  BY <1>1 DEF Elements
<1>3. \A i \in 1 .. Len(q) : q[i] # w
  BY <1>1 DEF Elements
<1>4. NoRepeats(Append(q, w))
  <2> SUFFICES ASSUME NEW i \in 1 .. Len(q) + 1, NEW j \in 1 .. Len(q) + 1,
                      Append(q, w)[i] = Append(q, w)[j]
               PROVE  i = j
    BY <1>1 DEF NoRepeats
  <2>1. CASE i \in 1 .. Len(q) /\ j \in 1 .. Len(q)
    BY <1>1, <2>1 DEF NoRepeats
  <2>2. CASE i = Len(q) + 1 /\ j = Len(q) + 1
    BY <2>2
  <2>3. CASE i = Len(q) + 1 /\ j \in 1 .. Len(q)
    BY <1>1, <1>3, <2>3
  <2>4. CASE j = Len(q) + 1 /\ i \in 1 .. Len(q)
    BY <1>1, <1>3, <2>4
  <2> QED
    BY <1>1, <2>1, <2>2, <2>3, <2>4
<1> QED
  BY <1>1, <1>2, <1>4

LEMMA ListLength ==
  ASSUME NEW S, NEW q \in Seq(S), NoRepeats(q)
  PROVE  Cardinality(Elements(q)) = Len(q)
<1>1. /\ Len(q) \in Nat /\ DOMAIN q = 1 .. Len(q)
      /\ q = [i \in 1 .. Len(q) |-> q[i]]
  BY LenProperties
<1>2. q \in Bijection(1 .. Len(q), Elements(q))
  BY <1>1 DEF Bijection, Injection, Surjection, Elements, NoRepeats, IsInjective
<1>3. ExistsBijection(1 .. Len(q), Elements(q))
  BY <1>2 DEF ExistsBijection
<1> QED
  BY <1>1, <1>3, FS_CountingElements

-----------------------------------------------------------------------------
(* InterBroker                                                             *)
WorkersOf(b) == {w \in RouterWorker : WorkerHome[w] = b}
ClientsOf(b) == {c \in RouterClient : ClientHome[c] = b}

(* A broker keeps to itself: its requests are those of its clients, and so  *)
(* are those of its workers; it has no business with peers, and an idle     *)
(* worker is there for the request that it is about to read.                *)
KeepsToItself(b) ==
  /\ remoteFront[b] = {} /\ remoteBack[b] = {}
  /\ localFront[b] \subseteq ClientsOf(b)
  /\ events[b] \cap {"remoteFront", "remoteBack"} = {}
  /\ "localFront" \in events[b] => pool[b] # <<>>

WorkersAreLocal ==
  \A w \in RouterWorker :
    /\ toWorker[w] \in Seq(ClientsOf(WorkerHome[w]))
    /\ fromWorker[w] \in Seq(ClientsOf(WorkerHome[w]) \cup {IsReady})

PoolsAreLocal == \A b \in Router : pool[b] \in Seq(WorkersOf(b))

Undisturbed ==
  /\ passed = {}
  /\ WorkersAreLocal
  /\ \A b \in Router : KeepsToItself(b)

RouterInv ==
  /\ RouterTypeOK
  /\ PoolsAreLocal
  /\ ~ForeignersAsked => Undisturbed

-----------------------------------------------------------------------------
(* What a queue is after its first element is read, or one is added.        *)
LEMMA FirstRead ==
  ASSUME NEW S, NEW q \in Seq(S), q # <<>>
  PROVE  Head(q) \in S /\ Tail(q) \in Seq(S)
BY HeadTailProperties

LEMMA OneAdded ==
  ASSUME NEW S, NEW q \in Seq(S), NEW e \in S
  PROVE  Append(q, e) \in Seq(S) /\ Append(q, e) # <<>>
BY AppendProperties

(* What getLocalWorker leaves: the pool is shorter, its first worker has    *)
(* one more request, and no one else is concerned.                          *)
LEMMA GivenToWorker ==
  ASSUME RouterTypeOK, PoolsAreLocal,
         NEW b \in Router, NEW c \in RouterClient, GiveToWorker(b, c)
  PROVE  /\ pool' \in [Router -> Seq(RouterWorker)]
         /\ PoolsAreLocal'
         /\ toWorker' \in [RouterWorker -> Seq(RouterClient)]
         /\ \A w \in RouterWorker :
              toWorker'[w] # toWorker[w]
                => WorkerHome[w] = b /\ toWorker'[w] = Append(toWorker[w], c)
         /\ \A x \in Router \ {b} : pool'[x] = pool[x]
<1> DEFINE first == Head(pool[b])
<1>1. first \in WorkersOf(b) /\ Tail(pool[b]) \in Seq(WorkersOf(b))
  BY FirstRead DEF PoolsAreLocal, GiveToWorker
<1>2. first \in RouterWorker /\ Tail(pool[b]) \in Seq(RouterWorker)
  BY <1>1, FirstRead DEF RouterTypeOK, GiveToWorker
<1>3. Append(toWorker[first], c) \in Seq(RouterClient)
  BY <1>2, OneAdded DEF RouterTypeOK
<1>4. /\ pool' = [pool EXCEPT ![b] = Tail(pool[b])]
      /\ toWorker' = [toWorker EXCEPT ![first] = Append(toWorker[first], c)]
  BY DEF GiveToWorker
<1>5. /\ pool \in [Router -> Seq(RouterWorker)]
      /\ toWorker \in [RouterWorker -> Seq(RouterClient)]
  BY DEF RouterTypeOK
<1>6. PoolsAreLocal'
  BY <1>1, <1>4, <1>5 DEF PoolsAreLocal
<1> QED
  BY <1>1, <1>2, <1>3, <1>4, <1>5, <1>6 DEF WorkersOf

-----------------------------------------------------------------------------
(* Types, and pools of one's own workers, hold from the start and forever.  *)
LEMMA InitTyped ==
  ASSUME RouterInit
  PROVE  RouterTypeOK /\ PoolsAreLocal
<1>1. \A S : <<>> \in Seq(S)
  OBVIOUS
<1>2. <<IsReady>> \in Seq(RouterClient \cup {IsReady})
  OBVIOUS
<1>3. RouterTypeOK
  BY <1>1, <1>2, RouterAssumption DEF RouterInit, RouterTypeOK
<1> QED
  BY <1>1, <1>3 DEF RouterInit, PoolsAreLocal

(* One step of anyone keeps types and pools.                                *)
LEMMA StepTyped ==
  ASSUME RouterTypeOK, PoolsAreLocal, InterNext
  PROVE  RouterTypeOK' /\ PoolsAreLocal'
<1> USE DEF Peer
<1>1. CASE \E b \in Router : RouterStep(b)
  <2>1. PICK b \in Router : RouterStep(b)
    BY <1>1
  <2>2. CASE Poll(b)
    <3>1. Announced(b, HandleCapacity(b)) \subseteq Sockets
      BY DEF Announced, Sockets
    <3>2. HandleCapacity(b) \in BOOLEAN
      BY DEF HandleCapacity
    <3> QED
      BY <2>2, <3>1, <3>2
         DEF Poll, RouterTypeOK, PoolsAreLocal, wireVars, askVars
  <2>3. CASE BroadcastMyState(b)
    BY <2>3 DEF BroadcastMyState, RouterTypeOK, PoolsAreLocal, askVars
  <2>4. ASSUME NEW c \in RouterClient, HandleLocalFrontend(b, c)
        PROVE  RouterTypeOK' /\ PoolsAreLocal'
    <3> USE <2>4 DEF HandleLocalFrontend, Handles, askVars
    <3>1. CASE /\ GiveToWorker(b, c)
               /\ UNCHANGED <<idlePeers, remoteFront, passed>>
      BY <3>1, GivenToWorker DEF RouterTypeOK
    <3>2. CASE PassOn(b, c) /\ UNCHANGED <<pool, toWorker>>
      <4>1. PICK p \in idlePeers[b] :
              /\ idlePeers' = [idlePeers EXCEPT ![b] = @ \ {p}]
              /\ IF p \in Router
                   THEN /\ remoteFront' = [remoteFront EXCEPT ![p] = @ \cup {c}]
                        /\ UNCHANGED passed
                   ELSE passed' = passed \cup {c} /\ UNCHANGED remoteFront
        BY <3>2 DEF PassOn
      <4>2. /\ remoteFront' \in [Router -> SUBSET RouterClient]
            /\ passed' \subseteq RouterClient
            /\ idlePeers' \in [Router -> SUBSET Peer]
        <5>1. /\ remoteFront \in [Router -> SUBSET RouterClient]
              /\ passed \subseteq RouterClient
              /\ idlePeers \in [Router -> SUBSET Peer]
          BY DEF RouterTypeOK
        <5> HIDE <2>4
        <5>2. idlePeers' \in [Router -> SUBSET Peer]
          BY <4>1, <5>1
        <5>3. CASE p \in Router
          BY <4>1, <5>1, <5>2, <5>3
        <5>4. CASE p \notin Router
          BY <4>1, <5>1, <5>2, <5>4
        <5> QED
          BY <5>3, <5>4
      <4> QED
        BY <3>2, <4>2 DEF RouterTypeOK, PoolsAreLocal
    <3>3. CASE UNCHANGED <<pool, toWorker, idlePeers, remoteFront, passed>>
      BY <3>3 DEF RouterTypeOK, PoolsAreLocal
    <3> QED
      BY <3>1, <3>2, <3>3
  <2>5. ASSUME NEW c \in RouterClient, HandleRemoteFrontend(b, c)
        PROVE  RouterTypeOK' /\ PoolsAreLocal'
    <3> USE <2>5 DEF HandleRemoteFrontend, Handles, askVars
    <3>1. CASE GiveToWorker(b, c)
      BY <3>1, GivenToWorker DEF RouterTypeOK
    <3>2. CASE UNCHANGED <<pool, toWorker>>
      BY <3>2 DEF RouterTypeOK, PoolsAreLocal
    <3> QED
      BY <3>1, <3>2
  <2>6. ASSUME NEW c \in RouterClient, HandleRemoteBackend(b, c)
        PROVE  RouterTypeOK' /\ PoolsAreLocal'
    BY <2>6 DEF HandleRemoteBackend, Handles, RouterTypeOK, PoolsAreLocal,
                askVars
  <2>7. ASSUME NEW w \in RouterWorker, HandleLocalBackend(b, w)
        PROVE  RouterTypeOK' /\ PoolsAreLocal'
    <3> DEFINE said == Head(fromWorker[w])
    <3>1. /\ said \in RouterClient \cup {IsReady}
          /\ Tail(fromWorker[w]) \in Seq(RouterClient \cup {IsReady})
      BY <2>7, FirstRead DEF HandleLocalBackend, RouterTypeOK
    <3>2. /\ Append(pool[b], w) \in Seq(RouterWorker)
          /\ Append(pool[b], w) \in Seq(WorkersOf(b))
      BY <2>7, OneAdded
         DEF HandleLocalBackend, RouterTypeOK, PoolsAreLocal, WorkersOf
    <3>3. /\ answered' \subseteq RouterClient
          /\ remoteBack' \in [Router -> SUBSET RouterClient]
      <4>1. answered \subseteq RouterClient /\
            remoteBack \in [Router -> SUBSET RouterClient]
        BY DEF RouterTypeOK
      <4>2. CASE UNCHANGED <<answered, remoteBack>>
        BY <4>1, <4>2
      <4>3. CASE said \in RouterClient /\ AnswerOf(b, said)
        BY <4>1, <4>3 DEF AnswerOf
      <4> QED
        BY <2>7, <3>1, <4>2, <4>3 DEF HandleLocalBackend
    <3> QED
      BY <2>7, <3>1, <3>2, <3>3
         DEF HandleLocalBackend, Handles, RouterTypeOK, PoolsAreLocal, askVars
  <2>8. ASSUME NEW p \in Peer, HandleStateUpdate(b, p)
        PROVE  RouterTypeOK' /\ PoolsAreLocal'
    BY <2>8 DEF HandleStateUpdate, Handles, RouterTypeOK, PoolsAreLocal, askVars
  <2> QED
    BY <2>1, <2>2, <2>3, <2>4, <2>5, <2>6, <2>7, <2>8 DEF RouterStep
<1>2. ASSUME NEW w \in RouterWorker, DoWork(w)
      PROVE  RouterTypeOK' /\ PoolsAreLocal'
  <2>1. /\ Head(toWorker[w]) \in RouterClient
        /\ Tail(toWorker[w]) \in Seq(RouterClient)
    BY <1>2, FirstRead DEF DoWork, RouterTypeOK
  <2>2. Append(fromWorker[w], Head(toWorker[w]))
          \in Seq(RouterClient \cup {IsReady})
    BY <2>1, OneAdded DEF RouterTypeOK
  <2> QED
    BY <1>2, <2>1, <2>2
       DEF DoWork, RouterTypeOK, PoolsAreLocal, routerVars, askVars
<1>3. ASSUME NEW c \in RouterClient,
             DoRequest(c) \/ ReadAnswer(c) \/ ForeignAnswers(c)
      PROVE  RouterTypeOK' /\ PoolsAreLocal'
  <2>1. CASE DoRequest(c)
    <3>1. /\ asking' \in [RouterClient -> BOOLEAN]
          /\ rounds' \in [RouterClient -> 0 .. Rounds]
      BY <2>1, RouterAssumption DEF DoRequest, RouterTypeOK
    <3>2. /\ localFront' \in [Router -> SUBSET RouterClient]
          /\ remoteFront' \in [Router -> SUBSET RouterClient]
      <4>1. /\ localFront \in [Router -> SUBSET RouterClient]
            /\ remoteFront \in [Router -> SUBSET RouterClient]
        BY DEF RouterTypeOK
      <4>2. CASE ClientHome[c] \in Router
        BY <2>1, <4>1, <4>2 DEF DoRequest
      <4>3. CASE ClientHome[c] \notin Router
        BY <2>1, <4>1, <4>3 DEF DoRequest
      <4> QED
        BY <4>2, <4>3
    <3> QED
      BY <2>1, <3>1, <3>2
         DEF DoRequest, RouterTypeOK, PoolsAreLocal, routerVars
  <2>2. CASE ReadAnswer(c)
    BY <2>2 DEF ReadAnswer, RouterTypeOK, PoolsAreLocal, routerVars
  <2>3. CASE ForeignAnswers(c)
    BY <2>3 DEF ForeignAnswers, RouterTypeOK, PoolsAreLocal, routerVars, askVars
  <2> QED
    BY <1>3, <2>1, <2>2, <2>3
<1>4. ASSUME NEW f \in ForeignPeer, NEW b \in Router, ForeignPublishes(f, b)
      PROVE  RouterTypeOK' /\ PoolsAreLocal'
  <2>1. PICK state \in {"idle", "busy"} :
          news' = [news EXCEPT ![b][f] = state]
    BY <1>4 DEF ForeignPublishes
  <2>2. news' \in [Router -> [Peer -> {"none", "idle", "busy"}]]
    BY <2>1 DEF RouterTypeOK
  <2> QED
    BY <1>4, <2>2
       DEF ForeignPublishes, RouterTypeOK, PoolsAreLocal, routerVars, askVars
<1> QED
  BY <1>1, <1>2, <1>3, <1>4 DEF InterNext

-----------------------------------------------------------------------------
(* Foreign peers that have asked have asked for good.                       *)
LEMMA OnceAsked ==
  ASSUME RouterTypeOK, InterNext, ForeignersAsked
  PROVE  ForeignersAsked'
<1>1. PICK f \in RouterClient : ClientHome[f] \in ForeignPeer /\ rounds[f] > 0
  BY DEF ForeignersAsked
<1>2. ASSUME NEW c \in RouterClient, DoRequest(c)
      PROVE  ForeignersAsked'
  <2>1. rounds \in [RouterClient -> 0 .. Rounds]
    BY DEF RouterTypeOK
  <2>2. rounds'[f] > 0
    BY <1>1, <1>2, <2>1, RouterAssumption DEF DoRequest
  <2> QED
    BY <1>1, <2>2 DEF ForeignersAsked
<1>3. CASE UNCHANGED rounds
  BY <1>3 DEF ForeignersAsked
<1>4. \/ \E c \in RouterClient : DoRequest(c)
      \/ UNCHANGED rounds
  BY DEF InterNext, RouterStep, Poll, BroadcastMyState, HandleLocalFrontend,
         HandleRemoteFrontend, HandleLocalBackend, HandleRemoteBackend,
         HandleStateUpdate, DoWork, ReadAnswer, ForeignAnswers,
         ForeignPublishes, askVars
<1> QED
  BY <1>2, <1>3, <1>4

(* A broker that keeps to itself does so after a step of another.           *)
LEMMA LeftAlone ==
  ASSUME NEW x \in Router, KeepsToItself(x), remoteFront'[x] = remoteFront[x],
         remoteBack'[x] = remoteBack[x], localFront'[x] \subseteq localFront[x],
         events'[x] \subseteq events[x],
         "localFront" \in events'[x] => pool'[x] # <<>>
  PROVE  KeepsToItself(x)'
BY DEF KeepsToItself, ClientsOf

(* A handler of a broker leaves all of them to themselves.                  *)
LEMMA RouterStepUndisturbed ==
  ASSUME RouterTypeOK, PoolsAreLocal, Undisturbed,
         NEW b \in Router, RouterStep(b)
  PROVE  Undisturbed'
<1>1. CASE Poll(b)
  BY <1>1, ZenonT(40) DEF Poll, Announced, HandleCapacity, RouterTypeOK, Undisturbed,
              WorkersAreLocal, KeepsToItself, ClientsOf, wireVars, askVars
<1>2. CASE BroadcastMyState(b)
  <2>1. UNCHANGED <<pool, localFront, remoteFront, remoteBack, passed,
                    toWorker, fromWorker>>
    BY <1>2 DEF BroadcastMyState
  <2>2. \A x \in Router : events'[x] \subseteq events[x]
    BY <1>2 DEF BroadcastMyState, RouterTypeOK
  <2>3. \A x \in Router : KeepsToItself(x)'
    BY <2>1, <2>2 DEF Undisturbed, KeepsToItself, ClientsOf
  <2> QED
    BY <2>1, <2>3 DEF Undisturbed, WorkersAreLocal, ClientsOf
<1>3. ASSUME NEW c \in RouterClient, HandleLocalFrontend(b, c)
      PROVE  Undisturbed'
  <2>1. pool[b] # <<>> /\ c \in ClientsOf(b)
    BY <1>3 DEF HandleLocalFrontend, Handles, Undisturbed, KeepsToItself
  <2>2. GiveToWorker(b, c) /\ UNCHANGED <<remoteFront, passed>>
    BY <1>3, <2>1 DEF HandleLocalFrontend, PassOn
  <2>3. UNCHANGED <<remoteBack, fromWorker>>
    BY <1>3 DEF HandleLocalFrontend
  <2>4. WorkersAreLocal'
    <3> SUFFICES ASSUME NEW w \in RouterWorker
                 PROVE  toWorker'[w] \in Seq(ClientsOf(WorkerHome[w]))
      BY <2>3 DEF Undisturbed, WorkersAreLocal, ClientsOf
    <3>1. toWorker[w] \in Seq(ClientsOf(WorkerHome[w]))
      BY DEF Undisturbed, WorkersAreLocal
    <3>2. CASE toWorker'[w] # toWorker[w]
      <4>1. WorkerHome[w] = b /\ toWorker'[w] = Append(toWorker[w], c)
        BY <2>2, <3>2, GivenToWorker
      <4> QED
        BY <2>1, <3>1, <4>1, OneAdded
    <3> QED
      BY <3>1, <3>2
  <2>5. \A x \in Router : KeepsToItself(x)'
    <3> SUFFICES ASSUME NEW x \in Router
                 PROVE  KeepsToItself(x)'
      OBVIOUS
    <3>1. /\ events'[x] \subseteq events[x]
          /\ x = b => "localFront" \notin events'[x]
          /\ localFront'[x] \subseteq localFront[x]
      BY <1>3 DEF HandleLocalFrontend, Handles, RouterTypeOK
    <3>2. x # b => pool'[x] = pool[x]
      BY <2>2, GivenToWorker
    <3> QED
      BY <2>2, <2>3, <3>1, <3>2, LeftAlone DEF Undisturbed, KeepsToItself
  <2> QED
    BY <2>2, <2>4, <2>5 DEF Undisturbed
<1>4. ASSUME NEW c \in RouterClient,
             HandleRemoteFrontend(b, c) \/ HandleRemoteBackend(b, c)
      PROVE  FALSE
  BY <1>4 DEF HandleRemoteFrontend, HandleRemoteBackend, Undisturbed,
              KeepsToItself
<1>5. ASSUME NEW w \in RouterWorker, HandleLocalBackend(b, w)
      PROVE  Undisturbed'
  <2> DEFINE said == Head(fromWorker[w])
  <2>1. /\ said \in ClientsOf(b) \cup {IsReady}
        /\ Tail(fromWorker[w]) \in Seq(ClientsOf(b) \cup {IsReady})
    BY <1>5, FirstRead DEF HandleLocalBackend, Undisturbed, WorkersAreLocal
  <2>2. UNCHANGED <<remoteBack, remoteFront, localFront, passed, toWorker>>
    BY <1>5, <2>1 DEF HandleLocalBackend, AnswerOf, ClientsOf
  <2>3. WorkersAreLocal'
    BY <1>5, <2>1, <2>2 DEF HandleLocalBackend, Undisturbed, WorkersAreLocal,
                            RouterTypeOK, ClientsOf
  <2>4. pool'[b] # <<>> /\ \A x \in Router \ {b} : pool'[x] = pool[x]
    BY <1>5, OneAdded DEF HandleLocalBackend, RouterTypeOK
  <2>5. \A x \in Router : KeepsToItself(x)'
    BY <1>5, <2>2, <2>4, LeftAlone, ZenonT(40) DEF HandleLocalBackend, Handles,
       RouterTypeOK, Undisturbed, KeepsToItself
  <2> QED
    BY <2>2, <2>3, <2>5 DEF Undisturbed
<1>6. ASSUME NEW p \in Peer, HandleStateUpdate(b, p)
      PROVE  Undisturbed'
  BY <1>6, ZenonT(40) DEF HandleStateUpdate, Handles, RouterTypeOK, Undisturbed,
              WorkersAreLocal, KeepsToItself, ClientsOf, askVars
<1> QED
  BY <1>1, <1>2, <1>3, <1>4, <1>5, <1>6 DEF RouterStep

(* No step of anyone disturbs the brokers until a foreign peer asks.        *)
LEMMA StepUndisturbed ==
  ASSUME RouterInv, InterNext, ~ForeignersAsked'
  PROVE  Undisturbed'
<1>1. RouterTypeOK /\ PoolsAreLocal /\ Undisturbed
  BY OnceAsked DEF RouterInv
<1>2. ASSUME NEW w \in RouterWorker, DoWork(w)
      PROVE  Undisturbed'
  <2> DEFINE mine == ClientsOf(WorkerHome[w])
  <2>1. Head(toWorker[w]) \in mine /\ Tail(toWorker[w]) \in Seq(mine)
    BY <1>1, <1>2, FirstRead DEF DoWork, Undisturbed, WorkersAreLocal
  <2>2. Append(fromWorker[w], Head(toWorker[w])) \in Seq(mine \cup {IsReady})
    BY <1>1, <2>1, OneAdded DEF Undisturbed, WorkersAreLocal
  <2>3. WorkersAreLocal'
    BY <1>1, <1>2, <2>1, <2>2 DEF DoWork, Undisturbed, WorkersAreLocal,
                                  RouterTypeOK, ClientsOf
  <2> QED
    BY <1>1, <1>2, <2>3 DEF DoWork, Undisturbed, KeepsToItself, ClientsOf,
                            routerVars, askVars
<1>3. ASSUME NEW c \in RouterClient, DoRequest(c)
      PROVE  Undisturbed'
  <2>1. ClientHome[c] \in Router
    <3> SUFFICES ASSUME ClientHome[c] \in ForeignPeer PROVE FALSE
      BY RouterAssumption DEF Peer
    <3>1. rounds \in [RouterClient -> 0 .. Rounds]
      BY <1>1 DEF RouterTypeOK
    <3>2. rounds'[c] > 0
      BY <1>3, <3>1, RouterAssumption DEF DoRequest
    <3> QED
      BY <3>2 DEF ForeignersAsked
  <2>2. UNCHANGED <<remoteFront, remoteBack, passed, events, pool, toWorker,
                    fromWorker>>
    BY <1>3, <2>1 DEF DoRequest, routerVars
  <2>3. \A x \in Router : localFront'[x] \subseteq ClientsOf(x)
    <3>1. /\ localFront \in [Router -> SUBSET RouterClient]
          /\ \A x \in Router : localFront[x] \subseteq ClientsOf(x)
      BY <1>1 DEF RouterTypeOK, Undisturbed, KeepsToItself
    <3>2. localFront' = [localFront EXCEPT
                           ![ClientHome[c]] =
                             localFront[ClientHome[c]] \cup {c}]
      BY <1>3, <2>1 DEF DoRequest
    <3>3. c \in ClientsOf(ClientHome[c])
      BY <1>3 DEF ClientsOf
    <3> QED
      BY <3>1, <3>2, <3>3
  <2> QED
    BY <1>1, <2>2, <2>3 DEF Undisturbed, WorkersAreLocal, KeepsToItself,
                            ClientsOf
<1>4. ASSUME NEW c \in RouterClient, ReadAnswer(c)
      PROVE  Undisturbed'
  BY <1>1, <1>4 DEF ReadAnswer, Undisturbed, WorkersAreLocal, KeepsToItself,
                    ClientsOf, routerVars
<1>5. ASSUME NEW c \in RouterClient, ForeignAnswers(c)
      PROVE  FALSE
  BY <1>1, <1>5 DEF ForeignAnswers, Undisturbed
<1>6. ASSUME NEW f \in ForeignPeer, NEW b \in Router, ForeignPublishes(f, b)
      PROVE  Undisturbed'
  BY <1>1, <1>6 DEF ForeignPublishes, Undisturbed, WorkersAreLocal,
                    KeepsToItself, ClientsOf, routerVars, askVars
<1> QED
  BY <1>1, <1>2, <1>3, <1>4, <1>5, <1>6, RouterStepUndisturbed DEF InterNext

-----------------------------------------------------------------------------
(* The invariant holds at first.                                            *)
LEMMA InitInv ==
  ASSUME RouterInit
  PROVE  RouterInv
<1>1. \A S : <<>> \in Seq(S)
  OBVIOUS
<1>2. \A S : <<IsReady>> \in Seq(S \cup {IsReady})
  OBVIOUS
<1>3. Undisturbed
  BY <1>1, <1>2, RouterAssumption
     DEF RouterInit, Undisturbed, WorkersAreLocal, KeepsToItself
<1> QED
  BY <1>3, InitTyped DEF RouterInv

(* A step of the module, or one that changes nothing here, keeps it.        *)
LEMMA StepInv ==
  ASSUME RouterInv, [InterNext]_interVars
  PROVE  RouterInv'
<1>1. CASE InterNext
  BY <1>1, StepTyped, StepUndisturbed DEF RouterInv
<1>2. CASE UNCHANGED interVars
  BY <1>2 DEF RouterInv, RouterTypeOK, PoolsAreLocal, ForeignersAsked,
              Undisturbed, WorkersAreLocal, KeepsToItself, ClientsOf, WorkersOf,
              interVars, routerVars, wireVars, askVars
<1> QED
  BY <1>1, <1>2

(* The strengthening of NothingPassedOn: handlers find an idle worker for   *)
(* what the poll announced, and only local requests.                        *)
THEOREM RouterInvariance == InterSpec => []RouterInv
BY InitInv, StepInv, PTL DEF InterSpec

(* Every variable of the brokers, their workers and clients keeps its type: *)
(* in particular, only workers enter a pool, whatever a foreign peer does.  *)
THEOREM RoutersTyped == InterSpec => []RouterTypeOK
<1>1. RouterInv => RouterTypeOK
  BY DEF RouterInv
<1> QED
  BY <1>1, RouterInvariance, PTL

(* However many brokers of this code there are, none ever passes a request  *)
(* on to another one while no foreign peer asks: what each announces about  *)
(* its idle workers is of no use to them.                                   *)
THEOREM NothingIsPassedOn == InterSpec => []NothingPassedOn
<1>1. RouterInv => NothingPassedOn
  BY DEF RouterInv, Undisturbed, KeepsToItself, NothingPassedOn
<1> QED
  BY <1>1, RouterInvariance, PTL

-----------------------------------------------------------------------------
(* Each worker is counted on once, for every broker and every peer.         *)

(* How often w is in the queue q.                                           *)
Entries(q, w) == Cardinality({i \in DOMAIN q : q[i] = w})

(* A worker that is appended is there once more, and others as often as     *)
(* before.                                                                  *)
LEMMA EntriesOfAppend ==
  ASSUME NEW S, NEW q \in Seq(S), NEW e \in S, NEW w
  PROVE  /\ Entries(q, w) \in Nat
         /\ Entries(Append(q, e), w) = Entries(q, w) + IF e = w THEN 1 ELSE 0
<1> DEFINE n == Len(q)
           before == {i \in DOMAIN q : q[i] = w}
           after == {i \in DOMAIN Append(q, e) : Append(q, e)[i] = w}
<1>1. n \in Nat /\ DOMAIN q = 1 .. n
  BY LenProperties
<1>2. IsFiniteSet(before) /\ Cardinality(before) \in Nat
  <2>1. before \in SUBSET (1 .. n)
    BY <1>1
  <2>2. IsFiniteSet(1 .. n)
    BY <1>1, FS_Interval
  <2> QED
    BY <2>1, <2>2, FS_Subset, FS_CardinalityType
<1>3. /\ DOMAIN Append(q, e) = 1 .. n + 1
      /\ \A i \in 1 .. n : Append(q, e)[i] = q[i]
      /\ Append(q, e)[n + 1] = e
  BY AppendProperties, LenProperties
<1>4. /\ Entries(q, w) = Cardinality(before)
      /\ Entries(Append(q, e), w) = Cardinality(after)
  BY DEF Entries
<1>5. CASE e = w
  <2>1. after = before \cup {n + 1}
    BY <1>1, <1>3, <1>5
  <2>2. n + 1 \notin before
    BY <1>1
  <2> HIDE DEF before, after
  <2>3. Cardinality(after) = Cardinality(before) + 1
    BY <1>2, <2>1, <2>2, FS_AddElement
  <2> QED
    BY <1>2, <1>5, <1>4, <2>3
<1>6. CASE e # w
  <2>1. after = before
    BY <1>1, <1>3, <1>6
  <2> HIDE DEF before, after
  <2> QED
    BY <1>2, <1>6, <1>4, <2>1
<1> QED
  BY <1>5, <1>6

(* The first one that is taken is there once less.                          *)
LEMMA EntriesOfTail ==
  ASSUME NEW S, NEW q \in Seq(S), q # <<>>, NEW w
  PROVE  Entries(q, w) = Entries(Tail(q), w) + IF Head(q) = w THEN 1 ELSE 0
<1> DEFINE n == Len(q)
           t == Tail(q)
           before == {i \in DOMAIN q : q[i] = w}
           rest == before \ {1}
           after == {i \in DOMAIN t : t[i] = w}
<1>1. n \in Nat /\ n >= 1 /\ DOMAIN q = 1 .. n /\ Head(q) = q[1]
  BY LenProperties, HeadTailProperties
<1>2. DOMAIN t = 1 .. n - 1 /\ \A i \in 1 .. n - 1 : t[i] = q[i + 1]
  BY <1>1, HeadTailProperties, LenProperties
<1>3. IsFiniteSet(before) /\ IsFiniteSet(after)
  <2>1. before \in SUBSET (1 .. n) /\ after \in SUBSET (1 .. n)
    BY <1>1, <1>2
  <2>2. IsFiniteSet(1 .. n)
    BY <1>1, FS_Interval
  <2> QED
    BY <2>1, <2>2, FS_Subset
<1>4. Cardinality(rest) = Cardinality(after) /\ IsFiniteSet(rest)
  <2> DEFINE f == [i \in after |-> i + 1]
  <2>1. \A i \in after : f[i] \in rest
    BY <1>1, <1>2
  <2>2. \A i, j \in after : f[i] = f[j] => i = j
    BY <1>1, <1>2
  <2>3. \A k \in rest : k - 1 \in after /\ f[k - 1] = k
    BY <1>1, <1>2
  <2>4. f \in [after -> rest]
    BY <2>1
  <2> HIDE DEF f, rest, after
  <2>5. f \in Bijection(after, rest)
    BY <2>2, <2>3, <2>4, Fun_IsBij
  <2>6. ExistsBijection(after, rest)
    BY <2>5 DEF ExistsBijection
  <2> QED
    BY <1>3, <2>6, FS_Bijection
<1>5. Cardinality(before) \in Nat /\ Cardinality(after) \in Nat
  BY <1>3, FS_CardinalityType
<1>6. Cardinality(rest)
        = IF 1 \in before THEN Cardinality(before) - 1 ELSE Cardinality(before)
  BY <1>3, FS_RemoveElement
<1>7. 1 \in before <=> Head(q) = w
  BY <1>1
<1>8. /\ Entries(q, w) = Cardinality(before)
      /\ Entries(t, w) = Cardinality(after)
  BY DEF Entries
<1> HIDE DEF before, after, rest
<1> QED
  BY <1>4, <1>5, <1>6, <1>7, <1>8

(* What a broker counts on: an idle worker, a request for one or a word     *)
(* from it.                                                                 *)
Once(w) ==
  Entries(pool[WorkerHome[w]], w) + Len(toWorker[w]) + Len(fromWorker[w]) = 1

CountedInv ==
  /\ RouterTypeOK /\ PoolsAreLocal
  /\ \A w \in RouterWorker : Once(w)

(* Who asks for a worker gets the first of the pool, and no one else will.  *)
LEMMA GivenOnce ==
  ASSUME CountedInv, NEW b \in Router, NEW c \in RouterClient,
         GiveToWorker(b, c), UNCHANGED fromWorker, NEW w \in RouterWorker
  PROVE  Once(w)'
<1> DEFINE first == Head(pool[b])
           h == WorkerHome[w]
<1>1. /\ pool \in [Router -> Seq(RouterWorker)] /\ h \in Router
      /\ toWorker \in [RouterWorker -> Seq(RouterClient)]
      /\ fromWorker \in [RouterWorker -> Seq(RouterClient \cup {IsReady})]
      /\ pool[b] \in Seq(RouterWorker) /\ pool[b] # <<>>
      /\ first \in RouterWorker
  BY FirstRead, RouterAssumption, ZenonT(40)
     DEF CountedInv, RouterTypeOK, GiveToWorker
<1>2. WorkerHome[first] = b
  <2>1. first \in WorkersOf(b)
    BY <1>1, FirstRead DEF CountedInv, PoolsAreLocal
  <2> QED
    BY <2>1 DEF WorkersOf
<1>3. /\ pool' = [pool EXCEPT ![b] = Tail(pool[b])]
      /\ toWorker' = [toWorker EXCEPT ![first] = Append(toWorker[first], c)]
  BY DEF GiveToWorker
<1>4. /\ Len(Append(toWorker[w], c)) = Len(toWorker[w]) + 1
      /\ Len(toWorker[w]) \in Nat /\ Len(fromWorker[w]) \in Nat
  BY <1>1, AppendProperties, LenProperties
<1>5. /\ Entries(pool[b], w)
           = Entries(Tail(pool[b]), w) + IF first = w THEN 1 ELSE 0
      /\ Entries(Tail(pool[b]), w) \in Nat
  <2>1. Tail(pool[b]) \in Seq(RouterWorker)
    BY <1>1, FirstRead
  <2> QED
    BY <1>1, <2>1, EntriesOfTail, EntriesOfAppend
<1>6. Once(w)
  BY DEF CountedInv
<1>7. CASE w = first
  <2>1. /\ pool'[h] = Tail(pool[b]) /\ pool[h] = pool[b]
        /\ toWorker'[w] = Append(toWorker[w], c)
    BY <1>1, <1>2, <1>3, <1>7
  <2>2. /\ Entries(pool[h], w) = Entries(pool'[h], w) + 1
        /\ Entries(pool'[h], w) \in Nat
    BY <1>5, <1>7, <2>1
  <2>3. Len(toWorker'[w]) = Len(toWorker[w]) + 1
    BY <1>4, <2>1
  <2> QED
    BY <1>4, <1>6, <2>2, <2>3, SMTT(30) DEF Once
<1>8. CASE w # first
  <2>1. toWorker'[w] = toWorker[w]
    BY <1>1, <1>3, <1>8
  <2>2. Entries(pool'[h], w) = Entries(pool[h], w)
    <3>1. CASE h = b
      BY <1>1, <1>3, <1>5, <1>8, <3>1
    <3>2. CASE h # b
      BY <1>1, <1>3, <3>2
    <3> QED
      BY <3>1, <3>2
  <2> QED
    BY <1>6, <2>1, <2>2 DEF Once
<1> QED
  BY <1>7, <1>8

(* What a worker says puts it back into its pool, once.                     *)
LEMMA HeardOnce ==
  ASSUME CountedInv, NEW b \in Router, NEW v \in RouterWorker,
         HandleLocalBackend(b, v), NEW w \in RouterWorker
  PROVE  Once(w)'
<1> DEFINE h == WorkerHome[w]
<1>1. /\ pool \in [Router -> Seq(RouterWorker)] /\ h \in Router
      /\ fromWorker \in [RouterWorker -> Seq(RouterClient \cup {IsReady})]
      /\ pool[b] \in Seq(RouterWorker) /\ fromWorker[v] # <<>>
      /\ toWorker \in [RouterWorker -> Seq(RouterClient)]
      /\ WorkerHome[v] = b
  BY RouterAssumption DEF CountedInv, RouterTypeOK, HandleLocalBackend
<1>2. /\ pool' = [pool EXCEPT ![b] = Append(pool[b], v)]
      /\ fromWorker' = [fromWorker EXCEPT ![v] = Tail(fromWorker[v])]
      /\ toWorker' = toWorker
  BY DEF HandleLocalBackend
<1>3. /\ Entries(pool[b], w) \in Nat
      /\ Entries(Append(pool[b], v), w)
           = Entries(pool[b], w) + IF v = w THEN 1 ELSE 0
  BY <1>1, EntriesOfAppend
<1>4. /\ Len(Tail(fromWorker[v])) = Len(fromWorker[v]) - 1
      /\ Len(fromWorker[v]) \in Nat /\ Len(toWorker[w]) \in Nat
  BY <1>1, HeadTailProperties, LenProperties
<1>5. Once(w)
  BY DEF CountedInv
<1>6. CASE w = v
  <2>1. /\ pool'[h] = Append(pool[b], v) /\ pool[h] = pool[b]
        /\ fromWorker'[w] = Tail(fromWorker[v])
    BY <1>1, <1>2, <1>6
  <2>2. /\ Entries(pool'[h], w) = Entries(pool[h], w) + 1
        /\ Entries(pool[h], w) \in Nat
    BY <1>3, <1>6, <2>1
  <2>3. /\ Len(fromWorker'[w]) = Len(fromWorker[w]) - 1
        /\ Len(fromWorker[w]) \in Nat
    BY <1>4, <1>6, <2>1
  <2> QED
    BY <1>2, <1>4, <1>5, <2>2, <2>3, SMTT(30) DEF Once
<1>7. CASE w # v
  <2>1. fromWorker'[w] = fromWorker[w]
    BY <1>1, <1>2, <1>7
  <2>2. Entries(pool'[h], w) = Entries(pool[h], w)
    <3>1. CASE h = b
      BY <1>1, <1>2, <1>3, <1>7, <3>1
    <3>2. CASE h # b
      BY <1>1, <1>2, <3>2
    <3> QED
      BY <3>1, <3>2
  <2> QED
    BY <1>2, <1>5, <2>1, <2>2 DEF Once
<1> QED
  BY <1>6, <1>7

(* A worker answers what it was given.                                      *)
LEMMA WorkedOnce ==
  ASSUME CountedInv, NEW v \in RouterWorker, DoWork(v), NEW w \in RouterWorker
  PROVE  Once(w)'
<1> DEFINE said == Head(toWorker[v])
<1>1. /\ toWorker \in [RouterWorker -> Seq(RouterClient)]
      /\ fromWorker \in [RouterWorker -> Seq(RouterClient \cup {IsReady})]
      /\ toWorker[v] # <<>>
  BY DEF CountedInv, RouterTypeOK, DoWork
<1>2. /\ toWorker' = [toWorker EXCEPT ![v] = Tail(toWorker[v])]
      /\ fromWorker' = [fromWorker EXCEPT ![v] = Append(fromWorker[v], said)]
      /\ pool' = pool
  BY DEF DoWork, routerVars
<1>3. /\ Len(Tail(toWorker[v])) = Len(toWorker[v]) - 1
      /\ said \in RouterClient \cup {IsReady}
      /\ Len(toWorker[v]) \in Nat
  BY <1>1, HeadTailProperties, LenProperties
<1>4. /\ Len(Append(fromWorker[v], said)) = Len(fromWorker[v]) + 1
      /\ Len(fromWorker[v]) \in Nat
  BY <1>1, <1>3, AppendProperties, LenProperties
<1>5. Once(w)
  BY DEF CountedInv
<1>6. Entries(pool[WorkerHome[w]], w) \in Nat
  BY EntriesOfAppend, RouterAssumption DEF CountedInv, RouterTypeOK
<1>7. CASE w = v
  <2>1. /\ toWorker'[w] = Tail(toWorker[v])
        /\ fromWorker'[w] = Append(fromWorker[v], said)
    BY <1>1, <1>2, <1>7
  <2>2. /\ Len(toWorker'[w]) = Len(toWorker[w]) - 1
        /\ Len(fromWorker'[w]) = Len(fromWorker[w]) + 1
        /\ Len(toWorker[w]) \in Nat /\ Len(fromWorker[w]) \in Nat
    BY <1>3, <1>4, <1>7, <2>1
  <2> QED
    BY <1>2, <1>5, <1>6, <2>2 DEF Once
<1>8. CASE w # v
  <2>1. toWorker'[w] = toWorker[w] /\ fromWorker'[w] = fromWorker[w]
    BY <1>1, <1>2, <1>8
  <2> QED
    BY <1>2, <1>5, <2>1 DEF Once
<1> QED
  BY <1>7, <1>8

(* No other step is about a worker.                                         *)
LEMMA CountedStep ==
  ASSUME CountedInv, [InterNext]_interVars
  PROVE  CountedInv'
<1>1. RouterTypeOK' /\ PoolsAreLocal'
  BY StepTyped DEF CountedInv, RouterTypeOK, PoolsAreLocal, interVars,
                   routerVars, wireVars, askVars, WorkersOf
<1>2. ASSUME UNCHANGED <<pool, toWorker, fromWorker>>
      PROVE  \A w \in RouterWorker : Once(w)'
  BY <1>2 DEF CountedInv, Once, Entries
<1>3. \/ \E b \in Router, c \in RouterClient :
           GiveToWorker(b, c) /\ UNCHANGED fromWorker
      \/ \E b \in Router, w \in RouterWorker : HandleLocalBackend(b, w)
      \/ \E w \in RouterWorker : DoWork(w)
      \/ UNCHANGED <<pool, toWorker, fromWorker>>
  BY DEF InterNext, RouterStep, Poll, BroadcastMyState, HandleLocalFrontend,
         HandleRemoteFrontend, HandleRemoteBackend, HandleStateUpdate,
         DoRequest, ReadAnswer, ForeignAnswers, ForeignPublishes,
         interVars, routerVars, wireVars, askVars
<1>4. \A w \in RouterWorker : Once(w)'
  BY <1>2, <1>3, GivenOnce, HeardOnce, WorkedOnce
<1> QED
  BY <1>1, <1>4 DEF CountedInv

(* Each worker has said that it is ready, and is in no pool.                *)
LEMMA CountedInit ==
  ASSUME RouterInit
  PROVE  CountedInv
<1>1. ASSUME NEW w \in RouterWorker
      PROVE  Once(w)
  <2>1. /\ pool[WorkerHome[w]] = <<>> /\ toWorker[w] = <<>>
        /\ fromWorker[w] = <<IsReady>>
    BY RouterAssumption DEF RouterInit
  <2>2. {i \in DOMAIN <<>> : <<>>[i] = w} = {}
    OBVIOUS
  <2>3. Entries(<<>>, w) = 0
    BY <2>2, FS_EmptySet DEF Entries
  <2>4. Len(<<>>) = 0 /\ Len(<<IsReady>>) = 1
    OBVIOUS
  <2> QED
    BY <2>1, <2>3, <2>4 DEF Once
<1> QED
  BY <1>1, InitTyped DEF CountedInv

(* A worker never holds two requests and is never in the pool twice,        *)
(* whoever asks for the same worker in one poll and whatever peers do.      *)
THEOREM WorkersCountOnce == InterSpec => []WorkerOnce
<1>1. CountedInv => WorkerOnce
  BY DEF CountedInv, Once, Entries, WorkerOnce
<1> QED
  BY <1>1, CountedInit, CountedStep, PTL DEF InterSpec

-----------------------------------------------------------------------------
(* c's request or its answer is at a place of the kind k, at x there.       *)
At(c, k, x) ==
  \/ k = "front" /\ x \in Router /\ c \in localFront[x]
  \/ k = "remote" /\ x \in Router /\ c \in remoteFront[x]
  \/ k = "back" /\ x \in Router /\ c \in remoteBack[x]
  \/ k = "passed" /\ x = "any" /\ c \in passed
  \/ k = "answered" /\ x = "any" /\ c \in answered
  \/ k = "worker" /\ x \in RouterWorker
     /\ c \in Elements(toWorker[x]) \cup Elements(fromWorker[x])

(* A request is in one place at most, and only while its client asks; and   *)
(* it is nowhere while its client asks only if a foreign peer has asked.    *)
InOnePlace(c) ==
  /\ \A k, l, x, y : At(c, k, x) /\ At(c, l, y) => k = l /\ x = y
  /\ \A k, x : At(c, k, x) => asking[c]
  /\ asking[c] /\ ~ForeignersAsked => \E k, x : At(c, k, x)

PlaceInv ==
  /\ RouterInv /\ CountedInv
  /\ \A c \in RouterClient : InOnePlace(c)

(* The places of the property are those.                                    *)
LEMMA PlacesAreAt ==
  ASSUME NEW c
  PROVE  /\ \A p \in PlacesOf(c) : \E k, x : p = <<k, x>> /\ At(c, k, x)
         /\ \A k, x : At(c, k, x) => <<k, x>> \in PlacesOf(c)
<1>1. ASSUME NEW p \in PlacesOf(c)
      PROVE  \E k, x : p = <<k, x>> /\ At(c, k, x)
  <2>1. CASE \E b \in Router : p = <<"front", b>> /\ c \in localFront[b]
    BY <2>1 DEF At
  <2>2. CASE \E b \in Router : p = <<"remote", b>> /\ c \in remoteFront[b]
    BY <2>2 DEF At
  <2>3. CASE \E b \in Router : p = <<"back", b>> /\ c \in remoteBack[b]
    BY <2>3 DEF At
  <2>4. CASE p = <<"passed", "any">> /\ c \in passed
    BY <2>4 DEF At
  <2>5. CASE p = <<"answered", "any">> /\ c \in answered
    BY <2>5 DEF At
  <2>6. CASE \E w \in RouterWorker :
               p = <<"worker", w>>
               /\ c \in Elements(toWorker[w]) \cup Elements(fromWorker[w])
    BY <2>6 DEF At
  <2> QED
    BY <1>1, <2>1, <2>2, <2>3, <2>4, <2>5, <2>6 DEF PlacesOf, Elements
<1>2. ASSUME NEW k, NEW x, At(c, k, x)
      PROVE  <<k, x>> \in PlacesOf(c)
  BY <1>2 DEF At, PlacesOf, Elements
<1> QED
  BY <1>1, <1>2

(* A set whose elements are all the same has one at most.                   *)
LEMMA OneAtMost ==
  ASSUME NEW S, \A x, y \in S : x = y
  PROVE  IsFiniteSet(S) /\ Cardinality(S) <= 1
<1>1. CASE S = {}
  BY <1>1, FS_EmptySet
<1>2. ASSUME NEW x \in S
      PROVE  IsFiniteSet(S) /\ Cardinality(S) <= 1
  <2>1. S = {x}
    OBVIOUS
  <2>2. IsFiniteSet({x}) /\ Cardinality({x}) = 1
    BY FS_Singleton
  <2> QED
    BY <2>1, <2>2
<1> QED
  BY <1>1, <1>2

LEMMA PlaceInvSuffices == PlaceInv => LostOnlyToForeigners
<1> SUFFICES ASSUME PlaceInv, NEW c \in RouterClient
             PROVE  /\ Cardinality(PlacesOf(c)) <= 1
                    /\ asking[c] /\ PlacesOf(c) = {} => ForeignersAsked
  BY DEF LostOnlyToForeigners
<1>1. InOnePlace(c)
  BY DEF PlaceInv
<1>2. \A p, q \in PlacesOf(c) : p = q
  BY <1>1, PlacesAreAt DEF InOnePlace
<1>3. Cardinality(PlacesOf(c)) <= 1
  BY <1>2, OneAtMost
<1>4. asking[c] /\ PlacesOf(c) = {} => ForeignersAsked
  BY <1>1, PlacesAreAt DEF InOnePlace
<1> QED
  BY <1>3, <1>4

-----------------------------------------------------------------------------
(* Where nothing moves, everything stays in one place.                      *)
LEMMA NothingMoves ==
  ASSUME \A c \in RouterClient : InOnePlace(c), UNCHANGED asking,
         ForeignersAsked => ForeignersAsked',
         \A c \in RouterClient : \A k, x : At(c, k, x)' <=> At(c, k, x)
  PROVE  \A c \in RouterClient : InOnePlace(c)'
BY DEF InOnePlace

(* One request moves from one place to another, or is lost.                 *)
LEMMA OneMoves ==
  ASSUME \A d \in RouterClient : InOnePlace(d), UNCHANGED asking,
         ForeignersAsked => ForeignersAsked',
         NEW c \in RouterClient, NEW k0, NEW x0, NEW k1, NEW x1,
         At(c, k0, x0),
         \A k, x : At(c, k, x)' =>
           \/ At(c, k, x) /\ ~(k = k0 /\ x = x0)
           \/ k = k1 /\ x = x1,
         ForeignersAsked' \/ At(c, k1, x1)',
         \A d \in RouterClient \ {c} : \A k, x : At(d, k, x)' <=> At(d, k, x)
  PROVE  \A d \in RouterClient : InOnePlace(d)'
<1>1. ASSUME NEW d \in RouterClient, d # c
      PROVE  InOnePlace(d)'
  BY <1>1 DEF InOnePlace
<1>2. InOnePlace(c)
  OBVIOUS
<1>3. \A k, x : At(c, k, x)' => k = k1 /\ x = x1
  BY <1>2 DEF InOnePlace
<1>4. asking'[c]
  BY <1>2 DEF InOnePlace
<1>5. InOnePlace(c)'
  BY <1>3, <1>4 DEF InOnePlace
<1> QED
  BY <1>1, <1>5

(* A worker holds one request at most, and an idle one none.                *)
LEMMA WorkerHolds ==
  ASSUME CountedInv, NEW w \in RouterWorker
  PROVE  /\ toWorker[w] # <<>> =>
              /\ Elements(toWorker[w]) = {Head(toWorker[w])}
              /\ Tail(toWorker[w]) = <<>> /\ fromWorker[w] = <<>>
              /\ Head(toWorker[w]) \in RouterClient
         /\ fromWorker[w] # <<>> =>
              /\ Elements(fromWorker[w]) = {Head(fromWorker[w])}
              /\ Tail(fromWorker[w]) = <<>> /\ toWorker[w] = <<>>
              /\ Head(fromWorker[w]) \in RouterClient \cup {IsReady}
<1>1. /\ toWorker[w] \in Seq(RouterClient)
      /\ fromWorker[w] \in Seq(RouterClient \cup {IsReady})
      /\ pool[WorkerHome[w]] \in Seq(RouterWorker) /\ Once(w)
  BY RouterAssumption DEF CountedInv, RouterTypeOK
<1>2. Entries(pool[WorkerHome[w]], w) \in Nat
  BY <1>1, EntriesOfAppend
<1>3. /\ Len(toWorker[w]) \in {0, 1} /\ Len(fromWorker[w]) \in {0, 1}
      /\ Len(toWorker[w]) = 0 \/ Len(fromWorker[w]) = 0
  <2>1. Len(toWorker[w]) \in Nat /\ Len(fromWorker[w]) \in Nat
    BY <1>1, LenProperties
  <2>2. Entries(pool[WorkerHome[w]], w) + Len(toWorker[w]) + Len(fromWorker[w]) = 1
    BY <1>1 DEF Once
  <2>3. \A e, m, n \in Nat : e + m + n = 1
                            => m \in {0, 1} /\ n \in {0, 1} /\ (m = 0 \/ n = 0)
    OBVIOUS
  <2> QED
    BY <1>2, <2>1, <2>2, <2>3
<1>4. ASSUME NEW S, NEW q \in Seq(S), q # <<>>, Len(q) \in {0, 1}
      PROVE  Len(q) = 1 /\ Elements(q) = {Head(q)} /\ Tail(q) = <<>> /\ Head(q) \in S
  <2>1. /\ Len(q) = 1 /\ DOMAIN q = 1 .. 1 /\ Head(q) = q[1] /\ Head(q) \in S
        /\ Tail(q) \in Seq(S) /\ Len(Tail(q)) = 0
    <3>1. Len(q) \in Nat \ {0} /\ DOMAIN q = 1 .. Len(q)
      BY <1>4, EmptySeq, LenProperties
    <3>2. Len(q) = 1
      BY <1>4, <3>1
    <3>3. /\ Head(q) = q[1] /\ Head(q) \in S /\ Tail(q) \in Seq(S)
          /\ Len(Tail(q)) = Len(q) - 1
      BY <1>4, HeadTailProperties
    <3> QED
      BY <3>1, <3>2, <3>3
  <2>2. Tail(q) = <<>>
    BY <2>1, EmptySeq
  <2> QED
    BY <2>1, <2>2 DEF Elements
<1>5. CASE toWorker[w] # <<>>
  <2>1. Len(toWorker[w]) \in {0, 1}
    BY <1>3
  <2>2. /\ Len(toWorker[w]) = 1 /\ Elements(toWorker[w]) = {Head(toWorker[w])}
        /\ Tail(toWorker[w]) = <<>> /\ Head(toWorker[w]) \in RouterClient
    BY <1>1, <1>4, <1>5, <2>1
  <2>3. Len(fromWorker[w]) = 0
    BY <1>3, <2>2
  <2>4. fromWorker[w] = <<>>
    BY <1>1, <2>3, EmptySeq
  <2> QED
    BY <2>2, <2>4
<1>6. CASE fromWorker[w] # <<>>
  <2>1. Len(fromWorker[w]) \in {0, 1}
    BY <1>3
  <2>2. /\ Len(fromWorker[w]) = 1 /\ Elements(fromWorker[w]) = {Head(fromWorker[w])}
        /\ Tail(fromWorker[w]) = <<>>
        /\ Head(fromWorker[w]) \in RouterClient \cup {IsReady}
    BY <1>1, <1>4, <1>6, <2>1
  <2>3. Len(toWorker[w]) = 0
    BY <1>3, <2>2
  <2>4. toWorker[w] = <<>>
    BY <1>1, <2>3, EmptySeq
  <2> QED
    BY <2>2, <2>4
<1> QED
  BY <1>5, <1>6

LEMMA IdleHolds ==
  ASSUME CountedInv, NEW b \in Router, pool[b] # <<>>
  PROVE  /\ Head(pool[b]) \in RouterWorker
         /\ toWorker[Head(pool[b])] = <<>> /\ fromWorker[Head(pool[b])] = <<>>
<1>1. PICK w : w = Head(pool[b])
  OBVIOUS
<1>2. w \in RouterWorker /\ WorkerHome[w] = b /\ pool[b] \in Seq(RouterWorker)
  <2>1. pool[b] \in Seq(WorkersOf(b)) /\ pool[b] \in Seq(RouterWorker)
    BY DEF CountedInv, PoolsAreLocal, RouterTypeOK
  <2>2. w \in WorkersOf(b)
    BY <1>1, <2>1, FirstRead
  <2> QED
    BY <2>1, <2>2 DEF WorkersOf
<1>3. Entries(pool[b], w) >= 1
  <2>1. Tail(pool[b]) \in Seq(RouterWorker)
    BY <1>2, FirstRead
  <2>2. Entries(pool[b], w) = Entries(Tail(pool[b]), w) + 1
    BY <1>1, <1>2, EntriesOfTail
  <2>3. Entries(Tail(pool[b]), w) \in Nat
    BY <1>2, <2>1, EntriesOfAppend
  <2> QED
    BY <2>2, <2>3
<1>4. /\ toWorker[w] \in Seq(RouterClient) /\ Once(w)
      /\ fromWorker[w] \in Seq(RouterClient \cup {IsReady})
      /\ Entries(pool[b], w) \in Nat
  BY <1>2, EntriesOfAppend DEF CountedInv, RouterTypeOK
<1>5. Len(toWorker[w]) = 0 /\ Len(fromWorker[w]) = 0
  BY <1>2, <1>3, <1>4, LenProperties DEF Once
<1> QED
  BY <1>1, <1>2, <1>4, <1>5, EmptySeq

(* A request given to a worker is there, and nothing else changes there.    *)
LEMMA GivenIsThere ==
  ASSUME CountedInv, NEW b \in Router, NEW c \in RouterClient,
         GiveToWorker(b, c), UNCHANGED fromWorker
  PROVE  \E v \in RouterWorker : \A d :
           /\ At(d, "worker", v)' <=> d = c
           /\ ~At(d, "worker", v)
           /\ \A x : x # v => (At(d, "worker", x)' <=> At(d, "worker", x))
<1>1. PICK v : v = Head(pool[b])
  OBVIOUS
<1>2. v \in RouterWorker /\ toWorker[v] = <<>> /\ fromWorker[v] = <<>>
  BY <1>1, IdleHolds DEF GiveToWorker
<1>3. toWorker' = [toWorker EXCEPT ![v] = Append(toWorker[v], c)]
  BY <1>1 DEF GiveToWorker
<1>4. toWorker'[v] = <<c>> /\ \A x \in RouterWorker : x # v => toWorker'[x] = toWorker[x]
  BY <1>2, <1>3 DEF CountedInv, RouterTypeOK
<1>5. Elements(<<>>) = {} /\ Elements(<<c>>) = {c}
  BY DEF Elements
<1>6. \A x : Elements(x)' = Elements(x)
  OBVIOUS
<1> QED
  BY <1>2, <1>4, <1>5 DEF At

(* The other places, when the variable they are in changes or does not.     *)
LEMMA SamePlaces ==
  /\ UNCHANGED localFront => \A d, x : At(d, "front", x)' <=> At(d, "front", x)
  /\ UNCHANGED remoteFront => \A d, x : At(d, "remote", x)' <=> At(d, "remote", x)
  /\ UNCHANGED remoteBack => \A d, x : At(d, "back", x)' <=> At(d, "back", x)
  /\ UNCHANGED passed => \A d, x : At(d, "passed", x)' <=> At(d, "passed", x)
  /\ UNCHANGED answered => \A d, x : At(d, "answered", x)' <=> At(d, "answered", x)
  /\ UNCHANGED <<toWorker, fromWorker>> =>
       \A d, x : At(d, "worker", x)' <=> At(d, "worker", x)
BY DEF At

Kinds == {"front", "remote", "back", "passed", "answered", "worker"}

LEMMA AtAKind ==
  \A d, k, x : (At(d, k, x) \/ At(d, k, x)') => k \in Kinds
BY DEF At, Kinds

(* A set of places at x gains c, or loses it.                               *)
Gained(k, x, c) ==
  \A d, y : At(d, k, y)' <=> At(d, k, y) \/ (d = c /\ y = x)
LostAt(k, x, c) ==
  \A d, y : At(d, k, y)' <=> At(d, k, y) /\ ~(d = c /\ y = x)
SameAt(k) == \A d, y : At(d, k, y)' <=> At(d, k, y)

(* A request that leaves one place for another of another kind.             *)
LEMMA Moves ==
  ASSUME \A d \in RouterClient : InOnePlace(d), UNCHANGED asking,
         ForeignersAsked => ForeignersAsked',
         NEW c \in RouterClient, NEW k0, NEW x0, NEW k1, NEW x1,
         At(c, k0, x0), k0 # k1, LostAt(k0, x0, c), Gained(k1, x1, c),
         \A k \in Kinds \ {k0, k1} : SameAt(k)
  PROVE  \A d \in RouterClient : InOnePlace(d)'
<1>1. At(c, k1, x1)'
  BY DEF Gained
<1>2. \A k, x : At(c, k, x)' =>
        \/ At(c, k, x) /\ ~(k = k0 /\ x = x0)
        \/ k = k1 /\ x = x1
  <2> SUFFICES ASSUME NEW k, NEW x, At(c, k, x)'
               PROVE  \/ At(c, k, x) /\ ~(k = k0 /\ x = x0)
                      \/ k = k1 /\ x = x1
    OBVIOUS
  <2>1. CASE k = k0
    BY <2>1 DEF LostAt
  <2>2. CASE k = k1
    BY <2>2 DEF Gained
  <2>3. CASE k \in Kinds \ {k0, k1}
    BY <2>3 DEF SameAt
  <2> QED
    BY <2>1, <2>2, <2>3, AtAKind
<1>3. \A d \in RouterClient \ {c} : \A k, x : At(d, k, x)' <=> At(d, k, x)
  <2> SUFFICES ASSUME NEW d \in RouterClient \ {c}, NEW k, NEW x
               PROVE  At(d, k, x)' <=> At(d, k, x)
    OBVIOUS
  <2>1. CASE k = k0
    BY <2>1 DEF LostAt
  <2>2. CASE k = k1
    BY <2>2 DEF Gained
  <2>3. CASE k \in Kinds \ {k0, k1}
    BY <2>3 DEF SameAt
  <2> QED
    BY <2>1, <2>2, <2>3, AtAKind
<1> QED
  BY <1>1, <1>2, <1>3, OneMoves

(* A request that leaves its place for none: a foreign peer has asked.      *)
LEMMA Leaves ==
  ASSUME \A d \in RouterClient : InOnePlace(d), UNCHANGED asking,
         ForeignersAsked', NEW c \in RouterClient, NEW k0, NEW x0,
         At(c, k0, x0), LostAt(k0, x0, c), \A k \in Kinds \ {k0} : SameAt(k)
  PROVE  \A d \in RouterClient : InOnePlace(d)'
<1>1. \A d, k, x : At(d, k, x)' <=> At(d, k, x) /\ ~(d = c /\ k = k0 /\ x = x0)
  <2> SUFFICES ASSUME NEW d, NEW k, NEW x
               PROVE  At(d, k, x)' <=> At(d, k, x) /\ ~(d = c /\ k = k0 /\ x = x0)
    OBVIOUS
  <2>1. CASE k = k0
    BY <2>1 DEF LostAt
  <2>2. CASE k \in Kinds \ {k0}
    BY <2>2 DEF SameAt
  <2> QED
    BY <2>1, <2>2, AtAKind
<1> QED
  BY <1>1, OneMoves

LEMMA LocalFrontendMoves ==
  ASSUME PlaceInv, NEW b \in Router, NEW c \in RouterClient,
         HandleLocalFrontend(b, c), ForeignersAsked => ForeignersAsked'
  PROVE  \A d \in RouterClient : InOnePlace(d)'
<1> USE DEF Kinds
<1>1. /\ At(c, "front", b) /\ LostAt("front", b, c)
      /\ UNCHANGED <<asking, remoteBack, answered, fromWorker, rounds>>
  BY DEF HandleLocalFrontend, At, LostAt, PlaceInv, RouterInv, RouterTypeOK, askVars
<1>2. SameAt("back") /\ SameAt("answered") /\ \A d \in RouterClient : InOnePlace(d)
  BY <1>1, SamePlaces DEF SameAt, PlaceInv
<1>3. CASE GiveToWorker(b, c) /\ UNCHANGED <<idlePeers, remoteFront, passed>>
  <2>1. PICK v \in RouterWorker : \A d :
           /\ At(d, "worker", v)' <=> d = c
           /\ ~At(d, "worker", v)
           /\ \A x : x # v => (At(d, "worker", x)' <=> At(d, "worker", x))
    BY <1>1, <1>3, GivenIsThere DEF PlaceInv
  <2>2. Gained("worker", v, c)
    BY <2>1 DEF Gained
  <2>3. SameAt("remote") /\ SameAt("passed")
    BY <1>3, SamePlaces DEF SameAt
  <2> QED
    BY <1>1, <1>2, <2>2, <2>3, Moves
<1>4. CASE PassOn(b, c) /\ UNCHANGED <<pool, toWorker>>
  <2>1. SameAt("worker")
    BY <1>1, <1>4, SamePlaces DEF SameAt
  <2>2. PICK p \in idlePeers[b] :
          IF p \in Router
            THEN /\ remoteFront' = [remoteFront EXCEPT ![p] = @ \cup {c}]
                 /\ UNCHANGED passed
            ELSE passed' = passed \cup {c} /\ UNCHANGED remoteFront
    BY <1>4 DEF PassOn
  <2>3. CASE p \in Router
    <3>1. Gained("remote", p, c)
      BY <2>2, <2>3 DEF Gained, At, PlaceInv, RouterInv, RouterTypeOK
    <3>2. SameAt("passed")
      BY <2>2, <2>3, SamePlaces DEF SameAt
    <3> QED
      BY <1>1, <1>2, <2>1, <3>1, <3>2, Moves
  <2>4. CASE p \notin Router
    <3>1. Gained("passed", "any", c)
      BY <2>2, <2>4 DEF Gained, At
    <3>2. SameAt("remote")
      BY <2>2, <2>4, SamePlaces DEF SameAt
    <3> QED
      BY <1>1, <1>2, <2>1, <3>1, <3>2, Moves
  <2> QED
    BY <2>3, <2>4
<1>5. CASE /\ pool[b] = <<>> /\ idlePeers[b] = {}
           /\ UNCHANGED <<pool, toWorker, idlePeers, remoteFront, passed>>
  <2>1. ForeignersAsked
    BY <1>5 DEF HandleLocalFrontend, Handles, PlaceInv, RouterInv, Undisturbed,
                KeepsToItself
  <2>2. SameAt("worker") /\ SameAt("remote") /\ SameAt("passed")
    BY <1>1, <1>5, SamePlaces DEF SameAt
  <2> QED
    BY <1>1, <1>2, <2>1, <2>2, Leaves
<1> QED
  BY <1>3, <1>4, <1>5 DEF HandleLocalFrontend

LEMMA RemoteFrontendMoves ==
  ASSUME PlaceInv, NEW b \in Router, NEW c \in RouterClient,
         HandleRemoteFrontend(b, c), ForeignersAsked => ForeignersAsked'
  PROVE  \A d \in RouterClient : InOnePlace(d)'
<1> USE DEF Kinds
<1>1. /\ At(c, "remote", b) /\ LostAt("remote", b, c)
      /\ UNCHANGED <<asking, localFront, passed, remoteBack, answered, fromWorker>>
  BY DEF HandleRemoteFrontend, At, LostAt, PlaceInv, RouterInv, RouterTypeOK, askVars
<1>2. /\ SameAt("front") /\ SameAt("passed") /\ SameAt("back") /\ SameAt("answered")
      /\ \A d \in RouterClient : InOnePlace(d)
  BY <1>1, SamePlaces DEF SameAt, PlaceInv
<1>3. ForeignersAsked
  BY DEF HandleRemoteFrontend, PlaceInv, RouterInv, Undisturbed, KeepsToItself
<1>4. CASE GiveToWorker(b, c)
  <2>1. PICK v \in RouterWorker : \A d :
           /\ At(d, "worker", v)' <=> d = c
           /\ ~At(d, "worker", v)
           /\ \A x : x # v => (At(d, "worker", x)' <=> At(d, "worker", x))
    BY <1>1, <1>4, GivenIsThere DEF PlaceInv
  <2>2. Gained("worker", v, c)
    BY <2>1 DEF Gained
  <2> QED
    BY <1>1, <1>2, <2>2, Moves
<1>5. CASE UNCHANGED <<pool, toWorker>>
  <2>1. SameAt("worker")
    BY <1>1, <1>5, SamePlaces DEF SameAt
  <2> QED
    BY <1>1, <1>2, <1>3, <2>1, Leaves
<1> QED
  BY <1>4, <1>5 DEF HandleRemoteFrontend

LEMMA LocalBackendMoves ==
  ASSUME PlaceInv, NEW b \in Router, NEW w \in RouterWorker,
         HandleLocalBackend(b, w), ForeignersAsked => ForeignersAsked'
  PROVE  \A d \in RouterClient : InOnePlace(d)'
<1> USE DEF Kinds
<1>0. PICK said : said = Head(fromWorker[w])
  OBVIOUS
<1>1. /\ UNCHANGED <<asking, localFront, remoteFront, passed, toWorker>>
      /\ fromWorker' = [fromWorker EXCEPT ![w] = Tail(fromWorker[w])]
      /\ fromWorker[w] # <<>>
      /\ IF said = IsReady THEN UNCHANGED <<answered, remoteBack>>
                           ELSE AnswerOf(b, said)
  BY <1>0 DEF HandleLocalBackend, askVars
<1>2. /\ SameAt("front") /\ SameAt("passed") /\ SameAt("remote")
      /\ \A d \in RouterClient : InOnePlace(d)
  BY <1>1, SamePlaces DEF SameAt, PlaceInv
<1>3. /\ Elements(fromWorker[w]) = {said} /\ Tail(fromWorker[w]) = <<>>
      /\ toWorker[w] = <<>> /\ said \in RouterClient \cup {IsReady}
  BY <1>0, <1>1, WorkerHolds DEF PlaceInv
<1>4. Elements(<<>>) = {}
  BY DEF Elements
<1>5. /\ fromWorker'[w] = <<>> /\ \A x \in RouterWorker : x # w => fromWorker'[x] = fromWorker[x]
  BY <1>1, <1>3 DEF PlaceInv, RouterInv, RouterTypeOK
<1>6. \A d, x : At(d, "worker", x)' <=> At(d, "worker", x) /\ x # w
  BY <1>1, <1>3, <1>4, <1>5 DEF At
<1>7. \A d : At(d, "worker", w) <=> d = said
  BY <1>3, <1>4 DEF At
<1>8. LostAt("worker", w, said)
  BY <1>6, <1>7 DEF LostAt
<1>9. CASE said = IsReady
  <2>1. SameAt("answered") /\ SameAt("back")
    BY <1>1, <1>9, SamePlaces DEF SameAt
  <2>2. said \notin RouterClient
    BY <1>9, RouterAssumption DEF IsReady
  <2>3. ASSUME NEW c \in RouterClient, NEW k, NEW x
        PROVE  At(c, k, x)' <=> At(c, k, x)
    <3>1. CASE k = "worker"
      BY <1>8, <2>2, <3>1 DEF LostAt
    <3>2. CASE k \in Kinds \ {"worker"}
      BY <1>2, <2>1, <3>2 DEF SameAt
    <3> QED
      BY <3>1, <3>2, AtAKind
  <2> QED
    BY <1>1, <1>2, <2>3, NothingMoves
<1>10. CASE said # IsReady
  <2>1. said \in RouterClient /\ At(said, "worker", w)
    BY <1>3, <1>7, <1>10
  <2>2. CASE ClientHome[said] \in Router \ {b}
    <3>1. Gained("back", ClientHome[said], said)
      BY <1>1, <1>10, <2>2
         DEF AnswerOf, Gained, At, PlaceInv, RouterInv, RouterTypeOK
    <3>2. SameAt("answered")
      BY <1>1, <1>10, <2>2, SamePlaces DEF AnswerOf, SameAt
    <3> QED
      BY <1>1, <1>2, <1>8, <2>1, <3>1, <3>2, Moves
  <2>3. CASE ClientHome[said] \notin Router \ {b}
    <3>1. Gained("answered", "any", said)
      BY <1>1, <1>10, <2>3 DEF AnswerOf, Gained, At
    <3>2. SameAt("back")
      BY <1>1, <1>10, <2>3, SamePlaces DEF AnswerOf, SameAt
    <3> QED
      BY <1>1, <1>2, <1>8, <2>1, <3>1, <3>2, Moves
  <2> QED
    BY <2>2, <2>3
<1> QED
  BY <1>9, <1>10

LEMMA RemoteBackendMoves ==
  ASSUME PlaceInv, NEW b \in Router, NEW c \in RouterClient,
         HandleRemoteBackend(b, c), ForeignersAsked => ForeignersAsked'
  PROVE  \A d \in RouterClient : InOnePlace(d)'
<1> USE DEF Kinds
<1>1. /\ At(c, "back", b) /\ LostAt("back", b, c) /\ Gained("answered", "any", c)
      /\ UNCHANGED <<asking, localFront, remoteFront, passed, toWorker, fromWorker>>
  BY DEF HandleRemoteBackend, At, LostAt, Gained, PlaceInv, RouterInv,
         RouterTypeOK, askVars
<1>2. /\ SameAt("front") /\ SameAt("passed") /\ SameAt("remote") /\ SameAt("worker")
      /\ \A d \in RouterClient : InOnePlace(d)
  BY <1>1, SamePlaces DEF SameAt, PlaceInv
<1> QED
  BY <1>1, <1>2, Moves

LEMMA DoWorkMoves ==
  ASSUME PlaceInv, NEW w \in RouterWorker, DoWork(w),
         ForeignersAsked => ForeignersAsked'
  PROVE  \A d \in RouterClient : InOnePlace(d)'
<1> USE DEF Kinds
<1>0. PICK said : said = Head(toWorker[w])
  OBVIOUS
<1>1. /\ UNCHANGED <<asking, localFront, remoteFront, passed, remoteBack, answered>>
      /\ toWorker' = [toWorker EXCEPT ![w] = Tail(toWorker[w])]
      /\ fromWorker' = [fromWorker EXCEPT ![w] = Append(fromWorker[w], said)]
      /\ toWorker[w] # <<>>
  BY <1>0 DEF DoWork, askVars
<1>2. /\ Elements(toWorker[w]) = {said} /\ Tail(toWorker[w]) = <<>>
      /\ fromWorker[w] = <<>>
  BY <1>0, <1>1, WorkerHolds DEF PlaceInv
<1>3. Elements(<<>>) = {} /\ Elements(<<said>>) = {said}
  BY DEF Elements
<1>4. /\ toWorker'[w] = <<>> /\ fromWorker'[w] = <<said>>
      /\ \A x \in RouterWorker :
           x # w => toWorker'[x] = toWorker[x] /\ fromWorker'[x] = fromWorker[x]
  BY <1>1, <1>2 DEF PlaceInv, RouterInv, RouterTypeOK
<1>5. SameAt("worker")
  <2>1. ASSUME NEW d, NEW x
        PROVE  At(d, "worker", x)' <=> At(d, "worker", x)
    <3>1. CASE x = w
      BY <1>2, <1>3, <1>4, <3>1 DEF At
    <3>2. CASE x # w
      BY <1>4, <3>2 DEF At
    <3> QED
      BY <3>1, <3>2
  <2> QED
    BY <2>1 DEF SameAt
<1>6. \A k \in Kinds : SameAt(k)
  BY <1>1, <1>5, SamePlaces DEF SameAt
<1> QED
  BY <1>1, <1>6, NothingMoves, AtAKind DEF SameAt, PlaceInv

(* Who asks waits for nothing else, and who has read the answer for nothing.*)
LEMMA ClientMoves ==
  ASSUME PlaceInv, NEW c \in RouterClient,
         DoRequest(c) \/ ReadAnswer(c) \/ ForeignAnswers(c),
         ForeignersAsked => ForeignersAsked'
  PROVE  \A d \in RouterClient : InOnePlace(d)'
<1> USE DEF Kinds
<1>0. \A d \in RouterClient : InOnePlace(d)
  BY DEF PlaceInv
<1>1. CASE DoRequest(c)
  <2>1. /\ UNCHANGED <<passed, remoteBack, toWorker, fromWorker, answered>>
        /\ asking' = [asking EXCEPT ![c] = TRUE] /\ ~asking[c]
    BY <1>1 DEF DoRequest
  <2>2. SameAt("passed") /\ SameAt("back") /\ SameAt("worker") /\ SameAt("answered")
    BY <2>1, SamePlaces DEF SameAt
  <2>3. \A k, x : ~At(c, k, x)
    BY <1>0, <2>1 DEF InOnePlace
  <2>4. asking'[c] /\ \A d \in RouterClient : d # c => asking'[d] = asking[d]
    BY <2>1 DEF PlaceInv, RouterInv, RouterTypeOK
  <2>5. ASSUME NEW k1 \in {"front", "remote"}, NEW x1, Gained(k1, x1, c),
               \A k \in Kinds \ {k1} : SameAt(k)
        PROVE  \A d \in RouterClient : InOnePlace(d)'
    <3>1. \A d, k, x : At(d, k, x)' <=> At(d, k, x) \/ (d = c /\ k = k1 /\ x = x1)
      <4> SUFFICES ASSUME NEW d, NEW k, NEW x
                   PROVE  At(d, k, x)' <=> At(d, k, x) \/ (d = c /\ k = k1 /\ x = x1)
        OBVIOUS
      <4>1. CASE k = k1
        BY <2>5, <4>1 DEF Gained
      <4>2. CASE k \in Kinds \ {k1}
        BY <2>5, <4>2 DEF SameAt
      <4> QED
        BY <2>5, <4>1, <4>2, AtAKind
    <3>2. ASSUME NEW d \in RouterClient, d # c
          PROVE  InOnePlace(d)'
      BY <1>0, <2>4, <3>1, <3>2 DEF InOnePlace
    <3>3. InOnePlace(c)'
      BY <2>3, <2>4, <3>1 DEF InOnePlace
    <3> QED
      BY <3>2, <3>3
  <2>6. CASE ClientHome[c] \in Router
    <3>1. Gained("front", ClientHome[c], c)
      BY <1>1, <2>6 DEF DoRequest, Gained, At, PlaceInv, RouterInv, RouterTypeOK
    <3>2. SameAt("remote")
      BY <1>1, <2>6, SamePlaces DEF DoRequest, SameAt
    <3> QED
      BY <2>2, <2>5, <3>1, <3>2
  <2>7. CASE ClientHome[c] \notin Router
    <3>1. PICK b \in Router :
            remoteFront' = [remoteFront EXCEPT ![b] = remoteFront[b] \cup {c}]
      BY <1>1, <2>7 DEF DoRequest
    <3>2. Gained("remote", b, c)
      BY <3>1 DEF Gained, At, PlaceInv, RouterInv, RouterTypeOK
    <3>3. SameAt("front")
      BY <1>1, <2>7, SamePlaces DEF DoRequest, SameAt
    <3> QED
      BY <2>2, <2>5, <3>2, <3>3
  <2> QED
    BY <2>6, <2>7
<1>2. CASE ReadAnswer(c)
  <2>1. /\ UNCHANGED <<passed, remoteBack, toWorker, fromWorker, localFront, remoteFront>>
        /\ asking' = [asking EXCEPT ![c] = FALSE]
        /\ At(c, "answered", "any") /\ LostAt("answered", "any", c)
    BY <1>2 DEF ReadAnswer, At, LostAt
  <2>2. /\ SameAt("passed") /\ SameAt("back") /\ SameAt("worker")
        /\ SameAt("front") /\ SameAt("remote")
    BY <2>1, SamePlaces DEF SameAt
  <2>3. ~asking'[c] /\ \A d \in RouterClient : d # c => asking'[d] = asking[d]
    BY <2>1 DEF PlaceInv, RouterInv, RouterTypeOK
  <2>4. \A d, k, x : At(d, k, x)'
                       <=> At(d, k, x) /\ ~(d = c /\ k = "answered" /\ x = "any")
    <3> SUFFICES ASSUME NEW d, NEW k, NEW x
                 PROVE  At(d, k, x)'
                          <=> At(d, k, x) /\ ~(d = c /\ k = "answered" /\ x = "any")
      OBVIOUS
    <3>1. CASE k = "answered"
      BY <2>1, <3>1 DEF LostAt
    <3>2. CASE k \in Kinds \ {"answered"}
      BY <2>2, <3>2 DEF SameAt
    <3> QED
      BY <3>1, <3>2, AtAKind
  <2>5. \A k, x : ~At(c, k, x)'
    BY <1>0, <2>1, <2>4 DEF InOnePlace
  <2>6. InOnePlace(c)'
    BY <2>3, <2>5 DEF InOnePlace
  <2>7. ASSUME NEW d \in RouterClient, d # c
        PROVE  InOnePlace(d)'
    BY <1>0, <2>3, <2>4, <2>7 DEF InOnePlace
  <2> QED
    BY <2>6, <2>7
<1>3. CASE ForeignAnswers(c)
  <2>1. /\ UNCHANGED <<asking, answered, toWorker, fromWorker, localFront, remoteFront>>
        /\ At(c, "passed", "any") /\ LostAt("passed", "any", c)
    BY <1>3 DEF ForeignAnswers, At, LostAt, askVars
  <2>2. /\ SameAt("answered") /\ SameAt("worker")
        /\ SameAt("front") /\ SameAt("remote")
    BY <2>1, SamePlaces DEF SameAt
  <2>3. ForeignersAsked
    BY <1>3 DEF ForeignAnswers, PlaceInv, RouterInv, Undisturbed
  <2>4. CASE ClientHome[c] \in Router
    <3>1. Gained("back", ClientHome[c], c)
      BY <1>3, <2>4 DEF ForeignAnswers, Gained, At, PlaceInv, RouterInv, RouterTypeOK
    <3> QED
      BY <1>0, <2>1, <2>2, <3>1, Moves
  <2>5. CASE ClientHome[c] \notin Router
    <3>1. SameAt("back")
      BY <1>3, <2>5 DEF ForeignAnswers, SameAt, At, PlaceInv, RouterInv, RouterTypeOK
    <3> QED
      BY <1>0, <2>1, <2>2, <2>3, <3>1, Leaves
  <2> QED
    BY <2>4, <2>5
<1> QED
  BY <1>1, <1>2, <1>3

LEMMA PlaceInvInit == RouterInit => PlaceInv
<1> SUFFICES ASSUME RouterInit PROVE PlaceInv
  OBVIOUS
<1>1. Elements(<<>>) = {} /\ Elements(<<IsReady>>) = {IsReady}
  BY DEF Elements
<1>2. ASSUME NEW c \in RouterClient, NEW k, NEW x
      PROVE  ~At(c, k, x)
  BY <1>1, RouterAssumption DEF RouterInit, At, IsReady
<1>3. \A c \in RouterClient : InOnePlace(c)
  BY <1>2 DEF RouterInit, InOnePlace
<1> QED
  BY <1>3, InitInv, CountedInit DEF PlaceInv

LEMMA PlaceInvStep == PlaceInv /\ [InterNext]_interVars => PlaceInv'
<1> SUFFICES ASSUME PlaceInv, [InterNext]_interVars PROVE PlaceInv'
  OBVIOUS
<1>1. RouterInv' /\ CountedInv'
  BY StepInv, CountedStep DEF PlaceInv
<1>2. ForeignersAsked => ForeignersAsked'
  <2>1. CASE InterNext
    BY <2>1, OnceAsked DEF PlaceInv, RouterInv
  <2>2. CASE UNCHANGED interVars
    BY <2>2 DEF ForeignersAsked, interVars, askVars
  <2> QED
    BY <2>1, <2>2
<1>3. CASE UNCHANGED <<asking, localFront, remoteFront, passed, remoteBack, answered,
                       toWorker, fromWorker>>
  <2>1. \A c, k, x : At(c, k, x)' <=> At(c, k, x)
    BY <1>3 DEF At
  <2> QED
    BY <1>1, <1>2, <1>3, <2>1, NothingMoves DEF PlaceInv
<1>4. \/ UNCHANGED <<asking, localFront, remoteFront, passed, remoteBack, answered,
                     toWorker, fromWorker>>
      \/ \E b \in Router, c \in RouterClient :
           \/ HandleLocalFrontend(b, c) \/ HandleRemoteFrontend(b, c)
           \/ HandleRemoteBackend(b, c)
      \/ \E b \in Router, w \in RouterWorker : HandleLocalBackend(b, w)
      \/ \E w \in RouterWorker : DoWork(w)
      \/ \E c \in RouterClient : DoRequest(c) \/ ReadAnswer(c) \/ ForeignAnswers(c)
  BY DEF InterNext, RouterStep, Poll, BroadcastMyState, HandleStateUpdate,
         ForeignPublishes, interVars, routerVars, wireVars, askVars
<1> QED
  BY <1>1, <1>2, <1>3, <1>4, LocalFrontendMoves, RemoteFrontendMoves,
     RemoteBackendMoves, LocalBackendMoves, DoWorkMoves, ClientMoves DEF PlaceInv

(* A client's request is in one place at most, and it disappears while its  *)
(* client still waits only where a peer that is no broker of this code has  *)
(* asked: handlers of these brokers pass each request on, whatever happens. *)
THEOREM OnlyForeignersLose == InterSpec => []LostOnlyToForeigners
BY PlaceInvInit, PlaceInvStep, PlaceInvSuffices, PTL DEF InterSpec

-----------------------------------------------------------------------------
(* Freelance                                                               *)
FlMessage == [type : {"PING", "PONG"}] \cup [type : {"command"}, n : Nat]

(* Who has had a command: it waits for the server, it comes back from it,   *)
(* or the proxy has read it.                                                *)
Bears(q, r) == \E i \in DOMAIN q : q[i] = Command(r)
Holds(s, r) ==
  Bears(toHost[s], r) \/ Bears(fromHost[s], r) \/ <<s, r>> \in answeredBy

FlTyped ==
  /\ command \in 0 .. Commands /\ mAvailServers \subseteq Host
  /\ reqs \in Seq(1 .. command)
  /\ toHost \in [Host -> Seq(FlMessage)]
  /\ fromHost \in [Host -> Seq(FlMessage)]
  /\ "request" \in flEvents => reqs # <<>>

(* The commands in the PAIR socket are in order, and no one has had them;   *)
(* any other one server has had at most.                                    *)
CommandInv ==
  /\ FlTyped
  /\ \A i, j \in DOMAIN reqs : i < j => reqs[i] < reqs[j]
  /\ \A r \in 1 .. Commands, s \in Host :
       Holds(s, r) => r <= command /\ \A i \in DOMAIN reqs : reqs[i] # r
  /\ \A r \in 1 .. Commands : \A s, t \in Host :
       Holds(s, r) /\ Holds(t, r) => s = t

LEMMA CommandInjective ==
  \A r \in Nat, q \in Nat :
    /\ Command(r) = Command(q) => r = q
    /\ Command(r) # Ping /\ Command(r) # Pong
    /\ Command(r) \in FlMessage /\ Ping \in FlMessage /\ Pong \in FlMessage
<1>1. Command(1).type = "command" /\ Ping.type = "PING" /\ Pong.type = "PONG"
  BY DEF Command, Ping, Pong
<1>2. \A r \in Nat : Command(r).n = r /\ Command(r).type = "command"
  BY DEF Command
<1>3. \A r \in Nat : Command(r) \in FlMessage
  BY DEF Command, FlMessage
<1>4. Ping \in FlMessage /\ Pong \in FlMessage
  BY DEF Ping, Pong, FlMessage
<1> QED
  BY <1>1, <1>2, <1>3, <1>4

LEMMA CommandOrNot ==
  ASSUME NEW m \in FlMessage, m.type = "command"
  PROVE  m.n \in Nat /\ m = Command(m.n)
<1>1. CASE m \in [type : {"PING", "PONG"}]
  BY <1>1
<1>2. CASE m \in [type : {"command"}, n : Nat]
  BY <1>2 DEF Command
<1> QED
  BY <1>1, <1>2 DEF FlMessage

(* What a queue bears when one message is read from it, added to it, or     *)
(* only a first part of it arrives, or only the last one.                   *)
LEMMA BearsTail ==
  ASSUME NEW q \in Seq(FlMessage), q # <<>>, NEW r
  PROVE  /\ Bears(Tail(q), r) => Bears(q, r)
         /\ Head(q) = Command(r) => Bears(q, r)
         /\ Tail(q) \in Seq(FlMessage) /\ Head(q) \in FlMessage
<1>1. /\ Len(q) \in Nat /\ Len(q) >= 1 /\ DOMAIN q = 1 .. Len(q)
      /\ DOMAIN Tail(q) = 1 .. Len(q) - 1
      /\ \A i \in 1 .. Len(q) - 1 : Tail(q)[i] = q[i + 1]
      /\ Head(q) = q[1]
      /\ Tail(q) \in Seq(FlMessage) /\ Head(q) \in FlMessage
  BY HeadTailProperties, EmptySeq, LenProperties
<1> QED
  BY <1>1 DEF Bears

LEMMA BearsAppend ==
  ASSUME NEW q \in Seq(FlMessage), NEW m \in FlMessage, NEW r
  PROVE  /\ Bears(Append(q, m), r) => Bears(q, r) \/ m = Command(r)
         /\ Append(q, m) \in Seq(FlMessage)
<1>1. /\ Len(q) \in Nat /\ DOMAIN q = 1 .. Len(q)
      /\ DOMAIN Append(q, m) = 1 .. Len(q) + 1
      /\ \A i \in 1 .. Len(q) : Append(q, m)[i] = q[i]
      /\ Append(q, m)[Len(q) + 1] = m
      /\ Append(q, m) \in Seq(FlMessage)
  BY AppendProperties, LenProperties
<1> QED
  BY <1>1 DEF Bears

LEMMA BearsFirst ==
  ASSUME NEW q \in Seq(FlMessage), NEW n \in 0 .. Len(q), NEW r
  PROVE  /\ Bears(SubSeq(q, 1, n), r) => Bears(q, r)
         /\ SubSeq(q, 1, n) \in Seq(FlMessage)
<1>1. Len(q) \in Nat /\ DOMAIN q = 1 .. Len(q)
  BY LenProperties
<1>2. /\ SubSeq(q, 1, n) \in Seq(FlMessage)
      /\ DOMAIN SubSeq(q, 1, n) = 1 .. n
      /\ \A i \in 1 .. n : SubSeq(q, 1, n)[i] = q[i]
  BY <1>1, SubSeqProperties
<1> QED
  BY <1>1, <1>2 DEF Bears

LEMMA BearsLast ==
  ASSUME NEW q \in Seq(FlMessage), NEW n \in 0 .. Len(q), NEW r
  PROVE  /\ Bears(SubSeq(q, n + 1, Len(q)), r) => Bears(q, r)
         /\ SubSeq(q, n + 1, Len(q)) \in Seq(FlMessage)
<1> DEFINE rest == SubSeq(q, n + 1, Len(q))
<1>1. /\ Len(q) \in Nat /\ DOMAIN q = 1 .. Len(q)
      /\ \A i \in n + 1 .. Len(q) : i \in 1 .. Len(q) /\ q[i] \in FlMessage
  BY LenProperties, ElementOfSeq
<1>2. /\ rest \in Seq(FlMessage)
      /\ Len(rest) = IF n + 1 <= Len(q) THEN Len(q) - (n + 1) + 1 ELSE 0
      /\ \A i \in 1 .. Len(q) - (n + 1) + 1 : rest[i] = q[n + 1 + i - 1]
  BY <1>1, SubSeqProperties
<1> HIDE DEF rest
<1>3. DOMAIN rest = 1 .. Len(rest)
  BY <1>2, LenProperties
<1>4. ASSUME NEW i \in DOMAIN rest  PROVE n + i \in DOMAIN q /\ rest[i] = q[n + i]
  <2>1. i \in 1 .. Len(q) - (n + 1) + 1 /\ n \in Nat
    <3>1. n \in Nat /\ Len(q) \in Nat /\ i \in 1 .. Len(rest)
      BY <1>1, <1>3
    <3>2. CASE n + 1 <= Len(q)
      BY <1>2, <3>1, <3>2
    <3>3. CASE ~(n + 1 <= Len(q))
      BY <1>2, <3>1, <3>3
    <3> QED
      BY <3>2, <3>3
  <2>2. n + i \in 1 .. Len(q) /\ n + 1 + i - 1 = n + i
    BY <1>1, <2>1
  <2> QED
    BY <1>1, <1>2, <2>1, <2>2
<1> QED
  BY <1>2, <1>4 DEF Bears, rest

(* What Sent does to the queues of the servers.                             *)
LEMMA SentEach ==
  ASSUME toHost \in [Host -> Seq(FlMessage)], NEW f,
         \A s \in DOMAIN f : f[s] \in FlMessage,
         toHost' = Sent(f)
  PROVE  /\ toHost' \in [Host -> Seq(FlMessage)]
         /\ \A s \in Host, r \in Nat :
              Bears(toHost'[s], r)
                => Bears(toHost[s], r) \/ (s \in DOMAIN f /\ f[s] = Command(r))
<1>1. ASSUME NEW s \in Host, NEW r \in Nat
      PROVE  /\ toHost'[s] \in Seq(FlMessage)
             /\ Bears(toHost'[s], r)
                  => Bears(toHost[s], r) \/ (s \in DOMAIN f /\ f[s] = Command(r))
  <2>1. CASE s \in DOMAIN f /\ shaken[s] /\ Len(toHost[s]) < HostHwm
    <3>1. toHost'[s] = Append(toHost[s], f[s])
      BY <2>1 DEF Sent
    <3> QED
      BY <2>1, <3>1, BearsAppend
  <2>2. CASE ~(s \in DOMAIN f /\ shaken[s] /\ Len(toHost[s]) < HostHwm)
    BY <2>2 DEF Sent
  <2> QED
    BY <2>1, <2>2
<1>2. ASSUME NEW s \in Host PROVE toHost'[s] \in Seq(FlMessage)
  BY <1>1, 0 \in Nat
<1>3. toHost' = [s \in Host |-> toHost'[s]]
  BY DEF Sent
<1> QED
  BY <1>1, <1>2, <1>3

(* A step that hands out no command keeps the invariant.                    *)
LEMMA NothingHandedOut ==
  ASSUME CommandInv, FlTyped', UNCHANGED <<command, reqs>>,
         \A s \in Host, r \in 1 .. Commands : Holds(s, r)' => Holds(s, r)
  PROVE  CommandInv'
BY DEF CommandInv

LEMMA CommandInvInit == FreelanceInit => CommandInv
<1> SUFFICES ASSUME FreelanceInit PROVE CommandInv
  OBVIOUS
<1>1. <<>> \in Seq(FlMessage) /\ <<>> \in Seq(1 .. 0) /\ DOMAIN <<>> = {}
  BY EmptySeq
<1>2. FlTyped
  BY <1>1, FreelanceAssumption DEF FreelanceInit, FlTyped
<1>3. \A s \in Host, r \in 1 .. Commands : ~Holds(s, r)
  BY <1>1 DEF FreelanceInit, Holds, Bears
<1> QED
  BY <1>1, <1>2, <1>3 DEF FreelanceInit, CommandInv

(* What forwardReq does: the first command leaves the socket, and with it   *)
(* one server at most has had it.                                           *)
LEMMA ForwardKeeps ==
  ASSUME CommandInv, ForwardReq
  PROVE  CommandInv'
<1> DEFINE r1 == Head(reqs)
<1>1. /\ reqs \in Seq(1 .. command) /\ reqs # <<>> /\ command \in 0 .. Commands
      /\ reqs' = Tail(reqs) /\ command' = command
  BY DEF ForwardReq, CommandInv, FlTyped
<1>2. /\ Len(reqs) \in Nat /\ Len(reqs) >= 1 /\ DOMAIN reqs = 1 .. Len(reqs)
      /\ DOMAIN reqs' = 1 .. Len(reqs) - 1
      /\ \A i \in 1 .. Len(reqs) - 1 : reqs'[i] = reqs[i + 1]
      /\ r1 = reqs[1] /\ reqs' \in Seq(1 .. command) /\ r1 \in 1 .. command
  BY <1>1, HeadTailProperties, EmptySeq, LenProperties
<1> DEFINE Gains(s, r) == Bears(toHost'[s], r) /\ ~Bears(toHost[s], r)
<1>3. /\ toHost' \in [Host -> Seq(FlMessage)]
      /\ \A s \in Host, r \in 1 .. Commands : Gains(s, r) => r = r1
      /\ \A s, t \in Host : Gains(s, r1) /\ Gains(t, r1) => s = t
  <2>1. ASSUME UNCHANGED toHost
        PROVE  /\ toHost' \in [Host -> Seq(FlMessage)]
               /\ \A s \in Host, r \in 1 .. Commands : ~Gains(s, r)
               /\ \A s \in Host : ~Gains(s, r1)
    BY <2>1 DEF CommandInv, FlTyped
  <2>2. ASSUME NEW first \in mAvailServers,
               toHost' = Sent([s \in mAvailServers |->
                                 Command(IF s = first THEN Head(reqs) ELSE 0)])
        PROVE  /\ toHost' \in [Host -> Seq(FlMessage)]
               /\ \A s \in Host, r \in 1 .. Commands :
                    Gains(s, r) => r = r1 /\ s = first
    <3> DEFINE f == [s \in mAvailServers |->
                       Command(IF s = first THEN Head(reqs) ELSE 0)]
    <3>1. \A s \in mAvailServers : f[s] \in FlMessage
      BY <1>2, CommandInjective
    <3>2. /\ toHost' \in [Host -> Seq(FlMessage)]
          /\ \A s \in Host, r \in Nat :
               Bears(toHost'[s], r)
                 => Bears(toHost[s], r)
                    \/ (s \in mAvailServers /\ f[s] = Command(r))
      <4>1. /\ toHost \in [Host -> Seq(FlMessage)] /\ mAvailServers \in SUBSET Host
            /\ DOMAIN f = mAvailServers /\ toHost' = Sent(f)
        BY <2>2 DEF CommandInv, FlTyped
      <4> HIDE DEF f
      <4> QED
        BY <3>1, <4>1, SentEach
    <3>3. ASSUME NEW s \in Host, NEW r \in 1 .. Commands, s \in mAvailServers,
                 f[s] = Command(r)
          PROVE  r = r1 /\ s = first
      <4>1. f[s] = Command(IF s = first THEN r1 ELSE 0)
        BY <3>3
      <4>2. r \in Nat /\ r # 0 /\ r1 \in Nat /\ 0 \in Nat
        BY <1>2, FreelanceAssumption
      <4> HIDE DEF f, r1
      <4> QED
        BY <3>3, <4>1, <4>2, CommandInjective
    <3> HIDE DEF f
    <3>4. \A r \in 1 .. Commands : r \in Nat
      BY FreelanceAssumption
    <3> QED
      BY <3>2, <3>3, <3>4
  <2>3. \/ UNCHANGED toHost
        \/ \E first \in mAvailServers :
             toHost' = Sent([s \in mAvailServers |->
                               Command(IF s = first THEN Head(reqs) ELSE 0)])
    BY DEF ForwardReq
  <2>4. r1 \in 1 .. Commands
    BY <1>1, <1>2, FreelanceAssumption
  <2> HIDE DEF Gains, r1
  <2> QED
    BY <2>1, <2>2, <2>3, <2>4
<1>4. /\ fromHost' = fromHost /\ answeredBy' = answeredBy
      /\ mAvailServers' = mAvailServers /\ flEvents' = flEvents \ {"request"}
  BY DEF ForwardReq
<1>5. FlTyped'
  BY <1>1, <1>2, <1>3, <1>4 DEF CommandInv, FlTyped
<1>6. \A s \in Host, r \in 1 .. Commands :
        Holds(s, r)' => Holds(s, r) \/ (r = r1 /\ Gains(s, r))
  BY <1>3, <1>4 DEF Holds
<1>7. \A s \in Host : ~Holds(s, r1)
  <2>1. r1 \in 1 .. Commands /\ 1 \in DOMAIN reqs
    BY <1>1, <1>2, FreelanceAssumption
  <2> QED
    BY <1>2, <2>1 DEF CommandInv
<1>8. \A i \in DOMAIN reqs' : i + 1 \in DOMAIN reqs /\ reqs'[i] # r1
                             /\ reqs'[i] = reqs[i + 1]
  <2>1. \A i \in DOMAIN reqs' : i + 1 \in DOMAIN reqs /\ 1 < i + 1
                                /\ reqs'[i] = reqs[i + 1]
    BY <1>2
  <2>2. \A i, j \in DOMAIN reqs : i < j => reqs[i] < reqs[j]
    BY DEF CommandInv
  <2>3. \A i \in DOMAIN reqs : reqs[i] \in 1 .. command
    BY <1>1, <1>2, ElementOfSeq
  <2>4. 1 \in DOMAIN reqs
    BY <1>2
  <2>5. \A i \in DOMAIN reqs' : reqs[1] < reqs[i + 1]
    BY <2>1, <2>2, <2>4
  <2> QED
    BY <1>1, <1>2, <2>1, <2>3, <2>4, <2>5
<1>9. \A i, j \in DOMAIN reqs' : i < j => reqs'[i] < reqs'[j]
  <2> SUFFICES ASSUME NEW i \in DOMAIN reqs', NEW j \in DOMAIN reqs', i < j
               PROVE  reqs'[i] < reqs'[j]
    OBVIOUS
  <2>1. i + 1 < j + 1 /\ i + 1 \in DOMAIN reqs /\ j + 1 \in DOMAIN reqs
    BY <1>2
  <2>2. reqs[i + 1] < reqs[j + 1]
    BY <2>1 DEF CommandInv
  <2> QED
    BY <1>8, <2>2
<1>10. ASSUME NEW r \in 1 .. Commands, NEW s \in Host, Holds(s, r)'
       PROVE  r <= command' /\ \A i \in DOMAIN reqs' : reqs'[i] # r
  <2>1. CASE Holds(s, r)
    <3>1. r <= command /\ \A i \in DOMAIN reqs : reqs[i] # r
      BY <2>1 DEF CommandInv
    <3> QED
      BY <1>1, <1>8, <3>1
  <2>2. CASE r = r1
    BY <1>1, <1>2, <1>8, <2>2
  <2> QED
    BY <1>6, <1>10, <2>1, <2>2
<1>11. ASSUME NEW r \in 1 .. Commands, NEW s \in Host, NEW t \in Host,
              Holds(s, r)', Holds(t, r)'
       PROVE  s = t
  <2>1. CASE r = r1
    BY <1>3, <1>6, <1>7, <1>11, <2>1
  <2>2. CASE r # r1
    <3>1. Holds(s, r) /\ Holds(t, r)
      BY <1>6, <1>11, <2>2
    <3> QED
      BY <3>1 DEF CommandInv
  <2> QED
    BY <2>1, <2>2
<1> HIDE DEF r1, Gains
<1> QED
  BY <1>5, <1>9, <1>10, <1>11 DEF CommandInv

LEMMA ProxyKeeps ==
  ASSUME CommandInv, ProxyStep
  PROVE  CommandInv'
<1> USE DEF CommandInv, FlTyped
<1>1. ASSUME UNCHANGED <<command, reqs, mAvailServers, toHost, fromHost,
                         answeredBy>>,
             "request" \in flEvents' => reqs # <<>>
      PROVE  CommandInv'
  <2>1. FlTyped' /\ \A s, r : Holds(s, r)' = Holds(s, r)
    BY <1>1 DEF Holds
  <2> QED
    BY <1>1, <2>1, NothingHandedOut
<1>2. CASE ProxyPoll
  BY <1>1, <1>2 DEF ProxyPoll, serviceVars, hostVars
<1>3. CASE ForwardReq
  BY <1>3, ForwardKeeps
<1>4. CASE ForwardHeartbeat
  <2> DEFINE f == [s \in Host |-> Ping]
  <2>1. /\ DOMAIN f = Host /\ \A s \in Host : f[s] = Ping
        /\ toHost' = Sent(f)
    BY <1>4 DEF ForwardHeartbeat
  <2> HIDE DEF f
  <2>2. /\ toHost' \in [Host -> Seq(FlMessage)]
        /\ \A s \in Host, r \in Nat : Bears(toHost'[s], r) => Bears(toHost[s], r)
    BY <2>1, SentEach, CommandInjective
  <2>3. \A r \in 1 .. Commands : r \in Nat
    BY FreelanceAssumption
  <2>4. FlTyped'
    BY <1>4, <2>2 DEF ForwardHeartbeat
  <2>5. \A s \in Host, r \in 1 .. Commands : Holds(s, r)' => Holds(s, r)
    BY <1>4, <2>2, <2>3 DEF ForwardHeartbeat, Holds
  <2> QED
    BY <1>4, <2>4, <2>5, NothingHandedOut DEF ForwardHeartbeat
<1>5. CASE PurgeDeadServers
  <2>1. FlTyped' /\ \A s, r : Holds(s, r)' = Holds(s, r)
    BY <1>5 DEF PurgeDeadServers, Holds, serviceVars, hostVars
  <2> QED
    BY <1>5, <2>1, NothingHandedOut DEF PurgeDeadServers, serviceVars
<1>6. ASSUME NEW s \in Host, ProxyReceives(s)
      PROVE  CommandInv'
  <2> DEFINE m == Head(fromHost[s])
  <2>1. /\ fromHost[s] \in Seq(FlMessage) /\ fromHost[s] # <<>>
        /\ fromHost' = [fromHost EXCEPT ![s] = Tail(fromHost[s])]
        /\ toHost' = toHost /\ mAvailServers' \subseteq Host
        /\ UNCHANGED <<command, reqs>> /\ flEvents' \subseteq flEvents
    BY <1>6 DEF ProxyReceives, Heard, serviceVars
  <2>2. /\ Tail(fromHost[s]) \in Seq(FlMessage) /\ m \in FlMessage
        /\ \A r : Bears(Tail(fromHost[s]), r) => Bears(fromHost[s], r)
        /\ \A r : m = Command(r) => Bears(fromHost[s], r)
    BY <2>1, BearsTail
  <2>3. FlTyped'
    BY <2>1, <2>2
  <2>4. \A t \in Host, r \in 1 .. Commands :
          <<t, r>> \in answeredBy' => <<t, r>> \in answeredBy
                                     \/ (t = s /\ m = Command(r))
    <3>1. CASE m.type = "command"
      <4>1. m = Command(m.n)
        BY <2>2, <3>1, CommandOrNot
      <4>2. answeredBy' = answeredBy \cup {<<s, m.n>>}
        BY <1>6, <3>1 DEF ProxyReceives
      <4> QED
        BY <4>1, <4>2
    <3>2. CASE m.type # "command"
      BY <1>6, <3>2 DEF ProxyReceives
    <3> QED
      BY <3>1, <3>2
  <2> HIDE DEF m
  <2>5. \A t \in Host, r \in 1 .. Commands :
          Bears(fromHost'[t], r) => Bears(fromHost[t], r)
    BY <2>1, <2>2
  <2>6. \A t \in Host, r \in 1 .. Commands : Holds(t, r)' => Holds(t, r)
    BY <2>1, <2>2, <2>4, <2>5 DEF Holds
  <2> QED
    BY <2>1, <2>3, <2>6, NothingHandedOut
<1> QED
  BY <1>2, <1>3, <1>4, <1>5, <1>6 DEF ProxyStep

(* A new command has a number that no one has had.                          *)
LEMMA SendKeeps ==
  ASSUME CommandInv, SendCommand
  PROVE  CommandInv'
<1>1. /\ reqs \in Seq(1 .. command) /\ command \in Nat /\ command < Commands
      /\ command' = command + 1 /\ reqs' = Append(reqs, command + 1)
  BY FreelanceAssumption DEF SendCommand, CommandInv, FlTyped
<1>2. reqs \in Seq(1 .. command')
  BY <1>1, SeqMonotonic, 1 .. command \subseteq 1 .. command + 1
<1>3. /\ Len(reqs) \in Nat /\ DOMAIN reqs = 1 .. Len(reqs)
      /\ DOMAIN reqs' = 1 .. Len(reqs) + 1
      /\ \A i \in 1 .. Len(reqs) : reqs'[i] = reqs[i] /\ reqs[i] \in 1 .. command
      /\ reqs'[Len(reqs) + 1] = command + 1
      /\ reqs' \in Seq(1 .. command') /\ reqs' # <<>>
  <2>1. command + 1 \in 1 .. command'
    BY <1>1
  <2> QED
    BY <1>1, <1>2, <2>1, AppendProperties, LenProperties, ElementOfSeq, SMTT(30)
<1>4. UNCHANGED <<mAvailServers, toHost, fromHost, answeredBy, flEvents>>
  BY DEF SendCommand, proxyVars, hostVars
<1>5. FlTyped'
  BY <1>1, <1>3, <1>4, FreelanceAssumption DEF CommandInv, FlTyped
<1>6. \A i, j \in DOMAIN reqs' : i < j => reqs'[i] < reqs'[j]
  <2> SUFFICES ASSUME NEW i \in DOMAIN reqs', NEW j \in DOMAIN reqs', i < j
               PROVE  reqs'[i] < reqs'[j]
    OBVIOUS
  <2>1. i \in 1 .. Len(reqs)
    BY <1>3
  <2>2. CASE j = Len(reqs) + 1
    BY <1>1, <1>3, <2>1, <2>2
  <2>3. CASE j \in 1 .. Len(reqs)
    BY <1>3, <2>1, <2>3 DEF CommandInv
  <2> QED
    BY <1>3, <2>2, <2>3
<1>7. \A s, r : Holds(s, r)' = Holds(s, r)
  BY <1>4 DEF Holds
<1>8. ASSUME NEW r \in 1 .. Commands, NEW s \in Host, Holds(s, r)'
      PROVE  r <= command' /\ \A i \in DOMAIN reqs' : reqs'[i] # r
  <2>1. r <= command /\ \A i \in DOMAIN reqs : reqs[i] # r
    BY <1>7, <1>8 DEF CommandInv
  <2>2. r \in Int
    OBVIOUS
  <2> QED
    BY <1>1, <1>3, <2>1, <2>2
<1> QED
  BY <1>5, <1>6, <1>7, <1>8 DEF CommandInv

LEMMA HostKeeps ==
  ASSUME CommandInv, NEW s \in Host,
         Handshake(s) \/ HostAnswers(s) \/ HostStarts(s) \/ HostCrashes(s)
  PROVE  CommandInv'
<1> USE DEF CommandInv, FlTyped
<1>1. CASE Handshake(s) \/ HostStarts(s)
  <2>1. UNCHANGED <<proxyVars, serviceVars, toHost, fromHost>>
    BY <1>1 DEF Handshake, HostStarts
  <2>2. FlTyped' /\ \A t, r : Holds(t, r)' = Holds(t, r)
    BY <2>1 DEF Holds, proxyVars, serviceVars
  <2> QED
    BY <2>1, <2>2, NothingHandedOut DEF serviceVars
<1>2. CASE HostAnswers(s)
  <2> DEFINE m == Head(toHost[s])
             answer == IF m = Ping THEN Pong ELSE m
  <2>1. /\ toHost[s] \in Seq(FlMessage) /\ toHost[s] # <<>>
        /\ toHost' = [toHost EXCEPT ![s] = Tail(toHost[s])]
        /\ fromHost' = [fromHost EXCEPT ![s] = Append(fromHost[s], answer)]
        /\ fromHost[s] \in Seq(FlMessage)
        /\ UNCHANGED <<proxyVars, serviceVars>>
    BY <1>2 DEF HostAnswers
  <2>2. /\ Tail(toHost[s]) \in Seq(FlMessage) /\ m \in FlMessage
        /\ \A r : Bears(Tail(toHost[s]), r) => Bears(toHost[s], r)
        /\ \A r : m = Command(r) => Bears(toHost[s], r)
    BY <2>1, BearsTail
  <2>3. /\ answer \in FlMessage
        /\ \A r \in Nat : answer = Command(r) => m = Command(r)
    <3>1. /\ Pong \in FlMessage
          /\ \A r \in Nat : Command(r) # Pong
      BY CommandInjective, 0 \in Nat
    <3> HIDE DEF m
    <3> QED
      BY <2>2, <3>1
  <2> HIDE DEF answer, m
  <2>4. /\ Append(fromHost[s], answer) \in Seq(FlMessage)
        /\ \A r : Bears(Append(fromHost[s], answer), r)
                   => Bears(fromHost[s], r) \/ answer = Command(r)
    BY <2>1, <2>3, BearsAppend
  <2>5. FlTyped'
    BY <2>1, <2>2, <2>4 DEF proxyVars, serviceVars
  <2>6. \A r \in 1 .. Commands : r \in Nat
    BY FreelanceAssumption
  <2>7. \A t \in Host, r \in 1 .. Commands :
          Bears(toHost'[t], r) => Bears(toHost[t], r)
    BY <2>1, <2>2
  <2>8. \A t \in Host, r \in 1 .. Commands :
          Bears(fromHost'[t], r) => Bears(fromHost[t], r) \/ Bears(toHost[t], r)
    BY <2>1, <2>2, <2>3, <2>4, <2>6
  <2>9. \A t \in Host, r \in 1 .. Commands : Holds(t, r)' => Holds(t, r)
    BY <2>1, <2>7, <2>8 DEF Holds, proxyVars
  <2> QED
    BY <2>1, <2>5, <2>9, NothingHandedOut DEF serviceVars
<1>3. CASE HostCrashes(s)
  <2>1. PICK arrived \in 0 .. Len(fromHost[s]) :
          fromHost' = [fromHost EXCEPT ![s] = SubSeq(fromHost[s], 1, arrived)]
    BY <1>3 DEF HostCrashes
  <2>k. PICK lost \in 0 .. Len(toHost[s]) :
          toHost' = [toHost EXCEPT
                       ![s] = SubSeq(toHost[s], lost + 1, Len(toHost[s]))]
    BY <1>3 DEF HostCrashes
  <2>2. /\ UNCHANGED <<proxyVars, serviceVars>>
        /\ fromHost[s] \in Seq(FlMessage) /\ toHost[s] \in Seq(FlMessage)
    BY <1>3 DEF HostCrashes
  <2> DEFINE rest == SubSeq(toHost[s], lost + 1, Len(toHost[s]))
             first == SubSeq(fromHost[s], 1, arrived)
  <2>3. /\ rest \in Seq(FlMessage) /\ \A r : Bears(rest, r) => Bears(toHost[s], r)
        /\ first \in Seq(FlMessage)
        /\ \A r : Bears(first, r) => Bears(fromHost[s], r)
    BY <2>2, BearsFirst, BearsLast
  <2> HIDE DEF rest, first
  <2>4. FlTyped'
    BY <2>1, <2>k, <2>2, <2>3 DEF proxyVars, serviceVars, rest, first
  <2>5. \A t \in Host, r \in 1 .. Commands :
          /\ Bears(toHost'[t], r) => Bears(toHost[t], r)
          /\ Bears(fromHost'[t], r) => Bears(fromHost[t], r)
    BY <2>1, <2>k, <2>2, <2>3 DEF rest, first
  <2>6. \A t \in Host, r \in 1 .. Commands : Holds(t, r)' => Holds(t, r)
    BY <2>2, <2>5 DEF Holds, proxyVars
  <2> QED
    BY <2>2, <2>4, <2>6, NothingHandedOut DEF serviceVars
<1> QED
  BY <1>1, <1>2, <1>3

LEMMA CommandInvStep == CommandInv /\ [FreelanceNext]_flVars => CommandInv'
<1> SUFFICES ASSUME CommandInv, [FreelanceNext]_flVars PROVE CommandInv'
  OBVIOUS
<1>1. CASE ProxyStep
  BY <1>1, ProxyKeeps
<1>2. CASE SendCommand
  BY <1>2, SendKeeps
<1>3. CASE SendPing \/ Second \/ UNCHANGED flVars
  <2>1. UNCHANGED <<command, reqs, mAvailServers, toHost, fromHost, answeredBy,
                    flEvents>>
    BY <1>3 DEF SendPing, Second, flVars, proxyVars, serviceVars, hostVars
  <2>2. FlTyped' /\ \A s, r : Holds(s, r)' = Holds(s, r)
    BY <2>1 DEF Holds, CommandInv, FlTyped
  <2> QED
    BY <2>1, <2>2, NothingHandedOut
<1>4. ASSUME NEW s \in Host,
             Handshake(s) \/ HostAnswers(s) \/ HostStarts(s) \/ HostCrashes(s)
      PROVE  CommandInv'
  BY <1>4, HostKeeps
<1> QED
  BY <1>1, <1>2, <1>3, <1>4 DEF FreelanceNext

LEMMA CommandInvSuffices == CommandInv => CommandOnce
<1> SUFFICES ASSUME CommandInv, NEW r \in 1 .. Commands
             PROVE  Cardinality({s \in Host : Holds(s, r)}) <= 1
  BY DEF CommandOnce, Holds, Bears
<1>1. \A x, y \in {s \in Host : Holds(s, r)} : x = y
  BY DEF CommandInv
<1> QED
  BY <1>1, OneAtMost

(* Whatever servers crash, come back, are purged or answer late, no command *)
(* that the proxy read from the service reaches two of them.                *)
THEOREM CommandsAreSentOnce == FreelanceSpec => []CommandOnce
BY CommandInvInit, CommandInvStep, CommandInvSuffices, PTL DEF FreelanceSpec

-----------------------------------------------------------------------------
(* Simple Pirate                                                           *)
(* A queue with one message or none.                                        *)
OneOrNone(S) == {<<>>} \cup {<<x>> : x \in S}

Listed == {spIdle[i] : i \in DOMAIN spIdle}
Paid == {w \in Dead : w \notin Listed /\ spUp[w] = <<>>}

PirateTyped ==
  /\ spIdle \in Seq(PirateWorker)
  /\ spFront \subseteq Asking /\ spAnswers \subseteq Asking
  /\ spDown \in [PirateWorker -> OneOrNone(Asking)]
  /\ spUp \in [PirateWorker -> OneOrNone(Asking \cup {SaysReady})]
  /\ spWorker \in [PirateWorker -> {"off", "up", "dead"}]
  /\ spClient \in [PirateClient -> {"off", "waiting", "done", "abandoned"}]
  /\ attempt \in [PirateClient -> 1 .. Attempts]
  /\ \A c \in PirateClient : spClient[c] = "off" => attempt[c] = 1

(* A worker is in one place: in the list, about to be, or at a request.     *)
OnePlace ==
  /\ "front" \in spEvents => spIdle # <<>>
  /\ \A i, j \in DOMAIN spIdle : spIdle[i] = spIdle[j] => i = j
  /\ \A w \in PirateWorker :
       /\ w \in Listed =>
            spUp[w] = <<>> /\ spDown[w] = <<>> /\ spWorker[w] # "off"
       /\ spUp[w] # <<>> => spDown[w] = <<>> /\ spWorker[w] # "off"
       /\ spDown[w] # <<>> => spWorker[w] = "up"

PirateInv ==
  /\ PirateTyped /\ OnePlace
  /\ IsFiniteSet(Lost) /\ IsFiniteSet(Paid)
  /\ Cardinality(Lost) <= Cardinality(Paid)

(* The books of one step: at most one worker pays, and a request is lost    *)
(* only if one does.                                                        *)
Balanced ==
  \E w, a :
    /\ Paid \subseteq Paid' /\ Paid' \subseteq Paid \cup {w}
    /\ Lost' \subseteq Lost \cup {a}
    /\ Lost' \subseteq Lost \/ w \in Paid' \ Paid

LEMMA OneOrNoneFacts ==
  ASSUME NEW S, NEW q \in OneOrNone(S)
  PROVE  /\ q = <<>> => {q[i] : i \in DOMAIN q} = {}
         /\ q # <<>> => /\ Head(q) \in S /\ Tail(q) = <<>> /\ q = <<Head(q)>>
                        /\ {q[i] : i \in DOMAIN q} = {Head(q)}
         /\ \A x : Append(<<>>, x) = <<x>>
         /\ <<>> \in OneOrNone(S) /\ \A x \in S : <<x>> \in OneOrNone(S)
         /\ \A x \in S : <<x>> # <<>> /\ {<<x>>[i] : i \in DOMAIN <<x>>} = {x}
<1>1. \A x : DOMAIN <<x>> = 1 .. 1 /\ <<x>>[1] = x
  OBVIOUS
<1>2. \A x : {<<x>>[i] : i \in DOMAIN <<x>>} = {x} /\ <<x>> # <<>>
  BY <1>1
<1>3. \A x : Append(<<>>, x) = <<x>> /\ Head(<<x>>) = x /\ Tail(<<x>>) = <<>>
  OBVIOUS
<1>4. {<<>>[i] : i \in DOMAIN <<>>} = {}
  OBVIOUS
<1>5. CASE q = <<>>
  BY <1>2, <1>3, <1>4, <1>5 DEF OneOrNone
<1>6. ASSUME NEW x \in S, q = <<x>>
      PROVE  /\ q # <<>> /\ Head(q) = x /\ Tail(q) = <<>>
             /\ {q[i] : i \in DOMAIN q} = {x}
  BY <1>2, <1>3, <1>6
<1>7. <<>> \in OneOrNone(S) /\ \A x \in S : <<x>> \in OneOrNone(S)
  BY DEF OneOrNone
<1> QED
  BY <1>2, <1>3, <1>5, <1>6, <1>7 DEF OneOrNone

(* If at most one request is lost, and none unless a worker pays for it,    *)
(* there are never more requests lost than workers that paid.               *)
LEMMA BooksBalance ==
  ASSUME NEW L, NEW P, NEW L2, NEW P2, NEW w, NEW a,
         IsFiniteSet(L), IsFiniteSet(P), Cardinality(L) <= Cardinality(P),
         P \subseteq P2, P2 \subseteq P \cup {w}, L2 \subseteq L \cup {a},
         L2 \subseteq L \/ w \in P2 \ P
  PROVE  /\ IsFiniteSet(L2) /\ IsFiniteSet(P2)
         /\ Cardinality(L2) <= Cardinality(P2)
<1>0. Cardinality(L) \in Nat /\ Cardinality(P) \in Nat
  BY FS_CardinalityType
<1>1. /\ IsFiniteSet(L \cup {a}) /\ Cardinality(L \cup {a}) <= Cardinality(L) + 1
      /\ IsFiniteSet(P \cup {w}) /\ Cardinality(L) \in Nat /\ Cardinality(P) \in Nat
  <2>1. /\ IsFiniteSet(L \cup {a})
        /\ Cardinality(L \cup {a}) \in {Cardinality(L), Cardinality(L) + 1}
    BY FS_AddElement
  <2>2. IsFiniteSet(P \cup {w})
    BY FS_AddElement
  <2> QED
    BY <1>0, <2>1, <2>2
<1>2. IsFiniteSet(L2) /\ IsFiniteSet(P2)
  BY <1>1, FS_Subset
<1>3. Cardinality(L2) \in Nat /\ Cardinality(P2) \in Nat
  BY <1>2, FS_CardinalityType
<1>4. CASE L2 \subseteq L
  <2>1. Cardinality(L2) <= Cardinality(L) /\ Cardinality(P) <= Cardinality(P2)
    BY <1>2, <1>4, FS_Subset
  <2> QED
    BY <1>1, <1>2, <1>3, <2>1
<1>5. CASE w \in P2 \ P
  <2>1. P2 = P \cup {w}
    BY <1>5
  <2>2. Cardinality(P2) = Cardinality(P) + 1
    BY <1>5, <2>1, FS_AddElement
  <2>3. Cardinality(L2) <= Cardinality(L \cup {a}) /\ Cardinality(L \cup {a}) \in Nat
    BY <1>1, FS_Subset, FS_CardinalityType
  <2> QED
    BY <1>1, <1>2, <1>3, <2>2, <2>3
<1> QED
  BY <1>4, <1>5

(* What a worker has said or was given, by what waits in its two queues.    *)
LEMMA InHands ==
  ASSUME PirateTyped, NEW w \in PirateWorker
  PROVE  /\ Said(w) = IF spUp[w] = <<>> THEN {} ELSE {Head(spUp[w])}
         /\ Given(w) = IF spDown[w] = <<>> THEN {} ELSE {Head(spDown[w])}
         /\ spUp[w] # <<>> => Head(spUp[w]) \in Asking \cup {SaysReady}
                              /\ Tail(spUp[w]) = <<>>
         /\ spDown[w] # <<>> => Head(spDown[w]) \in Asking
                                /\ Tail(spDown[w]) = <<>>
BY OneOrNoneFacts DEF PirateTyped, Said, Given

(* The steps that lose nothing, with all workers where they pay or not.     *)
LEMMA NothingLost ==
  ASSUME Lost' \subseteq Lost, Paid' = Paid
  PROVE  Balanced
BY DEF Balanced

(* The requests that are lost, by who could still bring an answer.          *)
IsWaiting(a) == spClient[a[1]] = "waiting" /\ attempt[a[1]] = a[2]

LEMMA LostMeans ==
  \A a : a \in Lost <=> /\ a \in Asking /\ IsWaiting(a)
                        /\ a \notin spFront /\ a \notin spAnswers
                        /\ \A w \in PirateWorker : a \notin Said(w)
                        /\ \A w \in PirateWorker : a \notin Given(w)
BY DEF Lost, IsWaiting

LEMMA LostMeansThen ==
  (\A a : a \in Lost <=> /\ a \in Asking /\ IsWaiting(a)
                         /\ a \notin spFront /\ a \notin spAnswers
                         /\ \A w \in PirateWorker : a \notin Said(w)
                         /\ \A w \in PirateWorker : a \notin Given(w))'
BY LostMeans, PTL

LEMMA SameWaits ==
  ASSUME UNCHANGED <<spClient, attempt>>
  PROVE  \A a : IsWaiting(a)' <=> IsWaiting(a)
BY DEF IsWaiting

LEMMA AskingIsPair ==
  ASSUME NEW a \in Asking
  PROVE  /\ a # SaysReady /\ a = <<a[1], a[2]>>
         /\ a[1] \in PirateClient /\ a[2] \in 1 .. Attempts
<1>1. a = <<a[1], a[2]>> /\ a[1] \in PirateClient /\ a[2] \in 1 .. Attempts
  BY DEF Asking
<1>2. \A x, y : <<x, y>> # <<>>
  OBVIOUS
<1> QED
  BY <1>1, <1>2 DEF SaysReady

LEMMA HandleFrontKeeps ==
  ASSUME PirateTyped, OnePlace, NEW a \in Asking, HandleFront(a)
  PROVE  PirateTyped' /\ OnePlace' /\ Balanced
<1>1. spIdle \in Seq(PirateWorker) /\ spIdle # <<>> /\ NoRepeats(spIdle)
  BY DEF HandleFront, OnePlace, PirateTyped, NoRepeats
<1>0. PICK first : first = Head(spIdle)
  OBVIOUS
<1>2. /\ spIdle' \in Seq(PirateWorker) /\ first \in PirateWorker
      /\ NoRepeats(spIdle') /\ first \in Listed
      /\ \A w : w \in Listed' <=> w \in Listed /\ w # first
  <2>1. /\ spIdle' = Tail(spIdle) /\ Listed = Elements(spIdle)
        /\ Listed' = Elements(spIdle')
    BY DEF HandleFront, Listed, Elements
  <2> QED
    BY <1>0, <1>1, <2>1, ListTaken
<1>3. spUp[first] = <<>> /\ spDown[first] = <<>> /\ spWorker[first] # "off"
  BY <1>2 DEF OnePlace
<1>4. /\ UNCHANGED <<spUp, spWorker, spAnswers, spClient, attempt>>
      /\ spFront' = spFront \ {a} /\ spEvents' = spEvents \ {"front"}
      /\ spDown' = IF spWorker[first] = "up"
                     THEN [spDown EXCEPT ![first] = <<a>>] ELSE spDown
  BY <1>0, <1>2, <1>3, OneOrNoneFacts
     DEF HandleFront, spClientVars, SentToWorker, PirateTyped
<1>5. <<a>> \in OneOrNone(Asking)
  BY DEF OneOrNone
<1>6. PirateTyped'
  BY <1>2, <1>4, <1>5 DEF PirateTyped
<1>7. OnePlace'
  BY <1>2, <1>3, <1>4 DEF OnePlace, PirateTyped, NoRepeats
<1>8. \A w \in PirateWorker : Said(w)' = Said(w)
  BY <1>4 DEF Said
<1>9. /\ \A w \in PirateWorker : Given(w) \subseteq Given(w)'
      /\ spWorker[first] = "up" => a \in Given(first)'
  <2>1. \A w \in PirateWorker : w # first => Given(w)' = Given(w)
    BY <1>4 DEF Given, PirateTyped
  <2>2. Given(first) = {}
    BY <1>2, <1>3, InHands
  <2>3. CASE spWorker[first] = "up"
    <3>1. spDown'[first] = <<a>>
      BY <1>2, <1>4, <2>3 DEF PirateTyped
    <3>2. Elements(<<a>>) = {a}
      BY <1>5, OneOrNoneFacts DEF Elements
    <3>3. Given(first)' = Elements(spDown'[first])
      BY DEF Given, Elements
    <3> QED
      BY <2>1, <2>2, <3>1, <3>2, <3>3
  <2> QED
    BY <2>1, <2>2, <2>3
<1>10. /\ Lost' \subseteq Lost \cup {a}
       /\ spWorker[first] = "up" => Lost' \subseteq Lost
  <2>1. spFront' = spFront \ {a} /\ spAnswers' = spAnswers
    BY <1>4
  <2>2. \A b : IsWaiting(b)' <=> IsWaiting(b)
    BY <1>4, SameWaits
  <2>3. ASSUME NEW b \in Lost'
        PROVE  b \in Lost \cup {a} /\ (spWorker[first] = "up" => b \in Lost)
    <3>1. /\ b \in Asking /\ IsWaiting(b) /\ b \notin spFront' /\ b \notin spAnswers
          /\ \A w \in PirateWorker : b \notin Said(w)'
          /\ \A w \in PirateWorker : b \notin Given(w)'
      BY <2>1, <2>2, <2>3, LostMeansThen
    <3>2. /\ \A w \in PirateWorker : b \notin Said(w)
          /\ \A w \in PirateWorker : b \notin Given(w)
      BY <1>8, <1>9, <3>1
    <3>3. spWorker[first] = "up" => b # a
      BY <1>2, <1>9, <3>1
    <3>4. b # a => b \notin spFront
      BY <2>1, <3>1
    <3> QED
      BY <3>1, <3>2, <3>3, <3>4, LostMeans
  <2> QED
    BY <2>3
<1>11. /\ Paid \subseteq Paid' /\ Paid' \subseteq Paid \cup {first}
       /\ spWorker[first] = "dead" => first \in Paid' \ Paid
  BY <1>2, <1>3, <1>4 DEF Paid, Dead
<1>12. spWorker[first] \in {"up", "dead"}
  BY <1>2, <1>3 DEF PirateTyped
<1> QED
  BY <1>6, <1>7, <1>10, <1>11, <1>12 DEF Balanced

LEMMA HandleBackKeeps ==
  ASSUME PirateTyped, OnePlace, NEW w \in PirateWorker, HandleBack(w)
  PROVE  PirateTyped' /\ OnePlace' /\ Balanced
<1> DEFINE said == Head(spUp[w])
           brought == {a \in {said} \ {SaysReady} :
                      spClient[a[1]] = "waiting" /\ attempt[a[1]] = a[2]}
<1>1. /\ spIdle \in Seq(PirateWorker) /\ NoRepeats(spIdle)
      /\ spUp[w] # <<>> /\ spDown[w] = <<>> /\ spWorker[w] # "off"
      /\ w \notin Listed
  BY DEF HandleBack, OnePlace, PirateTyped, NoRepeats
<1>2. /\ spIdle' \in Seq(PirateWorker) /\ spIdle' # <<>> /\ NoRepeats(spIdle')
      /\ \A x : x \in Listed' <=> x \in Listed \/ x = w
  BY <1>1, ListAdded DEF HandleBack, Listed, Elements
<1>3. /\ Said(w) = {said} /\ Given(w) = {} /\ Tail(spUp[w]) = <<>>
      /\ said \in Asking \cup {SaysReady}
  BY <1>1, InHands
<1>4. /\ UNCHANGED <<spFront, spDown, spWorker, spClient, attempt>>
      /\ spUp' = [spUp EXCEPT ![w] = <<>>]
      /\ spAnswers' = spAnswers \cup brought
      /\ spEvents' \subseteq spEvents
  BY <1>3 DEF HandleBack, spClientVars
<1>5. brought \subseteq Asking
  BY <1>3
<1>6. <<>> \in OneOrNone(Asking \cup {SaysReady})
  BY DEF OneOrNone
<1>7. PirateTyped'
  BY <1>2, <1>4, <1>5, <1>6 DEF PirateTyped
<1>8. OnePlace'
  BY <1>1, <1>2, <1>4 DEF OnePlace, PirateTyped, NoRepeats
<1>9. \A x \in PirateWorker :
        /\ Given(x)' = Given(x)
        /\ x # w => Said(x)' = Said(x)
  BY <1>4 DEF Given, Said, PirateTyped
<1>10. ASSUME NEW a \in Lost'
       PROVE  a \in Lost
  <2>1. /\ a \in Asking /\ IsWaiting(a)
        /\ a \notin spFront /\ a \notin spAnswers'
        /\ \A x \in PirateWorker : a \notin Said(x)' /\ a \notin Given(x)'
    BY <1>4, <1>10, LostMeansThen, SameWaits
  <2>2. a \notin spAnswers /\ a \notin brought
    BY <1>4, <2>1
  <2>3. a # said
    BY <2>1, <2>2, AskingIsPair DEF IsWaiting
  <2> HIDE DEF said, brought
  <2>4. ASSUME NEW x \in PirateWorker
        PROVE  a \notin Said(x) /\ a \notin Given(x)
    <3>1. CASE x = w
      BY <1>3, <2>3, <3>1
    <3>2. CASE x # w
      BY <1>9, <2>1, <3>2
    <3> QED
      BY <3>1, <3>2
  <2> QED
    BY <2>1, <2>2, <2>4, LostMeans
<1>11. Paid' = Paid
  BY <1>1, <1>2, <1>4 DEF Paid, Dead, PirateTyped
<1> QED
  BY <1>7, <1>8, <1>10, <1>11, NothingLost

LEMMA QueueKeeps ==
  ASSUME PirateTyped, OnePlace, SpQueueStep
  PROVE  PirateTyped' /\ OnePlace' /\ Balanced
<1>1. CASE SpPoll
  <2>1. /\ UNCHANGED <<spIdle, spFront, spDown, spUp, spWorker, spAnswers,
                       spClient, attempt>>
        /\ "front" \in spEvents' => spIdle # <<>>
    BY <1>1 DEF SpPoll, FrontWanted, spClientVars
  <2>4. PirateTyped'
    BY <2>1 DEF PirateTyped
  <2>2. OnePlace'
    BY <2>1 DEF OnePlace, Listed
  <2>3. Lost' = Lost /\ Paid' = Paid
    BY <2>1 DEF Lost, Paid, Dead, Listed, Said, Given
  <2> QED
    BY <2>2, <2>3, <2>4, NothingLost
<1> QED
  BY <1>1, HandleFrontKeeps, HandleBackKeeps DEF SpQueueStep

LEMMA WorkerStartsKeeps ==
  ASSUME PirateTyped, OnePlace, NEW w \in PirateWorker, SpWorkerStarts(w)
  PROVE  PirateTyped' /\ OnePlace' /\ Balanced
<1>1. /\ spWorker[w] = "off" /\ spUp[w] = <<>> /\ spDown[w] = <<>>
      /\ w \notin Listed
  BY DEF SpWorkerStarts, OnePlace, PirateTyped
<1>2. /\ UNCHANGED <<spIdle, spEvents, spFront, spDown, spAnswers, spClient,
                     attempt>>
      /\ spUp' = [spUp EXCEPT ![w] = <<SaysReady>>]
      /\ spWorker' = [spWorker EXCEPT ![w] = "up"]
  BY DEF SpWorkerStarts, spQueueVars, spClientVars, PirateTyped
<1>3. <<SaysReady>> \in OneOrNone(Asking \cup {SaysReady})
  BY DEF OneOrNone
<1>4. PirateTyped'
  BY <1>2, <1>3 DEF PirateTyped
<1>5. OnePlace'
  BY <1>1, <1>2 DEF OnePlace, PirateTyped, Listed
<1>6. \A x \in PirateWorker : Given(x)' = Given(x) /\ Said(x) \subseteq Said(x)'
  <2>1. \A x \in PirateWorker : x # w => Said(x)' = Said(x)
    BY <1>2 DEF Said, PirateTyped
  <2>2. Said(w) = {}
    BY <1>1, InHands
  <2> QED
    BY <1>2, <2>1, <2>2 DEF Given
<1>7. Lost' \subseteq Lost
  BY <1>2, <1>6, LostMeans, LostMeansThen, SameWaits
<1>8. Paid' = Paid
  BY <1>1, <1>2 DEF Paid, Dead, Listed, PirateTyped
<1> QED
  BY <1>4, <1>5, <1>7, <1>8, NothingLost

LEMMA WorkerRepliesKeeps ==
  ASSUME PirateTyped, OnePlace, NEW w \in PirateWorker, SpWorkerReplies(w)
  PROVE  PirateTyped' /\ OnePlace' /\ Balanced
<1> DEFINE a == Head(spDown[w])
<1>1. /\ spWorker[w] = "up" /\ spDown[w] # <<>> /\ spUp[w] = <<>>
      /\ w \notin Listed
  BY DEF SpWorkerReplies, OnePlace
<1>2. a \in Asking /\ Tail(spDown[w]) = <<>> /\ Given(w) = {a} /\ Said(w) = {}
  BY <1>1, InHands
<1>3. /\ UNCHANGED <<spIdle, spEvents, spFront, spWorker, spAnswers, spClient,
                     attempt>>
      /\ spDown' = [spDown EXCEPT ![w] = <<>>]
      /\ spUp' = [spUp EXCEPT ![w] = <<a>>]
  <2>1. Append(<<>>, a) = <<a>>
    BY <1>2, OneOrNoneFacts DEF PirateTyped
  <2> HIDE DEF a
  <2>2. /\ UNCHANGED <<spIdle, spEvents, spFront, spWorker, spAnswers, spClient,
                       attempt>>
        /\ spDown' = [spDown EXCEPT ![w] = Tail(spDown[w])]
        /\ spUp' = [spUp EXCEPT ![w] = Append(spUp[w], a)]
    BY DEF SpWorkerReplies, spQueueVars, spClientVars, a
  <2> QED
    BY <1>1, <1>2, <2>1, <2>2
<1> HIDE DEF a
<1>4. <<a>> \in OneOrNone(Asking \cup {SaysReady}) /\ <<>> \in OneOrNone(Asking)
  BY <1>2 DEF OneOrNone
<1>5. PirateTyped'
  BY <1>3, <1>4 DEF PirateTyped
<1>6. OnePlace'
  BY <1>1, <1>3 DEF OnePlace, PirateTyped, Listed
<1>7. \A x \in PirateWorker :
        x # w => Said(x)' = Said(x) /\ Given(x)' = Given(x)
  BY <1>3 DEF Said, Given, PirateTyped
<1>8. Said(w)' = {a}
  <2>1. spUp'[w] = <<a>>
    BY <1>3 DEF PirateTyped
  <2> QED
    BY <1>2, <2>1, OneOrNoneFacts, <1>4 DEF Said
<1>9. Lost' \subseteq Lost
  BY <1>2, <1>3, <1>7, <1>8, LostMeans, LostMeansThen, SameWaits
<1>10. Paid' = Paid
  BY <1>1, <1>3 DEF Paid, Dead, Listed, PirateTyped
<1> QED
  BY <1>5, <1>6, <1>9, <1>10, NothingLost

(* A worker dies at a request, with an answer that is lost or one that      *)
(* arrives; or it is idle, and pays when the queue sends it something.      *)
LEMMA WorkerDiesKeeps ==
  ASSUME PirateTyped, OnePlace, NEW w \in PirateWorker, SpWorkerDies(w)
  PROVE  PirateTyped' /\ OnePlace' /\ Balanced
<1>1. PICK kept \in {spUp[w], <<>>} : spUp' = [spUp EXCEPT ![w] = kept]
  BY DEF SpWorkerDies
<1>2. /\ spWorker[w] = "up"
      /\ spWorker' = [spWorker EXCEPT ![w] = "dead"]
      /\ spDown' = [spDown EXCEPT ![w] = <<>>]
      /\ UNCHANGED <<spIdle, spEvents, spFront, spAnswers, spClient, attempt>>
  BY DEF SpWorkerDies, spQueueVars, spClientVars
<1>3. /\ <<>> \in OneOrNone(Asking)
      /\ kept \in OneOrNone(Asking \cup {SaysReady})
  BY DEF OneOrNone, PirateTyped
<1>4. PirateTyped'
  BY <1>1, <1>2, <1>3 DEF PirateTyped
<1>5. OnePlace'
  BY <1>1, <1>2 DEF OnePlace, PirateTyped, Listed
<1>6. \A x \in PirateWorker :
        x # w => Said(x)' = Said(x) /\ Given(x)' = Given(x)
  BY <1>1, <1>2 DEF Said, Given, PirateTyped
<1>7. Said(w) \cup Given(w) \subseteq {Head(spUp[w]), Head(spDown[w])}
  BY InHands
<1>8. \A x : x \in Paid' <=> x \in Paid
                            \/ (x = w /\ w \notin Listed /\ kept = <<>>)
  BY <1>1, <1>2 DEF Paid, Dead, Listed, PirateTyped
<1>9. w \notin Paid
  BY <1>2 DEF Paid, Dead
<1>10. CASE kept = spUp[w] /\ spDown[w] = <<>>
  <2>1. Said(w)' = Said(w) /\ Given(w)' = Given(w)
    BY <1>1, <1>2, <1>10 DEF Said, Given, PirateTyped
  <2>2. Lost' \subseteq Lost
    BY <1>2, <1>6, <2>1, LostMeans, LostMeansThen, SameWaits
  <2> QED
    BY <1>4, <1>5, <1>8, <2>2 DEF Balanced
<1>11. ASSUME NEW a, Said(w) \cup Given(w) = {a}, w \notin Listed, kept = <<>>
       PROVE  Balanced
  <2>1. Lost' \subseteq Lost \cup {a}
    BY <1>2, <1>6, <1>11, LostMeans, LostMeansThen, SameWaits
  <2> QED
    BY <1>8, <1>9, <1>11, <2>1 DEF Balanced
<1>12. CASE spDown[w] # <<>>
  <2>1. spUp[w] = <<>> /\ kept = <<>> /\ w \notin Listed
    BY <1>12 DEF OnePlace
  <2>2. Said(w) \cup Given(w) = {Head(spDown[w])}
    BY <1>12, <2>1, InHands
  <2> QED
    BY <1>4, <1>5, <1>11, <2>1, <2>2
<1>13. CASE spUp[w] # <<>> /\ kept = <<>>
  <2>1. spDown[w] = <<>> /\ w \notin Listed
    BY <1>13 DEF OnePlace
  <2>2. Said(w) \cup Given(w) = {Head(spUp[w])}
    BY <1>13, <2>1, InHands
  <2> QED
    BY <1>4, <1>5, <1>11, <1>13, <2>1, <2>2
<1> QED
  BY <1>10, <1>12, <1>13

(* The clients ask again before they wait again.                            *)
LEMMA ClientKeeps ==
  ASSUME PirateTyped, OnePlace, NEW c \in PirateClient,
         SpAsk(c) \/ SpAnswered(c) \/ SpTimeout(c)
  PROVE  PirateTyped' /\ OnePlace' /\ Balanced
<1>1. UNCHANGED <<spIdle, spEvents, spDown, spUp, spWorker>>
  BY DEF SpAsk, SpAnswered, SpTimeout, spQueueVars
<1>2. OnePlace'
  BY <1>1 DEF OnePlace, Listed
<1>3. /\ Paid' = Paid
      /\ \A w \in PirateWorker : Said(w)' = Said(w) /\ Given(w)' = Given(w)
  BY <1>1 DEF Paid, Dead, Listed, Said, Given
<1>4. \A a : a \in Lost'
              <=> /\ a \in Asking /\ IsWaiting(a)'
                  /\ a \notin spFront' /\ a \notin spAnswers'
                  /\ \A w \in PirateWorker : a \notin Said(w)
                  /\ \A w \in PirateWorker : a \notin Given(w)
  BY <1>3, LostMeansThen
<1>5. ASSUME NEW n \in 1 .. Attempts,
             <<c, n>> \in spFront' \/ spClient'[c] # "waiting",
             attempt'[c] = n,
             \A a \in Asking : a[1] # c => (IsWaiting(a)' <=> IsWaiting(a)),
             \A a \in Asking : a[1] # c /\ a \in spFront => a \in spFront',
             \A a \in Asking : a[1] # c /\ a \in spAnswers => a \in spAnswers'
      PROVE  Lost' \subseteq Lost
  <2> SUFFICES ASSUME NEW a \in Lost' PROVE a \in Lost
    OBVIOUS
  <2>1. a \in Asking /\ IsWaiting(a)' /\ a \notin spFront'
    BY <1>4
  <2>2. a[1] # c
    BY <1>5, <2>1, AskingIsPair DEF IsWaiting
  <2> QED
    BY <1>4, <1>5, <2>1, <2>2, LostMeans
<1>6. CASE SpAsk(c)
  <2>1. /\ UNCHANGED <<spAnswers, attempt>>
        /\ spClient' = [spClient EXCEPT ![c] = "waiting"]
        /\ spFront' = spFront \cup {<<c, 1>>} /\ spClient[c] = "off"
    BY <1>6 DEF SpAsk
  <2>2. 1 \in 1 .. Attempts /\ attempt[c] = 1 /\ <<c, 1>> \in Asking
    BY <2>1, SimplePirateAssumption DEF PirateTyped, Asking
  <2>3. PirateTyped'
    BY <1>1, <2>1, <2>2 DEF PirateTyped
  <2>4. \A a \in Asking : a[1] # c => (IsWaiting(a)' <=> IsWaiting(a))
    BY <2>1, AskingIsPair DEF IsWaiting, PirateTyped
  <2>5. Lost' \subseteq Lost
    BY <1>5, <2>1, <2>2, <2>4
  <2> QED
    BY <1>2, <1>3, <2>3, <2>5, NothingLost
<1>7. CASE SpAnswered(c)
  <2>1. /\ UNCHANGED <<spFront, attempt>>
        /\ spClient' = [spClient EXCEPT ![c] = "done"]
        /\ spAnswers' = spAnswers \ {<<c, attempt[c]>>}
    BY <1>7 DEF SpAnswered
  <2>2. attempt[c] \in 1 .. Attempts
    BY DEF PirateTyped
  <2>3. PirateTyped'
    BY <1>1, <2>1 DEF PirateTyped
  <2>4. \A a \in Asking : a[1] # c => (IsWaiting(a)' <=> IsWaiting(a))
    BY <2>1, AskingIsPair DEF IsWaiting, PirateTyped
  <2>5. \A a \in Asking : a[1] # c /\ a \in spAnswers => a \in spAnswers'
    BY <2>1, AskingIsPair
  <2>6. spClient'[c] # "waiting"
    BY <2>1 DEF PirateTyped
  <2>7. Lost' \subseteq Lost
    BY <1>5, <2>1, <2>2, <2>4, <2>5, <2>6
  <2> QED
    BY <1>2, <1>3, <2>3, <2>7, NothingLost
<1>8. CASE SpTimeout(c)
  <2> DEFINE k == attempt[c]
  <2>0. k \in 1 .. Attempts
    BY DEF PirateTyped
  <2>1. PICK kept \in {spFront, spFront \ {<<c, k>>}} :
          IF k < Attempts
            THEN /\ attempt' = [attempt EXCEPT ![c] = k + 1]
                 /\ spFront' = kept \cup {<<c, k + 1>>}
                 /\ UNCHANGED spClient
            ELSE /\ spClient' = [spClient EXCEPT ![c] = "abandoned"]
                 /\ spFront' = kept
                 /\ UNCHANGED attempt
    BY <1>8 DEF SpTimeout
  <2>2. spAnswers' = spAnswers /\ spClient[c] = "waiting"
    BY <1>8 DEF SpTimeout
  <2>3. \A a \in Asking : a[1] # c /\ a \in spFront => a \in spFront'
    BY <2>1, AskingIsPair
  <2>4. CASE k < Attempts
    <3>1. k + 1 \in 1 .. Attempts /\ <<c, k + 1>> \in Asking
      BY <2>0, <2>4, SimplePirateAssumption DEF Asking
    <3>2. PirateTyped'
      BY <1>1, <2>1, <2>2, <2>4, <3>1 DEF PirateTyped
    <3>3. \A a \in Asking : a[1] # c => (IsWaiting(a)' <=> IsWaiting(a))
      BY <2>1, <2>4, AskingIsPair DEF IsWaiting, PirateTyped
    <3>4. attempt'[c] = k + 1 /\ <<c, k + 1>> \in spFront'
      BY <2>1, <2>4 DEF PirateTyped
    <3> HIDE DEF k
    <3>5. Lost' \subseteq Lost
      BY <1>5, <2>2, <2>3, <3>1, <3>3, <3>4
    <3> QED
      BY <1>2, <1>3, <3>2, <3>5, NothingLost
  <2>5. CASE ~(k < Attempts)
    <3>1. PirateTyped'
      BY <1>1, <2>1, <2>2, <2>5 DEF PirateTyped
    <3>2. \A a \in Asking : a[1] # c => (IsWaiting(a)' <=> IsWaiting(a))
      BY <2>1, <2>5, AskingIsPair DEF IsWaiting, PirateTyped
    <3>3. spClient'[c] # "waiting" /\ attempt'[c] = k
      BY <2>1, <2>5 DEF PirateTyped
    <3> HIDE DEF k
    <3>4. Lost' \subseteq Lost
      BY <1>5, <2>0, <2>2, <2>3, <3>2, <3>3
    <3> QED
      BY <1>2, <1>3, <3>1, <3>4, NothingLost
  <2> QED
    BY <2>4, <2>5
<1> QED
  BY <1>6, <1>7, <1>8

LEMMA PirateInvInit == SimplePirateInit => PirateInv
<1> SUFFICES ASSUME SimplePirateInit PROVE PirateInv
  OBVIOUS
<1>1. <<>> \in OneOrNone(Asking) /\ <<>> \in OneOrNone(Asking \cup {SaysReady})
  BY DEF OneOrNone
<1>2. PirateTyped
  BY <1>1, SimplePirateAssumption, EmptySeq DEF SimplePirateInit, PirateTyped
<1>3. OnePlace
  BY DEF SimplePirateInit, OnePlace, Listed
<1>4. Lost = {} /\ Paid = {}
  <2>1. \A a \in Asking : ~IsWaiting(a)
    BY AskingIsPair DEF SimplePirateInit, IsWaiting
  <2>2. Dead = {}
    BY DEF SimplePirateInit, Dead
  <2> QED
    BY <2>1, <2>2, LostMeans DEF Paid
<1> QED
  BY <1>2, <1>3, <1>4, FS_EmptySet DEF PirateInv

LEMMA PirateInvStep == PirateInv /\ [SimplePirateNext]_spVars => PirateInv'
<1> SUFFICES ASSUME PirateInv, [SimplePirateNext]_spVars PROVE PirateInv'
  OBVIOUS
<1>1. PirateTyped /\ OnePlace
  BY DEF PirateInv
<1>2. PirateTyped' /\ OnePlace' /\ Balanced
  <2>1. CASE UNCHANGED spVars
    <3>1. UNCHANGED <<spIdle, spEvents, spFront, spDown, spUp, spWorker, spAnswers,
                      spClient, attempt>>
      BY <2>1 DEF spVars, spQueueVars, spClientVars
    <3>2. PirateTyped'
      BY <1>1, <3>1 DEF PirateTyped
    <3>3. OnePlace'
      BY <1>1, <3>1 DEF OnePlace, Listed
    <3>4. Lost' = Lost /\ Paid' = Paid
      BY <3>1 DEF Lost, Paid, Dead, Listed, Said, Given
    <3> QED
      BY <3>2, <3>3, <3>4, NothingLost
  <2> QED
    BY <1>1, <2>1, QueueKeeps, WorkerStartsKeeps, WorkerRepliesKeeps,
       WorkerDiesKeeps, ClientKeeps DEF SimplePirateNext
<1>3. IsFiniteSet(Lost) /\ IsFiniteSet(Paid) /\ Cardinality(Lost) <= Cardinality(Paid)
  BY DEF PirateInv
<1>4. PICK w, a :
        /\ Paid \subseteq Paid' /\ Paid' \subseteq Paid \cup {w}
        /\ Lost' \subseteq Lost \cup {a}
        /\ Lost' \subseteq Lost \/ w \in Paid' \ Paid
  BY <1>2 DEF Balanced
<1>5. IsFiniteSet(Lost') /\ IsFiniteSet(Paid') /\ Cardinality(Lost') <= Cardinality(Paid')
  BY <1>3, <1>4, BooksBalance
<1> QED
  BY <1>2, <1>5 DEF PirateInv

LEMMA PirateInvSuffices == PirateInv => LossesArePaid
<1> SUFFICES ASSUME PirateInv PROVE LossesArePaid
  OBVIOUS
<1>1. Listed = Elements(spIdle) /\ NoRepeats(spIdle) /\ spIdle \in Seq(PirateWorker)
  BY DEF PirateInv, PirateTyped, OnePlace, Listed, Elements, NoRepeats
<1>2. Cardinality(Listed) = Len(spIdle)
  BY <1>1, ListLength
<1>3. Cardinality(Lost) <= Cardinality(Paid)
  BY DEF PirateInv
<1> QED
  BY <1>2, <1>3 DEF LossesArePaid, Listed, Paid

(* Without heartbeats the queue finds out about a dead worker by giving it  *)
(* a request, and then never lists it again: the requests that no one will  *)
(* answer are never more than the workers that died.                        *)
THEOREM EachDeathCostsOne == SimplePirateSpec => []LossesArePaid
BY PirateInvInit, PirateInvStep, PirateInvSuffices, PTL DEF SimplePirateSpec

-----------------------------------------------------------------------------
(* Lazy Pirate                                                             *)

(* As many attempts as a client has outlast an overload and the work of     *)
(* all of them, and no second overload comes before they are done.          *)
CatchesUp ==
  /\ LazyOverload + LazyAttempts * LazyWork < LazyAttempts * LazyPatience
  /\ LazyAttempts <= LazyWarmup + 1

(* The work that n requests are, and what n attempts leave of it.           *)
Load(n) == n * LazyWork
Late(n) == n * LazyWork - n * LazyPatience

LEMMA LoadAndLate ==
  /\ \A n \in Nat :
       /\ Load(n) \in Nat /\ Load(n + 1) = Load(n) + LazyWork
       /\ Late(n) \in Int /\ Late(n + 1) = Late(n) + LazyWork - LazyPatience
  /\ Load(0) = 0 /\ Late(1) = LazyWork - LazyPatience
  /\ CatchesUp => LazyOverload + Late(LazyAttempts) < 0
BY LazyAssumption DEF Load, Late, CatchesUp

(* How much later than the timeout of c the server will be done with all    *)
(* that it has.                                                             *)
Lag(c) == lzBusy + Load(Cardinality(lzRequests)) - lzTimer[c]

(* A client c that is alone and waits: its attempt is somewhere, and the    *)
(* server is as late as its attempts have made it, or was overloaded once   *)
(* and will not be again.                                                   *)
OverloadedOnce(c) ==
  lzCycles + Cardinality(lzRequests) < lzTry[c]

LazyWaits(c) ==
  /\ Mine(c) \in lzHand \cup lzRequests \cup lzReplies
  /\ \/ Lag(c) <= Late(lzTry[c])
     \/ Lag(c) <= LazyOverload + Late(lzTry[c]) /\ OverloadedOnce(c)

LazyInv(c) ==
  \/ lzCrashed
  \/ /\ lzUp
     /\ lzCycles \in Nat /\ lzBusy \in Nat
     /\ lzHand = {} => lzBusy = 0
     /\ \A r, q \in lzHand : r = q
     /\ lzTry \in [{c} -> 1 .. LazyAttempts]
     /\ lzTimer \in [{c} -> Nat]
     /\ lzPhase \in [{c} -> {"off", "waiting", "done"}]
     /\ lzRequests \subseteq {<<c, k>> : k \in 1 .. lzTry[c]}
     /\ IsFiniteSet(lzRequests) /\ Cardinality(lzRequests) <= lzTry[c]
     /\ lzPhase[c] = "off" => lzRequests = {} /\ lzHand = {} /\ lzTry[c] = 1
     /\ Waits(c) => LazyWaits(c)

(* A request that is taken is one less.                                     *)
LEMMA RequestTaken ==
  ASSUME NEW r \in lzRequests, IsFiniteSet(lzRequests),
         lzRequests' = lzRequests \ {r}
  PROVE  /\ IsFiniteSet(lzRequests') /\ Cardinality(lzRequests') \in Nat
         /\ Cardinality(lzRequests) = Cardinality(lzRequests') + 1
         /\ Load(Cardinality(lzRequests)) = Load(Cardinality(lzRequests')) + LazyWork
         /\ Load(Cardinality(lzRequests')) \in Nat
<1>1. /\ IsFiniteSet(lzRequests') /\ Cardinality(lzRequests') = Cardinality(lzRequests) - 1
      /\ Cardinality(lzRequests') \in Nat /\ Cardinality(lzRequests) \in Nat
  <2>1. /\ IsFiniteSet(lzRequests \ {r})
        /\ Cardinality(lzRequests \ {r}) = Cardinality(lzRequests) - 1
    BY FS_RemoveElement
  <2> QED
    BY <2>1, FS_CardinalityType
<1>2. Cardinality(lzRequests) = Cardinality(lzRequests') + 1
  BY <1>1
<1> QED
  BY <1>1, <1>2, LoadAndLate

(* And one that is new is one more.                                         *)
LEMMA RequestAdded ==
  ASSUME NEW r, r \notin lzRequests, IsFiniteSet(lzRequests),
         lzRequests' = lzRequests \cup {r}
  PROVE  /\ IsFiniteSet(lzRequests')
         /\ Cardinality(lzRequests) \in Nat
         /\ Cardinality(lzRequests') = Cardinality(lzRequests) + 1
         /\ Load(Cardinality(lzRequests')) = Load(Cardinality(lzRequests)) + LazyWork
         /\ Load(Cardinality(lzRequests)) \in Nat
<1>1. /\ IsFiniteSet(lzRequests') /\ Cardinality(lzRequests') = Cardinality(lzRequests) + 1
      /\ Cardinality(lzRequests) \in Nat
  <2>1. /\ IsFiniteSet(lzRequests \cup {r})
        /\ Cardinality(lzRequests \cup {r}) = Cardinality(lzRequests) + 1
    BY FS_AddElement
  <2> QED
    BY <2>1, FS_CardinalityType
<1> QED
  BY <1>1, LoadAndLate

LEMMA InitLazy ==
  ASSUME NEW c, LazyClient = {c}, LazyInit
  PROVE  LazyInv(c)
<1>1. /\ lzUp /\ lzCycles \in Nat /\ lzBusy = 0 /\ lzHand = {} /\ lzRequests = {}
      /\ lzTry[c] = 1 /\ lzTry \in [{c} -> 1 .. LazyAttempts]
      /\ lzTimer \in [{c} -> Nat]
      /\ lzPhase[c] = "off" /\ lzPhase \in [{c} -> {"off", "waiting", "done"}]
  BY LazyAssumption DEF LazyInit
<1>2. IsFiniteSet({}) /\ Cardinality({}) = 0
  BY FS_EmptySet
<1> QED
  BY <1>1, <1>2 DEF LazyInv, Waits

(* The server takes a request, is overloaded by it, or crashes.             *)
LEMMA TakesKeepsLazy ==
  ASSUME NEW c, LazyClient = {c}, CatchesUp, LazyInv(c), NEW r \in lzRequests,
         LazyServes(r) \/ LazyOverloaded(r) \/ LazyCrashes(r)
  PROVE  LazyInv(c)'
<1>1. CASE lzCrashed
  BY <1>1 DEF LazyInv, LazyServes, LazyOverloaded, LazyCrashes
<1>2. CASE LazyCrashes(r)
  BY <1>2 DEF LazyInv, LazyCrashes
<1>3. CASE ~lzCrashed /\ (LazyServes(r) \/ LazyOverloaded(r))
  <2> DEFINE n == Cardinality(lzRequests)
             m == Cardinality(lzRequests')
  <2>1. /\ lzUp /\ lzCycles \in Nat /\ lzBusy = 0 /\ lzHand = {}
        /\ lzTry \in [{c} -> 1 .. LazyAttempts] /\ lzTimer \in [{c} -> Nat]
        /\ lzPhase \in [{c} -> {"off", "waiting", "done"}]
        /\ lzRequests \subseteq {<<c, k>> : k \in 1 .. lzTry[c]}
        /\ IsFiniteSet(lzRequests) /\ n <= lzTry[c]
        /\ lzPhase[c] = "off" => lzRequests = {}
        /\ Waits(c) => LazyWaits(c)
    BY <1>3 DEF LazyInv, LazyServes, LazyOverloaded, Takes
  <2>2. /\ lzRequests' = lzRequests \ {r} /\ lzHand' = {r}
        /\ lzReplies' = lzReplies /\ lzPhase' = lzPhase
        /\ lzTry' = lzTry /\ lzTimer' = lzTimer /\ lzUp' = lzUp
    BY <1>3 DEF LazyServes, LazyOverloaded, Takes, lzClients
  <2>3. /\ IsFiniteSet(lzRequests') /\ m \in Nat /\ n = m + 1
        /\ Load(n) = Load(m) + LazyWork /\ Load(m) \in Nat
    BY <2>1, <2>2, RequestTaken
  <2> HIDE DEF n, m
  <2>4. lzTry[c] \in Nat /\ lzTry[c] <= LazyAttempts /\ lzTimer[c] \in Nat
    BY <2>1, LazyAssumption
  <2>5. lzCycles' \in Nat /\ lzBusy' \in Nat
    <3>1. NextCycle \in Nat
      BY <2>1 DEF NextCycle
    <3> QED
      BY <1>3, <3>1, LazyAssumption DEF LazyServes, LazyOverloaded
  <2>6. ASSUME Waits(c)
        PROVE  LazyWaits(c)'
    <3>1. Mine(c)' = Mine(c) /\ Mine(c) \in lzHand' \cup lzRequests' \cup lzReplies'
      BY <2>1, <2>2, <2>6 DEF LazyWaits, Mine
    <3>2. /\ Lag(c) = Load(n) - lzTimer[c]
          /\ Lag(c)' = lzBusy' + Load(m) - lzTimer[c]
      <4>1. Lag(c) = lzBusy + Load(n) - lzTimer[c]
        BY DEF Lag, n
      <4>2. Lag(c)' = lzBusy' + Load(m) - lzTimer'[c]
        BY DEF Lag, Load, m
      <4>3. Load(n) \in Nat
        BY <2>3, LazyAssumption
      <4> QED
        BY <2>1, <2>2, <2>4, <4>1, <4>2, <4>3
    <3>3. Late(lzTry[c]) \in Int /\ Late(lzTry[c])' = Late(lzTry[c])
      BY <2>2, <2>4, LoadAndLate DEF Late
    <3>4. OverloadedOnce(c) <=> lzCycles + n < lzTry[c]
      BY DEF OverloadedOnce, n
    <3>5. OverloadedOnce(c)' <=> lzCycles' + m < lzTry[c]
      BY <2>2 DEF OverloadedOnce, m
    <3>6. \/ Lag(c) <= Late(lzTry[c])
          \/ Lag(c) <= LazyOverload + Late(lzTry[c]) /\ lzCycles + n < lzTry[c]
      BY <2>1, <2>6, <3>4 DEF LazyWaits
    <3>7. \/ Lag(c)' <= Late(lzTry[c])
          \/ Lag(c)' <= LazyOverload + Late(lzTry[c]) /\ lzCycles' + m < lzTry[c]
      <4>1. CASE LazyServes(r)
        <5>1. lzBusy' = LazyWork /\ lzCycles' <= lzCycles + 1
          BY <2>1, <4>1, LazyAssumption DEF LazyServes, NextCycle
        <5> QED
          BY <2>1, <2>3, <2>4, <2>5, <3>2, <3>3, <3>6, <5>1, LazyAssumption
      <4>2. CASE LazyOverloaded(r)
        <5>1. lzBusy' = LazyOverload + LazyWork /\ lzCycles' = 0
          BY <4>2 DEF LazyOverloaded
        <5>2. lzCycles + 1 > LazyWarmup
          BY <2>1, <4>2, LazyAssumption DEF LazyOverloaded, NextCycle
        <5>3. ~(lzCycles + n < lzTry[c])
          BY <2>1, <2>3, <2>4, <5>2, LazyAssumption DEF CatchesUp
        <5>4. m < lzTry[c]
          BY <2>1, <2>3, <2>4
        <5> QED
          BY <2>3, <2>4, <3>2, <3>3, <3>6, <5>1, <5>3, <5>4, LazyAssumption
      <4> QED
        BY <1>3, <4>1, <4>2
    <3> QED
      BY <2>2, <3>1, <3>3, <3>5, <3>7 DEF LazyWaits
  <2>7. Waits(c)' <=> Waits(c)
    BY <2>2 DEF Waits
  <2>8. m <= lzTry[c]
    BY <2>1, <2>3, <2>4
  <2>9. lzPhase[c] # "off"
    BY <2>1
  <2> QED
    BY <2>1, <2>2, <2>3, <2>5, <2>6, <2>7, <2>8, <2>9 DEF LazyInv, m
<1> QED
  BY <1>1, <1>2, <1>3

(* It is done with one.                                                     *)
LEMMA RepliesKeepsLazy ==
  ASSUME NEW c, LazyClient = {c}, LazyInv(c), NEW r \in lzHand, LazyReplies(r)
  PROVE  LazyInv(c)'
<1>1. CASE lzCrashed
  BY <1>1 DEF LazyInv, LazyReplies
<1>2. CASE ~lzCrashed
  <2>1. /\ lzHand' = {} /\ UNCHANGED <<lzUp, lzCrashed, lzCycles, lzBusy, lzRequests,
                                       lzPhase, lzTry, lzTimer>>
        /\ lzBusy = 0
        /\ lzReplies' = lzReplies \cup {x \in {r} : Waits(r[1]) /\ Mine(r[1]) = r}
    BY DEF LazyReplies, lzClients
  <2>2. ASSUME Waits(c)  PROVE LazyWaits(c)'
    <3>1. LazyWaits(c) /\ \A q \in lzHand : r = q
      BY <1>2, <2>2 DEF LazyInv
    <3>2. Mine(c)' = Mine(c) /\ Mine(c)[1] = c
      BY <2>1 DEF Mine
    <3>3. Mine(c) \in lzHand' \cup lzRequests' \cup lzReplies'
      <4>1. CASE Mine(c) \in lzHand
        <5>1. r = Mine(c)
          BY <3>1, <4>1
        <5> QED
          BY <2>1, <2>2, <3>2, <5>1
      <4>2. CASE Mine(c) \notin lzHand
        BY <2>1, <3>1, <4>2 DEF LazyWaits
      <4> QED
        BY <4>1, <4>2
    <3>4. /\ Lag(c)' = Lag(c) /\ (OverloadedOnce(c)' <=> OverloadedOnce(c))
          /\ Late(lzTry[c])' = Late(lzTry[c])
      BY <2>1 DEF Lag, OverloadedOnce, Load, Late
    <3> QED
      BY <3>1, <3>2, <3>3, <3>4 DEF LazyWaits
  <2>3. Waits(c)' <=> Waits(c)
    BY <2>1 DEF Waits
  <2> QED
    BY <1>2, <2>1, <2>2, <2>3 DEF LazyInv
<1> QED
  BY <1>1, <1>2

(* The client asks.                                                         *)
LEMMA AsksKeepsLazy ==
  ASSUME NEW c, LazyClient = {c}, LazyInv(c), LazyAsks(c)
  PROVE  LazyInv(c)'
<1>1. CASE lzCrashed
  BY <1>1 DEF LazyInv, LazyAsks, lzServer
<1>2. CASE ~lzCrashed
  <2>1. /\ lzUp /\ lzBusy = 0 /\ lzHand = {} /\ lzRequests = {} /\ lzTry[c] = 1
        /\ lzCycles \in Nat
        /\ lzTry \in [{c} -> 1 .. LazyAttempts] /\ lzTimer \in [{c} -> Nat]
        /\ lzPhase \in [{c} -> {"off", "waiting", "done"}]
    BY <1>2 DEF LazyInv, LazyAsks
  <2>2. /\ lzRequests' = {<<c, 1>>} /\ lzPhase' = [lzPhase EXCEPT ![c] = "waiting"]
        /\ lzTimer' = [lzTimer EXCEPT ![c] = LazyPatience]
        /\ UNCHANGED <<lzUp, lzCrashed, lzCycles, lzBusy, lzHand, lzReplies, lzTry>>
    BY <2>1 DEF LazyAsks, lzServer
  <2>3. /\ IsFiniteSet(lzRequests') /\ Cardinality(lzRequests') = 1
    BY <2>2, FS_Singleton
  <2>4. /\ lzPhase'[c] = "waiting" /\ lzTimer'[c] = LazyPatience
        /\ lzPhase' \in [{c} -> {"off", "waiting", "done"}]
        /\ lzTimer' \in [{c} -> Nat]
    BY <2>1, <2>2, LazyAssumption
  <2>5. Load(1) = LazyWork /\ Late(1) = LazyWork - LazyPatience
    BY LoadAndLate, LazyAssumption DEF Load
  <2>6. Lag(c)' = LazyWork - LazyPatience
    BY <2>1, <2>2, <2>3, <2>4, <2>5, LazyAssumption DEF Lag, Load
  <2>7. Late(lzTry[c])' = LazyWork - LazyPatience
    BY <2>1, <2>2, <2>5 DEF Late
  <2>8. Mine(c)' = <<c, 1>>
    BY <2>1, <2>2 DEF Mine
  <2>9. LazyWaits(c)'
    BY <2>2, <2>6, <2>7, <2>8, LazyAssumption DEF LazyWaits
  <2>10. lzRequests' \subseteq {<<c, k>> : k \in 1 .. lzTry'[c]}
    BY <2>1, <2>2
  <2> QED
    BY <2>1, <2>2, <2>3, <2>4, <2>9, <2>10 DEF LazyInv
<1> QED
  BY <1>1, <1>2

(* It is answered.                                                          *)
LEMMA AnsweredKeepsLazy ==
  ASSUME NEW c, LazyClient = {c}, LazyInv(c), LazyAnswered(c)
  PROVE  LazyInv(c)'
<1>1. CASE lzCrashed
  BY <1>1 DEF LazyInv, LazyAnswered, lzServer
<1>2. CASE ~lzCrashed
  <2>1. /\ lzPhase' = [lzPhase EXCEPT ![c] = "done"]
        /\ UNCHANGED <<lzUp, lzCrashed, lzCycles, lzBusy, lzHand, lzRequests, lzTry, lzTimer>>
    BY DEF LazyAnswered, lzServer
  <2>2. lzPhase \in [{c} -> {"off", "waiting", "done"}]
    BY <1>2 DEF LazyInv
  <2>3. lzPhase'[c] = "done" /\ lzPhase' \in [{c} -> {"off", "waiting", "done"}]
    BY <2>1, <2>2
  <2>4. ~Waits(c)' /\ lzPhase'[c] # "off"
    BY <2>3 DEF Waits
  <2> QED
    BY <1>2, <2>1, <2>3, <2>4 DEF LazyInv
<1> QED
  BY <1>1, <1>2

(* Its time is over.  The last attempt's never is: when it is, the server   *)
(* is done with all it had.                                                 *)
LEMMA TimeoutKeepsLazy ==
  ASSUME NEW c, LazyClient = {c}, CatchesUp, LazyInv(c), LazyTimeout(c)
  PROVE  LazyInv(c)'
<1>1. CASE lzCrashed
  BY <1>1 DEF LazyInv, LazyTimeout, lzServer
<1>2. CASE ~lzCrashed
  <2> DEFINE n == Cardinality(lzRequests)
             m == Cardinality(lzRequests')
             t == lzTry[c]
  <2>1. /\ lzUp /\ lzCycles \in Nat /\ lzBusy \in Nat
        /\ lzTry \in [{c} -> 1 .. LazyAttempts] /\ lzTimer \in [{c} -> Nat]
        /\ lzPhase \in [{c} -> {"off", "waiting", "done"}]
        /\ lzRequests \subseteq {<<c, k>> : k \in 1 .. lzTry[c]}
        /\ IsFiniteSet(lzRequests) /\ n <= lzTry[c]
        /\ LazyWaits(c)
        /\ lzPhase[c] = "waiting" /\ lzTimer[c] = 0
    BY <1>2 DEF LazyInv, LazyTimeout, Waits
  <2>2. t \in Nat /\ t >= 1 /\ t <= LazyAttempts
    BY <2>1, LazyAssumption
  <2>3. n \in Nat /\ Load(n) \in Nat /\ Late(t) \in Int
    BY <2>1, <2>2, LoadAndLate, FS_CardinalityType
  <2>4. \/ lzBusy + Load(n) <= Late(t)
        \/ lzBusy + Load(n) <= LazyOverload + Late(t) /\ lzCycles + n < t
    BY <2>1, <2>3 DEF LazyWaits, Lag, OverloadedOnce
  <2> HIDE DEF n, m, t
  <2>5. t < LazyAttempts
    <3>1. SUFFICES ASSUME t = LazyAttempts  PROVE FALSE
      BY <2>2, LazyAssumption
    <3>2. LazyOverload + Late(t) < 0
      BY <3>1, LoadAndLate
    <3> QED
      BY <2>1, <2>3, <2>4, <3>2, LazyAssumption
  <2>6. /\ lzTry' = [lzTry EXCEPT ![c] = @ + 1]
        /\ lzTimer' = [lzTimer EXCEPT ![c] = LazyPatience]
        /\ lzRequests' = lzRequests \cup {<<c, t + 1>>}
        /\ UNCHANGED <<lzUp, lzCrashed, lzCycles, lzBusy, lzHand, lzReplies, lzPhase>>
    BY <2>1, <2>5 DEF LazyTimeout, AfterClose, lzServer, t
  <2>7. <<c, t + 1>> \notin lzRequests
    BY <2>1, <2>2 DEF t
  <2>8. IsFiniteSet(lzRequests') /\ m = n + 1 /\ Load(m) = Load(n) + LazyWork
    BY <2>1, <2>6, <2>7, RequestAdded DEF n, m
  <2>9. /\ lzTry'[c] = t + 1 /\ lzTimer'[c] = LazyPatience
        /\ lzTry' \in [{c} -> 1 .. LazyAttempts] /\ lzTimer' \in [{c} -> Nat]
    BY <2>1, <2>2, <2>5, <2>6, LazyAssumption DEF t
  <2>10. Late(t + 1) = Late(t) + LazyWork - LazyPatience
    BY <2>2, LoadAndLate
  <2>11. LazyWaits(c)'
    <3>1. Mine(c)' \in lzRequests'
      BY <2>6, <2>9 DEF Mine
    <3>2. /\ Lag(c)' = lzBusy + Load(m) - LazyPatience
          /\ Late(lzTry[c])' = Late(t + 1)
          /\ OverloadedOnce(c)' <=> lzCycles + m < t + 1
      BY <2>6, <2>9 DEF Lag, Late, OverloadedOnce, Load, m
    <3>3. \/ Lag(c)' <= Late(t + 1)
          \/ Lag(c)' <= LazyOverload + Late(t + 1) /\ lzCycles + m < t + 1
      BY <2>1, <2>2, <2>3, <2>4, <2>8, <2>10, <3>2, LazyAssumption
    <3> QED
      BY <3>1, <3>2, <3>3 DEF LazyWaits
  <2>12. lzRequests' \subseteq {<<c, k>> : k \in 1 .. lzTry'[c]}
    BY <2>1, <2>2, <2>6, <2>9 DEF t
  <2>13. m <= lzTry'[c]
    BY <2>1, <2>2, <2>3, <2>8, <2>9 DEF t
  <2>14. lzHand' = {} => lzBusy' = 0
    BY <1>2, <2>6 DEF LazyInv
  <2>15. \A r, q \in lzHand' : r = q
    BY <1>2, <2>6 DEF LazyInv
  <2> QED
    BY <2>1, <2>6, <2>8, <2>9, <2>11, <2>12, <2>13, <2>14, <2>15 DEF LazyInv, m
<1> QED
  BY <1>1, <1>2

(* Time passes: while the client waits, the server is at something of it.   *)
LEMMA HalfSecondKeepsLazy ==
  ASSUME NEW c, LazyClient = {c}, LazyInv(c), HalfSecond
  PROVE  LazyInv(c)'
<1>1. CASE lzCrashed
  BY <1>1 DEF LazyInv, HalfSecond
<1>2. CASE ~lzCrashed
  <2>1. /\ UNCHANGED <<lzUp, lzCrashed, lzCycles, lzHand, lzRequests, lzReplies, lzPhase, lzTry>>
        /\ lzBusy' = IF lzBusy = 0 THEN 0 ELSE lzBusy - 1
        /\ lzTimer' = [x \in {c} |-> IF Waits(x) THEN lzTimer[x] - 1 ELSE 0]
    BY DEF HalfSecond
  <2>2. lzUp /\ lzBusy \in Nat /\ lzTimer \in [{c} -> Nat] /\ IsFiniteSet(lzRequests)
    BY <1>2 DEF LazyInv
  <2>3. Waits(c) => lzTimer[c] > 0 /\ Mine(c) \notin lzReplies
    BY DEF HalfSecond
  <2>4. lzBusy' \in Nat /\ lzTimer' \in [{c} -> Nat] /\ (lzBusy = 0 => lzBusy' = 0)
    BY <2>1, <2>2, <2>3
  <2>5. ASSUME Waits(c)  PROVE LazyWaits(c)'
    <3>1. LazyWaits(c)
      BY <1>2, <2>5 DEF LazyInv
    <3>2. lzBusy > 0
      BY <2>2, <2>3, <2>5, <3>1 DEF HalfSecond, LazyWaits
    <3>3. lzBusy' = lzBusy - 1 /\ lzTimer'[c] = lzTimer[c] - 1
      BY <2>1, <2>5, <3>2
    <3>4. Load(Cardinality(lzRequests)) \in Nat
      BY <2>2, FS_CardinalityType, LoadAndLate
    <3>5. Lag(c)' = Lag(c)
      <4>1. Load(Cardinality(lzRequests))' = Load(Cardinality(lzRequests))
        BY <2>1 DEF Load
      <4>2. Lag(c)' = lzBusy' + Load(Cardinality(lzRequests)) - lzTimer'[c]
        BY <4>1 DEF Lag
      <4> QED
        BY <2>2, <3>3, <3>4, <4>2 DEF Lag
    <3>6. /\ OverloadedOnce(c)' <=> OverloadedOnce(c)
          /\ Late(lzTry[c])' = Late(lzTry[c]) /\ Mine(c)' = Mine(c)
      BY <2>1 DEF OverloadedOnce, Late, Mine
    <3> QED
      BY <2>1, <3>1, <3>5, <3>6 DEF LazyWaits
  <2>6. Waits(c)' <=> Waits(c)
    BY <2>1 DEF Waits
  <2> QED
    BY <1>2, <2>1, <2>4, <2>5, <2>6 DEF LazyInv
<1> QED
  BY <1>1, <1>2

LEMMA StepKeepsLazy ==
  ASSUME NEW c, LazyClient = {c}, CatchesUp
  PROVE  LazyInv(c) /\ [LazyNext]_lzVars => LazyInv(c)'
<1> SUFFICES ASSUME LazyInv(c), [LazyNext]_lzVars  PROVE LazyInv(c)'
  OBVIOUS
<1>1. CASE UNCHANGED lzVars
  BY <1>1 DEF LazyInv, LazyWaits, Waits, Mine, Lag, OverloadedOnce, Load, Late,
     lzVars, lzServer, lzClients
<1>2. ASSUME NEW r \in lzRequests, LazyServes(r) \/ LazyOverloaded(r) \/ LazyCrashes(r)
      PROVE  LazyInv(c)'
  BY <1>2, TakesKeepsLazy
<1>3. ASSUME NEW r \in lzHand, LazyReplies(r)  PROVE LazyInv(c)'
  BY <1>3, RepliesKeepsLazy
<1>4. CASE LazyServerStarts
  BY <1>4 DEF LazyInv, LazyServerStarts
<1>5. CASE HalfSecond
  BY <1>5, HalfSecondKeepsLazy
<1>6. ASSUME NEW x \in LazyClient, LazyAsks(x) \/ LazyAnswered(x) \/ LazyTimeout(x)
      PROVE  LazyInv(c)'
  <2>1. x = c
    OBVIOUS
  <2> QED
    BY <1>6, <2>1, AsksKeepsLazy, AnsweredKeepsLazy, TimeoutKeepsLazy
<1> QED
  BY <1>1, <1>2, <1>3, <1>4, <1>5, <1>6 DEF LazyNext

(* A client that is alone gives up on a server that crashed only, whatever  *)
(* the times are, if an overload ends before the last attempt and the next  *)
(* one is further away.                                                     *)
THEOREM ALoneClientIsServed == CatchesUp => (LazySpec => []NotAbandoned)
<1> SUFFICES ASSUME CatchesUp  PROVE LazySpec => []NotAbandoned
  OBVIOUS
<1>1. CASE Cardinality(LazyClient) # 1
  <2>1. NotAbandoned
    BY <1>1 DEF NotAbandoned
  <2> QED
    BY <2>1, PTL
<1>2. CASE Cardinality(LazyClient) = 1
  <2>1. PICK c : LazyClient = {c}
    BY <1>2, LazyAssumption, FS_Singleton
  <2>2. LazyInit => LazyInv(c)
    BY <2>1, InitLazy
  <2>3. LazyInv(c) /\ [LazyNext]_lzVars => LazyInv(c)'
    BY <2>1, StepKeepsLazy
  <2>4. LazyInv(c) => NotAbandoned
    BY <2>1 DEF LazyInv, NotAbandoned
  <2> QED
    BY <2>2, <2>3, <2>4, PTL DEF LazySpec
<1> QED
  BY <1>1, <1>2
-----------------------------------------------------------------------------
(* The task pipeline                                                       *)
(* The tasks that wait for workers, each as a place in a queue.             *)
InQueue == {p \in TaskWorker \X Nat : p[2] \in 1 .. queued[p[1]]}

(* The start signal and the tasks sent are in a queue, in the sink's socket *)
(* or received: nothing is lost and nothing comes twice.                    *)
TaskInv ==
  /\ sent \in 0 .. Tasks /\ startSent \in BOOLEAN
  /\ queued \in [TaskWorker -> Nat]
  /\ results \in Nat /\ received \in 0 .. Tasks + 1
  /\ IsFiniteSet(InQueue)
  /\ sent + (IF startSent THEN 1 ELSE 0)
       = Cardinality(InQueue) + results + received
  /\ stopSent => received = Tasks + 1

LEMMA TaskInvInit == TaskInit => TaskInv
<1> SUFFICES ASSUME TaskInit PROVE TaskInv
  OBVIOUS
<1>1. InQueue = {}
  BY DEF TaskInit, InQueue
<1>2. IsFiniteSet(InQueue) /\ Cardinality(InQueue) = 0
  BY <1>1, FS_EmptySet
<1>3. sent = 0 /\ ~startSent /\ results = 0 /\ received = 0 /\ ~stopSent
  BY DEF TaskInit
<1>4. queued \in [TaskWorker -> Nat] /\ startSent \in BOOLEAN
  BY DEF TaskInit
<1> QED
  BY <1>2, <1>3, <1>4, TaskAssumption DEF TaskInv

(* A task sent is one place more, a task taken up one place less.           *)
LEMMA OneMoreQueued ==
  ASSUME queued \in [TaskWorker -> Nat], IsFiniteSet(InQueue),
         NEW w \in TaskWorker, queued' = [queued EXCEPT ![w] = @ + 1]
  PROVE  /\ queued' \in [TaskWorker -> Nat]
         /\ IsFiniteSet(InQueue')
         /\ Cardinality(InQueue') = Cardinality(InQueue) + 1
<1> DEFINE place == <<w, queued[w] + 1>>
<1>1. InQueue' = InQueue \cup {place}
  BY DEF InQueue
<1>2. place \notin InQueue
  BY DEF InQueue
<1> HIDE DEF place
<1>3. queued' \in [TaskWorker -> Nat]
  OBVIOUS
<1> QED
  BY <1>1, <1>2, <1>3, FS_AddElement

LEMMA OneLessQueued ==
  ASSUME queued \in [TaskWorker -> Nat], IsFiniteSet(InQueue),
         NEW w \in TaskWorker, queued[w] > 0,
         queued' = [queued EXCEPT ![w] = @ - 1]
  PROVE  /\ queued' \in [TaskWorker -> Nat]
         /\ IsFiniteSet(InQueue')
         /\ Cardinality(InQueue') = Cardinality(InQueue) - 1
<1> DEFINE place == <<w, queued[w]>>
<1>1. InQueue' = InQueue \ {place}
  BY DEF InQueue
<1>2. place \in InQueue
  BY DEF InQueue
<1> HIDE DEF place
<1>3. queued' \in [TaskWorker -> Nat]
  OBVIOUS
<1> QED
  BY <1>1, <1>2, <1>3, FS_RemoveElement

LEMMA TaskInvStep == TaskInv /\ [TaskNext]_taskVars => TaskInv'
<1> SUFFICES ASSUME TaskInv, [TaskNext]_taskVars PROVE TaskInv'
  OBVIOUS
<1> USE TaskAssumption DEF TaskInv
<1>0. Cardinality(InQueue) \in Nat
  BY FS_CardinalityType
<1>1. CASE UNCHANGED queued
  <2>1. InQueue' = InQueue
    BY <1>1 DEF InQueue
  <2>2. CASE StartArrives
    BY <1>0, <1>1, <2>1, <2>2 DEF StartArrives
  <2>3. CASE SinkReceives
    BY <1>0, <1>1, <2>1, <2>3 DEF SinkReceives
  <2>4. CASE SinkStops
    BY <1>0, <1>1, <2>1, <2>4 DEF SinkStops
  <2>5. ASSUME NEW w \in TaskWorker, TaskWorkerStarts(w) \/ TaskWorkerStops(w)
        PROVE  TaskInv'
    BY <1>0, <1>1, <2>1, <2>5 DEF TaskWorkerStarts, TaskWorkerStops
  <2>6. ASSUME NEW w \in TaskWorker, SendTask(w) \/ DoTask(w)
        PROVE  FALSE
    BY <1>1, <2>6 DEF SendTask, DoTask
  <2>7. CASE UNCHANGED taskVars
    BY <1>0, <1>1, <2>1, <2>7 DEF taskVars
  <2> QED
    BY <2>2, <2>3, <2>4, <2>5, <2>6, <2>7 DEF TaskNext
<1>2. ASSUME NEW w \in TaskWorker, SendTask(w)
      PROVE  TaskInv'
  <2>1. /\ queued' \in [TaskWorker -> Nat] /\ IsFiniteSet(InQueue')
        /\ Cardinality(InQueue') = Cardinality(InQueue) + 1
    BY <1>2, OneMoreQueued DEF SendTask
  <2> QED
    BY <1>0, <1>2, <2>1 DEF SendTask
<1>3. ASSUME NEW w \in TaskWorker, DoTask(w)
      PROVE  TaskInv'
  <2>1. /\ queued' \in [TaskWorker -> Nat] /\ IsFiniteSet(InQueue')
        /\ Cardinality(InQueue') = Cardinality(InQueue) - 1
    BY <1>3, OneLessQueued DEF DoTask
  <2> QED
    BY <1>0, <1>3, <2>1 DEF DoTask
<1>4. CASE TaskNext /\ ~UNCHANGED queued
  BY <1>2, <1>3, <1>4
     DEF TaskNext, StartArrives, SinkReceives, SinkStops, TaskWorkerStarts,
         TaskWorkerStops
<1> QED
  BY <1>1, <1>4 DEF taskVars

(* When "STOP" goes out, the sink has received all that was ever sent, so   *)
(* that all of it has been sent and nothing of it is left anywhere.         *)
LEMMA TaskInvSuffices == TaskInv => StoppedWhenDone
<1> SUFFICES ASSUME TaskInv, stopSent
             PROVE  sent = Tasks /\ startSent /\ \A w \in TaskWorker : queued[w] = 0
  BY DEF StoppedWhenDone
<1>1. Cardinality(InQueue) \in Nat
  BY FS_CardinalityType DEF TaskInv
<1>2. sent = Tasks /\ startSent /\ Cardinality(InQueue) = 0
  BY <1>1, TaskAssumption DEF TaskInv
<1>3. InQueue = {}
  BY <1>2, FS_EmptySet DEF TaskInv
<1>4. ASSUME NEW w \in TaskWorker
      PROVE  queued[w] = 0
  <2>1. queued[w] \in Nat
    BY DEF TaskInv
  <2>2. queued[w] \in 1 .. queued[w] => <<w, queued[w]>> \in InQueue
    BY <2>1 DEF InQueue
  <2> QED
    BY <1>3, <2>1, <2>2
<1> QED
  BY <1>2, <1>4

(* The sink stops the workers only after it has counted every task, however *)
(* they were shared out and however the messages of workers interleave.     *)
THEOREM TasksAreDone == TaskSpec => []StoppedWhenDone
BY TaskInvInit, TaskInvStep, TaskInvSuffices, PTL DEF TaskSpec
-----------------------------------------------------------------------------
(* The codecs                                                               *)
Bytes == Seq(0 .. 255)

(* What a ROUTER puts in front the broker takes off.                        *)
LEMMA FirstFrameOff ==
  ASSUME NEW T, NEW f \in Seq(T), NEW x \in T
  PROVE  /\ Tail(<<x>> \o f) \in Seq(T) /\ Len(Tail(<<x>> \o f)) = Len(f)
         /\ \A i \in 1 .. Len(f) : Tail(<<x>> \o f)[i] = f[i]
         /\ DOMAIN Tail(<<x>> \o f) = 1 .. Len(f)
         /\ <<x>> \o f \in Seq(T) /\ <<x>> \o f # <<>>
<1>1. <<x>> \in Seq(T) /\ Len(<<x>>) = 1
  OBVIOUS
<1>2. /\ <<x>> \o f \in Seq(T) /\ Len(<<x>> \o f) = Len(f) + 1 /\ Len(f) \in Nat
      /\ \A i \in 1 .. 1 + Len(f) : (<<x>> \o f)[i] = IF i <= 1 THEN <<x>>[i] ELSE f[i - 1]
  BY <1>1, ConcatProperties, LenProperties
<1>3. <<x>> \o f # <<>>
  BY <1>2, EmptySeq
<1>4. /\ Tail(<<x>> \o f) \in Seq(T) /\ Len(Tail(<<x>> \o f)) = Len(f)
      /\ \A i \in 1 .. Len(f) : Tail(<<x>> \o f)[i] = (<<x>> \o f)[i + 1]
  BY <1>2, <1>3, HeadTailProperties
<1>5. DOMAIN Tail(<<x>> \o f) = 1 .. Len(f)
  BY <1>4, LenProperties
<1>6. \A i \in 1 .. Len(f) : Tail(<<x>> \o f)[i] = f[i]
  BY <1>2, <1>4
<1> QED
  BY <1>2, <1>3, <1>4, <1>5, <1>6

(* Frames put together.                                                     *)
LEMMA Glued ==
  ASSUME NEW T, NEW p \in Seq(T), NEW q \in Seq(T), NEW r \in Seq(T),
         Len(r) = Len(p) + Len(q),
         \A i \in 1 .. Len(p) : r[i] = p[i],
         \A i \in 1 .. Len(q) : r[Len(p) + i] = q[i]
  PROVE  p \o q = r
<1>1. /\ p \o q \in Seq(T) /\ Len(p \o q) = Len(r)
      /\ Len(p) \in Nat /\ Len(q) \in Nat
      /\ \A i \in 1 .. Len(p) + Len(q) :
           (p \o q)[i] = IF i <= Len(p) THEN p[i] ELSE q[i - Len(p)]
  BY ConcatProperties, LenProperties
<1>2. ASSUME NEW i \in 1 .. Len(p) + Len(q)  PROVE (p \o q)[i] = r[i]
  <2>1. CASE i <= Len(p)
    BY <1>1, <2>1
  <2>2. CASE i > Len(p)
    <3>1. i - Len(p) \in 1 .. Len(q) /\ Len(p) + (i - Len(p)) = i
      BY <1>1, <2>2
    <3> QED
      BY <1>1, <2>2, <3>1
  <2> QED
    BY <1>1, <2>1, <2>2
<1> QED
  BY <1>1, <1>2, SeqEqual

LEMMA NothingGlued ==
  ASSUME NEW x, NEW y, NEW z
  PROVE  <<x, y, z>> \o <<>> = <<x, y, z>>
<1>1. <<x, y, z>> \in Seq({x, y, z})
  OBVIOUS
<1> QED
  BY <1>1, ConcatEmptySeq

LEMMA FrameGlued ==
  ASSUME NEW x, NEW y, NEW z, NEW u
  PROVE  <<x, y, z>> \o <<u>> = <<x, y, z, u>>
<1> DEFINE T == {x, y, z, u}
           p == <<x, y, z>>
           q == <<u>>
           r == <<x, y, z, u>>
<1>1. p \in Seq(T) /\ q \in Seq(T) /\ r \in Seq(T)
  OBVIOUS
<1>2. /\ Len(p) = 3 /\ Len(q) = 1 /\ Len(r) = 4
      /\ \A i \in 1 .. 3 : r[i] = p[i]
      /\ \A i \in 1 .. 1 : r[3 + i] = q[i]
  OBVIOUS
<1> HIDE DEF T, p, q, r
<1>3. /\ Len(r) = Len(p) + Len(q)
      /\ \A i \in 1 .. Len(p) : r[i] = p[i]
      /\ \A i \in 1 .. Len(q) : r[Len(p) + i] = q[i]
  BY <1>2
<1>4. p \o q = r
  BY <1>1, <1>3, Glued, Zenon
<1> QED
  BY <1>4 DEF p, q, r

LEMMA FramesGlued ==
  ASSUME NEW x, NEW y, NEW z, NEW u, NEW v, NEW w
  PROVE  <<x, y, z>> \o <<u, v, w>> = <<x, y, z, u, v, w>>
<1> DEFINE T == {x, y, z, u, v, w}
           p == <<x, y, z>>
           q == <<u, v, w>>
           r == <<x, y, z, u, v, w>>
<1>1. p \in Seq(T) /\ q \in Seq(T) /\ r \in Seq(T)
  OBVIOUS
<1>2. /\ Len(p) = 3 /\ Len(q) = 3 /\ Len(r) = 6
      /\ \A i \in 1 .. 3 : r[i] = p[i]
      /\ \A i \in 1 .. 3 : r[3 + i] = q[i]
  OBVIOUS
<1> HIDE DEF T, p, q, r
<1>3. /\ Len(r) = Len(p) + Len(q)
      /\ \A i \in 1 .. Len(p) : r[i] = p[i]
      /\ \A i \in 1 .. Len(q) : r[Len(p) + i] = q[i]
  BY <1>2
<1>4. p \o q = r
  BY <1>1, <1>3, Glued, Zenon
<1> QED
  BY <1>4 DEF p, q, r

(* The frames of a worker message.                                          *)
LEMMA WorkerToFrames ==
  ASSUME NEW s \in Text, NEW c \in Text, NEW b \in Text
  PROVE  /\ WorkerTo(Ready(s)) = <<Empty, Version, <<1>>, s>>
         /\ WorkerTo(WorkerRequest(c, b)) = <<Empty, Version, <<2>>, c, Empty, b>>
         /\ WorkerTo(WorkerReply(c, b)) = <<Empty, Version, <<3>>, c, Empty, b>>
         /\ WorkerTo(Heartbeat) = <<Empty, Version, <<4>>>>
         /\ WorkerTo(Disconnect) = <<Empty, Version, <<5>>>>
<1>1. /\ WorkerTo(Ready(s)) = <<Empty, Version, <<1>>>> \o <<s>>
      /\ WorkerTo(WorkerRequest(c, b)) = <<Empty, Version, <<2>>>> \o <<c, Empty, b>>
      /\ WorkerTo(WorkerReply(c, b)) = <<Empty, Version, <<3>>>> \o <<c, Empty, b>>
      /\ WorkerTo(Heartbeat) = <<Empty, Version, <<4>>>> \o <<>>
      /\ WorkerTo(Disconnect) = <<Empty, Version, <<5>>>> \o <<>>
  BY DEF WorkerTo, Ready, WorkerRequest, WorkerReply, Heartbeat, Disconnect, Code
<1>2. /\ Empty \in Bytes /\ Version \in Bytes /\ s \in Bytes /\ c \in Bytes /\ b \in Bytes
      /\ <<1>> \in Bytes /\ <<2>> \in Bytes /\ <<3>> \in Bytes
      /\ <<4>> \in Bytes /\ <<5>> \in Bytes
  BY CodecAssumption DEF Bytes
<1> HIDE DEF Bytes
<1>3. ASSUME NEW x \in Bytes
      PROVE  <<Empty, Version, x>> \o <<>> = <<Empty, Version, x>>
  BY NothingGlued, Zenon
<1>4. ASSUME NEW x \in Bytes
      PROVE  <<Empty, Version, x>> \o <<s>> = <<Empty, Version, x, s>>
  BY FrameGlued, Zenon
<1>5. ASSUME NEW x \in Bytes
      PROVE  <<Empty, Version, x>> \o <<c, Empty, b>> = <<Empty, Version, x, c, Empty, b>>
  BY FramesGlued, SMT
<1>6. /\ <<Empty, Version, <<1>>>> \o <<s>> = <<Empty, Version, <<1>>, s>>
      /\ <<Empty, Version, <<4>>>> \o <<>> = <<Empty, Version, <<4>>>>
      /\ <<Empty, Version, <<5>>>> \o <<>> = <<Empty, Version, <<5>>>>
      /\ <<Empty, Version, <<2>>>> \o <<c, Empty, b>> = <<Empty, Version, <<2>>, c, Empty, b>>
      /\ <<Empty, Version, <<3>>>> \o <<c, Empty, b>> = <<Empty, Version, <<3>>, c, Empty, b>>
  BY <1>2, <1>3, <1>4, <1>5, Zenon
<1> QED
  BY <1>1, <1>6, Zenon

LEMMA FirstOff ==
  ASSUME NEW T, NEW f \in Seq(T), NEW x \in T
  PROVE  Tail(<<x>> \o f) = f
<1>1. /\ Tail(<<x>> \o f) \in Seq(T) /\ Len(Tail(<<x>> \o f)) = Len(f)
      /\ \A i \in 1 .. Len(f) : Tail(<<x>> \o f)[i] = f[i]
  BY FirstFrameOff
<1> QED
  BY <1>1, SeqEqual

(* What the type of a message makes the receivers do.                       *)
LEMMA ByType ==
  ASSUME NEW f, HasType(f)
  PROVE  /\ \A raw : Tail(raw) = f =>
              /\ f[3] = <<1>> => BrokerReadsBack(raw) = ReadyFrom(f)
              /\ f[3] = <<3>> => BrokerReadsBack(raw) = WorkerReplyFrom(f)
              /\ f[3] = <<4>> => BrokerReadsBack(raw) = HeartbeatFrom(f)
              /\ f[3] = <<5>> => BrokerReadsBack(raw) = Disconnect
         /\ f[3] = <<2>> => WorkerReads(f) = WorkerRequestFrom(f)
         /\ f[3] = <<4>> => WorkerReads(f) = Heartbeat
         /\ f[3] = <<5>> => WorkerReads(f) = Disconnect
<1>1. /\ Code.Ready = <<1>> /\ Code.Request = <<2>> /\ Code.Reply = <<3>>
      /\ Code.Heartbeat = <<4>> /\ Code.Disconnect = <<5>>
  BY DEF Code
<1>2. /\ <<1>> # <<2>> /\ <<1>> # <<3>> /\ <<1>> # <<4>> /\ <<1>> # <<5>>
      /\ <<2>> # <<3>> /\ <<2>> # <<4>> /\ <<2>> # <<5>>
      /\ <<3>> # <<4>> /\ <<3>> # <<5>> /\ <<4>> # <<5>>
  OBVIOUS
<1>3. ASSUME NEW raw, Tail(raw) = f
      PROVE  /\ f[3] = <<1>> => BrokerReadsBack(raw) = ReadyFrom(f)
             /\ f[3] = <<3>> => BrokerReadsBack(raw) = WorkerReplyFrom(f)
             /\ f[3] = <<4>> => BrokerReadsBack(raw) = HeartbeatFrom(f)
             /\ f[3] = <<5>> => BrokerReadsBack(raw) = Disconnect
  BY <1>1, <1>2, <1>3 DEF BrokerReadsBack
<1>4. /\ f[3] = <<2>> => WorkerReads(f) = WorkerRequestFrom(f)
      /\ f[3] = <<4>> => WorkerReads(f) = Heartbeat
      /\ f[3] = <<5>> => WorkerReads(f) = Disconnect
  BY <1>1, <1>2 DEF WorkerReads
<1> QED
  BY <1>3, <1>4

(* From a worker to the broker, and back.                                   *)
LEMMA WorkerMessagesRead ==
  /\ \A m \in Sendable("backUp") : Read("backUp", Received("backUp", m)) = m
  /\ \A m \in Sendable("backDown") : Read("backDown", Received("backDown", m)) = m
<1>1. /\ Empty \in Bytes /\ Version \in Bytes /\ Identity \in Bytes
      /\ Text \subseteq Bytes
      /\ <<1>> \in Bytes /\ <<2>> \in Bytes /\ <<3>> \in Bytes
      /\ <<4>> \in Bytes /\ <<5>> \in Bytes
  BY CodecAssumption DEF Bytes
<1> HIDE DEF Bytes
<1>2. ASSUME NEW m, WorkerTo(m) \in Seq(Bytes)
      PROVE  /\ Tail(Received("backUp", m)) = WorkerTo(m)
             /\ Received("backDown", m) = WorkerTo(m)
  <2>1. Tail(<<Identity>> \o WorkerTo(m)) = WorkerTo(m)
    BY <1>1, <1>2, FirstOff
  <2> QED
    BY <2>1 DEF Received, WorkerToIdentity
<1>3. \A w, m :
        /\ Read("backUp", m) = BrokerReadsBack(m)
        /\ Read("backDown", m) = WorkerReads(m)
  BY DEF Read
<1>4. ASSUME NEW s \in Text
      PROVE  Read("backUp", Received("backUp", Ready(s))) = Ready(s)
  <2> DEFINE f == <<Empty, Version, <<1>>, s>>
  <2>1. f \in Seq(Bytes)
    BY <1>1
  <2>2. /\ HasType(f) /\ f[3] = <<1>> /\ ReadyFrom(f) = Ready(s)
    BY DEF HasType, ReadyFrom, IsWorkerMessage, Frame, Code
  <2>3. WorkerTo(Ready(s)) = f
    BY WorkerToFrames, Zenon
  <2> HIDE DEF f
  <2>4. Tail(Received("backUp", Ready(s))) = f
    BY <1>2, <2>1, <2>3
  <2> QED
    BY <1>3, <2>2, <2>4, ByType
<1>5. ASSUME NEW c \in Text, NEW b \in Text
      PROVE  Read("backUp", Received("backUp", WorkerReply(c, b))) = WorkerReply(c, b)
  <2> DEFINE f == <<Empty, Version, <<3>>, c, Empty, b>>
  <2>1. f \in Seq(Bytes)
    BY <1>1
  <2>2. /\ HasType(f) /\ f[3] = <<3>> /\ WorkerReplyFrom(f) = WorkerReply(c, b)
    BY DEF HasType, WorkerReplyFrom, IsWorkerMessage, Frame, Code
  <2>3. WorkerTo(WorkerReply(c, b)) = f
    BY WorkerToFrames, Zenon
  <2> HIDE DEF f
  <2>4. Tail(Received("backUp", WorkerReply(c, b))) = f
    BY <1>2, <2>1, <2>3
  <2> QED
    BY <1>3, <2>2, <2>4, ByType
<1>6. ASSUME NEW c \in Text, NEW b \in Text
      PROVE  Read("backDown", Received("backDown", WorkerRequest(c, b))) = WorkerRequest(c, b)
  <2> DEFINE f == <<Empty, Version, <<2>>, c, Empty, b>>
  <2>1. f \in Seq(Bytes)
    BY <1>1
  <2>2. /\ HasType(f) /\ f[3] = <<2>> /\ WorkerRequestFrom(f) = WorkerRequest(c, b)
    BY DEF HasType, WorkerRequestFrom, IsWorkerMessage, Frame, Code
  <2>3. WorkerTo(WorkerRequest(c, b)) = f
    BY WorkerToFrames, Zenon
  <2> HIDE DEF f
  <2>4. Received("backDown", WorkerRequest(c, b)) = f
    BY <1>2, <2>1, <2>3
  <2> QED
    BY <1>3, <2>2, <2>4, ByType
<1>7. /\ Read("backUp", Received("backUp", Heartbeat)) = Heartbeat
      /\ Read("backDown", Received("backDown", Heartbeat)) = Heartbeat
  <2> DEFINE f == <<Empty, Version, <<4>>>>
  <2>1. f \in Seq(Bytes)
    BY <1>1
  <2>2. /\ HasType(f) /\ f[3] = <<4>> /\ HeartbeatFrom(f) = Heartbeat
    BY DEF HasType, HeartbeatFrom, IsWorkerMessage, Frame, Code
  <2>3. WorkerTo(Heartbeat) = f
    BY CodecAssumption, WorkerToFrames, Zenon
  <2> HIDE DEF f
  <2>4. Tail(Received("backUp", Heartbeat)) = f /\ Received("backDown", Heartbeat) = f
    BY <1>2, <2>1, <2>3
  <2> QED
    BY <1>3, <2>2, <2>4, ByType
<1>8. /\ Read("backUp", Received("backUp", Disconnect)) = Disconnect
      /\ Read("backDown", Received("backDown", Disconnect)) = Disconnect
  <2> DEFINE f == <<Empty, Version, <<5>>>>
  <2>1. f \in Seq(Bytes)
    BY <1>1
  <2>2. /\ HasType(f) /\ f[3] = <<5>>
    BY DEF HasType
  <2>3. WorkerTo(Disconnect) = f
    BY CodecAssumption, WorkerToFrames, Zenon
  <2> HIDE DEF f
  <2>4. Tail(Received("backUp", Disconnect)) = f /\ Received("backDown", Disconnect) = f
    BY <1>2, <2>1, <2>3
  <2> QED
    BY <1>3, <2>2, <2>4, ByType
<1>9. /\ Sendable("backUp") = {Ready(s) : s \in Text} \cup {Heartbeat, Disconnect}
                              \cup {WorkerReply(c, b) : c \in Text, b \in Text}
      /\ Sendable("backDown") = {WorkerRequest(c, b) : c \in Text, b \in Text}
                                \cup {Heartbeat, Disconnect}
  BY DEF Sendable
<1>10. ASSUME NEW m \in Sendable("backUp")
       PROVE  Read("backUp", Received("backUp", m)) = m
  BY <1>4, <1>5, <1>7, <1>8, <1>9
<1>11. ASSUME NEW m \in Sendable("backDown")
       PROVE  Read("backDown", Received("backDown", m)) = m
  BY <1>6, <1>7, <1>8, <1>9
<1> QED
  BY <1>10, <1>11
(* From a client to the broker, and back.                                   *)
LEMMA ClientMessagesRead ==
  /\ \A m \in Sendable("frontUp") : Read("frontUp", Received("frontUp", m)) = m
  /\ \A m \in Sendable("frontDown") : Read("frontDown", Received("frontDown", m)) = m
<1>1. /\ Empty \in Bytes /\ Version \in Bytes /\ Identity \in Bytes /\ Header \in Bytes
      /\ Text \subseteq Bytes /\ Header # Empty
  BY CodecAssumption DEF Bytes
<1> HIDE DEF Bytes
<1>2. ASSUME NEW m, ClientTo(m) \in Seq(Bytes)
      PROVE  Tail(Received("frontUp", m)) = ClientTo(m)
  <2>1. Tail(<<Identity>> \o ClientTo(m)) = ClientTo(m)
    BY <1>1, <1>2, FirstOff
  <2> QED
    BY <2>1 DEF Received
<1>3. /\ \A f, raw : Tail(raw) = f =>
           Read("frontUp", raw) = IF DiscoveryRequestFrom(f) # Invalid
                                    THEN DiscoveryRequestFrom(f) ELSE ClientRequestFrom(f)
      /\ \A f : Read("frontDown", f) = ClientReads(f)
  BY DEF Read, BrokerReadsFront
<1>4. ASSUME NEW s \in Text
      PROVE  Read("frontUp", Received("frontUp", DiscoveryRequest(s))) = DiscoveryRequest(s)
  <2> DEFINE f == <<Header, s>>
  <2>1. f \in Seq(Bytes)
    BY <1>1
  <2>2. DiscoveryRequestFrom(f) = DiscoveryRequest(s) /\ DiscoveryRequest(s) # Invalid
    BY DEF DiscoveryRequestFrom, DiscoveryRequest, Invalid, Frame
  <2>3. ClientTo(DiscoveryRequest(s)) = f
    BY DEF ClientTo, DiscoveryRequest
  <2> HIDE DEF f
  <2>4. Tail(Received("frontUp", DiscoveryRequest(s))) = f
    BY <1>2, <2>1, <2>3
  <2> QED
    BY <1>3, <2>2, <2>4
<1>5. ASSUME NEW s \in Text, NEW b \in Text
      PROVE  Read("frontUp", Received("frontUp", ClientRequest(s, b))) = ClientRequest(s, b)
  <2> DEFINE f == <<Empty, Version, s, b>>
  <2>1. f \in Seq(Bytes)
    BY <1>1
  <2>2. DiscoveryRequestFrom(f) = Invalid /\ ClientRequestFrom(f) = ClientRequest(s, b)
    BY <1>1 DEF DiscoveryRequestFrom, ClientRequestFrom, Frame
  <2>3. ClientTo(ClientRequest(s, b)) = f
    BY DEF ClientTo, ClientRequest
  <2> HIDE DEF f
  <2>4. Tail(Received("frontUp", ClientRequest(s, b))) = f
    BY <1>2, <2>1, <2>3
  <2> QED
    BY <1>3, <2>2, <2>4
<1>6. ASSUME NEW s \in Text, NEW st \in Status
      PROVE  Read("frontDown", Received("frontDown", DiscoveryReply(s, st)))
               = DiscoveryReply(s, st)
  <2> DEFINE f == <<Header, s, StatusFrame(st)>>
  <2>1. StatusOf(StatusFrame(st)) = st
    BY DEF Status, StatusOf, StatusFrame
  <2>2. DiscoveryReplyFrom(f) = DiscoveryReply(s, st) /\ DiscoveryReply(s, st) # Invalid
    BY <2>1 DEF DiscoveryReplyFrom, DiscoveryReply, Invalid, Frame
  <2>3. Received("frontDown", DiscoveryReply(s, st)) = f
    <3>1. ClientToIdentity(DiscoveryReply(s, st), Identity)
            = <<Identity, Header, s, StatusFrame(st)>>
      BY DEF ClientToIdentity, DiscoveryReply
    <3>2. Tail(<<Identity, Header, s, StatusFrame(st)>>) = f
      OBVIOUS
    <3> QED
      BY <3>1, <3>2 DEF Received
  <2> HIDE DEF f
  <2> QED
    BY <1>3, <2>2, <2>3 DEF ClientReads
<1>7. ASSUME NEW s \in Text, NEW b \in Text
      PROVE  Read("frontDown", Received("frontDown", ClientReply(s, b))) = ClientReply(s, b)
  <2> DEFINE f == <<Empty, Version, s, b>>
  <2>2. DiscoveryReplyFrom(f) = Invalid /\ ClientReplyFrom(f) = ClientReply(s, b)
    BY DEF DiscoveryReplyFrom, ClientReplyFrom, Frame
  <2>3. Received("frontDown", ClientReply(s, b)) = f
    <3>1. ClientToIdentity(ClientReply(s, b), Identity) = <<Identity, Empty, Version, s, b>>
      BY DEF ClientToIdentity, ClientReply
    <3>2. Tail(<<Identity, Empty, Version, s, b>>) = f
      OBVIOUS
    <3> QED
      BY <3>1, <3>2 DEF Received
  <2> HIDE DEF f
  <2> QED
    BY <1>3, <2>2, <2>3 DEF ClientReads
<1>8. /\ Sendable("frontUp") = {DiscoveryRequest(s) : s \in Text}
                               \cup {ClientRequest(s, b) : s \in Text, b \in Text}
      /\ Sendable("frontDown") = {DiscoveryReply(s, st) : s \in Text, st \in Status}
                                 \cup {ClientReply(s, b) : s \in Text, b \in Text}
  BY DEF Sendable
<1>9. ASSUME NEW m \in Sendable("frontUp")
      PROVE  Read("frontUp", Received("frontUp", m)) = m
  BY <1>4, <1>5, <1>8
<1>10. ASSUME NEW m \in Sendable("frontDown")
       PROVE  Read("frontDown", Received("frontDown", m)) = m
  BY <1>6, <1>7, <1>8
<1> QED
  BY <1>9, <1>10

(* The same of the synchronous Majordomo.                                   *)
LEMMA SyncByType ==
  ASSUME NEW f, HasType(f)
  PROVE  /\ \A raw : Tail(raw) = f =>
              /\ f[3] = <<1>> => SyncBrokerReadsBack(raw) = CommandReadyFrom(f)
              /\ f[3] = <<3>> => SyncBrokerReadsBack(raw) = CommandReplyFrom(f)
              /\ f[3] = <<4>> => SyncBrokerReadsBack(raw) = CommandHeartbeatFrom(f)
         /\ f[3] = <<2>> => SyncWorkerReads(f) = CommandRequestFrom(f)
         /\ f[3] = <<4>> => SyncWorkerReads(f) = Heartbeat
<1>1. /\ Code.Ready = <<1>> /\ Code.Request = <<2>> /\ Code.Reply = <<3>>
      /\ Code.Heartbeat = <<4>> /\ Code.Disconnect = <<5>>
  BY DEF Code
<1>2. /\ <<1>> # <<3>> /\ <<1>> # <<4>> /\ <<3>> # <<4>>
      /\ <<2>> # <<4>> /\ <<2>> # <<5>> /\ <<4>> # <<5>>
  OBVIOUS
<1>3. ASSUME NEW raw, Tail(raw) = f
      PROVE  /\ f[3] = <<1>> => SyncBrokerReadsBack(raw) = CommandReadyFrom(f)
             /\ f[3] = <<3>> => SyncBrokerReadsBack(raw) = CommandReplyFrom(f)
             /\ f[3] = <<4>> => SyncBrokerReadsBack(raw) = CommandHeartbeatFrom(f)
  BY <1>1, <1>2, <1>3 DEF SyncBrokerReadsBack
<1>4. /\ f[3] = <<2>> => SyncWorkerReads(f) = CommandRequestFrom(f)
      /\ f[3] = <<4>> => SyncWorkerReads(f) = Heartbeat
  BY <1>1, <1>2 DEF SyncWorkerReads
<1> QED
  BY <1>3, <1>4

LEMMA SyncWorkerMessagesRead ==
  /\ \A m \in SyncSendable("syncBackUp") :
       SyncRead("syncBackUp", SyncReceived("syncBackUp", m)) = m
  /\ \A m \in SyncSendable("syncBackDown") :
       SyncRead("syncBackDown", SyncReceived("syncBackDown", m)) = m
<1>1. /\ Empty \in Bytes /\ Version \in Bytes /\ Identity \in Bytes
      /\ Text \subseteq Bytes
      /\ <<1>> \in Bytes /\ <<2>> \in Bytes /\ <<3>> \in Bytes /\ <<4>> \in Bytes
  BY CodecAssumption DEF Bytes
<1> HIDE DEF Bytes
<1>2. ASSUME NEW m, CommandTo(m) \in Seq(Bytes)
      PROVE  /\ Tail(SyncReceived("syncBackUp", m)) = CommandTo(m)
             /\ SyncReceived("syncBackDown", m) = CommandTo(m)
  <2>1. Tail(<<Identity>> \o CommandTo(m)) = CommandTo(m)
    BY <1>1, <1>2, FirstOff
  <2> QED
    BY <2>1 DEF SyncReceived
<1>3. \A f :
        /\ SyncRead("syncBackUp", f) = SyncBrokerReadsBack(f)
        /\ SyncRead("syncBackDown", f) = SyncWorkerReads(f)
  BY DEF SyncRead
<1>4. ASSUME NEW s \in Text
      PROVE  SyncRead("syncBackUp", SyncReceived("syncBackUp", Ready(s))) = Ready(s)
  <2> DEFINE f == <<Empty, Version, <<1>>, s>>
  <2>1. f \in Seq(Bytes)
    BY <1>1
  <2>2. /\ HasType(f) /\ f[3] = <<1>> /\ CommandReadyFrom(f) = Ready(s)
    BY DEF HasType, CommandReadyFrom, IsCommand, Frame, Code
  <2>3. CommandTo(Ready(s)) = f
    BY DEF CommandTo, Ready, Code
  <2> HIDE DEF f
  <2>4. Tail(SyncReceived("syncBackUp", Ready(s))) = f
    BY <1>2, <2>1, <2>3
  <2> QED
    BY <1>3, <2>2, <2>4, SyncByType
<1>5. ASSUME NEW c \in Text, NEW b \in Text
      PROVE  SyncRead("syncBackUp", SyncReceived("syncBackUp", WorkerReply(c, b)))
               = WorkerReply(c, b)
  <2> DEFINE f == <<Empty, Version, <<3>>, c, Empty, b>>
  <2>1. f \in Seq(Bytes)
    BY <1>1
  <2>2. /\ HasType(f) /\ f[3] = <<3>> /\ CommandReplyFrom(f) = WorkerReply(c, b)
    BY DEF HasType, CommandReplyFrom, IsCommand, Frame, Code
  <2>3. CommandTo(WorkerReply(c, b)) = f
    BY DEF CommandTo, WorkerReply, Code
  <2> HIDE DEF f
  <2>4. Tail(SyncReceived("syncBackUp", WorkerReply(c, b))) = f
    BY <1>2, <2>1, <2>3
  <2> QED
    BY <1>3, <2>2, <2>4, SyncByType
<1>6. ASSUME NEW c \in Text, NEW b \in Text
      PROVE  SyncRead("syncBackDown", SyncReceived("syncBackDown", WorkerRequest(c, b)))
               = WorkerRequest(c, b)
  <2> DEFINE f == <<Empty, Version, <<2>>, c, Empty, b>>
  <2>1. f \in Seq(Bytes)
    BY <1>1
  <2>2. /\ HasType(f) /\ f[3] = <<2>> /\ CommandRequestFrom(f) = WorkerRequest(c, b)
    BY DEF HasType, CommandRequestFrom, IsCommand, Frame, Code
  <2>3. CommandTo(WorkerRequest(c, b)) = f
    BY DEF CommandTo, WorkerRequest, Code
  <2> HIDE DEF f
  <2>4. SyncReceived("syncBackDown", WorkerRequest(c, b)) = f
    BY <1>2, <2>1, <2>3
  <2> QED
    BY <1>3, <2>2, <2>4, SyncByType
<1>7. /\ SyncRead("syncBackUp", SyncReceived("syncBackUp", Heartbeat)) = Heartbeat
      /\ SyncRead("syncBackDown", SyncReceived("syncBackDown", Heartbeat)) = Heartbeat
  <2> DEFINE f == <<Empty, Version, <<4>>>>
  <2>1. f \in Seq(Bytes)
    BY <1>1
  <2>2. /\ HasType(f) /\ f[3] = <<4>> /\ CommandHeartbeatFrom(f) = Heartbeat
    BY DEF HasType, CommandHeartbeatFrom, IsCommand, Frame, Code
  <2>3. CommandTo(Heartbeat) = f
    BY DEF CommandTo, Heartbeat, Code
  <2> HIDE DEF f
  <2>4. /\ Tail(SyncReceived("syncBackUp", Heartbeat)) = f
        /\ SyncReceived("syncBackDown", Heartbeat) = f
    BY <1>2, <2>1, <2>3
  <2> QED
    BY <1>3, <2>2, <2>4, SyncByType
<1>8. ASSUME NEW m \in SyncSendable("syncBackUp")
      PROVE  SyncRead("syncBackUp", SyncReceived("syncBackUp", m)) = m
  <2>1. SyncSendable("syncBackUp") = {Ready(s) : s \in Text} \cup {Heartbeat}
          \cup {WorkerReply(c, b) : c \in Text, b \in Text}
    BY DEF SyncSendable, Sendable, Ready, Heartbeat, WorkerReply, Disconnect
  <2> QED
    BY <1>4, <1>5, <1>7, <2>1
<1>9. ASSUME NEW m \in SyncSendable("syncBackDown")
      PROVE  SyncRead("syncBackDown", SyncReceived("syncBackDown", m)) = m
  <2>1. SyncSendable("syncBackDown") = {WorkerRequest(c, b) : c \in Text, b \in Text}
          \cup {Heartbeat}
    BY DEF SyncSendable, Sendable, WorkerRequest, Heartbeat, Disconnect
  <2> QED
    BY <1>6, <1>7, <2>1
<1> QED
  BY <1>8, <1>9

(* The two frames before those of a request, and what is behind them.       *)
LEMMA TwoFramesOff ==
  ASSUME NEW x, NEW y, NEW a, NEW b, NEW c, NEW d
  PROVE  LET f == <<x, y>> \o <<a, b, c, d>>
         IN  SubSeq(f, 3, Len(f)) = <<a, b, c, d>>
<1> DEFINE T == {x, y, a, b, c, d}
           p == <<x, y>>
           q == <<a, b, c, d>>
<1>1. p \in Seq(T) /\ q \in Seq(T) /\ Len(p) = 2 /\ Len(q) = 4
  OBVIOUS
<1> HIDE DEF T, p, q
<1>2. /\ p \o q \in Seq(T) /\ Len(p \o q) = 6
      /\ \A i \in 1 .. 6 : (p \o q)[i] = IF i <= 2 THEN p[i] ELSE q[i - 2]
  <2>1. /\ p \o q \in Seq(T) /\ Len(p \o q) = Len(p) + Len(q)
        /\ \A i \in 1 .. Len(p) + Len(q) :
             (p \o q)[i] = IF i <= Len(p) THEN p[i] ELSE q[i - Len(p)]
    BY <1>1, ConcatProperties
  <2> QED
    BY <1>1, <2>1
<1>3. SubSeq(p \o q, 3, 6) = q
  <2> DEFINE r == p \o q
  <2>1. /\ r \in Seq(T) /\ Len(r) = 6
        /\ \A i \in 1 .. 4 : r[i + 2] = q[i]
    BY <1>2
  <2> HIDE DEF r
  <2>2. /\ SubSeq(r, 3, 6) \in Seq(T) /\ Len(SubSeq(r, 3, 6)) = 4
        /\ \A i \in 1 .. 4 : SubSeq(r, 3, 6)[i] = r[3 + i - 1]
    <3>1. ASSUME NEW i \in 3 .. 6  PROVE r[i] \in T
      <4>1. i \in 1 .. Len(r) /\ r \in Seq(T)
        BY <2>1
      <4> QED
        BY <4>1, ElementOfSeq
    <3>2. /\ SubSeq(r, 3, 6) \in Seq(T)
          /\ Len(SubSeq(r, 3, 6)) = IF 3 <= 6 THEN 6 - 3 + 1 ELSE 0
          /\ \A i \in 1 .. 6 - 3 + 1 : SubSeq(r, 3, 6)[i] = r[3 + i - 1]
      BY <3>1, SubSeqProperties
    <3> QED
      BY <3>2
  <2>3. \A i \in 1 .. 4 : SubSeq(r, 3, 6)[i] = q[i]
    BY <2>1, <2>2
  <2>4. SubSeq(r, 3, 6) = q
    BY <1>1, <2>2, <2>3, SeqEqual
  <2> QED
    BY <2>4 DEF r
<1> QED
  BY <1>2, <1>3 DEF p, q

LEMMA SyncClientMessagesRead ==
  /\ \A m \in SyncSendable("syncFrontUp") :
       SyncRead("syncFrontUp", SyncReceived("syncFrontUp", m)) = m
  /\ \A m \in SyncSendable("syncFrontDown") :
       SyncRead("syncFrontDown", SyncReceived("syncFrontDown", m)) = m
<1>1. /\ \A f : SyncRead("syncFrontUp", f) = SyncRequestFrom(SubSeq(f, 3, Len(f)))
      /\ \A f : SyncRead("syncFrontDown", f) = SyncReplyFrom(f)
      /\ \A m : SyncReceived("syncFrontUp", m) = <<Identity, Empty>> \o ClientCommandTo(m)
      /\ \A m : SyncReceived("syncFrontDown", m) = Tail(ClientCommandTo(m))
  BY DEF SyncRead, SyncReceived
<1>2. ASSUME NEW s \in Text, NEW b \in Text
      PROVE  SyncRead("syncFrontUp", SyncReceived("syncFrontUp", ClientRequest(s, b)))
               = ClientRequest(s, b)
  <2>1. ClientCommandTo(ClientRequest(s, b)) = <<Empty, Version, s, b>>
    BY DEF ClientCommandTo, ClientRequest
  <2> DEFINE f == <<Identity, Empty>> \o <<Empty, Version, s, b>>
  <2>2. SubSeq(f, 3, Len(f)) = <<Empty, Version, s, b>>
    BY TwoFramesOff
  <2>3. SyncRequestFrom(<<Empty, Version, s, b>>) = ClientRequest(s, b)
    BY DEF SyncRequestFrom, Frame
  <2>4. SyncReceived("syncFrontUp", ClientRequest(s, b)) = f
    BY <1>1, <2>1
  <2> HIDE DEF f
  <2> QED
    BY <1>1, <2>2, <2>3, <2>4
<1>3. ASSUME NEW s \in Text, NEW b \in Text
      PROVE  SyncRead("syncFrontDown", SyncReceived("syncFrontDown", ClientReply(s, b)))
               = ClientReply(s, b)
  <2>1. ClientCommandTo(ClientReply(s, b)) = <<Empty, Version, s, b>>
    BY DEF ClientCommandTo, ClientReply
  <2>2. Tail(<<Empty, Version, s, b>>) = <<Version, s, b>>
    OBVIOUS
  <2>3. SyncReplyFrom(<<Version, s, b>>) = ClientReply(s, b)
    BY DEF SyncReplyFrom, Frame
  <2> QED
    BY <1>1, <2>1, <2>2, <2>3
<1>4. /\ SyncSendable("syncFrontUp") = {ClientRequest(s, b) : s \in Text, b \in Text}
      /\ SyncSendable("syncFrontDown") = {ClientReply(s, b) : s \in Text, b \in Text}
  BY DEF SyncSendable
<1>5. ASSUME NEW m \in SyncSendable("syncFrontUp")
      PROVE  SyncRead("syncFrontUp", SyncReceived("syncFrontUp", m)) = m
  BY <1>2, <1>4
<1>6. ASSUME NEW m \in SyncSendable("syncFrontDown")
      PROVE  SyncRead("syncFrontDown", SyncReceived("syncFrontDown", m)) = m
  BY <1>3, <1>4
<1> QED
  BY <1>5, <1>6

(* The frames that come are frames, and a ROUTER puts one in front.         *)
LEMMA ReceivedTyped ==
  ASSUME NEW w \in Way, NEW m \in Sendable(w)
  PROVE  /\ Received(w, m) \in Seq(Bytes)
         /\ w \in {"backUp", "frontUp"} => Received(w, m) # <<>>
<1>1. /\ Empty \in Bytes /\ Version \in Bytes /\ Identity \in Bytes /\ Header \in Bytes
      /\ Text \subseteq Bytes
      /\ <<1>> \in Bytes /\ <<2>> \in Bytes /\ <<3>> \in Bytes
      /\ <<4>> \in Bytes /\ <<5>> \in Bytes
      /\ \A st \in Status : StatusFrame(st) \in Bytes
  BY CodecAssumption DEF Bytes, Status, StatusFrame
<1> HIDE DEF Bytes
<1>2. ASSUME w \in {"backUp", "backDown"}
      PROVE  WorkerTo(m) \in Seq(Bytes)
  <2>1. PICK s \in Text, c \in Text, b \in Text :
          m \in {Ready(s), WorkerRequest(c, b), WorkerReply(c, b), Heartbeat, Disconnect}
    BY <1>2, CodecAssumption DEF Sendable
  <2>2. WorkerTo(m) \in {<<Empty, Version, <<1>>, s>>, <<Empty, Version, <<4>>>>,
                         <<Empty, Version, <<2>>, c, Empty, b>>,
                         <<Empty, Version, <<3>>, c, Empty, b>>,
                         <<Empty, Version, <<5>>>>}
    <3>1. /\ WorkerTo(Ready(s)) = <<Empty, Version, <<1>>, s>>
          /\ WorkerTo(WorkerRequest(c, b)) = <<Empty, Version, <<2>>, c, Empty, b>>
          /\ WorkerTo(WorkerReply(c, b)) = <<Empty, Version, <<3>>, c, Empty, b>>
          /\ WorkerTo(Heartbeat) = <<Empty, Version, <<4>>>>
          /\ WorkerTo(Disconnect) = <<Empty, Version, <<5>>>>
      BY WorkerToFrames, Zenon
    <3> QED
      BY <2>1, <3>1
  <2>3. /\ <<Empty, Version, <<1>>, s>> \in Seq(Bytes)
        /\ <<Empty, Version, <<4>>>> \in Seq(Bytes)
        /\ <<Empty, Version, <<2>>, c, Empty, b>> \in Seq(Bytes)
        /\ <<Empty, Version, <<3>>, c, Empty, b>> \in Seq(Bytes)
        /\ <<Empty, Version, <<5>>>> \in Seq(Bytes)
    BY <1>1
  <2> QED
    BY <2>2, <2>3, Zenon
<1>3. ASSUME w = "frontUp"  PROVE ClientTo(m) \in Seq(Bytes)
  <2>1. PICK s \in Text, b \in Text : m \in {DiscoveryRequest(s), ClientRequest(s, b)}
    BY <1>3, CodecAssumption DEF Sendable
  <2> QED
    BY <1>1, <2>1 DEF ClientTo, DiscoveryRequest, ClientRequest
<1>4. ASSUME w = "frontDown"  PROVE Tail(ClientToIdentity(m, Identity)) \in Seq(Bytes)
  <2>1. PICK s \in Text, b \in Text, st \in Status :
          m \in {DiscoveryReply(s, st), ClientReply(s, b)}
    BY <1>4, CodecAssumption DEF Sendable, Status
  <2>2. ClientToIdentity(m, Identity) \in {<<Identity, Header, s, StatusFrame(st)>>,
                                           <<Identity, Empty, Version, s, b>>}
    BY <2>1 DEF ClientToIdentity, DiscoveryReply, ClientReply
  <2>3. /\ Tail(<<Identity, Header, s, StatusFrame(st)>>) = <<Header, s, StatusFrame(st)>>
        /\ Tail(<<Identity, Empty, Version, s, b>>) = <<Empty, Version, s, b>>
    OBVIOUS
  <2>4. /\ <<Header, s, StatusFrame(st)>> \in Seq(Bytes)
        /\ <<Empty, Version, s, b>> \in Seq(Bytes)
    BY <1>1
  <2> QED
    BY <2>2, <2>3, <2>4
<1>5. \A f \in Seq(Bytes) : <<Identity>> \o f \in Seq(Bytes) /\ <<Identity>> \o f # <<>>
  BY <1>1, FirstFrameOff
<1>6. /\ w = "backUp" => Received(w, m) = <<Identity>> \o WorkerTo(m)
      /\ w = "backDown" => Received(w, m) = Tail(<<Identity>> \o WorkerTo(m))
      /\ w = "frontUp" => Received(w, m) = <<Identity>> \o ClientTo(m)
      /\ w = "frontDown" => Received(w, m) = Tail(ClientToIdentity(m, Identity))
  BY DEF Received, WorkerToIdentity
<1>7. CASE w = "backUp"
  BY <1>2, <1>5, <1>6, <1>7
<1>8. CASE w = "backDown"
  <2>1. Tail(<<Identity>> \o WorkerTo(m)) \in Seq(Bytes)
    BY <1>1, <1>2, <1>8, FirstFrameOff
  <2> QED
    BY <1>6, <1>8, <2>1
<1>9. CASE w = "frontUp"
  BY <1>3, <1>5, <1>6, <1>9
<1>10. CASE w = "frontDown"
  BY <1>4, <1>6, <1>10
<1> QED
  BY <1>7, <1>8, <1>9, <1>10 DEF Way

(* What is read is the text of frames.                                      *)
Within(m, f) ==
  \A field \in DOMAIN m \ {"type", "status"} : \E i \in 1 .. Len(f) : m[field] = f[i]

LEMMA ParsedWithin ==
  ASSUME NEW f \in Seq(Bytes)
  PROVE  /\ Within(Invalid, f) /\ Within(Heartbeat, f) /\ Within(Disconnect, f)
         /\ Within(ReadyFrom(f), f) /\ Within(HeartbeatFrom(f), f)
         /\ Within(WorkerRequestFrom(f), f) /\ Within(WorkerReplyFrom(f), f)
         /\ Within(DiscoveryRequestFrom(f), f) /\ Within(ClientRequestFrom(f), f)
         /\ Within(DiscoveryReplyFrom(f), f) /\ Within(ClientReplyFrom(f), f)
<1> HIDE DEF Bytes
<1>1. /\ Len(f) \in Nat /\ DOMAIN f = 1 .. Len(f)
      /\ \A i \in 1 .. Len(f) : Frame(f, i) = f[i]
  BY LenProperties DEF Frame
<1>2. Within(Invalid, f) /\ Within(Heartbeat, f) /\ Within(Disconnect, f)
  BY DEF Within, Invalid, Heartbeat, Disconnect
<1>3. /\ \A i \in 1 .. Len(f) :
           /\ Within(Ready(f[i]), f) /\ Within(DiscoveryRequest(f[i]), f)
           /\ \A st : Within(DiscoveryReply(f[i], st), f)
  BY DEF Within, Ready, DiscoveryRequest, DiscoveryReply
<1>4. \A i, j \in 1 .. Len(f) :
        /\ Within(WorkerRequest(f[i], f[j]), f) /\ Within(WorkerReply(f[i], f[j]), f)
        /\ Within(ClientRequest(f[i], f[j]), f) /\ Within(ClientReply(f[i], f[j]), f)
  BY DEF Within, WorkerRequest, WorkerReply, ClientRequest, ClientReply
<1> HIDE DEF Within
<1>5. Within(ReadyFrom(f), f) /\ Within(HeartbeatFrom(f), f)
  BY <1>1, <1>2, <1>3 DEF ReadyFrom, HeartbeatFrom, IsWorkerMessage
<1>6. Within(WorkerRequestFrom(f), f) /\ Within(WorkerReplyFrom(f), f)
  BY <1>1, <1>2, <1>4 DEF WorkerRequestFrom, WorkerReplyFrom, IsWorkerMessage
<1>7. Within(DiscoveryRequestFrom(f), f) /\ Within(DiscoveryReplyFrom(f), f)
  BY <1>1, <1>2, <1>3 DEF DiscoveryRequestFrom, DiscoveryReplyFrom
<1>8. Within(ClientRequestFrom(f), f) /\ Within(ClientReplyFrom(f), f)
  BY <1>1, <1>2, <1>4 DEF ClientRequestFrom, ClientReplyFrom
<1> QED
  BY <1>2, <1>5, <1>6, <1>7, <1>8

LEMMA ReadWithin ==
  ASSUME NEW w \in Way, NEW raw \in Seq(Bytes), w \in {"backUp", "frontUp"} => raw # <<>>
  PROVE  Within(Read(w, raw), raw)
<1> HIDE DEF Bytes
<1> DEFINE f == Tail(raw)
<1>1. ASSUME raw # <<>>
      PROVE  /\ f \in Seq(Bytes)
             /\ \A m : Within(m, f) => Within(m, raw)
  <2>1. /\ f \in Seq(Bytes) /\ Len(f) = Len(raw) - 1 /\ Len(raw) \in Nat
        /\ \A i \in 1 .. Len(f) : f[i] = raw[i + 1]
    BY <1>1, HeadTailProperties, LenProperties
  <2> HIDE DEF f
  <2>2. \A i \in 1 .. Len(f) : i + 1 \in 1 .. Len(raw)
    BY <2>1
  <2> QED
    BY <2>1, <2>2 DEF Within
<1>2. /\ w = "backUp" => Read(w, raw) = BrokerReadsBack(raw)
      /\ w = "backDown" => Read(w, raw) = WorkerReads(raw)
      /\ w = "frontUp" => Read(w, raw) = BrokerReadsFront(raw)
      /\ w = "frontDown" => Read(w, raw) = ClientReads(raw)
  BY DEF Read
<1>3. CASE w = "backUp"
  <2>1. f \in Seq(Bytes) /\ \A m : Within(m, f) => Within(m, raw)
    BY <1>1, <1>3
  <2>2. BrokerReadsBack(raw) \in {Invalid, HeartbeatFrom(f), ReadyFrom(f),
                                  WorkerReplyFrom(f), Disconnect}
    BY DEF BrokerReadsBack
  <2> HIDE DEF f
  <2> QED
    BY <1>2, <1>3, <2>1, <2>2, ParsedWithin
<1>4. CASE w = "backDown"
  <2>1. WorkerReads(raw) \in {Invalid, WorkerRequestFrom(raw), Disconnect, Heartbeat}
    BY DEF WorkerReads
  <2> QED
    BY <1>2, <1>4, <2>1, ParsedWithin
<1>5. CASE w = "frontUp"
  <2>1. f \in Seq(Bytes) /\ \A m : Within(m, f) => Within(m, raw)
    BY <1>1, <1>5
  <2>2. BrokerReadsFront(raw) \in {DiscoveryRequestFrom(f), ClientRequestFrom(f)}
    BY DEF BrokerReadsFront
  <2> HIDE DEF f
  <2> QED
    BY <1>2, <1>5, <2>1, <2>2, ParsedWithin
<1>6. CASE w = "frontDown"
  <2>1. ClientReads(raw) \in {DiscoveryReplyFrom(raw), ClientReplyFrom(raw)}
    BY DEF ClientReads
  <2> QED
    BY <1>2, <1>6, <2>1, ParsedWithin
<1> QED
  BY <1>3, <1>4, <1>5, <1>6 DEF Way

(* Either codec, with the steps of another implementation.                  *)
CodecsSpec == (CodecInit \/ SyncInit) /\ [][CodecNext]_codecVars

CodecInv ==
  /\ msg # Foreign =>
       \/ way \in Way /\ msg \in Sendable(way) /\ frames = Received(way, msg)
       \/ way \in SyncWay /\ msg \in SyncSendable(way) /\ frames = SyncReceived(way, msg)
  /\ way \in Way =>
       /\ frames \in Seq(Bytes)
       /\ way \in {"backUp", "frontUp"} => frames # <<>>

LEMMA InitCodec == CodecInit \/ SyncInit => CodecInv
<1>1. ASSUME CodecInit  PROVE CodecInv
  <2>1. CASE msg \in Sendable(way) /\ frames = Received(way, msg)
    BY <1>1, <2>1, ReceivedTyped DEF CodecInit, CodecInv
  <2>2. CASE msg = Foreign /\ frames = IF way \in {"backUp", "frontUp"}
                                         THEN <<Identity>> ELSE <<>>
    <3>1. Identity \in Bytes
      BY CodecAssumption DEF Bytes
    <3>2. frames \in Seq(Bytes) /\ (way \in {"backUp", "frontUp"} => frames # <<>>)
      BY <2>2, <3>1
    <3> QED
      BY <2>2, <3>2 DEF CodecInv
  <2> QED
    BY <1>1, <2>1, <2>2 DEF CodecInit
<1>2. ASSUME SyncInit  PROVE CodecInv
  <2>1. way \notin Way
    BY <1>2 DEF SyncInit, SyncWay, Way
  <2> QED
    BY <1>2, <2>1 DEF SyncInit, CodecInv
<1> QED
  BY <1>1, <1>2

LEMMA StepCodec == CodecInv /\ [CodecNext]_codecVars => CodecInv'
<1> SUFFICES ASSUME CodecInv, CodecNext  PROVE CodecInv'
  BY DEF CodecInv, codecVars
<1>1. PICK f \in Text \cup {Header} : OneMoreFrame(f)
  BY Zenon DEF CodecNext
<1>2. f \in Bytes
  BY CodecAssumption DEF Bytes
<1>3. way' = way /\ msg' = msg /\ msg = Foreign /\ frames' = Append(frames, f)
  BY <1>1 DEF OneMoreFrame
<1>4. ASSUME frames \in Seq(Bytes)
      PROVE  frames' \in Seq(Bytes) /\ frames' # <<>>
  BY <1>2, <1>3, <1>4, AppendProperties, EmptySeq
<1> QED
  BY <1>3, <1>4 DEF CodecInv

(* Of either Majordomo, every message reads as the one that was sent, for   *)
(* any names, addresses and bodies.                                         *)
THEOREM MessagesAreRead == CodecsSpec => []EverySentIsRead
<1>1. ASSUME CodecInv  PROVE EverySentIsRead
  <2>1. ASSUME way \in Way, msg # Foreign  PROVE Read(way, frames) = msg
    <3>1. way \notin SyncWay
      BY <2>1 DEF Way, SyncWay
    <3>2. msg \in Sendable(way) /\ frames = Received(way, msg)
      BY <1>1, <2>1, <3>1 DEF CodecInv
    <3> QED
      BY <2>1, <3>2, WorkerMessagesRead, ClientMessagesRead DEF Way
  <2>2. ASSUME way \in SyncWay, msg # Foreign  PROVE SyncRead(way, frames) = msg
    <3>1. way \notin Way
      BY <2>2 DEF Way, SyncWay
    <3>2. msg \in SyncSendable(way) /\ frames = SyncReceived(way, msg)
      BY <1>1, <2>2, <3>1 DEF CodecInv
    <3> QED
      BY <2>2, <3>2, SyncWorkerMessagesRead, SyncClientMessagesRead DEF SyncWay
  <2> QED
    BY <2>1, <2>2 DEF EverySentIsRead, SentIsRead
<1> QED
  BY <1>1, InitCodec, StepCodec, PTL DEF CodecsSpec

(* And whatever a peer sends, nothing is read beyond its frames.            *)
THEOREM FramesAreCounted == CodecsSpec => []NothingBeyondTheFrames
<1>1. ASSUME CodecInv  PROVE NothingBeyondTheFrames
  BY <1>1, ReadWithin DEF CodecInv, NothingBeyondTheFrames, Within
<1> QED
  BY <1>1, InitCodec, StepCodec, PTL DEF CodecsSpec
=============================================================================
