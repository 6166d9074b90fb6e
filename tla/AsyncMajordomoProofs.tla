------------------------- MODULE AsyncMajordomoProofs -------------------------
(***************************************************************************)
(* Proofs about AsyncMajordomo, for every number of workers, clients,      *)
(* services, requests and failures: the invariant Inv is inductive, and    *)
(* type correctness, WorkConserving and IdleAreRegistered follow from it.  *)
(* From it, in turn, that a worker has one request, and only requests for  *)
(* the service it provides.                                                *)
(*                                                                         *)
(* A token of a worker is its entry in a pool, its Ready or Reply on the   *)
(* way to the broker, or the Request on its way to the worker.  Each       *)
(* handler moves a token from one place to the next; whatever is lost      *)
(* leaves fewer; and an identity gets its first token when there is none.  *)
(* What is counted are positions in queues, and "at most one" is stated as *)
(* "any two are the same", so that nothing has to be added up.             *)
(*                                                                         *)
(* Of PromptSpec, NoFalseAlarm: whenever a process is between a tick and   *)
(* its next heartbeat, the broker has heard of it in the period before,    *)
(* and the broker's own heartbeat is due or waits to be read.              *)
(***************************************************************************)
EXTENDS AsyncMajordomo, QueueProofs

(* The queues of a link after what the network operators do to them.        *)
LEMMA OldestProperties ==
  ASSUME NEW S, NEW q \in Seq(S), NEW k \in Nat, k <= Len(q)
  PROVE  /\ Oldest(q, k) \in Seq(S)
         /\ Len(Oldest(q, k)) = k
         /\ \A i \in 1 .. k : Oldest(q, k)[i] = q[i]
<1>1. Len(q) \in Nat /\ \A i \in 1 .. k : q[i] \in S
  BY LenProperties
<1>2. /\ SubSeq(q, 1, k) \in Seq(S)
      /\ Len(SubSeq(q, 1, k)) = IF 1 <= k THEN k - 1 + 1 ELSE 0
      /\ \A i \in 1 .. k - 1 + 1 : SubSeq(q, 1, k)[i] = q[1 + i - 1]
  BY <1>1, SubSeqProperties
<1> QED  BY <1>2 DEF Oldest

LEMMA AllButOldestProperties ==
  ASSUME NEW S, NEW q \in Seq(S), NEW k \in Nat, k <= Len(q)
  PROVE  /\ AllButOldest(q, k) \in Seq(S)
         /\ Len(AllButOldest(q, k)) = Len(q) - k
         /\ \A i \in 1 .. Len(q) - k : AllButOldest(q, k)[i] = q[i + k]
<1>1. Len(q) \in Nat /\ \A i \in k + 1 .. Len(q) : q[i] \in S
  BY LenProperties
<1>2. /\ SubSeq(q, k + 1, Len(q)) \in Seq(S)
      /\ Len(SubSeq(q, k + 1, Len(q))) =
           IF k + 1 <= Len(q) THEN Len(q) - (k + 1) + 1 ELSE 0
      /\ \A i \in 1 .. Len(q) - (k + 1) + 1 :
           SubSeq(q, k + 1, Len(q))[i] = q[k + 1 + i - 1]
  BY <1>1, SubSeqProperties
<1> QED  BY <1>1, <1>2 DEF AllButOldest

LEMMA RoutedType ==
  ASSUME NEW S, NEW q \in Seq(S), NEW msgs \in Seq(S), NEW hwm \in Nat, NEW id
  PROVE  Routed(id, q, msgs, hwm) \in Seq(S)
<1>1. /\ q \o msgs \in Seq(S)
      /\ Len(q \o msgs) = Len(q) + Len(msgs)
      /\ Len(q) \in Nat /\ Len(msgs) \in Nat
  BY ConcatProperties, LenProperties
<1>2. /\ MinOf(hwm, Len(q) + Len(msgs)) \in Nat
      /\ MinOf(hwm, Len(q) + Len(msgs)) <= Len(q \o msgs)
  BY <1>1 DEF MinOf
<1>3. Offer(q, msgs, hwm) \in Seq(S)
  BY <1>1, <1>2, OldestProperties DEF Offer, Oldest
<1> QED  BY <1>3 DEF Routed

(* std::erase_if of identities from a pool.                                 *)
LEMMA EraseProperties ==
  ASSUME NEW S, NEW q \in Seq(S), NEW W
  PROVE  /\ Erase(q, W) \in Seq(S)
         /\ \A i \in 1 .. Len(Erase(q, W)) :
              \E j \in 1 .. Len(q) : Erase(q, W)[i] = q[j] /\ q[j] \notin W
         /\ q = <<>> => Erase(q, W) = <<>>
<1> DEFINE keep == {i \in 1 .. Len(q) : q[i] \notin W}
<1>1. keep \in SUBSET (1 .. Len(q))
  OBVIOUS
<1>2. \A i \in keep : i \in 1 .. Len(q) /\ q[i] \notin W
  OBVIOUS
<1>3. Erase(q, W) = Pick(q, keep)
  BY DEF Erase
<1> HIDE DEF keep
<1>4. /\ Pick(q, keep) \in Seq(S)
      /\ Len(Pick(q, keep)) = Cardinality(keep)
      /\ Cardinality(keep) \in 0 .. Len(q)
      /\ \A k \in 1 .. Len(Pick(q, keep)) :
           \E i \in keep : Pick(q, keep)[k] = q[i]
  <2> DEFINE Picks(I) ==
        /\ Pick(q, I) \in Seq(S)
        /\ Len(Pick(q, I)) = Cardinality(I)
        /\ Cardinality(I) \in 0 .. Len(q)
        /\ \A k \in 1 .. Len(Pick(q, I)) : \E i \in I : Pick(q, I)[k] = q[i]
  <2>1. ASSUME NEW I \in SUBSET (1 .. Len(q))  PROVE Picks(I)
    <3>1. Pick(q, I) \in Seq(S)
      BY PickProperties, Zenon
    <3>2. Len(Pick(q, I)) = Cardinality(I) /\ Cardinality(I) \in 0 .. Len(q)
      BY PickProperties, Zenon
    <3>3. \A k \in 1 .. Len(Pick(q, I)) : \E i \in I : Pick(q, I)[k] = q[i]
      <4> TAKE k \in 1 .. Len(Pick(q, I))
      <4> QED  BY PickProperties
    <3> QED  BY <3>1, <3>2, <3>3
  <2>2. Picks(keep)
    <3> HIDE DEF Picks
    <3> QED  BY <1>1, <2>1
  <2> QED  BY <2>2
<1>5. ASSUME q = <<>>  PROVE Erase(q, W) = <<>>
  <2>1. Len(Pick(q, keep)) = 0
    BY <1>4, <1>5, EmptySeq
  <2> QED  BY <1>3, <1>4, <2>1, EmptySeq
<1> QED  BY <1>2, <1>3, <1>4, <1>5

(* sendPendingRequests, for a service s whose queues were idles and reqs.   *)
LEMMA SendPendingProperties ==
  ASSUME TypeOK, NEW s \in Service,
         NEW idles \in Seq(WorkerId), NEW reqs \in Seq(PendingRequest),
         SendPendingRequests(s, idles, reqs)
  PROVE  /\ idle' \in [Service -> Seq(WorkerId)]
         /\ pending' \in [Service -> Seq(PendingRequest)]
         /\ backDown' \in [WorkerId -> Seq(BackDownMsg)]
         /\ idle'[s] = <<>> \/ pending'[s] = <<>>
         /\ \A t \in Service \ {s} :
              idle'[t] = idle[t] /\ pending'[t] = pending[t]
         /\ \A i \in 1 .. Len(idle'[s]) :
              \E j \in 1 .. Len(idles) : idle'[s][i] = idles[j]
<1> DEFINE n == MinOf(Len(idles), Len(reqs))
<1>1. Len(idles) \in Nat /\ Len(reqs) \in Nat
  BY LenProperties
<1>2. n \in Nat /\ n <= Len(idles) /\ n <= Len(reqs)
      /\ (n = Len(idles) \/ n = Len(reqs))
  BY <1>1 DEF MinOf
<1>3. /\ idle' = [idle EXCEPT ![s] = AllButOldest(idles, n)]
      /\ pending' = [pending EXCEPT ![s] = AllButOldest(reqs, n)]
      /\ backDown' = [w \in WorkerId |->
                        Routed(w, backDown[w],
                               Forward(reqs, {k \in 1 .. n : idles[k] = w}),
                               BackHwm)]
  BY DEF SendPendingRequests, AllButOldest
<1> HIDE DEF n
<1>4. /\ AllButOldest(idles, n) \in Seq(WorkerId)
      /\ Len(AllButOldest(idles, n)) = Len(idles) - n
      /\ \A i \in 1 .. Len(idles) - n : AllButOldest(idles, n)[i] = idles[i + n]
  BY <1>2, AllButOldestProperties
<1>5. /\ AllButOldest(reqs, n) \in Seq(PendingRequest)
      /\ Len(AllButOldest(reqs, n)) = Len(reqs) - n
  BY <1>2, AllButOldestProperties
<1>6. idle \in [Service -> Seq(WorkerId)]
      /\ pending \in [Service -> Seq(PendingRequest)]
      /\ backDown \in [WorkerId -> Seq(BackDownMsg)]
  BY DEF TypeOK, BrokerTypeOK, NetTypeOK
<1>7. ASSUME NEW I \in SUBSET (1 .. n)
      PROVE  Forward(reqs, I) \in Seq(BackDownMsg)
  <2>1. I \in SUBSET (1 .. Len(reqs))
    <3>1. \A i \in I : i \in 1 .. n
      OBVIOUS
    <3> QED  BY <1>1, <1>2, <3>1
  <2>2. /\ Pick(reqs, I) \in Seq(PendingRequest)
        /\ Len(Pick(reqs, I)) = Cardinality(I)
        /\ Cardinality(I) \in 0 .. Len(reqs)
    BY <2>1, PickProperties, Zenon
  <2>3. Cardinality(I) \in Nat
    BY <1>1, <2>2
  <2>4. \A k \in 1 .. Cardinality(I) : Pick(reqs, I)[k] \in PendingRequest
    BY <2>2, LenProperties
  <2>5. \A r \in PendingRequest :
          WorkerRequest(r.client, r.body) \in BackDownMsg
    BY DEF PendingRequest, WorkerRequest, BackDownMsg
  <2>6. Forward(reqs, I) \in [1 .. Cardinality(I) -> BackDownMsg]
    BY <2>4, <2>5 DEF Forward
  <2> QED  BY <2>3, <2>6, SeqDef
<1>8. \A w \in WorkerId :
        Routed(w, backDown[w], Forward(reqs, {k \in 1 .. n : idles[k] = w}),
               BackHwm) \in Seq(BackDownMsg)
  <2> TAKE w \in WorkerId
  <2>1. backDown[w] \in Seq(BackDownMsg)
    BY <1>6
  <2>2. Forward(reqs, {k \in 1 .. n : idles[k] = w}) \in Seq(BackDownMsg)
    BY <1>7
  <2>3. BackHwm \in Nat
    BY NetAssumption
  <2> QED  BY <2>1, <2>2, <2>3, RoutedType
<1>9. backDown' \in [WorkerId -> Seq(BackDownMsg)]
  BY <1>3, <1>8
<1>10. idle'[s] = AllButOldest(idles, n) /\ pending'[s] = AllButOldest(reqs, n)
  BY <1>3, <1>6
<1>11. idle'[s] = <<>> \/ pending'[s] = <<>>
  <2>1. CASE n = Len(idles)
    <3>1. Len(AllButOldest(idles, n)) = 0
      BY <1>1, <1>4, <2>1
    <3> QED  BY <1>4, <1>10, <3>1, EmptySeq
  <2>2. CASE n = Len(reqs)
    <3>1. Len(AllButOldest(reqs, n)) = 0
      BY <1>1, <1>5, <2>2
    <3> QED  BY <1>5, <1>10, <3>1, EmptySeq
  <2> QED  BY <1>2, <2>1, <2>2
<1>12. \A i \in 1 .. Len(idle'[s]) :
         \E j \in 1 .. Len(idles) : idle'[s][i] = idles[j]
  <2> TAKE i \in 1 .. Len(idle'[s])
  <2>1. i \in 1 .. Len(idles) - n /\ i + n \in 1 .. Len(idles)
    BY <1>1, <1>2, <1>4, <1>10
  <2> QED  BY <1>4, <1>10, <2>1
<1>13. \A t \in Service \ {s} : idle'[t] = idle[t] /\ pending'[t] = pending[t]
  BY <1>3, <1>6
<1>14. idle' \in [Service -> Seq(WorkerId)]
       /\ pending' \in [Service -> Seq(PendingRequest)]
  BY <1>3, <1>4, <1>5, <1>6
<1> QED  BY <1>9, <1>11, <1>12, <1>13, <1>14

-----------------------------------------------------------------------------
(* The initial state.                                                       *)

LEMMA InitInv == Init => Inv
<1> SUFFICES ASSUME Init  PROVE Inv
  OBVIOUS
<1> USE DEF Init
<1>1. NetTypeOK
  BY EmptySeq DEF NetInit, NetTypeOK
<1>2. BrokerTypeOK
  BY EmptySeq, BrokerAssumption DEF BrokerInit, EmptyBroker, BrokerTypeOK
<1>3. WorkerTypeOK
  BY WorkerAssumption DEF WorkerInit, WorkerTypeOK
<1>4. ClientTypeOK
  <2>1. MaxTimer \in Nat
    BY ClientAssumption DEF MaxTimer
  <2>2. Requests \in Nat
    BY NetAssumption
  <2> QED  BY <2>1, <2>2, EmptySeq DEF ClientInit, ClientTypeOK, ClientPhase
<1>5. faults \in 0 .. MaxFaults
  BY FaultAssumption
<1>6. PhasesAgree
  BY DEF WorkerInit, ClientInit, PhasesAgree
<1>7. \A t \in Service : idle[t] = <<>>
  BY DEF BrokerInit, EmptyBroker
<1>8. WorkConserving /\ IdleAreRegistered
  BY <1>7, EmptySeq DEF WorkConserving, IdleAreRegistered
<1>9. ReadyIsNew
  <2>1. \A w \in WorkerId : backUp[w] = <<>>
    BY DEF NetInit
  <2> QED  BY <2>1, EmptySeq DEF ReadyIsNew
<1> QED  BY <1>1, <1>2, <1>3, <1>4, <1>5, <1>6, <1>8, <1>9 DEF Inv, TypeOK

-----------------------------------------------------------------------------
(* What a step that leaves a component alone leaves of the invariant.       *)

LEMMA BrokerUntouched ==
  ASSUME Inv, UNCHANGED brokerVars
  PROVE  BrokerTypeOK' /\ WorkConserving' /\ IdleAreRegistered'
BY DEF Inv, TypeOK, brokerVars, BrokerTypeOK, WorkConserving, IdleAreRegistered

LEMMA WorkersUntouched ==
  ASSUME Inv, UNCHANGED workerVars
  PROVE  /\ WorkerTypeOK'
         /\ \A p \in WorkerProc : wPhase'[p] # "off" => wId'[p] \in WorkerId
BY DEF Inv, TypeOK, workerVars, WorkerTypeOK, PhasesAgree

LEMMA ClientsUntouched ==
  ASSUME Inv, UNCHANGED clientVars
  PROVE  /\ ClientTypeOK'
         /\ \A q \in ClientProc :
              /\ cPhase'[q] \in {"pinging", "pausing", "sending", "receiving",
                                 "stopping"} => cId'[q] \in ClientId
              /\ cPhase'[q] \in {"off", "pinging", "pausing"} => sent'[q] = 0
              /\ cPhase'[q] = "sending" => sent'[q] < Requests
BY DEF Inv, TypeOK, clientVars, ClientTypeOK, PhasesAgree

(* The messages a queue has left after its head was read.                   *)
LEMMA ReadyAfterTail ==
  ASSUME Inv, NEW w \in WorkerId, backUp[w] # <<>>
  PROVE  \A i \in 1 .. Len(Tail(backUp[w])) : Tail(backUp[w])[i].type # "Ready"
<1>1. backUp[w] \in Seq(BackUpMsg) /\ Len(backUp[w]) \in Nat
  BY LenProperties DEF Inv, TypeOK, NetTypeOK
<1>2. /\ Len(Tail(backUp[w])) = Len(backUp[w]) - 1
      /\ \A i \in 1 .. Len(Tail(backUp[w])) : Tail(backUp[w])[i] = backUp[w][i + 1]
  BY <1>1, HeadTailProperties
<1>3. \A i \in 1 .. Len(Tail(backUp[w])) :
        i + 1 \in 1 .. Len(backUp[w]) /\ i + 1 # 1
  BY <1>1, <1>2
<1>4. \A j \in 1 .. Len(backUp[w]) : backUp[w][j].type = "Ready" => j = 1
  BY DEF Inv, ReadyIsNew
<1> QED  BY <1>2, <1>3, <1>4

LEMMA ReadyIsNewAfterTail ==
  ASSUME Inv, NEW w \in WorkerId, backUp[w] # <<>>,
         backUp' = [backUp EXCEPT ![w] = Tail(@)],
         \A x \in WorkerId \ {w} : registered'[x] = registered[x]
  PROVE  ReadyIsNew'
<1>1. backUp \in [WorkerId -> Seq(BackUpMsg)]
  BY DEF Inv, TypeOK, NetTypeOK
<1>2. SUFFICES ASSUME NEW x \in WorkerId, NEW i \in 1 .. Len(backUp'[x]),
                      backUp'[x][i].type = "Ready"
               PROVE  i = 1 /\ registered'[x] = NoService
  BY DEF ReadyIsNew
<1>3. CASE x = w
  <2>1. backUp'[x] = Tail(backUp[w])
    BY <1>1, <1>3
  <2>2. backUp'[x][i].type # "Ready"
    BY <1>2, <2>1, ReadyAfterTail
  <2> QED  BY <1>2, <2>2
<1>4. CASE x # w
  <2>1. backUp'[x] = backUp[x] /\ registered'[x] = registered[x]
    BY <1>1, <1>4
  <2> QED  BY <1>2, <2>1 DEF Inv, ReadyIsNew
<1> QED  BY <1>3, <1>4

(* sendPendingRequests keeps what is said of the pools, if those it adds to *)
(* the pool of s are registered for s.                                      *)
LEMMA SendPendingKeeps ==
  ASSUME Inv, NEW s \in Service,
         NEW idles \in Seq(WorkerId), NEW reqs \in Seq(PendingRequest),
         SendPendingRequests(s, idles, reqs),
         \A t \in Service \ {s} : \A i \in 1 .. Len(idle[t]) :
           registered'[idle[t][i]] = t,
         \A i \in 1 .. Len(idles) : registered'[idles[i]] = s
  PROVE  WorkConserving' /\ IdleAreRegistered'
<1>1. /\ idle'[s] = <<>> \/ pending'[s] = <<>>
      /\ \A t \in Service \ {s} :
           idle'[t] = idle[t] /\ pending'[t] = pending[t]
      /\ \A i \in 1 .. Len(idle'[s]) :
           \E j \in 1 .. Len(idles) : idle'[s][i] = idles[j]
  BY SendPendingProperties DEF Inv
<1>2. WorkConserving'
  BY <1>1 DEF Inv, WorkConserving
<1>3. IdleAreRegistered'
  BY <1>1 DEF IdleAreRegistered
<1> QED  BY <1>2, <1>3

-----------------------------------------------------------------------------
(* The handlers of the broker.                                              *)

LEMMA HandleClientRequestKeeps ==
  ASSUME Inv, NEW c \in ClientId, HandleClientRequest(c),
         UNCHANGED <<workerVars, clientVars, faults>>
  PROVE  Inv'
<1> DEFINE m == Head(frontUp[c])
<1>1. NetTypeOK /\ BrokerTypeOK /\ TypeOK
  BY DEF Inv, TypeOK
<1>2. frontUp[c] \in Seq(FrontUpMsg) /\ frontUp[c] # <<>>
  BY <1>1 DEF NetTypeOK, HandleClientRequest
<1>3. m \in FrontUpMsg /\ Tail(frontUp[c]) \in Seq(FrontUpMsg)
  BY <1>2, HeadTailProperties
<1>4. frontUp' \in [ClientId -> Seq(FrontUpMsg)] /\ UNCHANGED <<peers, backUp>>
  BY <1>1, <1>3 DEF NetTypeOK, HandleClientRequest
<1>5. /\ UNCHANGED <<up, registered, ttl, services, beatDue>>
      /\ todo' \in SUBSET {"back", "front", "house"}
  BY <1>1 DEF HandleClientRequest, BrokerTypeOK
<1>6. \/ m.type = "Discovery" /\ HandleDiscovery(c, m.service)
      \/ m.type = "Request" /\ HandleUnknownService(m.service)
      \/ m.type = "Request" /\ HandleKnownService(c, m.service, m.body)
  BY DEF HandleClientRequest
<1> HIDE DEF m
<1>7. /\ idle' \in [Service -> Seq(WorkerId)]
      /\ pending' \in [Service -> Seq(PendingRequest)]
      /\ backDown' \in [WorkerId -> Seq(BackDownMsg)]
      /\ frontDown' \in [ClientId -> Seq(FrontDownMsg)]
      /\ WorkConserving' /\ IdleAreRegistered'
  <2>1. CASE m.type = "Discovery" /\ HandleDiscovery(c, m.service)
    <3>1. m.service \in Service
      BY <1>3, <2>1 DEF FrontUpMsg
    <3>2. <<DiscoveryReply(m.service, IF m.service \in services THEN "Ok"
                                      ELSE "NotFound")>> \in Seq(FrontDownMsg)
      BY <3>1 DEF DiscoveryReply, FrontDownMsg
    <3>3. frontDown \in [ClientId -> Seq(FrontDownMsg)] /\ FrontHwm \in Nat
      BY <1>1, NetAssumption DEF NetTypeOK
    <3>4. frontDown' \in [ClientId -> Seq(FrontDownMsg)]
      BY <2>1, <3>2, <3>3, RoutedType DEF HandleDiscovery, SendToClient
    <3>5. UNCHANGED <<idle, pending, backDown, registered>>
      BY <1>5, <2>1 DEF HandleDiscovery
    <3> QED
      BY <1>1, <3>4, <3>5
      DEF Inv, NetTypeOK, BrokerTypeOK, WorkConserving, IdleAreRegistered
  <2>2. CASE m.type = "Request" /\ HandleUnknownService(m.service)
    <3>1. UNCHANGED <<idle, pending, backDown, frontDown, registered>>
      BY <1>5, <2>2 DEF HandleUnknownService
    <3> QED
      BY <1>1, <3>1
      DEF Inv, NetTypeOK, BrokerTypeOK, WorkConserving, IdleAreRegistered
  <2>3. CASE m.type = "Request" /\ HandleKnownService(c, m.service, m.body)
    <3> DEFINE s == m.service
               reqs == Append(pending[s], [client |-> c, body |-> m.body])
    <3>1. s \in Service /\ m.body \in Body
      BY <1>3, <2>3 DEF FrontUpMsg
    <3>2. pending[s] \in Seq(PendingRequest) /\ idle[s] \in Seq(WorkerId)
      BY <1>1, <3>1 DEF BrokerTypeOK
    <3>3. [client |-> c, body |-> m.body] \in PendingRequest
      BY <3>1 DEF PendingRequest
    <3>4. reqs \in Seq(PendingRequest)
      BY <3>2, <3>3
    <3>5. SendPendingRequests(s, idle[s], reqs) /\ UNCHANGED frontDown
      BY <2>3 DEF HandleKnownService
    <3> HIDE DEF s, reqs
    <3>6. \A t \in Service : \A i \in 1 .. Len(idle[t]) :
            registered'[idle[t][i]] = t
      BY <1>5 DEF Inv, IdleAreRegistered
    <3>7. WorkConserving' /\ IdleAreRegistered'
      BY <3>1, <3>2, <3>4, <3>5, <3>6, SendPendingKeeps
    <3>8. /\ idle' \in [Service -> Seq(WorkerId)]
          /\ pending' \in [Service -> Seq(PendingRequest)]
          /\ backDown' \in [WorkerId -> Seq(BackDownMsg)]
      BY <1>1, <3>1, <3>2, <3>4, <3>5, SendPendingProperties
    <3> QED  BY <1>1, <3>5, <3>7, <3>8 DEF NetTypeOK
  <2> QED  BY <1>6, <2>1, <2>2, <2>3
<1>8. NetTypeOK' /\ BrokerTypeOK'
  BY <1>1, <1>4, <1>5, <1>7 DEF NetTypeOK, BrokerTypeOK
<1>9. ReadyIsNew'
  BY <1>4, <1>5 DEF Inv, ReadyIsNew
<1>10. WorkerTypeOK' /\ ClientTypeOK' /\ PhasesAgree'
  BY WorkersUntouched, ClientsUntouched DEF PhasesAgree
<1>11. (faults \in 0 .. MaxFaults)'
  BY DEF Inv, TypeOK
<1> QED  BY <1>7, <1>8, <1>9, <1>10, <1>11 DEF Inv, TypeOK

(* The four ways handleWorkerResponse ends, in terms of what they change.   *)
LEMMA HandleReadyKeeps ==
  ASSUME Inv, NEW w \in WorkerId, NEW s \in Service, backUp[w] # <<>>,
         Head(backUp[w]).type = "Ready", HandleReady(w, s)
  PROVE  /\ idle' \in [Service -> Seq(WorkerId)]
         /\ pending' \in [Service -> Seq(PendingRequest)]
         /\ backDown' \in [WorkerId -> Seq(BackDownMsg)]
         /\ registered' \in [WorkerId -> Service \cup {NoService}]
         /\ ttl' \in [WorkerId -> 0 .. Expiry]
         /\ services' \in SUBSET Service
         /\ \A x \in WorkerId \ {w} : registered'[x] = registered[x]
         /\ WorkConserving' /\ IdleAreRegistered'
<1>1. TypeOK /\ BrokerTypeOK /\ NetTypeOK
  BY DEF Inv, TypeOK
<1>2. registered[w] = NoService
  <2>1. backUp[w] \in Seq(BackUpMsg)
    BY <1>1 DEF NetTypeOK
  <2>2. 1 \in 1 .. Len(backUp[w]) /\ Head(backUp[w]) = backUp[w][1]
    BY <2>1, EmptySeq, LenProperties
  <2> QED  BY <2>2 DEF Inv, ReadyIsNew
<1>3. /\ registered' = [registered EXCEPT ![w] = s]
      /\ ttl' = [ttl EXCEPT ![w] = Expiry]
      /\ services' = services \cup {s}
      /\ SendPendingRequests(s, Append(idle[s], w), pending[s])
  BY DEF HandleReady
<1>4. /\ registered' \in [WorkerId -> Service \cup {NoService}]
      /\ registered'[w] = s
      /\ \A x \in WorkerId \ {w} : registered'[x] = registered[x]
  BY <1>1, <1>3 DEF BrokerTypeOK
<1>5. ttl' \in [WorkerId -> 0 .. Expiry] /\ services' \in SUBSET Service
  BY <1>1, <1>3, BrokerAssumption DEF BrokerTypeOK
<1>6. idle[s] \in Seq(WorkerId) /\ pending[s] \in Seq(PendingRequest)
  BY <1>1 DEF BrokerTypeOK
<1>7. /\ Append(idle[s], w) \in Seq(WorkerId)
      /\ Len(Append(idle[s], w)) = Len(idle[s]) + 1
      /\ Len(idle[s]) \in Nat
      /\ \A i \in 1 .. Len(idle[s]) + 1 :
           Append(idle[s], w)[i] = IF i <= Len(idle[s]) THEN idle[s][i] ELSE w
  BY <1>6, AppendProperties, LenProperties
<1>8. \A t \in Service : \A i \in 1 .. Len(idle[t]) :
        registered'[idle[t][i]] = t
  <2> TAKE t \in Service
  <2> TAKE i \in 1 .. Len(idle[t])
  <2>1. registered[idle[t][i]] = t
    BY DEF Inv, IdleAreRegistered
  <2>2. idle[t][i] \in WorkerId
    BY <1>1, LenProperties DEF BrokerTypeOK
  <2>3. idle[t][i] # w
    BY <1>2, <2>1, BrokerAssumption
  <2> QED  BY <1>4, <2>1, <2>2, <2>3
<1>9. \A i \in 1 .. Len(Append(idle[s], w)) :
        registered'[Append(idle[s], w)[i]] = s
  <2> TAKE i \in 1 .. Len(Append(idle[s], w))
  <2>1. i \in 1 .. Len(idle[s]) \/ i = Len(idle[s]) + 1
    BY <1>7
  <2> QED  BY <1>4, <1>7, <1>8, <2>1
<1>10. WorkConserving' /\ IdleAreRegistered'
  BY <1>3, <1>6, <1>7, <1>8, <1>9, SendPendingKeeps
<1>11. /\ idle' \in [Service -> Seq(WorkerId)]
       /\ pending' \in [Service -> Seq(PendingRequest)]
       /\ backDown' \in [WorkerId -> Seq(BackDownMsg)]
  BY <1>1, <1>3, <1>6, <1>7, SendPendingProperties
<1> QED  BY <1>4, <1>5, <1>10, <1>11

LEMMA HandleReplyKeeps ==
  ASSUME Inv, NEW w \in WorkerId, NEW c \in ClientId, NEW b \in Body,
         HandleReply(w, c, b)
  PROVE  /\ idle' \in [Service -> Seq(WorkerId)]
         /\ pending' \in [Service -> Seq(PendingRequest)]
         /\ backDown' \in [WorkerId -> Seq(BackDownMsg)]
         /\ frontDown' \in [ClientId -> Seq(FrontDownMsg)]
         /\ UNCHANGED <<registered, ttl, services>>
         /\ WorkConserving' /\ IdleAreRegistered'
<1> DEFINE s == registered[w]
<1>1. TypeOK /\ BrokerTypeOK /\ NetTypeOK
  BY DEF Inv, TypeOK
<1>2. s \in Service
  BY <1>1 DEF HandleReply, Registered, BrokerTypeOK
<1>3. /\ SendToClient(c, ClientReply(s, b))
      /\ SendPendingRequests(s, Append(idle[s], w), pending[s])
      /\ UNCHANGED <<registered, ttl, services>>
  BY DEF HandleReply
<1>4. registered[w] = s
  OBVIOUS
<1> HIDE DEF s
<1>5. idle[s] \in Seq(WorkerId) /\ pending[s] \in Seq(PendingRequest)
  BY <1>1, <1>2 DEF BrokerTypeOK
<1>6. /\ Append(idle[s], w) \in Seq(WorkerId)
      /\ Len(Append(idle[s], w)) = Len(idle[s]) + 1
      /\ Len(idle[s]) \in Nat
      /\ \A i \in 1 .. Len(idle[s]) + 1 :
           Append(idle[s], w)[i] = IF i <= Len(idle[s]) THEN idle[s][i] ELSE w
  BY <1>5, AppendProperties, LenProperties
<1>7. \A t \in Service : \A i \in 1 .. Len(idle[t]) :
        registered'[idle[t][i]] = t
  BY <1>3 DEF Inv, IdleAreRegistered
<1>8. \A i \in 1 .. Len(Append(idle[s], w)) :
        registered'[Append(idle[s], w)[i]] = s
  <2> TAKE i \in 1 .. Len(Append(idle[s], w))
  <2>1. i \in 1 .. Len(idle[s]) \/ i = Len(idle[s]) + 1
    BY <1>6
  <2> QED  BY <1>2, <1>3, <1>4, <1>6, <1>7, <2>1
<1>9. WorkConserving' /\ IdleAreRegistered'
  BY <1>2, <1>3, <1>5, <1>6, <1>7, <1>8, SendPendingKeeps
<1>10. /\ idle' \in [Service -> Seq(WorkerId)]
       /\ pending' \in [Service -> Seq(PendingRequest)]
       /\ backDown' \in [WorkerId -> Seq(BackDownMsg)]
  BY <1>1, <1>2, <1>3, <1>5, <1>6, SendPendingProperties
<1>11. <<ClientReply(s, b)>> \in Seq(FrontDownMsg)
  BY <1>2 DEF ClientReply, FrontDownMsg
<1>12. frontDown \in [ClientId -> Seq(FrontDownMsg)] /\ FrontHwm \in Nat
  BY <1>1, NetAssumption DEF NetTypeOK
<1>13. frontDown' \in [ClientId -> Seq(FrontDownMsg)]
  BY <1>3, <1>11, <1>12, RoutedType DEF SendToClient
<1> QED  BY <1>3, <1>9, <1>10, <1>13

LEMMA HandleDisconnectKeeps ==
  ASSUME Inv, NEW w \in WorkerId, HandleDisconnect(w)
  PROVE  /\ idle' \in [Service -> Seq(WorkerId)]
         /\ WorkConserving' /\ IdleAreRegistered'
<1>1. BrokerTypeOK
  BY DEF Inv, TypeOK
<1>2. \A t \in Service : idle[t] \in Seq(WorkerId)
  BY <1>1 DEF BrokerTypeOK
<1>3. \A t \in Service :
        /\ Erase(idle[t], {w}) \in Seq(WorkerId)
        /\ \A i \in 1 .. Len(Erase(idle[t], {w})) :
             \E j \in 1 .. Len(idle[t]) : Erase(idle[t], {w})[i] = idle[t][j]
        /\ idle[t] = <<>> => Erase(idle[t], {w}) = <<>>
  <2> TAKE t \in Service
  <2> DEFINE W == {w}
  <2> HIDE DEF W
  <2>1. /\ Erase(idle[t], W) \in Seq(WorkerId)
        /\ \A i \in 1 .. Len(Erase(idle[t], W)) :
             \E j \in 1 .. Len(idle[t]) : Erase(idle[t], W)[i] = idle[t][j]
        /\ idle[t] = <<>> => Erase(idle[t], W) = <<>>
    BY <1>2, EraseProperties
  <2> QED  BY <2>1 DEF W
<1>4. /\ idle' = [t \in Service |-> IF t = registered[w]
                                      THEN Erase(idle[t], {w}) ELSE idle[t]]
      /\ UNCHANGED <<registered, pending>>
  BY DEF HandleDisconnect
<1>5. idle' \in [Service -> Seq(WorkerId)]
  BY <1>2, <1>3, <1>4
<1>6. WorkConserving'
  BY <1>3, <1>4 DEF Inv, WorkConserving
<1>7. IdleAreRegistered'
  <2> SUFFICES ASSUME NEW t \in Service, NEW i \in 1 .. Len(idle'[t])
               PROVE  registered[idle'[t][i]] = t
    BY <1>4 DEF IdleAreRegistered
  <2>1. \E j \in 1 .. Len(idle[t]) : idle'[t][i] = idle[t][j]
    BY <1>3, <1>4
  <2> QED  BY <2>1 DEF Inv, IdleAreRegistered
<1> QED  BY <1>5, <1>6, <1>7

LEMMA HandleWorkerResponseKeeps ==
  ASSUME Inv, NEW w \in WorkerId, HandleWorkerResponse(w),
         UNCHANGED <<workerVars, clientVars, faults>>
  PROVE  Inv'
<1> DEFINE m == Head(backUp[w])
<1>1. NetTypeOK /\ BrokerTypeOK /\ TypeOK
  BY DEF Inv, TypeOK
<1>2. backUp[w] \in Seq(BackUpMsg) /\ backUp[w] # <<>>
  BY <1>1 DEF NetTypeOK, HandleWorkerResponse
<1>3. m \in BackUpMsg /\ Tail(backUp[w]) \in Seq(BackUpMsg)
  BY <1>2, HeadTailProperties
<1>4. /\ backUp' = [backUp EXCEPT ![w] = Tail(@)]
      /\ UNCHANGED <<up, beatDue, peers, frontUp>>
      /\ todo' \in SUBSET {"back", "front", "house"}
  BY <1>1 DEF HandleWorkerResponse, BrokerTypeOK
<1>5. backUp' \in [WorkerId -> Seq(BackUpMsg)]
  BY <1>1, <1>3, <1>4 DEF NetTypeOK
<1>6. \/ m.type = "Heartbeat" /\ HandleHeartbeat(w)
      \/ m.type = "Ready" /\ HandleReady(w, m.service)
      \/ m.type = "Reply" /\ HandleReply(w, m.client, m.body)
      \/ m.type \in {"Heartbeat", "Reply"} /\ HandleUnregistered(w)
      \/ m.type = "Disconnect" /\ HandleDisconnect(w)
  BY DEF HandleWorkerResponse
<1>7. /\ idle' \in [Service -> Seq(WorkerId)]
      /\ pending' \in [Service -> Seq(PendingRequest)]
      /\ backDown' \in [WorkerId -> Seq(BackDownMsg)]
      /\ frontDown' \in [ClientId -> Seq(FrontDownMsg)]
      /\ registered' \in [WorkerId -> Service \cup {NoService}]
      /\ ttl' \in [WorkerId -> 0 .. Expiry]
      /\ services' \in SUBSET Service
      /\ \A x \in WorkerId \ {w} : registered'[x] = registered[x]
      /\ WorkConserving' /\ IdleAreRegistered'
  <2>1. CASE m.type = "Heartbeat" /\ HandleHeartbeat(w)
    <3>1. /\ UNCHANGED <<registered, services, idle, pending, backDown,
                         frontDown>>
          /\ ttl' = [ttl EXCEPT ![w] = Expiry]
      BY <2>1 DEF HandleHeartbeat
    <3>2. ttl' \in [WorkerId -> 0 .. Expiry]
      BY <1>1, <3>1, BrokerAssumption DEF BrokerTypeOK
    <3> QED
      BY <1>1, <3>1, <3>2
      DEF Inv, NetTypeOK, BrokerTypeOK, WorkConserving, IdleAreRegistered
  <2>2. CASE m.type = "Ready" /\ HandleReady(w, m.service)
    <3>1. m.service \in Service
      BY <1>3, <2>2 DEF BackUpMsg
    <3>2. UNCHANGED frontDown
      BY <2>2 DEF HandleReady
    <3> QED  BY <1>1, <1>2, <2>2, <3>1, <3>2, HandleReadyKeeps DEF NetTypeOK
  <2>3. CASE m.type = "Reply" /\ HandleReply(w, m.client, m.body)
    <3>1. m.client \in ClientId /\ m.body \in Body
      BY <1>3, <2>3 DEF BackUpMsg
    <3> QED  BY <1>1, <2>3, <3>1, HandleReplyKeeps DEF BrokerTypeOK
  <2>4. CASE m.type \in {"Heartbeat", "Reply"} /\ HandleUnregistered(w)
    <3>1. /\ UNCHANGED <<registered, ttl, services, idle, pending, frontDown>>
          /\ SendDisconnect(w)
      BY <2>4 DEF HandleUnregistered
    <3>2. <<Disconnect>> \in Seq(BackDownMsg)
      BY DEF Disconnect, BackDownMsg
    <3>3. backDown \in [WorkerId -> Seq(BackDownMsg)] /\ BackHwm \in Nat
      BY <1>1, NetAssumption DEF NetTypeOK
    <3>4. backDown' \in [WorkerId -> Seq(BackDownMsg)]
      BY <3>1, <3>2, <3>3, RoutedType DEF SendDisconnect
    <3> QED
      BY <1>1, <3>1, <3>4
      DEF Inv, NetTypeOK, BrokerTypeOK, WorkConserving, IdleAreRegistered
  <2>5. CASE m.type = "Disconnect" /\ HandleDisconnect(w)
    <3>1. UNCHANGED <<registered, ttl, services, pending, backDown, frontDown>>
      BY <2>5 DEF HandleDisconnect
    <3> QED
      BY <1>1, <2>5, <3>1, HandleDisconnectKeeps DEF NetTypeOK, BrokerTypeOK
  <2> QED  BY <1>6, <2>1, <2>2, <2>3, <2>4, <2>5
<1>8. NetTypeOK' /\ BrokerTypeOK'
  BY <1>1, <1>4, <1>5, <1>7 DEF NetTypeOK, BrokerTypeOK
<1>9. ReadyIsNew'
  BY <1>2, <1>4, <1>7, ReadyIsNewAfterTail
<1>10. WorkerTypeOK' /\ ClientTypeOK' /\ PhasesAgree'
  BY WorkersUntouched, ClientsUntouched DEF PhasesAgree
<1>11. (faults \in 0 .. MaxFaults)'
  BY DEF Inv, TypeOK
<1> QED  BY <1>7, <1>8, <1>9, <1>10, <1>11 DEF Inv, TypeOK

LEMMA HousekeepingKeeps ==
  ASSUME Inv, Housekeeping, UNCHANGED <<workerVars, clientVars, faults>>
  PROVE  Inv'
<1>1. NetTypeOK /\ BrokerTypeOK /\ TypeOK
  BY DEF Inv, TypeOK
<1> DEFINE gone == [t \in Service |-> {w \in Expired : registered[w] = t}]
<1>2. /\ registered' = [w \in WorkerId |->
                          IF w \in Expired THEN NoService ELSE registered[w]]
      /\ idle' = [t \in Service |-> Erase(idle[t], gone[t])]
      /\ backDown' = [w \in WorkerId |->
                        IF beatDue /\ w \in Registered \ Expired
                          THEN Routed(w, backDown[w], <<Heartbeat>>, BackHwm)
                          ELSE backDown[w]]
      /\ beatDue' = FALSE /\ todo' = {}
      /\ UNCHANGED <<up, ttl, services, pending, peers, backUp, frontUp,
                     frontDown>>
  BY DEF Housekeeping, PurgeExpiredWorker, SendHeartbeat
<1>3. \A t \in Service : \A w \in Expired : registered[w] = t => w \in gone[t]
  OBVIOUS
<1> HIDE DEF gone
<1>4. \A t \in Service : idle[t] \in Seq(WorkerId)
  BY <1>1 DEF BrokerTypeOK
<1>5. \A t \in Service :
        /\ Erase(idle[t], gone[t]) \in Seq(WorkerId)
        /\ \A i \in 1 .. Len(Erase(idle[t], gone[t])) :
             \E j \in 1 .. Len(idle[t]) :
               Erase(idle[t], gone[t])[i] = idle[t][j] /\ idle[t][j] \notin gone[t]
        /\ idle[t] = <<>> => Erase(idle[t], gone[t]) = <<>>
  BY <1>4, EraseProperties
<1>6. registered' \in [WorkerId -> Service \cup {NoService}]
  BY <1>1, <1>2 DEF BrokerTypeOK
<1>7. idle' \in [Service -> Seq(WorkerId)]
  BY <1>2, <1>5
<1>8. backDown' \in [WorkerId -> Seq(BackDownMsg)]
  <2>1. <<Heartbeat>> \in Seq(BackDownMsg) /\ BackHwm \in Nat
    BY NetAssumption DEF Heartbeat, BackDownMsg
  <2>2. \A w \in WorkerId : backDown[w] \in Seq(BackDownMsg)
    BY <1>1 DEF NetTypeOK
  <2>3. \A w \in WorkerId :
          Routed(w, backDown[w], <<Heartbeat>>, BackHwm) \in Seq(BackDownMsg)
    BY <2>1, <2>2, RoutedType
  <2> QED  BY <1>2, <2>2, <2>3
<1>9. WorkConserving'
  BY <1>2, <1>5 DEF Inv, WorkConserving
<1>10. IdleAreRegistered'
  <2> SUFFICES ASSUME NEW t \in Service, NEW i \in 1 .. Len(idle'[t])
               PROVE  registered'[idle'[t][i]] = t
    BY DEF IdleAreRegistered
  <2>1. PICK j \in 1 .. Len(idle[t]) :
          idle'[t][i] = idle[t][j] /\ idle[t][j] \notin gone[t]
    BY <1>2, <1>5
  <2>2. registered[idle[t][j]] = t /\ idle[t][j] \in WorkerId
    BY <1>4, LenProperties DEF Inv, IdleAreRegistered
  <2>3. idle[t][j] \notin Expired
    BY <1>3, <2>1, <2>2
  <2> QED  BY <1>2, <2>1, <2>2, <2>3
<1>11. NetTypeOK' /\ BrokerTypeOK'
  BY <1>1, <1>2, <1>6, <1>7, <1>8 DEF NetTypeOK, BrokerTypeOK
<1>12. ReadyIsNew'
  <2>1. \A w \in WorkerId : registered[w] = NoService => registered'[w] = NoService
    BY <1>2
  <2> QED  BY <1>2, <2>1 DEF Inv, ReadyIsNew
<1>13. WorkerTypeOK' /\ ClientTypeOK' /\ PhasesAgree'
  BY WorkersUntouched, ClientsUntouched DEF PhasesAgree
<1>14. (faults \in 0 .. MaxFaults)'
  BY DEF Inv, TypeOK
<1> QED  BY <1>9, <1>10, <1>11, <1>12, <1>13, <1>14 DEF Inv, TypeOK

(* A step of the broker alone that reads and sends nothing.                 *)
LEMMA BrokerWaitKeeps ==
  ASSUME Inv, BrokerWait, UNCHANGED <<workerVars, clientVars, faults>>
  PROVE  Inv'
<1>1. /\ todo' \in SUBSET {"back", "front", "house"}
      /\ UNCHANGED <<up, registered, ttl, services, idle, pending, beatDue>>
      /\ UNCHANGED netVars
  BY DEF BrokerWait, Readable
<1>2. BrokerTypeOK' /\ WorkConserving' /\ IdleAreRegistered'
  BY <1>1 DEF Inv, TypeOK, BrokerTypeOK, WorkConserving, IdleAreRegistered
<1>3. NetTypeOK' /\ ReadyIsNew'
  BY <1>1 DEF Inv, TypeOK, NetTypeOK, ReadyIsNew, netVars
<1>4. WorkerTypeOK' /\ ClientTypeOK' /\ PhasesAgree'
  BY WorkersUntouched, ClientsUntouched DEF PhasesAgree
<1>5. (faults \in 0 .. MaxFaults)'
  BY DEF Inv, TypeOK
<1> QED  BY <1>2, <1>3, <1>4, <1>5 DEF Inv, TypeOK

LEMMA StartBrokerKeeps ==
  ASSUME Inv, StartBroker
  PROVE  Inv'
<1>1. /\ up' = TRUE
      /\ UNCHANGED <<todo, registered, ttl, services, idle, pending, beatDue>>
      /\ UNCHANGED netVars
      /\ UNCHANGED <<workerVars, clientVars, faults>>
  BY DEF StartBroker, BrokerStart
<1>2. BrokerTypeOK' /\ WorkConserving' /\ IdleAreRegistered'
  BY <1>1 DEF Inv, TypeOK, BrokerTypeOK, WorkConserving, IdleAreRegistered
<1>3. NetTypeOK' /\ ReadyIsNew'
  BY <1>1 DEF Inv, TypeOK, NetTypeOK, ReadyIsNew, netVars
<1>4. WorkerTypeOK' /\ ClientTypeOK' /\ PhasesAgree'
  BY <1>1, WorkersUntouched, ClientsUntouched DEF PhasesAgree
<1>5. (faults \in 0 .. MaxFaults)'
  BY <1>1 DEF Inv, TypeOK
<1> QED  BY <1>2, <1>3, <1>4, <1>5 DEF Inv, TypeOK

LEMMA FailsKeeps ==
  ASSUME Inv, NEW kind, Fails(kind)
  PROVE  (faults \in 0 .. MaxFaults)'
BY FaultAssumption DEF Inv, TypeOK, Fails

(* A way up from which messages are lost does not get a Ready behind        *)
(* another message.                                                         *)
LEMMA BrokerFailsKeeps ==
  ASSUME Inv, BrokerFails
  PROVE  Inv'
<1>1. PICK bu \in Cuts(backUp, BackHwm), bd \in Cuts(backDown, BackHwm),
           fu \in Cuts(frontUp, FrontHwm), fd \in Cuts(frontDown, FrontHwm) :
             BrokerCrash(bu, bd, fu, fd)
  BY DEF BrokerFails
<1>2. NetTypeOK /\ Fails("broker") /\ UNCHANGED <<workerVars, clientVars>>
  BY DEF Inv, TypeOK, BrokerFails
<1>3. BackHwm \in Nat /\ FrontHwm \in Nat
  BY NetAssumption
<1>4. /\ \A w \in WorkerId : /\ bu[w] \in Nat /\ bu[w] <= Len(backUp[w])
                             /\ bd[w] \in Nat /\ bd[w] <= Len(backDown[w])
      /\ \A c \in ClientId : /\ fu[c] \in Nat /\ fu[c] <= Len(frontUp[c])
                             /\ fd[c] \in Nat /\ fd[c] <= Len(frontDown[c])
  BY <1>2, <1>3 DEF Cuts, NetTypeOK
<1>5. /\ \A w \in WorkerId : /\ backUp[w] \in Seq(BackUpMsg)
                             /\ backDown[w] \in Seq(BackDownMsg)
      /\ \A c \in ClientId : /\ frontUp[c] \in Seq(FrontUpMsg)
                             /\ frontDown[c] \in Seq(FrontDownMsg)
      /\ peers \in SUBSET (WorkerId \cup ClientId)
  BY <1>2 DEF NetTypeOK
<1>6. /\ backUp' = [w \in WorkerId |-> AllButOldest(backUp[w], bu[w])]
      /\ backDown' = [w \in WorkerId |-> Oldest(backDown[w], bd[w])]
      /\ frontUp' = [c \in ClientId |-> AllButOldest(frontUp[c], fu[c])]
      /\ frontDown' = [c \in ClientId |-> Oldest(frontDown[c], fd[c])]
      /\ UNCHANGED peers
  BY <1>1 DEF BrokerCrash
<1>7. \A w \in WorkerId : AllButOldest(backUp[w], bu[w]) \in Seq(BackUpMsg)
  BY <1>4, <1>5, AllButOldestProperties
<1>8. \A w \in WorkerId : Oldest(backDown[w], bd[w]) \in Seq(BackDownMsg)
  BY <1>4, <1>5, OldestProperties
<1>9. \A c \in ClientId : AllButOldest(frontUp[c], fu[c]) \in Seq(FrontUpMsg)
  BY <1>4, <1>5, AllButOldestProperties
<1>10. \A c \in ClientId : Oldest(frontDown[c], fd[c]) \in Seq(FrontDownMsg)
  BY <1>4, <1>5, OldestProperties
<1>11. NetTypeOK'
  BY <1>5, <1>6, <1>7, <1>8, <1>9, <1>10 DEF NetTypeOK
<1>12. /\ up' = FALSE /\ todo' = {} /\ services' = {} /\ beatDue' = TRUE
       /\ registered' = [w \in WorkerId |-> NoService]
       /\ ttl' = [w \in WorkerId |-> 0]
       /\ idle' = [t \in Service |-> <<>>]
       /\ pending' = [t \in Service |-> <<>>]
  BY <1>1 DEF BrokerCrash, EmptyBroker
<1>13. BrokerTypeOK'
  <2>1. ttl' \in [WorkerId -> 0 .. Expiry]
    BY <1>12, BrokerAssumption
  <2>2. /\ idle' \in [Service -> Seq(WorkerId)]
        /\ pending' \in [Service -> Seq(PendingRequest)]
    BY <1>12, EmptySeq
  <2>3. registered' \in [WorkerId -> Service \cup {NoService}]
    BY <1>12
  <2> QED  BY <1>12, <2>1, <2>2, <2>3 DEF BrokerTypeOK
<1>14. WorkConserving' /\ IdleAreRegistered'
  BY <1>12, EmptySeq DEF WorkConserving, IdleAreRegistered
<1>15. ReadyIsNew'
  <2> SUFFICES ASSUME NEW w \in WorkerId, NEW i \in 1 .. Len(backUp'[w]),
                      backUp'[w][i].type = "Ready"
               PROVE  i = 1 /\ registered'[w] = NoService
    BY DEF ReadyIsNew
  <2>1. backUp'[w] = AllButOldest(backUp[w], bu[w]) /\ bu[w] \in Nat
    BY <1>4, <1>6
  <2> DEFINE q == backUp[w]
             k == bu[w]
  <2>2. q \in Seq(BackUpMsg) /\ k \in Nat /\ k <= Len(q)
    BY <1>4, <1>5
  <2> HIDE DEF q, k
  <2>3. /\ Len(AllButOldest(q, k)) = Len(q) - k
        /\ \A j \in 1 .. Len(q) - k : AllButOldest(q, k)[j] = q[j + k]
    BY <2>2, AllButOldestProperties
  <2>4. /\ Len(backUp'[w]) = Len(backUp[w]) - bu[w]
        /\ backUp'[w][i] = backUp[w][i + bu[w]]
    BY <2>1, <2>3 DEF q, k
  <2>5. Len(backUp[w]) \in Nat
    BY <1>5, LenProperties
  <2>6. i + bu[w] \in 1 .. Len(backUp[w])
    BY <2>1, <2>4, <2>5
  <2>7. i + bu[w] = 1
    BY <2>4, <2>6 DEF Inv, ReadyIsNew
  <2> QED  BY <1>12, <2>1, <2>7
<1>16. WorkerTypeOK' /\ ClientTypeOK' /\ PhasesAgree'
  BY <1>2, WorkersUntouched, ClientsUntouched DEF PhasesAgree
<1> QED
  BY <1>2, <1>11, <1>13, <1>14, <1>15, <1>16, FailsKeeps DEF Inv, TypeOK

-----------------------------------------------------------------------------
(* The workers.                                                             *)

LEMMA TickKeeps ==
  ASSUME Inv, Tick
  PROVE  Inv'
<1>1. /\ UNCHANGED <<up, todo, registered, services, idle, pending>>
      /\ ttl' = [w \in WorkerId |-> IF ttl[w] = 0 THEN 0 ELSE ttl[w] - 1]
      /\ beatDue' = TRUE
  BY DEF Tick, BrokerTick
<1>2. /\ UNCHANGED <<wPhase, wId, missing>>
      /\ elapsed' = [p \in WorkerProc |-> elapsed[p] \/ wPhase[p] = "polling"]
      /\ nap' = [p \in WorkerProc |-> IF nap[p] = 0 THEN 0 ELSE nap[p] - 1]
  BY DEF Tick, WorkerTick
<1>3. /\ UNCHANGED <<cPhase, cId, sent, received, mReply>>
      /\ timer' = [q \in ClientProc |-> IF timer[q] = 0 THEN 0 ELSE timer[q] - 1]
  BY DEF Tick, ClientTick
<1>4. UNCHANGED netVars /\ UNCHANGED faults
  BY DEF Tick
<1>5. BrokerTypeOK'
  <2>1. ttl \in [WorkerId -> 0 .. Expiry] /\ Expiry \in Nat
    BY BrokerAssumption DEF Inv, TypeOK, BrokerTypeOK
  <2>2. ttl' \in [WorkerId -> 0 .. Expiry]
    BY <1>1, <2>1
  <2> QED  BY <1>1, <2>2 DEF Inv, TypeOK, BrokerTypeOK
<1>6. WorkerTypeOK'
  <2>1. /\ nap \in [WorkerProc -> 0 .. NapTicks] /\ NapTicks \in Nat
        /\ elapsed \in [WorkerProc -> BOOLEAN]
    BY WorkerAssumption DEF Inv, TypeOK, WorkerTypeOK
  <2>2. nap' \in [WorkerProc -> 0 .. NapTicks]
    BY <1>2, <2>1
  <2>3. elapsed' \in [WorkerProc -> BOOLEAN]
    BY <1>2, <2>1
  <2> QED  BY <1>2, <2>2, <2>3 DEF Inv, TypeOK, WorkerTypeOK
<1>7. ClientTypeOK'
  <2>1. timer \in [ClientProc -> 0 .. MaxTimer] /\ MaxTimer \in Nat
    BY ClientAssumption DEF Inv, TypeOK, ClientTypeOK, MaxTimer
  <2>2. timer' \in [ClientProc -> 0 .. MaxTimer]
    BY <1>3, <2>1
  <2> QED  BY <1>3, <2>2 DEF Inv, TypeOK, ClientTypeOK
<1>8. NetTypeOK' /\ ReadyIsNew'
  BY <1>1, <1>4 DEF Inv, TypeOK, NetTypeOK, ReadyIsNew, netVars
<1>9. WorkConserving' /\ IdleAreRegistered' /\ PhasesAgree'
  BY <1>1, <1>2, <1>3 DEF Inv, WorkConserving, IdleAreRegistered, PhasesAgree
<1>10. (faults \in 0 .. MaxFaults)'
  BY <1>4 DEF Inv, TypeOK
<1> QED  BY <1>5, <1>6, <1>7, <1>8, <1>9, <1>10 DEF Inv, TypeOK

(* What a change of one way up must respect.                                *)
LEMMA UpChanged ==
  ASSUME Inv, NEW w \in WorkerId, NEW q \in Seq(BackUpMsg),
         backUp' = [backUp EXCEPT ![w] = q], UNCHANGED registered,
         \A i \in 1 .. Len(q) :
           q[i].type = "Ready" => /\ i \in 1 .. Len(backUp[w])
                                  /\ backUp[w][i] = q[i]
  PROVE  /\ backUp' \in [WorkerId -> Seq(BackUpMsg)]
         /\ ReadyIsNew'
<1>1. backUp \in [WorkerId -> Seq(BackUpMsg)]
  BY DEF Inv, TypeOK, NetTypeOK
<1>2. backUp'[w] = q /\ \A x \in WorkerId \ {w} : backUp'[x] = backUp[x]
  BY <1>1
<1>3. SUFFICES ASSUME NEW x \in WorkerId, NEW i \in 1 .. Len(backUp'[x]),
                      backUp'[x][i].type = "Ready"
               PROVE  i = 1 /\ registered[x] = NoService
  BY <1>1 DEF ReadyIsNew
<1>4. i \in 1 .. Len(backUp[x]) /\ backUp[x][i].type = "Ready"
  BY <1>2, <1>3
<1> QED  BY <1>4 DEF Inv, ReadyIsNew

(* Sending up messages that are not Ready.                                  *)
LEMMA SentUp ==
  ASSUME Inv, NEW w \in WorkerId, NEW out \in Seq(BackUpMsg),
         \A i \in 1 .. Len(out) : out[i].type # "Ready",
         backUp' = [backUp EXCEPT ![w] = @ \o out], UNCHANGED registered
  PROVE  /\ backUp' \in [WorkerId -> Seq(BackUpMsg)]
         /\ ReadyIsNew'
<1> DEFINE q == backUp[w] \o out
<1>1. backUp[w] \in Seq(BackUpMsg) /\ backUp' = [backUp EXCEPT ![w] = q]
  BY DEF Inv, TypeOK, NetTypeOK
<1>2. /\ q \in Seq(BackUpMsg)
      /\ Len(q) = Len(backUp[w]) + Len(out)
      /\ \A i \in 1 .. Len(backUp[w]) + Len(out) :
           q[i] = IF i <= Len(backUp[w]) THEN backUp[w][i]
                                         ELSE out[i - Len(backUp[w])]
  BY <1>1, ConcatProperties
<1> HIDE DEF q
<1>3. ASSUME NEW i \in 1 .. Len(q), q[i].type = "Ready"
      PROVE  i \in 1 .. Len(backUp[w]) /\ backUp[w][i] = q[i]
  <2>1. Len(backUp[w]) \in Nat /\ Len(out) \in Nat
    BY <1>1, LenProperties
  <2>2. CASE i <= Len(backUp[w])
    BY <1>2, <2>1, <2>2
  <2>3. CASE ~(i <= Len(backUp[w]))
    <3>1. i - Len(backUp[w]) \in 1 .. Len(out)
      BY <1>2, <2>1, <2>3
    <3>2. q[i] = out[i - Len(backUp[w])]
      BY <1>2, <2>1, <2>3
    <3> QED  BY <1>3, <3>1, <3>2
  <2> QED  BY <2>2, <2>3
<1> QED  BY <1>1, <1>2, <1>3, UpChanged

(* connect() with a fresh identity.                                         *)
LEMMA ConnectKeeps ==
  ASSUME Inv, NEW p \in WorkerProc, NEW id \in FreshWorkerId, NEW n \in Nat,
         Connect(p, id, n), UNCHANGED <<frontUp, frontDown, registered>>
  PROVE  /\ NetTypeOK' /\ ReadyIsNew'
         /\ wId' \in [WorkerProc -> WorkerId \cup {NoId}]
         /\ wId'[p] \in WorkerId
         /\ \A x \in WorkerProc \ {p} : wId'[x] = wId[x]
         /\ missing' \in [WorkerProc -> 0 .. MaxMissing]
         /\ elapsed' \in [WorkerProc -> BOOLEAN]
<1> DEFINE old == wId[p]
<1>1. NetTypeOK /\ WorkerTypeOK
  BY DEF Inv, TypeOK
<1>2. id \in WorkerId /\ registered[id] = NoService
  BY DEF FreshWorkerId, Registered
<1>3. ServiceOf[p] \in Service /\ MaxMissing \in Nat /\ NoId \notin WorkerId
  BY WorkerAssumption
<1>4. /\ old # NoId => n <= Len(backUp[old])
      /\ peers' = (peers \ {old}) \cup {id}
      /\ backUp' = [w \in WorkerId |->
                      IF w = id THEN <<Ready(ServiceOf[p])>>
                      ELSE IF w = old THEN Oldest(backUp[w], n)
                      ELSE backUp[w]]
      /\ backDown' = [w \in WorkerId |->
                        IF w \in {id, old} THEN <<>> ELSE backDown[w]]
      /\ wId' = [wId EXCEPT ![p] = id]
      /\ missing' = [missing EXCEPT ![p] = 0]
      /\ elapsed' = [elapsed EXCEPT ![p] = FALSE]
  BY DEF Connect
<1>5. /\ wId' \in [WorkerProc -> WorkerId \cup {NoId}]
      /\ wId'[p] \in WorkerId
      /\ \A x \in WorkerProc \ {p} : wId'[x] = wId[x]
  BY <1>1, <1>2, <1>4 DEF WorkerTypeOK
<1>6. missing' \in [WorkerProc -> 0 .. MaxMissing]
  BY <1>1, <1>3, <1>4 DEF WorkerTypeOK
<1>7. elapsed' \in [WorkerProc -> BOOLEAN]
  BY <1>1, <1>4 DEF WorkerTypeOK
<1>8. <<Ready(ServiceOf[p])>> \in Seq(BackUpMsg)
  BY <1>3 DEF Ready, BackUpMsg
<1>9. ASSUME NEW w \in WorkerId, w = old
      PROVE  /\ Oldest(backUp[w], n) \in Seq(BackUpMsg)
             /\ Len(Oldest(backUp[w], n)) = n
             /\ n <= Len(backUp[w]) /\ Len(backUp[w]) \in Nat
             /\ \A i \in 1 .. n : Oldest(backUp[w], n)[i] = backUp[w][i]
  <2> DEFINE q == backUp[w]
  <2>1. q \in Seq(BackUpMsg) /\ n <= Len(q)
    BY <1>1, <1>3, <1>4, <1>9 DEF NetTypeOK
  <2> HIDE DEF q
  <2>2. /\ Oldest(q, n) \in Seq(BackUpMsg) /\ Len(Oldest(q, n)) = n
        /\ \A i \in 1 .. n : Oldest(q, n)[i] = q[i]
    BY <2>1, OldestProperties
  <2> QED  BY <2>1, <2>2, LenProperties DEF q
<1> HIDE DEF old
<1>10. backUp' \in [WorkerId -> Seq(BackUpMsg)]
  <2>1. \A w \in WorkerId : backUp[w] \in Seq(BackUpMsg)
    BY <1>1 DEF NetTypeOK
  <2> QED  BY <1>4, <1>8, <1>9, <2>1
<1>11. backDown' \in [WorkerId -> Seq(BackDownMsg)]
  BY <1>1, <1>4, EmptySeq DEF NetTypeOK
<1>12. peers' \in SUBSET (WorkerId \cup ClientId)
  BY <1>1, <1>2, <1>4 DEF NetTypeOK
<1>13. NetTypeOK'
  BY <1>1, <1>10, <1>11, <1>12 DEF NetTypeOK
<1>14. ReadyIsNew'
  <2> SUFFICES ASSUME NEW w \in WorkerId, NEW i \in 1 .. Len(backUp'[w]),
                      backUp'[w][i].type = "Ready"
               PROVE  i = 1 /\ registered[w] = NoService
    BY DEF ReadyIsNew
  <2>1. CASE w = id
    <3>1. Len(<<Ready(ServiceOf[p])>>) = 1
      OBVIOUS
    <3>2. i = 1
      BY <1>4, <2>1, <3>1
    <3> QED  BY <1>2, <2>1, <3>2
  <2>2. CASE w # id /\ w = old
    <3>1. backUp'[w] = Oldest(backUp[w], n)
      BY <1>4, <2>2
    <3>2. i \in 1 .. Len(backUp[w]) /\ backUp'[w][i] = backUp[w][i]
      BY <1>9, <2>2, <3>1
    <3> QED  BY <3>2 DEF Inv, ReadyIsNew
  <2>3. CASE w # id /\ w # old
    <3>1. backUp'[w] = backUp[w]
      BY <1>4, <2>3
    <3> QED  BY <3>1 DEF Inv, ReadyIsNew
  <2> QED  BY <2>1, <2>2, <2>3
<1> QED  BY <1>5, <1>6, <1>7, <1>13, <1>14

(* The end of an iteration.                                                 *)
LEMMA FinishIterationKeeps ==
  ASSUME Inv, NEW p \in WorkerProc, wPhase[p] = "polling",
         NEW msgs \in Seq(BackUpMsg),
         \A i \in 1 .. Len(msgs) : msgs[i].type # "Ready",
         FinishIteration(p, msgs), UNCHANGED registered
  PROVE  /\ backUp' \in [WorkerId -> Seq(BackUpMsg)]
         /\ ReadyIsNew'
         /\ elapsed' \in [WorkerProc -> BOOLEAN]
<1> DEFINE beat == IF elapsed[p] THEN <<Heartbeat>> ELSE <<>>
           out == msgs \o beat
<1>1. wId[p] \in WorkerId /\ WorkerTypeOK
  BY DEF Inv, TypeOK, PhasesAgree
<1>2. /\ backUp' = [backUp EXCEPT ![wId[p]] = @ \o out]
      /\ elapsed' = [elapsed EXCEPT ![p] = FALSE]
  BY DEF FinishIteration
<1>3. beat \in Seq(BackUpMsg)
  <2>1. <<Heartbeat>> \in Seq(BackUpMsg) /\ <<>> \in Seq(BackUpMsg)
    BY EmptySeq DEF Heartbeat, BackUpMsg
  <2> QED  BY <2>1
<1>4. \A i \in 1 .. Len(beat) : beat[i].type # "Ready"
  BY DEF Heartbeat
<1> HIDE DEF beat
<1>5. /\ out \in Seq(BackUpMsg)
      /\ Len(out) = Len(msgs) + Len(beat)
      /\ Len(msgs) \in Nat /\ Len(beat) \in Nat
      /\ \A i \in 1 .. Len(msgs) + Len(beat) :
           out[i] = IF i <= Len(msgs) THEN msgs[i] ELSE beat[i - Len(msgs)]
  BY <1>3, ConcatProperties, LenProperties
<1> HIDE DEF out
<1>6. ASSUME NEW i \in 1 .. Len(out)  PROVE out[i].type # "Ready"
  <2>1. CASE i <= Len(msgs)
    <3>1. i \in 1 .. Len(msgs) /\ out[i] = msgs[i]
      BY <1>5, <2>1
    <3> QED  BY <3>1
  <2>2. CASE ~(i <= Len(msgs))
    <3>1. i - Len(msgs) \in 1 .. Len(beat) /\ out[i] = beat[i - Len(msgs)]
      BY <1>5, <2>2
    <3> QED  BY <1>4, <3>1
  <2> QED  BY <2>1, <2>2
<1>7. backUp' \in [WorkerId -> Seq(BackUpMsg)] /\ ReadyIsNew'
  BY <1>1, <1>2, <1>5, <1>6, SentUp
<1>8. elapsed' \in [WorkerProc -> BOOLEAN]
  BY <1>1, <1>2 DEF WorkerTypeOK
<1> QED  BY <1>7, <1>8

(* A new socket, whatever the phase it is made in.                          *)
LEMMA ReconnectKeeps ==
  ASSUME Inv, NEW p \in WorkerProc, NEW id \in FreshWorkerId, NEW n \in Nat,
         Connect(p, id, n),
         wPhase' = [wPhase EXCEPT ![p] = "polling"] \/ UNCHANGED wPhase,
         UNCHANGED <<nap, frontUp, frontDown, brokerVars, clientVars, faults>>
  PROVE  Inv'
<1>1. UNCHANGED registered
  BY DEF brokerVars
<1>2. /\ NetTypeOK' /\ ReadyIsNew'
      /\ wId' \in [WorkerProc -> WorkerId \cup {NoId}]
      /\ wId'[p] \in WorkerId
      /\ \A x \in WorkerProc \ {p} : wId'[x] = wId[x]
      /\ missing' \in [WorkerProc -> 0 .. MaxMissing]
      /\ elapsed' \in [WorkerProc -> BOOLEAN]
  BY <1>1, ConnectKeeps
<1>3. WorkerTypeOK /\ wPhase \in [WorkerProc -> {"off", "polling", "asleep"}]
  BY DEF Inv, TypeOK, WorkerTypeOK
<1>4. wPhase' \in [WorkerProc -> {"off", "polling", "asleep"}]
  BY <1>3
<1>5. WorkerTypeOK'
  BY <1>2, <1>3, <1>4 DEF WorkerTypeOK
<1>6. \A x \in WorkerProc : wPhase'[x] # "off" => wId'[x] \in WorkerId
  BY <1>2, <1>3 DEF Inv, PhasesAgree
<1>7. BrokerTypeOK' /\ WorkConserving' /\ IdleAreRegistered'
  BY BrokerUntouched
<1>8. ClientTypeOK' /\ PhasesAgree'
  BY <1>6, ClientsUntouched DEF PhasesAgree
<1>9. (faults \in 0 .. MaxFaults)'
  BY DEF Inv, TypeOK
<1> QED  BY <1>2, <1>5, <1>7, <1>8, <1>9 DEF Inv, TypeOK

(* An iteration that keeps the connection.                                  *)
LEMMA IterationKeeps ==
  ASSUME Inv, NEW p \in WorkerProc, wPhase[p] = "polling",
         NEW msgs \in Seq(BackUpMsg),
         \A i \in 1 .. Len(msgs) : msgs[i].type # "Ready",
         FinishIteration(p, msgs),
         missing' \in [WorkerProc -> 0 .. MaxMissing],
         backDown' \in [WorkerId -> Seq(BackDownMsg)],
         UNCHANGED <<wPhase, wId, nap, peers, frontUp, frontDown,
                     brokerVars, clientVars, faults>>
  PROVE  Inv'
<1>1. UNCHANGED registered
  BY DEF brokerVars
<1>2. /\ backUp' \in [WorkerId -> Seq(BackUpMsg)] /\ ReadyIsNew'
      /\ elapsed' \in [WorkerProc -> BOOLEAN]
  BY <1>1, FinishIterationKeeps
<1>3. NetTypeOK' /\ WorkerTypeOK'
  BY <1>2 DEF Inv, TypeOK, NetTypeOK, WorkerTypeOK
<1>4. BrokerTypeOK' /\ WorkConserving' /\ IdleAreRegistered'
  BY BrokerUntouched
<1>5. ClientTypeOK' /\ PhasesAgree'
  BY ClientsUntouched DEF Inv, PhasesAgree
<1>6. (faults \in 0 .. MaxFaults)'
  BY DEF Inv, TypeOK
<1> QED  BY <1>2, <1>3, <1>4, <1>5, <1>6 DEF Inv, TypeOK

LEMMA WorkerStepKeeps ==
  ASSUME Inv, NEW p \in WorkerProc, WorkerStep(p)
  PROVE  Inv'
<1>1. NetTypeOK /\ WorkerTypeOK
  BY DEF Inv, TypeOK
<1>2. UNCHANGED <<brokerVars, clientVars, faults>>
  BY DEF WorkerStep
<1>3. \A n \in 0 .. BackHwm : n \in Nat
  BY NetAssumption
<1>4. missing \in [WorkerProc -> 0 .. MaxMissing] /\ MaxMissing \in Nat
  BY <1>1, WorkerAssumption DEF WorkerTypeOK
<1>5. ASSUME WorkerReceive(p)  PROVE Inv'
  <2> DEFINE m == Head(backDown[wId[p]])
  <2>1. /\ wPhase[p] = "polling" /\ backDown[wId[p]] # <<>>
        /\ backDown' = [backDown EXCEPT ![wId[p]] = Tail(@)]
        /\ missing' = [missing EXCEPT ![p] = 0]
        /\ UNCHANGED <<wPhase, wId, nap, peers, frontUp, frontDown>>
    BY <1>5 DEF WorkerReceive
  <2>2. \/ m.type = "Request"
           /\ FinishIteration(p, <<WorkerReply(m.client, m.body)>>)
        \/ m.type = "Heartbeat" /\ FinishIteration(p, <<>>)
    BY <1>5 DEF WorkerReceive
  <2>3. wId[p] \in WorkerId
    BY <2>1 DEF Inv, PhasesAgree
  <2>4. backDown[wId[p]] \in Seq(BackDownMsg)
    BY <1>1, <2>3 DEF NetTypeOK
  <2>5. m \in BackDownMsg /\ Tail(backDown[wId[p]]) \in Seq(BackDownMsg)
    BY <2>1, <2>4, HeadTailProperties
  <2> HIDE DEF m
  <2>6. backDown' \in [WorkerId -> Seq(BackDownMsg)]
    BY <1>1, <2>1, <2>5 DEF NetTypeOK
  <2>7. missing' \in [WorkerProc -> 0 .. MaxMissing]
    BY <1>4, <2>1
  <2>8. CASE m.type = "Request"
    <3>1. FinishIteration(p, <<WorkerReply(m.client, m.body)>>)
      BY <2>2, <2>8
    <3>2. WorkerReply(m.client, m.body) \in BackUpMsg
      BY <2>5, <2>8 DEF WorkerReply, BackUpMsg, BackDownMsg
    <3>3. WorkerReply(m.client, m.body).type # "Ready"
      BY DEF WorkerReply
    <3> DEFINE r == WorkerReply(m.client, m.body)
    <3> HIDE DEF r
    <3>4. <<r>> \in Seq(BackUpMsg)
      BY <3>2 DEF r
    <3>5. \A i \in 1 .. Len(<<r>>) : <<r>>[i].type # "Ready"
      BY <3>3 DEF r
    <3>6. FinishIteration(p, <<r>>)
      BY <3>1 DEF r
    <3> QED  BY <1>2, <2>1, <2>6, <2>7, <3>4, <3>5, <3>6, IterationKeeps
  <2>9. CASE m.type # "Request"
    <3>1. FinishIteration(p, <<>>)
      BY <2>2, <2>9
    <3>2. <<>> \in Seq(BackUpMsg) /\ \A i \in 1 .. Len(<<>>) : FALSE
      BY EmptySeq
    <3> QED  BY <1>2, <2>1, <2>6, <2>7, <3>1, <3>2, IterationKeeps
  <2> QED  BY <2>8, <2>9
<1>6. ASSUME NEW id \in FreshWorkerId, NEW n \in 0 .. BackHwm,
             WorkerReconnect(p, id, n)
      PROVE  Inv'
  BY <1>2, <1>3, <1>6, ReconnectKeeps DEF WorkerReconnect
<1>7. ASSUME WorkerMissed(p)  PROVE Inv'
  <2>1. /\ wPhase[p] = "polling" /\ missing[p] < MaxMissing
        /\ missing' = [missing EXCEPT ![p] = @ + 1]
        /\ FinishIteration(p, <<>>)
        /\ UNCHANGED <<wPhase, wId, nap, peers, backDown, frontUp, frontDown>>
    BY <1>7 DEF WorkerMissed, PollTimedOut
  <2>2. missing' \in [WorkerProc -> 0 .. MaxMissing]
    BY <1>4, <2>1
  <2>3. backDown' \in [WorkerId -> Seq(BackDownMsg)]
    BY <1>1, <2>1 DEF NetTypeOK
  <2>4. <<>> \in Seq(BackUpMsg) /\ \A i \in 1 .. Len(<<>>) : FALSE
    BY EmptySeq
  <2> QED  BY <1>2, <2>1, <2>2, <2>3, <2>4, IterationKeeps
<1>8. ASSUME WorkerSleep(p)  PROVE Inv'
  <2>1. /\ wPhase' = [wPhase EXCEPT ![p] = "asleep"] /\ wPhase[p] = "polling"
        /\ nap' = [nap EXCEPT ![p] = NapTicks]
        /\ UNCHANGED <<wId, missing, elapsed>> /\ UNCHANGED netVars
    BY <1>8 DEF WorkerSleep, PollTimedOut
  <2>2. WorkerTypeOK'
    BY <1>1, <2>1, WorkerAssumption DEF WorkerTypeOK
  <2>3. \A x \in WorkerProc : wPhase'[x] # "off" => wId'[x] \in WorkerId
    BY <1>1, <2>1 DEF Inv, PhasesAgree, WorkerTypeOK
  <2>4. BrokerTypeOK' /\ WorkConserving' /\ IdleAreRegistered'
    BY <1>2, BrokerUntouched
  <2>5. ClientTypeOK' /\ PhasesAgree'
    BY <1>2, <2>3, ClientsUntouched DEF PhasesAgree
  <2>6. NetTypeOK' /\ ReadyIsNew' /\ (faults \in 0 .. MaxFaults)'
    BY <1>2, <2>1
    DEF Inv, TypeOK, NetTypeOK, ReadyIsNew, netVars, brokerVars
  <2> QED  BY <2>2, <2>4, <2>5, <2>6 DEF Inv, TypeOK
<1>9. ASSUME NEW id \in FreshWorkerId, NEW n \in 0 .. BackHwm,
             WorkerWake(p, id, n)
      PROVE  Inv'
  BY <1>2, <1>3, <1>9, ReconnectKeeps DEF WorkerWake
<1> QED  BY <1>5, <1>6, <1>7, <1>8, <1>9 DEF WorkerStep

LEMMA StartWorkerKeeps ==
  ASSUME Inv, NEW p \in WorkerProc, StartWorker(p)
  PROVE  Inv'
<1>1. PICK id \in FreshWorkerId : WorkerStart(p, id)
  BY DEF StartWorker
<1>2. UNCHANGED <<brokerVars, clientVars, faults>>
  BY DEF StartWorker
<1>3. /\ Connect(p, id, 0)
      /\ wPhase' = [wPhase EXCEPT ![p] = "polling"]
      /\ UNCHANGED <<nap, frontUp, frontDown>>
  BY <1>1 DEF WorkerStart
<1> QED  BY <1>2, <1>3, ReconnectKeeps

(* The end of a worker process: the broker still reads `left'.              *)
LEMMA WorkerEndsKeeps ==
  ASSUME Inv, NEW p \in WorkerProc, NEW left \in Seq(BackUpMsg),
         WorkerEnds(p, left), UNCHANGED <<brokerVars, clientVars>>,
         (faults \in 0 .. MaxFaults)',
         \A i \in 1 .. Len(left) :
           left[i].type = "Ready" => /\ i \in 1 .. Len(backUp[wId[p]])
                                     /\ backUp[wId[p]][i] = left[i]
  PROVE  Inv'
<1>1. NetTypeOK /\ WorkerTypeOK /\ wId[p] \in WorkerId
  BY DEF Inv, TypeOK, PhasesAgree, WorkerEnds
<1>2. /\ peers' = peers \ {wId[p]}
      /\ backUp' = [backUp EXCEPT ![wId[p]] = left]
      /\ backDown' = [backDown EXCEPT ![wId[p]] = <<>>]
      /\ wPhase' = [wPhase EXCEPT ![p] = "off"]
      /\ wId' = [wId EXCEPT ![p] = NoId]
      /\ missing' = [missing EXCEPT ![p] = 0]
      /\ elapsed' = [elapsed EXCEPT ![p] = FALSE]
      /\ nap' = [nap EXCEPT ![p] = 0]
      /\ UNCHANGED <<frontUp, frontDown>>
  BY DEF WorkerEnds
<1>3. UNCHANGED registered
  BY DEF brokerVars
<1>4. backUp' \in [WorkerId -> Seq(BackUpMsg)] /\ ReadyIsNew'
  BY <1>1, <1>2, <1>3, UpChanged
<1>5. backDown' \in [WorkerId -> Seq(BackDownMsg)]
  BY <1>1, <1>2, EmptySeq DEF NetTypeOK
<1>6. NetTypeOK'
  BY <1>1, <1>2, <1>4, <1>5 DEF NetTypeOK
<1>7. WorkerTypeOK'
  <2>1. MaxMissing \in Nat /\ NapTicks \in Nat
    BY WorkerAssumption
  <2>2. missing' \in [WorkerProc -> 0 .. MaxMissing]
    BY <1>1, <1>2, <2>1 DEF WorkerTypeOK
  <2>3. nap' \in [WorkerProc -> 0 .. NapTicks]
    BY <1>1, <1>2, <2>1 DEF WorkerTypeOK
  <2> QED  BY <1>1, <1>2, <2>2, <2>3 DEF WorkerTypeOK
<1>8. \A x \in WorkerProc : wPhase'[x] # "off" => wId'[x] \in WorkerId
  BY <1>1, <1>2 DEF Inv, PhasesAgree, WorkerTypeOK
<1>9. BrokerTypeOK' /\ WorkConserving' /\ IdleAreRegistered'
  BY BrokerUntouched
<1>10. ClientTypeOK' /\ PhasesAgree'
  BY <1>8, ClientsUntouched DEF PhasesAgree
<1> QED  BY <1>4, <1>6, <1>7, <1>9, <1>10 DEF Inv, TypeOK

LEMMA WorkerFailsKeeps ==
  ASSUME Inv, NEW p \in WorkerProc, WorkerFails(p)
  PROVE  Inv'
<1> DEFINE w == wId[p]
           q == backUp[w]
<1>1. PICK n \in 0 .. BackHwm : WorkerCrash(p, n)
  BY DEF WorkerFails
<1>2. /\ UNCHANGED <<brokerVars, clientVars>> /\ Fails("worker")
      /\ WorkerEnds(p, Oldest(q, n)) /\ n <= Len(q)
  BY <1>1 DEF WorkerFails, WorkerCrash, WorkerEnds
<1>3. w \in WorkerId /\ n \in Nat
  BY <1>2, NetAssumption DEF Inv, PhasesAgree, WorkerEnds
<1>4. q \in Seq(BackUpMsg)
  BY <1>3 DEF Inv, TypeOK, NetTypeOK
<1>5. /\ Oldest(q, n) \in Seq(BackUpMsg) /\ Len(Oldest(q, n)) = n
      /\ \A i \in 1 .. n : Oldest(q, n)[i] = q[i]
  <2> HIDE DEF q
  <2> QED  BY <1>2, <1>3, <1>4, OldestProperties
<1>6. Len(q) \in Nat
  BY <1>4, LenProperties
<1>7. \A i \in 1 .. Len(Oldest(q, n)) : i \in 1 .. Len(q) /\ q[i] = Oldest(q, n)[i]
  BY <1>2, <1>3, <1>5, <1>6
<1> QED  BY <1>2, <1>5, <1>7, FailsKeeps, WorkerEndsKeeps

LEMMA WorkerLeavesKeeps ==
  ASSUME Inv, NEW p \in WorkerProc, WorkerLeaves(p)
  PROVE  Inv'
<1> DEFINE w == wId[p]
           q == backUp[w]
<1>1. /\ UNCHANGED <<brokerVars, clientVars>> /\ Fails("leave")
      /\ WorkerEnds(p, Append(q, Disconnect))
  BY DEF WorkerLeaves, WorkerLeave
<1>2. w \in WorkerId
  BY <1>1 DEF Inv, PhasesAgree, WorkerEnds
<1>3. q \in Seq(BackUpMsg) /\ Disconnect \in BackUpMsg
  BY <1>2 DEF Inv, TypeOK, NetTypeOK, Disconnect, BackUpMsg
<1>4. /\ Append(q, Disconnect) \in Seq(BackUpMsg)
      /\ Len(Append(q, Disconnect)) = Len(q) + 1 /\ Len(q) \in Nat
      /\ \A i \in 1 .. Len(q) : Append(q, Disconnect)[i] = q[i]
      /\ Append(q, Disconnect)[Len(q) + 1] = Disconnect
  <2> HIDE DEF q
  <2> QED  BY <1>3, AppendProperties, LenProperties
<1>5. \A i \in 1 .. Len(Append(q, Disconnect)) :
        Append(q, Disconnect)[i].type = "Ready"
          => i \in 1 .. Len(q) /\ q[i] = Append(q, Disconnect)[i]
  BY <1>4 DEF Disconnect
<1> QED  BY <1>1, <1>4, <1>5, FailsKeeps, WorkerEndsKeeps

(* Every message of rest is one of q, and not behind its place there.       *)
MovedUp(rest, q) ==
  \A i \in 1 .. Len(rest) : \E j \in 1 .. Len(q) : i <= j /\ rest[i] = q[j]

(* A queue that lost messages in the middle.                                *)
LEMMA WithLossProperties ==
  ASSUME NEW S, NEW q \in Seq(S), NEW read \in Nat, NEW lost \in Nat,
         read + lost <= Len(q)
  PROVE  /\ WithLoss(q, read, lost) \in Seq(S)
         /\ MovedUp(WithLoss(q, read, lost), q)
<1> DEFINE m == read + lost
           a == Oldest(q, read)
           z == AllButOldest(q, m)
           rest == WithLoss(q, read, lost)
<1>1. Len(q) \in Nat /\ m \in Nat /\ read <= m /\ m <= Len(q) /\ read <= Len(q)
  BY LenProperties
<1>2. rest = a \o z
  BY DEF WithLoss
<1> HIDE DEF m
<1>3. /\ a \in Seq(S) /\ Len(a) = read
      /\ \A i \in 1 .. read : a[i] = q[i]
  BY <1>1, OldestProperties
<1>4. /\ z \in Seq(S) /\ Len(z) = Len(q) - m
      /\ \A i \in 1 .. Len(q) - m : z[i] = q[i + m]
  BY <1>1, AllButOldestProperties
<1> HIDE DEF a, z, rest
<1>5. /\ a \o z \in Seq(S) /\ Len(a \o z) = Len(a) + Len(z)
      /\ \A i \in 1 .. Len(a) + Len(z) :
           (a \o z)[i] = IF i <= Len(a) THEN a[i] ELSE z[i - Len(a)]
  BY <1>3, <1>4, ConcatProperties, ZenonT(40)
<1>6. ASSUME NEW i \in 1 .. Len(rest)
      PROVE  \E j \in 1 .. Len(q) : i <= j /\ rest[i] = q[j]
  <2>1. CASE i <= read
    <3>1. i \in 1 .. read /\ i \in 1 .. Len(q) /\ i <= i
      BY <1>1, <2>1
    <3>2. rest[i] = q[i]
      BY <1>2, <1>3, <1>4, <1>5, <2>1, <3>1
    <3> QED  BY <3>1, <3>2
  <2>2. CASE ~(i <= read)
    <3>1. /\ i - read \in 1 .. Len(q) - m
          /\ (i - read) + m \in 1 .. Len(q) /\ i <= (i - read) + m
      BY <1>1, <1>2, <1>3, <1>4, <1>5, <2>2
    <3>2. rest[i] = z[i - read]
      BY <1>2, <1>3, <1>4, <1>5, <2>2
    <3>3. z[i - read] = q[(i - read) + m]
      BY <1>4, <3>1
    <3> QED  BY <3>1, <3>2, <3>3
  <2> QED  BY <2>1, <2>2
<1>7. rest \in Seq(S)
  BY <1>2, <1>5
<1> QED  BY <1>6, <1>7 DEF rest, MovedUp

LEMMA BackLinkFailsKeeps ==
  ASSUME Inv, NEW w \in WorkerId, BackLinkFails(w)
  PROVE  Inv'
<1> DEFINE q == backUp[w]
<1>1. PICK read \in 0 .. BackHwm, lost \in 0 .. BackHwm, kept \in 0 .. BackHwm :
        BackConnectionReset(w, read, lost, kept)
  BY DEF BackLinkFails
<1> DEFINE rest == WithLoss(q, read, lost)
<1>2. /\ UNCHANGED <<brokerVars, workerVars, clientVars>> /\ Fails("backLink")
      /\ read + lost <= Len(q) /\ kept <= Len(backDown[w])
      /\ backUp' = [backUp EXCEPT ![w] = rest]
      /\ backDown' = [backDown EXCEPT ![w] = Oldest(@, kept)]
      /\ UNCHANGED <<peers, frontUp, frontDown>>
  BY <1>1 DEF BackLinkFails, BackConnectionReset
<1>3. read \in Nat /\ lost \in Nat /\ kept \in Nat
  BY NetAssumption
<1>4. /\ NetTypeOK /\ q \in Seq(BackUpMsg)
      /\ backDown[w] \in Seq(BackDownMsg)
  BY DEF Inv, TypeOK, NetTypeOK
<1>5. rest \in Seq(BackUpMsg) /\ MovedUp(rest, q)
  <2>1. /\ q \in Seq(BackUpMsg) /\ read \in Nat /\ lost \in Nat
        /\ read + lost <= Len(q)
    BY <1>2, <1>3, <1>4
  <2> HIDE DEF q
  <2> QED  BY <2>1, WithLossProperties
<1>6. \A i \in 1 .. Len(rest) :
        rest[i].type = "Ready" => i \in 1 .. Len(q) /\ q[i] = rest[i]
  <2> HIDE DEF rest
  <2> TAKE i \in 1 .. Len(rest)
  <2> HAVE rest[i].type = "Ready"
  <2>1. PICK j \in 1 .. Len(q) : i <= j /\ rest[i] = q[j]
    BY <1>5 DEF MovedUp
  <2>2. j = 1
    BY <2>1 DEF Inv, ReadyIsNew
  <2>3. Len(rest) \in Nat
    BY <1>5, LenProperties
  <2>4. i = 1
    BY <2>1, <2>2, <2>3
  <2> QED  BY <2>1, <2>2, <2>4
<1> HIDE DEF rest
<1>7. backUp' \in [WorkerId -> Seq(BackUpMsg)] /\ ReadyIsNew'
  BY <1>2, <1>5, <1>6, UpChanged DEF brokerVars
<1>8. backDown' \in [WorkerId -> Seq(BackDownMsg)]
  <2>1. Oldest(backDown[w], kept) \in Seq(BackDownMsg)
    BY <1>2, <1>3, <1>4, OldestProperties
  <2> QED  BY <1>2, <1>4, <2>1 DEF NetTypeOK
<1>9. NetTypeOK'
  BY <1>2, <1>4, <1>7, <1>8 DEF NetTypeOK
<1>10. BrokerTypeOK' /\ WorkConserving' /\ IdleAreRegistered'
  BY <1>2, BrokerUntouched
<1>11. WorkerTypeOK' /\ ClientTypeOK' /\ PhasesAgree'
  BY <1>2, WorkersUntouched, ClientsUntouched DEF PhasesAgree
<1> QED  BY <1>2, <1>7, <1>9, <1>10, <1>11, FailsKeeps DEF Inv, TypeOK

LEMMA FrontLinkFailsKeeps ==
  ASSUME Inv, NEW c \in ClientId, FrontLinkFails(c)
  PROVE  Inv'
<1> DEFINE q == frontUp[c]
<1>1. PICK read \in 0 .. FrontHwm, lost \in 0 .. FrontHwm,
           kept \in 0 .. FrontHwm : FrontConnectionReset(c, read, lost, kept)
  BY DEF FrontLinkFails
<1> DEFINE rest == WithLoss(q, read, lost)
<1>2. /\ UNCHANGED <<brokerVars, workerVars, clientVars>> /\ Fails("frontLink")
      /\ read + lost <= Len(q) /\ kept <= Len(frontDown[c])
      /\ frontUp' = [frontUp EXCEPT ![c] = rest]
      /\ frontDown' = [frontDown EXCEPT ![c] = Oldest(@, kept)]
      /\ UNCHANGED <<peers, backUp, backDown>>
  BY <1>1 DEF FrontLinkFails, FrontConnectionReset
<1>3. read \in Nat /\ lost \in Nat /\ kept \in Nat
  BY NetAssumption
<1>4. /\ NetTypeOK /\ q \in Seq(FrontUpMsg)
      /\ frontDown[c] \in Seq(FrontDownMsg)
  BY DEF Inv, TypeOK, NetTypeOK
<1>5. rest \in Seq(FrontUpMsg)
  <2>1. /\ q \in Seq(FrontUpMsg) /\ read \in Nat /\ lost \in Nat
        /\ read + lost <= Len(q)
    BY <1>2, <1>3, <1>4
  <2> HIDE DEF q
  <2> QED  BY <2>1, WithLossProperties
<1>6. Oldest(frontDown[c], kept) \in Seq(FrontDownMsg)
  BY <1>2, <1>3, <1>4, OldestProperties
<1> HIDE DEF rest
<1>7. NetTypeOK'
  BY <1>2, <1>4, <1>5, <1>6 DEF NetTypeOK
<1>8. BrokerTypeOK' /\ WorkConserving' /\ IdleAreRegistered'
  BY <1>2, BrokerUntouched
<1>9. WorkerTypeOK' /\ ClientTypeOK' /\ PhasesAgree'
  BY <1>2, WorkersUntouched, ClientsUntouched DEF PhasesAgree
<1>10. ReadyIsNew'
  BY <1>2 DEF Inv, ReadyIsNew, brokerVars
<1> QED  BY <1>2, <1>7, <1>8, <1>9, <1>10, FailsKeeps DEF Inv, TypeOK

-----------------------------------------------------------------------------
(* The clients.                                                             *)

(* A step of a client: what it must leave of the network and of itself.     *)
LEMMA ClientSide ==
  ASSUME Inv, UNCHANGED <<backUp, backDown, brokerVars, workerVars>>,
         peers' \in SUBSET (WorkerId \cup ClientId),
         frontUp' \in [ClientId -> Seq(FrontUpMsg)],
         frontDown' \in [ClientId -> Seq(FrontDownMsg)],
         ClientTypeOK',
         \A q \in ClientProc :
           /\ cPhase'[q] \in {"pinging", "pausing", "sending", "receiving",
                              "stopping"} => cId'[q] \in ClientId
           /\ cPhase'[q] \in {"off", "pinging", "pausing"} => sent'[q] = 0
           /\ cPhase'[q] = "sending" => sent'[q] < Requests,
         faults' \in 0 .. MaxFaults
  PROVE  Inv'
<1>1. NetTypeOK' /\ ReadyIsNew'
  BY DEF Inv, TypeOK, NetTypeOK, ReadyIsNew, brokerVars
<1>2. BrokerTypeOK' /\ WorkConserving' /\ IdleAreRegistered'
  BY BrokerUntouched
<1>3. WorkerTypeOK' /\ PhasesAgree'
  BY WorkersUntouched DEF PhasesAgree
<1> QED  BY <1>1, <1>2, <1>3 DEF Inv, TypeOK

LEMMA ClientSocketProperties ==
  ASSUME Inv, NEW q \in ClientProc, NEW id \in ClientId \cup {NoClientId},
         NEW first \in Seq(FrontUpMsg), NEW n \in Nat,
         ClientSocket(q, id, first, n)
  PROVE  /\ peers' \in SUBSET (WorkerId \cup ClientId)
         /\ frontUp' \in [ClientId -> Seq(FrontUpMsg)]
         /\ frontDown' \in [ClientId -> Seq(FrontDownMsg)]
         /\ cId' \in [ClientProc -> ClientId \cup {NoClientId}]
         /\ cId' = [cId EXCEPT ![q] = id]
         /\ UNCHANGED <<backUp, backDown>>
<1> DEFINE old == cId[q]
<1>1. NetTypeOK /\ ClientTypeOK /\ NoClientId \notin ClientId
  BY ClientAssumption DEF Inv, TypeOK
<1>2. /\ old # NoClientId => n <= Len(frontUp[old])
      /\ peers' = (peers \ {old}) \cup ({id} \ {NoClientId})
      /\ frontUp' = [c \in ClientId |->
                       IF c = id THEN first
                       ELSE IF c = old THEN Oldest(frontUp[c], n)
                       ELSE frontUp[c]]
      /\ frontDown' = [c \in ClientId |->
                         IF c \in {id, old} THEN <<>> ELSE frontDown[c]]
      /\ cId' = [cId EXCEPT ![q] = id]
      /\ UNCHANGED <<backUp, backDown>>
  BY DEF ClientSocket
<1>3. ASSUME NEW c \in ClientId, c = old
      PROVE  Oldest(frontUp[c], n) \in Seq(FrontUpMsg)
  <2> DEFINE r == frontUp[c]
  <2>1. r \in Seq(FrontUpMsg) /\ n <= Len(r)
    BY <1>1, <1>2, <1>3 DEF NetTypeOK
  <2> HIDE DEF r
  <2>2. Oldest(r, n) \in Seq(FrontUpMsg)
    BY <2>1, OldestProperties
  <2> QED  BY <2>2 DEF r
<1> HIDE DEF old
<1>4. frontUp' \in [ClientId -> Seq(FrontUpMsg)]
  <2>1. \A c \in ClientId : frontUp[c] \in Seq(FrontUpMsg)
    BY <1>1 DEF NetTypeOK
  <2> QED  BY <1>2, <1>3, <2>1
<1>5. frontDown' \in [ClientId -> Seq(FrontDownMsg)]
  BY <1>1, <1>2, EmptySeq DEF NetTypeOK
<1>6. peers' \in SUBSET (WorkerId \cup ClientId)
  BY <1>1, <1>2 DEF NetTypeOK
<1>7. cId' \in [ClientProc -> ClientId \cup {NoClientId}]
  BY <1>1, <1>2 DEF ClientTypeOK
<1> QED  BY <1>2, <1>4, <1>5, <1>6, <1>7

LEMMA GotoProperties ==
  ASSUME Inv, NEW q \in ClientProc, NEW phase \in ClientPhase,
         NEW ticks \in {0, PingPatience, PauseTicks, RecvPatience},
         Goto(q, phase, ticks)
  PROVE  /\ cPhase' \in [ClientProc -> ClientPhase]
         /\ timer' \in [ClientProc -> 0 .. MaxTimer]
         /\ cPhase'[q] = phase
         /\ \A x \in ClientProc \ {q} : cPhase'[x] = cPhase[x]
<1>1. /\ cPhase \in [ClientProc -> ClientPhase]
      /\ timer \in [ClientProc -> 0 .. MaxTimer]
  BY DEF Inv, TypeOK, ClientTypeOK
<1>2. ticks \in 0 .. MaxTimer
  BY ClientAssumption DEF MaxTimer
<1> QED  BY <1>1, <1>2 DEF Goto

(* A client that gets a new socket, or loses its last one, and goes on.     *)
LEMMA NewSocketKeeps ==
  ASSUME Inv, NEW q \in ClientProc, NEW id \in ClientId \cup {NoClientId},
         NEW first \in Seq(FrontUpMsg), NEW n \in Nat,
         ClientSocket(q, id, first, n),
         NEW phase \in {"pinging", "pausing", "stopping", "done"},
         NEW ticks \in {0, PingPatience, PauseTicks, RecvPatience},
         Goto(q, phase, ticks),
         id = NoClientId => phase = "done",
         phase \in {"pinging", "pausing"} => sent[q] = 0,
         UNCHANGED <<sent, received, mReply, brokerVars, workerVars>>,
         faults' \in 0 .. MaxFaults
  PROVE  Inv'
<1>1. /\ peers' \in SUBSET (WorkerId \cup ClientId)
      /\ frontUp' \in [ClientId -> Seq(FrontUpMsg)]
      /\ frontDown' \in [ClientId -> Seq(FrontDownMsg)]
      /\ cId' \in [ClientProc -> ClientId \cup {NoClientId}]
      /\ cId' = [cId EXCEPT ![q] = id]
      /\ UNCHANGED <<backUp, backDown>>
  BY ClientSocketProperties
<1>2. phase \in ClientPhase
  BY DEF ClientPhase
<1>3. /\ cPhase' \in [ClientProc -> ClientPhase]
      /\ timer' \in [ClientProc -> 0 .. MaxTimer]
      /\ cPhase'[q] = phase
      /\ \A x \in ClientProc \ {q} : cPhase'[x] = cPhase[x]
  BY <1>2, GotoProperties
<1>4. ClientTypeOK /\ PhasesAgree
  BY DEF Inv, TypeOK
<1>5. ClientTypeOK'
  BY <1>1, <1>3, <1>4 DEF ClientTypeOK
<1>6. cId'[q] = id /\ \A x \in ClientProc \ {q} : cId'[x] = cId[x]
  BY <1>1, <1>4 DEF ClientTypeOK
<1>7. \A x \in ClientProc :
        /\ cPhase'[x] \in {"pinging", "pausing", "sending", "receiving",
                           "stopping"} => cId'[x] \in ClientId
        /\ cPhase'[x] \in {"off", "pinging", "pausing"} => sent'[x] = 0
        /\ cPhase'[x] = "sending" => sent'[x] < Requests
  BY <1>3, <1>4, <1>6 DEF PhasesAgree
<1> QED  BY <1>1, <1>5, <1>7, ClientSide

(* A client that keeps its socket.                                          *)
LEMMA SameSocketKeeps ==
  ASSUME Inv, NEW q \in ClientProc,
         UNCHANGED <<cId, peers, backUp, backDown, brokerVars, workerVars, faults>>,
         frontUp' \in [ClientId -> Seq(FrontUpMsg)],
         frontDown' \in [ClientId -> Seq(FrontDownMsg)],
         sent' \in [ClientProc -> 0 .. Requests],
         received' \in [ClientProc -> Seq(Body)],
         mReply' \in [ClientProc -> Body \cup {NoReply}],
         cPhase' \in [ClientProc -> ClientPhase],
         timer' \in [ClientProc -> 0 .. MaxTimer],
         cPhase[q] \in {"pinging", "pausing", "sending", "receiving"},
         \A x \in ClientProc \ {q} :
           cPhase'[x] = cPhase[x] /\ sent'[x] = sent[x],
         cPhase'[q] \in {"off", "pinging", "pausing"} => sent'[q] = 0,
         cPhase'[q] = "sending" => sent'[q] < Requests
  PROVE  Inv'
<1>1. ClientTypeOK /\ PhasesAgree /\ NetTypeOK /\ faults \in 0 .. MaxFaults
  BY DEF Inv, TypeOK
<1>2. ClientTypeOK'
  BY <1>1 DEF ClientTypeOK
<1>3. \A x \in ClientProc :
        /\ cPhase'[x] \in {"pinging", "pausing", "sending", "receiving",
                           "stopping"} => cId'[x] \in ClientId
        /\ cPhase'[x] \in {"off", "pinging", "pausing"} => sent'[x] = 0
        /\ cPhase'[x] = "sending" => sent'[x] < Requests
  BY <1>1 DEF PhasesAgree
<1> QED  BY <1>1, <1>2, <1>3, ClientSide DEF NetTypeOK

(* handleResponse, in a phase in which the client has a socket.             *)
LEMMA HandleResponseProperties ==
  ASSUME Inv, NEW q \in ClientProc,
         cPhase[q] \in {"pinging", "receiving"}, HandleResponse(q)
  PROVE  /\ frontDown' \in [ClientId -> Seq(FrontDownMsg)]
         /\ mReply' \in [ClientProc -> Body \cup {NoReply}]
         /\ UNCHANGED <<cId, sent, peers, backUp, backDown, frontUp>>
<1> DEFINE m == Head(frontDown[cId[q]])
<1>1. NetTypeOK /\ ClientTypeOK /\ cId[q] \in ClientId
  BY DEF Inv, TypeOK, PhasesAgree
<1>2. frontDown[cId[q]] \in Seq(FrontDownMsg) /\ frontDown[cId[q]] # <<>>
  BY <1>1 DEF NetTypeOK, HandleResponse
<1>3. m \in FrontDownMsg /\ Tail(frontDown[cId[q]]) \in Seq(FrontDownMsg)
  BY <1>2, HeadTailProperties
<1>4. /\ frontDown' = [frontDown EXCEPT ![cId[q]] = Tail(@)]
      /\ mReply' = [mReply EXCEPT ![q] = IF m.type = "Reply" THEN m.body ELSE @]
      /\ UNCHANGED <<cId, sent, peers, backUp, backDown, frontUp>>
  BY DEF HandleResponse
<1> HIDE DEF m
<1>5. m.type = "Reply" => m.body \in Body
  BY <1>3 DEF FrontDownMsg
<1>6. mReply' \in [ClientProc -> Body \cup {NoReply}]
  BY <1>1, <1>4, <1>5 DEF ClientTypeOK
<1>7. frontDown' \in [ClientId -> Seq(FrontDownMsg)]
  BY <1>1, <1>3, <1>4 DEF NetTypeOK
<1> QED  BY <1>4, <1>6, <1>7

LEMMA ClientStepKeeps ==
  ASSUME Inv, NEW q \in ClientProc, ClientStep(q)
  PROVE  Inv'
<1>1. NetTypeOK /\ ClientTypeOK /\ faults \in 0 .. MaxFaults
  BY DEF Inv, TypeOK
<1>2. UNCHANGED <<brokerVars, workerVars, faults>>
  BY DEF ClientStep
<1>3. \A n \in 0 .. FrontHwm : n \in Nat
  BY NetAssumption
<1>4. FreshClientId \subseteq ClientId /\ <<>> \in Seq(FrontUpMsg)
  BY EmptySeq DEF FreshClientId
<1>5. {"pinging", "pausing", "sending", "receiving", "stopping"} \subseteq ClientPhase
  BY DEF ClientPhase
<1>6. Requests \in Nat \ {0} /\ sent \in [ClientProc -> 0 .. Requests]
  BY <1>1, NetAssumption DEF ClientTypeOK
<1>7. ASSUME ClientPong(q)  PROVE Inv'
  <2>1. /\ cPhase[q] = "pinging" /\ HandleResponse(q)
        /\ Goto(q, "pausing", PauseTicks) /\ UNCHANGED received
    BY <1>7 DEF ClientPong
  <2>2. /\ frontDown' \in [ClientId -> Seq(FrontDownMsg)]
        /\ mReply' \in [ClientProc -> Body \cup {NoReply}]
        /\ UNCHANGED <<cId, sent, peers, backUp, backDown, frontUp>>
    BY <2>1, HandleResponseProperties
  <2>3. /\ cPhase' \in [ClientProc -> ClientPhase]
        /\ timer' \in [ClientProc -> 0 .. MaxTimer]
        /\ cPhase'[q] = "pausing"
        /\ \A x \in ClientProc \ {q} : cPhase'[x] = cPhase[x]
    BY <1>5, <2>1, GotoProperties
  <2>4. sent'[q] = 0
    BY <2>1, <2>2 DEF Inv, PhasesAgree
  <2> QED
    BY <1>1, <1>2, <1>6, <2>1, <2>2, <2>3, <2>4, SameSocketKeeps
    DEF NetTypeOK, ClientTypeOK
<1>8. ASSUME NEW id \in FreshClientId, NEW n \in 0 .. FrontHwm,
             ClientPingTimeout(q, id, n)
      PROVE  Inv'
  <2>1. /\ ClientSocket(q, id, <<>>, n) /\ Goto(q, "pausing", PauseTicks)
        /\ UNCHANGED <<sent, received, mReply>> /\ sent[q] = 0
    BY <1>8 DEF ClientPingTimeout, Inv, PhasesAgree
  <2>2. id \in ClientId /\ id # NoClientId /\ n \in Nat
    BY <1>3, <1>4, ClientAssumption
  <2> QED  BY <1>1, <1>2, <1>4, <2>1, <2>2, NewSocketKeeps
<1>9. ASSUME ClientResume(q)  PROVE Inv'
  <2>1. /\ cPhase[q] = "pausing" /\ Goto(q, "sending", 0)
        /\ UNCHANGED <<cId, sent, received, mReply>> /\ UNCHANGED netVars
    BY <1>9 DEF ClientResume
  <2>2. /\ cPhase' \in [ClientProc -> ClientPhase]
        /\ timer' \in [ClientProc -> 0 .. MaxTimer]
        /\ cPhase'[q] = "sending"
        /\ \A x \in ClientProc \ {q} : cPhase'[x] = cPhase[x]
    BY <1>5, <2>1, GotoProperties
  <2>3. sent'[q] < Requests
    BY <1>6, <2>1 DEF Inv, PhasesAgree
  <2> QED
    BY <1>1, <1>2, <1>6, <2>1, <2>2, <2>3, SameSocketKeeps
    DEF NetTypeOK, ClientTypeOK, netVars
<1>10. ASSUME ClientSend(q)  PROVE Inv'
  <2> DEFINE msg == ClientRequest(WantOf[q], <<q, sent[q] + 1>>)
  <2>1. /\ cPhase[q] = "sending"
        /\ sent' = [sent EXCEPT ![q] = @ + 1]
        /\ frontUp' = [frontUp EXCEPT ![cId[q]] = Append(@, msg)]
        /\ UNCHANGED <<cId, received, mReply, peers, backUp, backDown, frontDown>>
    BY <1>10 DEF ClientSend
  <2>2. IF sent[q] + 1 = Requests THEN Goto(q, "receiving", RecvPatience)
                                  ELSE UNCHANGED <<cPhase, timer>>
    BY <1>10 DEF ClientSend
  <2>3. cId[q] \in ClientId /\ sent[q] < Requests /\ sent[q] \in Nat
    BY <1>6, <2>1 DEF Inv, PhasesAgree
  <2>4. msg \in FrontUpMsg
    <3>1. sent[q] + 1 \in 1 .. Requests
      BY <1>6, <2>3
    <3>2. <<q, sent[q] + 1>> \in Body /\ WantOf[q] \in Service
      BY <3>1, ClientAssumption DEF Body
    <3> QED  BY <3>2 DEF ClientRequest, FrontUpMsg
  <2> HIDE DEF msg
  <2>5. frontUp' \in [ClientId -> Seq(FrontUpMsg)]
    <3>1. frontUp[cId[q]] \in Seq(FrontUpMsg)
      BY <1>1, <2>3 DEF NetTypeOK
    <3>2. Append(frontUp[cId[q]], msg) \in Seq(FrontUpMsg)
      BY <2>4, <3>1
    <3> QED  BY <1>1, <2>1, <3>2 DEF NetTypeOK
  <2>6. /\ sent' \in [ClientProc -> 0 .. Requests] /\ sent'[q] = sent[q] + 1
        /\ \A x \in ClientProc \ {q} : sent'[x] = sent[x]
    BY <1>6, <2>1, <2>3
  <2>7. /\ cPhase' \in [ClientProc -> ClientPhase]
        /\ timer' \in [ClientProc -> 0 .. MaxTimer]
        /\ cPhase'[q] = IF sent[q] + 1 = Requests THEN "receiving" ELSE "sending"
        /\ \A x \in ClientProc \ {q} : cPhase'[x] = cPhase[x]
    <3>1. CASE sent[q] + 1 = Requests
      BY <1>5, <2>2, <3>1, GotoProperties
    <3>2. CASE sent[q] + 1 # Requests
      BY <1>1, <2>1, <2>2, <3>2 DEF ClientTypeOK
    <3> QED  BY <3>1, <3>2
  <2>8. cPhase'[q] = "sending" => sent'[q] < Requests
    BY <1>6, <2>3, <2>6, <2>7
  <2>9. /\ received' \in [ClientProc -> Seq(Body)]
        /\ mReply' \in [ClientProc -> Body \cup {NoReply}]
        /\ frontDown' \in [ClientId -> Seq(FrontDownMsg)]
    BY <1>1, <2>1 DEF ClientTypeOK, NetTypeOK
  <2> QED
    BY <1>2, <2>1, <2>5, <2>6, <2>7, <2>8, <2>9, SameSocketKeeps
<1>11. ASSUME ClientReceive(q)  PROVE Inv'
  <2>1. cPhase[q] = "receiving" /\ HandleResponse(q)
    BY <1>11 DEF ClientReceive
  <2>2. /\ frontDown' \in [ClientId -> Seq(FrontDownMsg)]
        /\ mReply' \in [ClientProc -> Body \cup {NoReply}]
        /\ UNCHANGED <<cId, sent, peers, backUp, backDown, frontUp>>
    BY <2>1, HandleResponseProperties
  <2>3. PICK phase \in {"stopping", "receiving"}, ticks \in {0, RecvPatience} :
          Goto(q, phase, ticks)
    BY <1>11 DEF ClientReceive
  <2>4. /\ cPhase' \in [ClientProc -> ClientPhase]
        /\ timer' \in [ClientProc -> 0 .. MaxTimer]
        /\ cPhase'[q] \in {"stopping", "receiving"}
        /\ \A x \in ClientProc \ {q} : cPhase'[x] = cPhase[x]
    BY <1>5, <2>3, GotoProperties
  <2>5. received' \in [ClientProc -> Seq(Body)]
    <3>1. received \in [ClientProc -> Seq(Body)]
      BY <1>1 DEF ClientTypeOK
    <3>2. CASE mReply'[q] = NoReply
      BY <1>11, <3>1, <3>2 DEF ClientReceive
    <3>3. CASE mReply'[q] # NoReply
      <4>1. mReply'[q] \in Body
        BY <2>2, <3>3
      <4>2. received[q] \in Seq(Body)
        BY <3>1
      <4>3. Append(received[q], mReply'[q]) \in Seq(Body)
        BY <4>1, <4>2
      <4>4. received' = [received EXCEPT ![q] = Append(@, mReply'[q])]
        BY <1>11, <3>3 DEF ClientReceive
      <4> QED  BY <3>1, <4>3, <4>4
    <3> QED  BY <3>2, <3>3
  <2>6. /\ frontUp' \in [ClientId -> Seq(FrontUpMsg)]
        /\ sent' \in [ClientProc -> 0 .. Requests]
    BY <1>1, <1>6, <2>2 DEF NetTypeOK
  <2> QED  BY <1>2, <2>1, <2>2, <2>4, <2>5, <2>6, SameSocketKeeps
<1>12. ASSUME NEW id \in FreshClientId, NEW n \in 0 .. FrontHwm,
              ClientRecvTimeout(q, id, n)
       PROVE  Inv'
  <2>1. /\ ClientSocket(q, id, <<>>, n) /\ Goto(q, "stopping", 0)
        /\ UNCHANGED <<sent, received, mReply>>
    BY <1>12 DEF ClientRecvTimeout
  <2>2. id \in ClientId /\ id # NoClientId /\ n \in Nat
    BY <1>3, <1>4, ClientAssumption
  <2>3. <<>> \in Seq(FrontUpMsg) /\ faults' \in 0 .. MaxFaults
    BY <1>1, <1>2, <1>4
  <2> DEFINE phase == "stopping"
  <2>4. /\ Goto(q, phase, 0) /\ phase \in {"pinging", "pausing", "stopping", "done"}
        /\ phase \notin {"pinging", "pausing"}
    BY <2>1
  <2> HIDE DEF phase
  <2> QED  BY <1>2, <2>1, <2>2, <2>3, <2>4, NewSocketKeeps
<1>13. ASSUME NEW n \in 0 .. FrontHwm, ClientExit(q, n)  PROVE Inv'
  <2>1. /\ ClientSocket(q, NoClientId, <<>>, n) /\ Goto(q, "done", 0)
        /\ UNCHANGED <<sent, received, mReply>>
    BY <1>13 DEF ClientExit, ClientEnds
  <2>2. n \in Nat /\ <<>> \in Seq(FrontUpMsg) /\ faults' \in 0 .. MaxFaults
    BY <1>1, <1>2, <1>3, <1>4
  <2> QED  BY <1>2, <2>1, <2>2, NewSocketKeeps
<1> QED
  BY <1>7, <1>8, <1>9, <1>10, <1>11, <1>12, <1>13 DEF ClientStep

LEMMA StartClientKeeps ==
  ASSUME Inv, NEW q \in ClientProc, StartClient(q)
  PROVE  Inv'
<1>1. PICK id \in FreshClientId : ClientStart(q, id)
  BY DEF StartClient
<1> DEFINE first == <<DiscoveryRequest(Echo)>>
<1>2. /\ ClientSocket(q, id, first, 0)
      /\ Goto(q, "pinging", PingPatience)
      /\ UNCHANGED <<sent, received, mReply>>
      /\ sent[q] = 0
  BY <1>1 DEF ClientStart, Inv, PhasesAgree
<1>3. id \in ClientId /\ id # NoClientId
  BY ClientAssumption DEF FreshClientId
<1>4. first \in Seq(FrontUpMsg)
  BY ClientAssumption DEF DiscoveryRequest, FrontUpMsg
<1>5. UNCHANGED <<brokerVars, workerVars, faults>> /\ faults \in 0 .. MaxFaults
  BY DEF StartClient, Inv, TypeOK
<1> HIDE DEF first
<1> QED  BY <1>2, <1>3, <1>4, <1>5, NewSocketKeeps

LEMMA ClientFailsKeeps ==
  ASSUME Inv, NEW q \in ClientProc, ClientFails(q)
  PROVE  Inv'
<1>1. PICK n \in 0 .. FrontHwm : ClientCrash(q, n)
  BY DEF ClientFails
<1>2. /\ ClientSocket(q, NoClientId, <<>>, n) /\ Goto(q, "done", 0)
      /\ UNCHANGED <<sent, received, mReply>>
  BY <1>1 DEF ClientCrash, ClientEnds
<1>3. UNCHANGED <<brokerVars, workerVars>> /\ Fails("client")
  BY DEF ClientFails
<1>4. n \in Nat /\ <<>> \in Seq(FrontUpMsg)
  BY NetAssumption, EmptySeq
<1> QED  BY <1>2, <1>3, <1>4, FailsKeeps, NewSocketKeeps

-----------------------------------------------------------------------------
(* The system.                                                              *)

(* Every step of the system, of whatever process, keeps the invariant.      *)
LEMMA StepKeeps == Inv /\ [Next]_vars => Inv'
<1> SUFFICES ASSUME Inv, [Next]_vars  PROVE Inv'
  OBVIOUS
<1>1. ASSUME BrokerStep  PROVE Inv'
  <2>1. BrokerNext /\ UNCHANGED <<workerVars, clientVars, faults>>
    BY <1>1 DEF BrokerStep
  <2> QED
    BY <2>1, BrokerWaitKeeps, HandleWorkerResponseKeeps,
       HandleClientRequestKeeps, HousekeepingKeeps DEF BrokerNext
<1>2. ASSUME Fault  PROVE Inv'
  BY <1>2, BrokerFailsKeeps, WorkerFailsKeeps, WorkerLeavesKeeps,
     ClientFailsKeeps, BackLinkFailsKeeps, FrontLinkFailsKeeps DEF Fault
<1>3. ASSUME Step  PROVE Inv'
  BY <1>1, <1>2, <1>3, StartBrokerKeeps, WorkerStepKeeps, StartWorkerKeeps,
     ClientStepKeeps, StartClientKeeps DEF Step
<1>4. ASSUME UNCHANGED vars  PROVE Inv'
  <2>1. /\ UNCHANGED netVars /\ UNCHANGED brokerVars /\ UNCHANGED workerVars
        /\ UNCHANGED clientVars /\ UNCHANGED faults
    BY <1>4 DEF vars
  <2>2. BrokerTypeOK' /\ WorkConserving' /\ IdleAreRegistered'
    BY <2>1, BrokerUntouched
  <2>3. WorkerTypeOK' /\ ClientTypeOK' /\ PhasesAgree'
    BY <2>1, WorkersUntouched, ClientsUntouched DEF PhasesAgree
  <2>4. NetTypeOK' /\ ReadyIsNew' /\ (faults \in 0 .. MaxFaults)'
    BY <2>1 DEF Inv, TypeOK, NetTypeOK, ReadyIsNew, netVars, brokerVars
  <2> QED  BY <2>2, <2>3, <2>4 DEF Inv, TypeOK
<1> QED  BY <1>3, <1>4, TickKeeps DEF Next

(* Inv holds in every state that is reached, for every number of processes, *)
(* services, identities and requests, every high-water mark and expiry,     *)
(* whatever fails and however late anything is.                             *)
THEOREM Invariance == Spec => []Inv
<1>1. Init => Inv
  BY InitInv
<1>2. Inv /\ [Next]_vars => Inv'
  BY StepKeeps
<1> QED  BY <1>1, <1>2, PTL DEF Spec

(* Every variable of the broker, of the workers, of the clients and of the  *)
(* links keeps its type.                                                    *)
THEOREM TypeCorrect == Spec => []TypeOK
<1>1. Inv => TypeOK
  BY DEF Inv
<1> QED  BY <1>1, Invariance, PTL

(* handleReady, handleReply and handleClientRequest never leave a worker    *)
(* and a request of the same service waiting for each other.                *)
THEOREM WorkIsConserved == Spec => []WorkConserving
<1>1. Inv => WorkConserving
  BY DEF Inv
<1> QED  BY <1>1, Invariance, PTL

(* A pool never holds a worker that the broker has purged or that is        *)
(* registered for another service.                                          *)
THEOREM PoolsAreRegistered == Spec => []IdleAreRegistered
<1>1. Inv => IdleAreRegistered
  BY DEF Inv
<1> QED  BY <1>1, Invariance, PTL

-----------------------------------------------------------------------------
LEMMA NoMoreOfAllButOldest ==
  ASSUME NEW T, NEW q \in Seq(T), NEW k \in Nat, k <= Len(q), NEW S
  PROVE  NoMore(AllButOldest(q, k), q, S)
<1> DEFINE r == AllButOldest(q, k)
<1>1. /\ Len(q) \in Nat /\ Len(r) = Len(q) - k
      /\ \A i \in 1 .. Len(q) - k : r[i] = q[i + k]
  BY AllButOldestProperties, LenProperties
<1> HIDE DEF r
<1> DEFINE f == [i \in 1 .. Len(q) - k |-> i + k]
<1>2. \A i \in Positions(r, S) :
        f[i] = i + k /\ f[i] \in Positions(q, S) /\ i \in Nat
  BY <1>1 DEF Positions
<1>3. \A i, j \in Positions(r, S) : f[i] = f[j] => i = j
  BY <1>2
<1> HIDE DEF f
<1>4. NoMore(r, q, S)
  BY <1>2, <1>3, NoMoreByMap
<1> QED
  BY <1>4 DEF r

LEMMA NoMoreOfOldest ==
  ASSUME NEW T, NEW q \in Seq(T), NEW k \in Nat, k <= Len(q), NEW S
  PROVE  NoMore(Oldest(q, k), q, S)
<1>1. /\ Len(q) \in Nat /\ Len(Oldest(q, k)) = k
      /\ \A i \in 1 .. k : Oldest(q, k)[i] = q[i]
  BY OldestProperties, LenProperties
<1>2. Positions(Oldest(q, k), S) \subseteq Positions(q, S)
  BY <1>1 DEF Positions
<1> QED
  BY <1>2 DEF NoMore, NoneOf, OneOf

LEMMA NoMoreOfLoss ==
  ASSUME NEW T, NEW q \in Seq(T), NEW read \in Nat, NEW lost \in Nat,
         read + lost <= Len(q), NEW S
  PROVE  NoMore(WithLoss(q, read, lost), q, S)
<1> DEFINE a == Oldest(q, read)
           b == AllButOldest(q, read + lost)
           r == a \o b
           f == [i \in 1 .. Len(q) - lost |-> IF i <= read THEN i ELSE i + lost]
<1>1. Len(q) \in Nat /\ read <= Len(q) /\ read + lost \in Nat
  BY LenProperties
<1>2. /\ a \in Seq(T) /\ Len(a) = read
      /\ \A i \in 1 .. read : a[i] = q[i]
  BY <1>1, OldestProperties
<1>3. /\ b \in Seq(T) /\ Len(b) = Len(q) - (read + lost)
      /\ \A i \in 1 .. Len(q) - (read + lost) : b[i] = q[i + (read + lost)]
  BY <1>1, AllButOldestProperties
<1> HIDE DEF a, b
<1>4. /\ Len(r) = Len(a) + Len(b)
      /\ \A i \in 1 .. Len(a) + Len(b) :
           r[i] = IF i <= Len(a) THEN a[i] ELSE b[i - Len(a)]
  BY <1>2, <1>3, ConcatProperties
<1> HIDE DEF r
<1>5. /\ Len(r) = Len(q) - lost
      /\ \A i \in 1 .. Len(q) - lost : f[i] \in 1 .. Len(q) /\ r[i] = q[f[i]]
  <2>1. Len(a) + Len(b) = Len(q) - lost
    BY <1>1, <1>2, <1>3
  <2>2. ASSUME NEW i \in 1 .. Len(q) - lost
        PROVE  f[i] \in 1 .. Len(q) /\ r[i] = q[f[i]]
    <3>1. CASE i <= read
      BY <1>1, <1>2, <1>4, <2>1, <3>1
    <3>2. CASE ~(i <= read)
      <4>1. i - read \in 1 .. Len(q) - (read + lost)
        BY <1>1, <3>2
      <4>2. b[i - read] = q[i - read + (read + lost)]
        BY <1>3, <4>1
      <4>3. i - read + (read + lost) = i + lost
        BY <1>1
      <4>4. r[i] = q[i + lost]
        BY <1>2, <1>4, <2>1, <3>2, <4>2, <4>3
      <4> QED
        BY <1>1, <3>2, <4>4
    <3> QED
      BY <3>1, <3>2
  <2> QED
    BY <1>4, <2>1, <2>2
<1>6. \A i, j \in 1 .. Len(q) - lost : f[i] = f[j] => i = j
  BY <1>1
<1> HIDE DEF f
<1>7. \A i \in Positions(r, S) :
        i \in 1 .. Len(q) - lost /\ f[i] \in Positions(q, S)
  BY <1>5 DEF Positions
<1>8. NoMore(r, q, S)
  BY <1>6, <1>7, NoMoreByMap
<1> QED
  BY <1>8 DEF WithLoss, r, a, b

(* std::erase_if keeps each position once.                                  *)
LEMMA NoMoreOfErase ==
  ASSUME NEW T, NEW q \in Seq(T), NEW W, NEW S
  PROVE  NoMore(Erase(q, W), q, S)
<1> DEFINE keep == {i \in 1 .. Len(q) : q[i] \notin W}
           f == [k \in 1 .. Cardinality(keep) |-> Nth(keep, k)]
<1>1. keep \in SUBSET (1 .. Len(q)) /\ Len(q) \in Nat
  BY LenProperties
<1>2. Erase(q, W) = Pick(q, keep)
  BY DEF Erase
<1> HIDE DEF keep
<1>3. ASSUME NEW k \in 1 .. Cardinality(keep)
      PROVE  Nth(keep, k) \in keep
             /\ Cardinality({j \in keep : j <= Nth(keep, k)}) = k
  <2>1. \E i \in keep : Cardinality({j \in keep : j <= i}) = k
    BY <1>1, RankExists
  <2> QED
    BY <2>1, Zenon DEF Nth
<1>4. Len(Pick(q, keep)) = Cardinality(keep)
  BY <1>1, PickProperties
<1>5. \A k \in 1 .. Cardinality(keep) : Pick(q, keep)[k] = q[f[k]]
  BY DEF Pick
<1>6. \A k \in 1 .. Cardinality(keep) : f[k] \in 1 .. Len(q)
  BY <1>1, <1>3
<1>7. \A k, l \in 1 .. Cardinality(keep) : f[k] = f[l] => k = l
  BY <1>3
<1> HIDE DEF f
<1>8. \A k \in Positions(Pick(q, keep), S) :
        k \in 1 .. Cardinality(keep) /\ f[k] \in Positions(q, S)
  BY <1>4, <1>5, <1>6 DEF Positions
<1> QED
  BY <1>2, <1>7, <1>8, NoMoreByMap

(* What a ROUTER makes of a queue: it may drop the newest messages.         *)
LEMMA NoMoreOfRouted ==
  ASSUME NEW T, NEW q \in Seq(T), NEW m \in Seq(T), NEW id, NEW hwm \in Nat,
         NEW S
  PROVE  LET r == Routed(id, q, m, hwm)
         IN  /\ NoneOf(m, S) => NoMore(r, q, S)
             /\ NoneOf(q, S) /\ OneOf(m, S) => OneOf(r, S)
             /\ NoneOf(q, S) /\ NoneOf(m, S) => NoneOf(r, S)
<1> DEFINE k == MinOf(hwm, Len(q) + Len(m))
<1>1. /\ q \o m \in Seq(T) /\ Len(q \o m) = Len(q) + Len(m)
      /\ Len(q) \in Nat /\ Len(m) \in Nat
  BY ConcatProperties, LenProperties
<1>2. k \in Nat /\ k <= Len(q \o m)
  BY <1>1 DEF MinOf
<1>3. Offer(q, m, hwm) = Oldest(q \o m, k)
  BY DEF Offer, Oldest
<1> HIDE DEF k
<1>4. NoMore(Offer(q, m, hwm), q \o m, S)
  BY <1>1, <1>2, <1>3, NoMoreOfOldest
<1>5. /\ NoneOf(m, S) => NoMore(q \o m, q, S)
      /\ NoneOf(q, S) /\ OneOf(m, S) => OneOf(q \o m, S)
      /\ NoneOf(q, S) /\ NoneOf(m, S) => NoneOf(q \o m, S)
  BY NoMoreOfConcat
<1>6. Routed(id, q, m, hwm) \in {Offer(q, m, hwm), q}
  BY DEF Routed
<1>7. NoneOf(q, S) => OneOf(q, S)
  BY DEF NoneOf, OneOf
<1> QED
  BY <1>4, <1>5, <1>6, <1>7 DEF NoMore

-----------------------------------------------------------------------------
(* The tokens.                                                              *)

AskMsg == {m \in BackDownMsg : m.type = "Request"}
SayMsg == {m \in BackUpMsg : m.type \in {"Ready", "Reply"}}

(* The worker w has at most one token in pools and queues like these.       *)
Once(w, pools, asked, said) ==
  /\ \A s \in Service : OneOf(pools[s], {w})
  /\ OneOf(asked, AskMsg) /\ OneOf(said, SayMsg)
  /\ \A s, t \in Service :
       s = t \/ NoneOf(pools[s], {w}) \/ NoneOf(pools[t], {w})
  /\ \A s \in Service :
       \/ NoneOf(pools[s], {w})
       \/ NoneOf(asked, AskMsg) /\ NoneOf(said, SayMsg)
  /\ NoneOf(asked, AskMsg) \/ NoneOf(said, SayMsg)

OnceIn(pools, downs, ups) ==
  \A w \in WorkerId : Once(w, pools, downs[w], ups[w])

TokenInv == Inv /\ OnceIn(idle, backDown, backUp)

(* No two tokens of a worker means that it has at most one.                 *)
LEMMA OnceIsOne ==
  ASSUME TypeOK, OnceIn(idle, backDown, backUp)
  PROVE  OneRequestPerWorker
<1> SUFFICES ASSUME NEW w \in WorkerId
             PROVE  Cardinality(Tokens(w)) <= 1
  BY DEF OneRequestPerWorker
<1>1. /\ idle \in [Service -> Seq(WorkerId)]
      /\ backDown[w] \in Seq(BackDownMsg) /\ backUp[w] \in Seq(BackUpMsg)
  BY DEF TypeOK, BrokerTypeOK, NetTypeOK
<1>2. /\ \A i \in 1 .. Len(backDown[w]) : backDown[w][i] \in BackDownMsg
      /\ \A i \in 1 .. Len(backUp[w]) : backUp[w][i] \in BackUpMsg
  BY <1>1, LenProperties
<1> DEFINE In(s) == {<<"idle", s>>} \X {i \in 1 .. Len(idle[s]) : idle[s][i] = w}
           Entries == UNION {In(s) : s \in Service}
           Asks == {<<"backDown", i>> : i \in {j \in 1 .. Len(backDown[w]) :
                                            backDown[w][j].type = "Request"}}
           Says == {<<"backUp", i>> : i \in {j \in 1 .. Len(backUp[w]) :
                                   backUp[w][j].type \in {"Ready", "Reply"}}}
<1>3. ASSUME NEW x \in Tokens(w)
      PROVE  \/ \E s \in Service : \E i \in Positions(idle[s], {w}) :
                  x = <<<<"idle", s>>, i>>
             \/ \E i \in Positions(backDown[w], AskMsg) : x = <<"backDown", i>>
             \/ \E i \in Positions(backUp[w], SayMsg) : x = <<"backUp", i>>
  <2>1. Tokens(w) = Entries \cup Asks \cup Says
    BY DEF Tokens
  <2>2. CASE x \in Entries
    <3>1. PICK s \in Service : x \in In(s)
      <4> HIDE DEF In
      <4> QED
        BY <2>2
    <3> QED
      BY <3>1 DEF Positions
  <2>3. CASE x \in Asks
    BY <1>2, <2>3 DEF Positions, AskMsg
  <2>4. CASE x \in Says
    BY <1>2, <2>4 DEF Positions, SayMsg
  <2> HIDE DEF Entries, Asks, Says
  <2> QED
    BY <2>1, <2>2, <2>3, <2>4
<1> HIDE DEF In, Entries, Asks, Says
<1>4. ASSUME NEW x \in Tokens(w), NEW y \in Tokens(w)
      PROVE  x = y
  <2>1. Once(w, idle, backDown[w], backUp[w])
    BY DEF OnceIn
  <2>2. CASE \E s \in Service : \E i \in Positions(idle[s], {w}) :
               x = <<<<"idle", s>>, i>>
    <3>1. PICK s \in Service : \E i \in Positions(idle[s], {w}) :
                 x = <<<<"idle", s>>, i>>
      BY <2>2
    <3>2. /\ ~NoneOf(idle[s], {w}) /\ OneOf(idle[s], {w})
          /\ NoneOf(backDown[w], AskMsg) /\ NoneOf(backUp[w], SayMsg)
          /\ \A t \in Service : t = s \/ NoneOf(idle[t], {w})
      BY <2>1, <3>1 DEF Once, NoneOf
    <3>3. \E i \in Positions(idle[s], {w}) : y = <<<<"idle", s>>, i>>
      BY <1>3, <3>2 DEF NoneOf
    <3> QED
      BY <3>1, <3>2, <3>3 DEF OneOf
  <2>3. CASE \E i \in Positions(backDown[w], AskMsg) : x = <<"backDown", i>>
    <3>1. /\ ~NoneOf(backDown[w], AskMsg) /\ OneOf(backDown[w], AskMsg)
          /\ NoneOf(backUp[w], SayMsg)
          /\ \A s \in Service : NoneOf(idle[s], {w})
      BY <2>1, <2>3 DEF Once, NoneOf
    <3>2. \E i \in Positions(backDown[w], AskMsg) : y = <<"backDown", i>>
      BY <1>3, <3>1 DEF NoneOf
    <3> QED
      BY <2>3, <3>1, <3>2 DEF OneOf
  <2>4. CASE \E i \in Positions(backUp[w], SayMsg) : x = <<"backUp", i>>
    <3>1. /\ ~NoneOf(backUp[w], SayMsg) /\ OneOf(backUp[w], SayMsg)
          /\ NoneOf(backDown[w], AskMsg)
          /\ \A s \in Service : NoneOf(idle[s], {w})
      BY <2>1, <2>4 DEF Once, NoneOf
    <3>2. \E i \in Positions(backUp[w], SayMsg) : y = <<"backUp", i>>
      BY <1>3, <3>1 DEF NoneOf
    <3> QED
      BY <2>4, <3>1, <3>2 DEF OneOf
  <2> QED
    BY <1>3, <2>2, <2>3, <2>4
<1>5. CASE Tokens(w) = {}
  BY <1>5, FS_EmptySet
<1>6. CASE Tokens(w) # {}
  <2>1. PICK x \in Tokens(w) : TRUE
    BY <1>6
  <2>2. Tokens(w) = {x}
    BY <1>4, <2>1
  <2>3. Cardinality({x}) = 1
    BY FS_Singleton
  <2> QED
    BY <2>2, <2>3
<1> QED
  BY <1>5, <1>6

(* Nothing added, nothing wrong.                                            *)
LEMMA OnceOfFewer ==
  ASSUME NEW pools, NEW downs, NEW ups, NEW pools2, NEW downs2, NEW ups2,
         OnceIn(pools, downs, ups),
         \A w \in WorkerId : \A s \in Service : NoMore(pools2[s], pools[s], {w}),
         \A w \in WorkerId : NoMore(downs2[w], downs[w], AskMsg),
         \A w \in WorkerId : NoMore(ups2[w], ups[w], SayMsg)
  PROVE  OnceIn(pools2, downs2, ups2)
<1> SUFFICES ASSUME NEW w \in WorkerId
             PROVE  Once(w, pools2, downs2[w], ups2[w])
  BY DEF OnceIn
<1>1. Once(w, pools, downs[w], ups[w])
  BY DEF OnceIn
<1> QED
  BY <1>1 DEF Once, NoMore

-----------------------------------------------------------------------------
(* sendPendingRequests: the oldest idle workers leave the pool, and each is *)
(* sent one request at most, as it stood there once.                        *)
LEMMA SendPendingOnce ==
  ASSUME TypeOK, NEW s \in Service,
         NEW idles \in Seq(WorkerId), NEW reqs \in Seq(PendingRequest),
         SendPendingRequests(s, idles, reqs), NEW ups,
         OnceIn([idle EXCEPT ![s] = idles], backDown, ups)
  PROVE  OnceIn(idle', backDown', ups)
<1> DEFINE n == MinOf(Len(idles), Len(reqs))
           pools == [idle EXCEPT ![s] = idles]
           At(w) == {k \in 1 .. n : idles[k] = w}
           msgs(w) == Forward(reqs, At(w))
<1>1. /\ Len(idles) \in Nat /\ Len(reqs) \in Nat
      /\ n \in Nat /\ n <= Len(idles) /\ n <= Len(reqs)
  BY LenProperties DEF MinOf
<1>2. /\ idle' = [idle EXCEPT ![s] = AllButOldest(idles, n)]
      /\ backDown' = [w \in WorkerId |-> Routed(w, backDown[w], msgs(w), BackHwm)]
  BY DEF SendPendingRequests, AllButOldest
<1>3. /\ idle \in [Service -> Seq(WorkerId)]
      /\ backDown \in [WorkerId -> Seq(BackDownMsg)]
      /\ BackHwm \in Nat
  BY NetAssumption DEF TypeOK, BrokerTypeOK, NetTypeOK
<1> HIDE DEF n
<1>4. ASSUME NEW w \in WorkerId
      PROVE  /\ NoneOf(idles, {w}) => At(w) = {}
             /\ ~NoneOf(idles, {w}) /\ OneOf(idles, {w}) =>
                  \/ At(w) = {}
                  \/ NoneOf(AllButOldest(idles, n), {w})
                     /\ \A i, j \in At(w) : i = j
  <2>1. \A i \in At(w) : i \in Positions(idles, {w}) /\ i \in 1 .. n
    BY <1>1 DEF Positions
  <2>2. /\ Len(AllButOldest(idles, n)) = Len(idles) - n
        /\ \A i \in 1 .. Len(idles) - n :
             AllButOldest(idles, n)[i] = idles[i + n]
    BY <1>1, AllButOldestProperties
  <2>3. \A i \in Positions(AllButOldest(idles, n), {w}) :
          i + n \in Positions(idles, {w}) /\ i >= 1 /\ i \in Nat
    BY <1>1, <2>2 DEF Positions
  <2>4. ASSUME NoneOf(idles, {w})  PROVE At(w) = {}
    BY <2>1, <2>4 DEF NoneOf
  <2>5. ASSUME OneOf(idles, {w}), At(w) # {}
        PROVE  /\ NoneOf(AllButOldest(idles, n), {w})
               /\ \A i, j \in At(w) : i = j
    <3>1. PICK k \in At(w) : TRUE
      BY <2>5
    <3> HIDE DEF At
    <3>2. \A i \in Positions(AllButOldest(idles, n), {w}) : i + n = k
      BY <2>1, <2>3, <2>5, <3>1 DEF OneOf
    <3>3. k \in Nat /\ k <= n
      BY <1>1, <2>1, <3>1
    <3>4. \A i \in Positions(AllButOldest(idles, n), {w}) : FALSE
      <4> TAKE i \in Positions(AllButOldest(idles, n), {w})
      <4>1. i + n = k
        BY <3>2
      <4>2. i \in Nat /\ i >= 1
        BY <2>3
      <4> QED
        BY <1>1, <3>3, <4>1, <4>2
    <3>5. \A i, j \in At(w) : i = j
      BY <2>1, <2>5 DEF OneOf
    <3> QED
      BY <3>4, <3>5 DEF NoneOf
  <2> HIDE DEF At
  <2> QED
    BY <2>4, <2>5
<1>5. ASSUME NEW w \in WorkerId
      PROVE  /\ msgs(w) \in Seq(BackDownMsg)
             /\ Len(msgs(w)) = Cardinality(At(w))
             /\ Cardinality(At(w)) \in Nat
             /\ At(w) = {} => Cardinality(At(w)) = 0
             /\ (\A i, j \in At(w) : i = j) => Cardinality(At(w)) <= 1
  <2>1. At(w) \in SUBSET (1 .. Len(reqs))
    <3>1. \A i \in At(w) : i \in 1 .. n
      OBVIOUS
    <3> QED
      BY <1>1, <3>1
  <2> HIDE DEF At
  <2>2. /\ Pick(reqs, At(w)) \in Seq(PendingRequest)
        /\ Len(Pick(reqs, At(w))) = Cardinality(At(w))
        /\ Cardinality(At(w)) \in 0 .. Len(reqs)
    BY <2>1, PickProperties, Zenon
  <2>3. Cardinality(At(w)) \in Nat
    BY <1>1, <2>2
  <2>4. \A k \in 1 .. Cardinality(At(w)) : Pick(reqs, At(w))[k] \in PendingRequest
    BY <2>2, LenProperties
  <2>5. \A r \in PendingRequest :
          WorkerRequest(r.client, r.body) \in BackDownMsg
    BY DEF PendingRequest, WorkerRequest, BackDownMsg
  <2>6. msgs(w) \in [1 .. Cardinality(At(w)) -> BackDownMsg]
    BY <2>4, <2>5 DEF Forward
  <2>7. msgs(w) \in Seq(BackDownMsg)
    BY <2>3, <2>6, SeqDef
  <2>8. Len(msgs(w)) = Cardinality(At(w))
    BY <2>3, <2>6
  <2>9. At(w) = {} => Cardinality(At(w)) = 0
    BY FS_EmptySet
  <2>10. ASSUME \A i, j \in At(w) : i = j, At(w) # {}
         PROVE  Cardinality(At(w)) <= 1
    <3>1. PICK i \in At(w) : TRUE
      BY <2>10
    <3>2. At(w) = {i}
      BY <2>10, <3>1
    <3>3. Cardinality({i}) = 1
      BY FS_Singleton
    <3> QED
      BY <3>2, <3>3
  <2>11. Cardinality({}) <= 1
    BY FS_EmptySet
  <2> HIDE DEF msgs
  <2> QED
    BY <2>3, <2>7, <2>8, <2>9, <2>10, <2>11
<1>6. ASSUME NEW w \in WorkerId
      PROVE  /\ At(w) = {} => NoneOf(msgs(w), AskMsg)
             /\ (\A i, j \in At(w) : i = j) => OneOf(msgs(w), AskMsg)
  <2> HIDE DEF msgs, At
  <2>1. /\ Positions(msgs(w), AskMsg) \subseteq 1 .. Cardinality(At(w))
        /\ Cardinality(At(w)) \in Nat
    BY <1>5 DEF Positions
  <2>2. ASSUME At(w) = {}  PROVE NoneOf(msgs(w), AskMsg)
    <3>1. Cardinality(At(w)) = 0
      BY <1>5, <2>2
    <3>2. \A i \in Positions(msgs(w), AskMsg) : FALSE
      BY <2>1, <3>1
    <3> QED
      BY <3>2 DEF NoneOf
  <2>3. ASSUME \A i, j \in At(w) : i = j  PROVE OneOf(msgs(w), AskMsg)
    <3>1. Cardinality(At(w)) <= 1
      BY <1>5, <2>3
    <3>2. \A i \in Positions(msgs(w), AskMsg) : i = 1
      BY <2>1, <3>1
    <3> QED
      BY <3>2 DEF OneOf
  <2> QED
    BY <2>2, <2>3
<1> HIDE DEF msgs, At
<1>7. ASSUME NEW w \in WorkerId
      PROVE  /\ At(w) = {} => NoMore(backDown'[w], backDown[w], AskMsg)
             /\ NoneOf(backDown[w], AskMsg) /\ (\A i, j \in At(w) : i = j)
                  => OneOf(backDown'[w], AskMsg)
  <2>1. backDown'[w] = Routed(w, backDown[w], msgs(w), BackHwm)
    BY <1>2
  <2>2. backDown[w] \in Seq(BackDownMsg) /\ msgs(w) \in Seq(BackDownMsg)
    BY <1>3, <1>5
  <2> QED
    BY <1>3, <1>6, <2>1, <2>2, NoMoreOfRouted
<1>8. /\ idle'[s] = AllButOldest(idles, n) /\ pools[s] = idles
      /\ \A t \in Service \ {s} : idle'[t] = idle[t] /\ pools[t] = idle[t]
  BY <1>2, <1>3
<1>9. \A w \in WorkerId : \A t \in Service : NoMore(idle'[t], pools[t], {w})
  BY <1>1, <1>8, NoMoreOfAllButOldest, NoMoreOfSame
<1> SUFFICES ASSUME NEW w \in WorkerId
             PROVE  Once(w, idle', backDown'[w], ups[w])
  BY DEF OnceIn
<1>10. Once(w, pools, backDown[w], ups[w])
  BY DEF OnceIn
<1> HIDE DEF pools
<1>11. CASE At(w) = {}
  BY <1>7, <1>9, <1>10, <1>11 DEF Once, NoMore
<1>12. CASE At(w) # {}
  <2>1. ~NoneOf(pools[s], {w}) /\ OneOf(pools[s], {w})
    BY <1>4, <1>8, <1>10, <1>12 DEF Once
  <2>2. /\ NoneOf(backDown[w], AskMsg) /\ NoneOf(ups[w], SayMsg)
        /\ OneOf(ups[w], SayMsg)
        /\ \A t \in Service \ {s} : NoneOf(pools[t], {w})
    BY <1>10, <2>1 DEF Once
  <2>3. NoneOf(idle'[s], {w}) /\ OneOf(backDown'[w], AskMsg)
    BY <1>4, <1>7, <1>8, <1>12, <2>1, <2>2
  <2>4. \A t \in Service : NoneOf(idle'[t], {w}) /\ OneOf(idle'[t], {w})
    BY <1>9, <2>2, <2>3 DEF NoMore, NoneOf, OneOf
  <2> QED
    BY <2>2, <2>3, <2>4 DEF Once
<1> QED
  BY <1>11, <1>12

-----------------------------------------------------------------------------
(* The steps.                                                               *)

LEMMA InitOnce ==
  ASSUME Init
  PROVE  OnceIn(idle, backDown, backUp)
<1>1. /\ \A s \in Service : idle[s] = <<>>
      /\ \A w \in WorkerId : backDown[w] = <<>> /\ backUp[w] = <<>>
  BY DEF Init, BrokerInit, EmptyBroker, NetInit
<1>2. \A S : NoneOf(<<>>, S) /\ OneOf(<<>>, S)
  BY NoMoreOfEmpty
<1> QED
  BY <1>1, <1>2 DEF OnceIn, Once

LEMMA OnceUntouched ==
  ASSUME OnceIn(idle, backDown, backUp), UNCHANGED <<idle, backDown, backUp>>
  PROVE  OnceIn(idle, backDown, backUp)'
BY DEF OnceIn, Once

LEMMA HandleClientRequestOnce ==
  ASSUME TokenInv, NEW c \in ClientId, HandleClientRequest(c)
  PROVE  OnceIn(idle, backDown, backUp)'
<1> DEFINE m == Head(frontUp[c])
<1>1. /\ frontUp[c] \in Seq(FrontUpMsg) /\ frontUp[c] # <<>>
      /\ idle \in [Service -> Seq(WorkerId)]
      /\ pending \in [Service -> Seq(PendingRequest)]
      /\ services \in SUBSET Service
  BY DEF HandleClientRequest, TokenInv, Inv, TypeOK, NetTypeOK, BrokerTypeOK
<1>2. m \in FrontUpMsg
  BY <1>1, HeadTailProperties
<1>3. backUp' = backUp
  BY DEF HandleClientRequest
<1>4. CASE UNCHANGED <<idle, backDown>>
  BY <1>3, <1>4, OnceUntouched DEF TokenInv
<1>5. CASE m.type = "Request" /\ HandleKnownService(c, m.service, m.body)
  <2> DEFINE s == m.service
             reqs == Append(pending[s], [client |-> c, body |-> m.body])
  <2>1. s \in Service /\ m.body \in Body
    BY <1>1, <1>2, <1>5 DEF FrontUpMsg, HandleKnownService
  <2>2. idle[s] \in Seq(WorkerId) /\ reqs \in Seq(PendingRequest)
    <3>1. idle[s] \in Seq(WorkerId) /\ pending[s] \in Seq(PendingRequest)
      BY <1>1, <2>1
    <3>2. [client |-> c, body |-> m.body] \in PendingRequest
      BY <2>1 DEF PendingRequest
    <3> QED
      BY <3>1, <3>2, AppendProperties
  <2>3. SendPendingRequests(s, idle[s], reqs)
    BY <1>5 DEF HandleKnownService
  <2>4. [idle EXCEPT ![s] = idle[s]] = idle
    BY <1>1, <2>1
  <2> HIDE DEF s, reqs
  <2>5. OnceIn([idle EXCEPT ![s] = idle[s]], backDown, backUp) /\ TypeOK
    BY <2>4 DEF TokenInv, Inv
  <2>6. OnceIn(idle', backDown', backUp)
    BY <2>1, <2>2, <2>3, <2>5, SendPendingOnce
  <2> QED
    BY <1>3, <2>6
<1> QED
  BY <1>4, <1>5 DEF HandleClientRequest, HandleDiscovery, HandleUnknownService

(* The types of what holds the tokens.                                      *)
LEMMA TokenTypes ==
  ASSUME Inv
  PROVE  /\ TypeOK /\ BackHwm \in Nat
         /\ \A s \in Service : idle[s] \in Seq(WorkerId)
         /\ \A w \in WorkerId : /\ backDown[w] \in Seq(BackDownMsg)
                                /\ backUp[w] \in Seq(BackUpMsg)
         /\ idle \in [Service -> Seq(WorkerId)]
         /\ backDown \in [WorkerId -> Seq(BackDownMsg)]
         /\ backUp \in [WorkerId -> Seq(BackUpMsg)]
BY NetAssumption DEF Inv, TypeOK, BrokerTypeOK, NetTypeOK

(* handleReady and handleReply: the token is the message that is read, and  *)
(* becomes the entry of the worker in the pool.                             *)
LEMMA BackToPoolOnce ==
  ASSUME TokenInv, NEW w \in WorkerId, NEW s \in Service,
         backUp[w] # <<>>, Head(backUp[w]) \in SayMsg,
         backUp' = [backUp EXCEPT ![w] = Tail(@)],
         SendPendingRequests(s, Append(idle[s], w), pending[s])
  PROVE  OnceIn(idle, backDown, backUp)'
<1> DEFINE pools == [idle EXCEPT ![s] = Append(idle[s], w)]
<1>1. /\ TypeOK
      /\ \A t \in Service : idle[t] \in Seq(WorkerId)
      /\ idle \in [Service -> Seq(WorkerId)]
      /\ backUp \in [WorkerId -> Seq(BackUpMsg)]
      /\ backUp[w] \in Seq(BackUpMsg)
  BY TokenTypes DEF TokenInv
<1>2. pending[s] \in Seq(PendingRequest)
  BY <1>1 DEF TypeOK, BrokerTypeOK
<1>3. Append(idle[s], w) \in Seq(WorkerId)
  BY <1>1, AppendProperties
<1>4. /\ pools[s] = Append(idle[s], w)
      /\ \A t \in Service \ {s} : pools[t] = idle[t]
  BY <1>1
<1>5. /\ backUp'[w] = Tail(backUp[w])
      /\ \A x \in WorkerId \ {w} : backUp'[x] = backUp[x]
  BY <1>1
<1> HIDE DEF pools
<1>6. OnceIn(pools, backDown, backUp')
  <2> SUFFICES ASSUME NEW x \in WorkerId
               PROVE  Once(x, pools, backDown[x], backUp'[x])
    BY DEF OnceIn
  <2>1. Once(x, idle, backDown[x], backUp[x])
    BY DEF TokenInv, OnceIn
  <2>2. CASE x = w
    <3>1. 1 \in Positions(backUp[w], SayMsg)
      BY <1>1, LenProperties, HeadTailProperties, EmptySeq DEF Positions
    <3>2. /\ OneOf(backUp[w], SayMsg) /\ NoneOf(backDown[w], AskMsg)
          /\ OneOf(backDown[w], AskMsg)
          /\ \A t \in Service : NoneOf(idle[t], {w}) /\ OneOf(idle[t], {w})
      BY <2>1, <2>2, <3>1 DEF Once, NoneOf
    <3>3. NoneOf(backUp'[w], SayMsg)
      BY <1>1, <1>5, <3>2, NoMoreOfTail
    <3>4. OneOf(backUp'[w], SayMsg)
      BY <3>3 DEF NoneOf, OneOf
    <3>5. OneOf(pools[s], {w})
      <4>1. idle[s] \in Seq(WorkerId) /\ NoneOf(idle[s], {w})
        BY <1>1, <3>2
      <4>2. OneOf(Append(idle[s], w), {w})
        BY <4>1, NoMoreOfAppend
      <4> QED
        BY <1>4, <4>2
    <3> QED
      BY <1>4, <2>2, <3>2, <3>3, <3>4, <3>5 DEF Once
  <2>3. CASE x # w
    <3>1. \A t \in Service : NoMore(pools[t], idle[t], {x})
      <4>1. NoMore(pools[s], idle[s], {x})
        BY <1>1, <1>4, <2>3, NoMoreOfAppend
      <4> QED
        BY <1>4, <4>1, NoMoreOfSame
    <3>2. backUp'[x] = backUp[x]
      BY <1>5, <2>3
    <3> QED
      BY <2>1, <3>1, <3>2 DEF Once, NoMore
  <2> QED
    BY <2>2, <2>3
<1>7. OnceIn(idle', backDown', backUp')
  BY <1>1, <1>2, <1>3, <1>6, SendPendingOnce DEF pools
<1> QED
  BY <1>7

LEMMA HandleWorkerResponseOnce ==
  ASSUME TokenInv, NEW w \in WorkerId, HandleWorkerResponse(w)
  PROVE  OnceIn(idle, backDown, backUp)'
<1> DEFINE m == Head(backUp[w])
<1>1. /\ \A s \in Service : idle[s] \in Seq(WorkerId)
      /\ \A x \in WorkerId : /\ backDown[x] \in Seq(BackDownMsg)
                             /\ backUp[x] \in Seq(BackUpMsg)
      /\ idle \in [Service -> Seq(WorkerId)]
      /\ backDown \in [WorkerId -> Seq(BackDownMsg)]
      /\ backUp \in [WorkerId -> Seq(BackUpMsg)]
      /\ BackHwm \in Nat
  BY TokenTypes DEF TokenInv
<1>2. backUp[w] # <<>> /\ backUp' = [backUp EXCEPT ![w] = Tail(@)]
  BY DEF HandleWorkerResponse
<1>3. m \in BackUpMsg
  BY <1>1, <1>2, HeadTailProperties
<1>4. ASSUME m.type = "Ready", HandleReady(w, m.service)
      PROVE  OnceIn(idle, backDown, backUp)'
  <2>1. m \in SayMsg /\ m.service \in Service
    BY <1>3, <1>4 DEF SayMsg, BackUpMsg
  <2> QED
    BY <1>2, <1>4, <2>1, BackToPoolOnce DEF HandleReady
<1>5. ASSUME m.type = "Reply", HandleReply(w, m.client, m.body)
      PROVE  OnceIn(idle, backDown, backUp)'
  <2>1. m \in SayMsg
    BY <1>3, <1>5 DEF SayMsg
  <2>2. registered[w] \in Service
    BY <1>5 DEF HandleReply, Registered, TokenInv, Inv, TypeOK, BrokerTypeOK
  <2> QED
    BY <1>2, <1>5, <2>1, <2>2, BackToPoolOnce DEF HandleReply
<1>6. \A x \in WorkerId : NoMore(backUp'[x], backUp[x], SayMsg)
  <2>1. NoMore(Tail(backUp[w]), backUp[w], SayMsg)
    BY <1>1, <1>2, NoMoreOfTail
  <2> QED
    BY <1>1, <1>2, <2>1, NoMoreOfSame
<1>7. ASSUME HandleHeartbeat(w) \/ HandleUnregistered(w) \/ HandleDisconnect(w)
      PROVE  OnceIn(idle, backDown, backUp)'
  <2>1. \A x \in WorkerId : \A s \in Service : NoMore(idle'[s], idle[s], {x})
    <3>1. CASE UNCHANGED idle
      BY <3>1, NoMoreOfSame
    <3>2. CASE HandleDisconnect(w)
      <4> DEFINE W == {w}
      <4>1. idle' = [s \in Service |->
                       IF s = registered[w] THEN Erase(idle[s], W) ELSE idle[s]]
        BY <3>2 DEF HandleDisconnect
      <4> HIDE DEF W
      <4>2. \A x \in WorkerId : \A s \in Service :
              NoMore(Erase(idle[s], W), idle[s], {x})
        BY <1>1, NoMoreOfErase
      <4> QED
        BY <4>1, <4>2, NoMoreOfSame
    <3> QED
      BY <1>7, <3>1, <3>2 DEF HandleHeartbeat, HandleUnregistered
  <2>2. \A x \in WorkerId : NoMore(backDown'[x], backDown[x], AskMsg)
    <3>1. CASE UNCHANGED backDown
      BY <3>1, NoMoreOfSame
    <3>2. CASE HandleUnregistered(w)
      <4> DEFINE out == <<Disconnect>>
      <4>1. out \in Seq(BackDownMsg)
        BY DEF Disconnect, BackDownMsg
      <4>2. NoneOf(out, AskMsg)
        BY NoneOfOne DEF Disconnect, AskMsg
      <4>3. backDown' = [backDown EXCEPT
                           ![w] = Routed(w, backDown[w], out, BackHwm)]
        BY <3>2 DEF HandleUnregistered, SendDisconnect
      <4> HIDE DEF out
      <4>4. NoMore(Routed(w, backDown[w], out, BackHwm), backDown[w], AskMsg)
        BY <1>1, <4>1, <4>2, NoMoreOfRouted
      <4> QED
        BY <1>1, <4>3, <4>4, NoMoreOfSame
    <3> QED
      BY <1>7, <3>1, <3>2 DEF HandleHeartbeat, HandleDisconnect
  <2>3. OnceIn(idle', backDown', backUp')
    BY <1>6, <2>1, <2>2, OnceOfFewer DEF TokenInv
  <2> QED
    BY <2>3
<1> QED
  BY <1>4, <1>5, <1>7 DEF HandleWorkerResponse

(* The purge and the heartbeats.                                            *)
LEMMA HousekeepingOnce ==
  ASSUME TokenInv, Housekeeping
  PROVE  OnceIn(idle, backDown, backUp)'
<1> DEFINE gone == [s \in Service |-> {w \in Expired : registered[w] = s}]
           beat == <<Heartbeat>>
<1>1. /\ \A s \in Service : idle[s] \in Seq(WorkerId)
      /\ \A w \in WorkerId : backDown[w] \in Seq(BackDownMsg)
      /\ BackHwm \in Nat
  BY TokenTypes DEF TokenInv
<1>2. /\ idle' = [s \in Service |-> Erase(idle[s], gone[s])]
      /\ backDown' = [w \in WorkerId |->
                        IF beatDue /\ w \in Registered \ Expired
                          THEN Routed(w, backDown[w], beat, BackHwm)
                          ELSE backDown[w]]
      /\ backUp' = backUp
  BY DEF Housekeeping, PurgeExpiredWorker, SendHeartbeat
<1>3. beat \in Seq(BackDownMsg)
  BY DEF Heartbeat, BackDownMsg
<1>4. NoneOf(beat, AskMsg)
  BY NoneOfOne DEF Heartbeat, AskMsg
<1> HIDE DEF gone, beat
<1>5. \A w \in WorkerId : \A s \in Service : NoMore(idle'[s], idle[s], {w})
  BY <1>1, <1>2, NoMoreOfErase
<1>6. \A w \in WorkerId : NoMore(backDown'[w], backDown[w], AskMsg)
  <2> SUFFICES ASSUME NEW w \in WorkerId
               PROVE  NoMore(backDown'[w], backDown[w], AskMsg)
    OBVIOUS
  <2>1. NoMore(Routed(w, backDown[w], beat, BackHwm), backDown[w], AskMsg)
    BY <1>1, <1>3, <1>4, NoMoreOfRouted
  <2> QED
    BY <1>2, <2>1, NoMoreOfSame
<1>7. \A w \in WorkerId : NoMore(backUp'[w], backUp[w], SayMsg)
  BY <1>2, NoMoreOfSame
<1>8. OnceIn(idle', backDown', backUp')
  BY <1>5, <1>6, <1>7, OnceOfFewer DEF TokenInv
<1> QED
  BY <1>8

(* The broker's maps are gone, and part of every queue.                     *)
LEMMA BrokerFailsOnce ==
  ASSUME TokenInv, BrokerFails
  PROVE  OnceIn(idle, backDown, backUp)'
<1>1. PICK bu \in Cuts(backUp, BackHwm), bd \in Cuts(backDown, BackHwm),
           fu \in Cuts(frontUp, FrontHwm), fd \in Cuts(frontDown, FrontHwm) :
             BrokerCrash(bu, bd, fu, fd)
  BY DEF BrokerFails
<1>2. /\ \A w \in WorkerId : /\ backDown[w] \in Seq(BackDownMsg)
                             /\ backUp[w] \in Seq(BackUpMsg)
      /\ backDown \in [WorkerId -> Seq(BackDownMsg)]
      /\ backUp \in [WorkerId -> Seq(BackUpMsg)]
      /\ BackHwm \in Nat
  BY TokenTypes DEF TokenInv
<1>3. \A w \in WorkerId : /\ bu[w] \in Nat /\ bu[w] <= Len(backUp[w])
                          /\ bd[w] \in Nat /\ bd[w] <= Len(backDown[w])
  BY <1>2 DEF Cuts
<1>4. /\ \A s \in Service : idle'[s] = <<>>
      /\ \A w \in WorkerId : /\ backUp'[w] = AllButOldest(backUp[w], bu[w])
                             /\ backDown'[w] = Oldest(backDown[w], bd[w])
  BY <1>1 DEF BrokerCrash, EmptyBroker
<1>5. \A w \in WorkerId : \A s \in Service : NoMore(idle'[s], idle[s], {w})
  BY <1>4, NoMoreOfEmpty
<1>6. \A w \in WorkerId : /\ NoMore(backDown'[w], backDown[w], AskMsg)
                          /\ NoMore(backUp'[w], backUp[w], SayMsg)
  BY <1>2, <1>3, <1>4, NoMoreOfOldest, NoMoreOfAllButOldest
<1>7. OnceIn(idle', backDown', backUp')
  BY <1>5, <1>6, OnceOfFewer DEF TokenInv
<1> QED
  BY <1>7

(* A worker's socket is gone: the broker reads a part of what it said.      *)
LEMMA WorkerEndsOnce ==
  ASSUME TokenInv, NEW p \in WorkerProc, NEW left, WorkerEnds(p, left),
         UNCHANGED brokerVars, NoMore(left, backUp[wId[p]], SayMsg)
  PROVE  OnceIn(idle, backDown, backUp)'
<1>1. /\ backUp' = [backUp EXCEPT ![wId[p]] = left]
      /\ backDown' = [backDown EXCEPT ![wId[p]] = <<>>]
      /\ idle' = idle
  BY DEF WorkerEnds, brokerVars
<1>2. /\ backDown \in [WorkerId -> Seq(BackDownMsg)]
      /\ backUp \in [WorkerId -> Seq(BackUpMsg)]
  BY TokenTypes DEF TokenInv
<1>3. \A w \in WorkerId : \A s \in Service : NoMore(idle'[s], idle[s], {w})
  BY <1>1, NoMoreOfSame
<1>4. \A w \in WorkerId : NoMore(backDown'[w], backDown[w], AskMsg)
  BY <1>1, <1>2, NoMoreOfSame, NoMoreOfEmpty
<1>5. \A w \in WorkerId : NoMore(backUp'[w], backUp[w], SayMsg)
  BY <1>1, <1>2, NoMoreOfSame
<1>6. OnceIn(idle', backDown', backUp')
  BY <1>3, <1>4, <1>5, OnceOfFewer DEF TokenInv
<1> QED
  BY <1>6

LEMMA WorkerFailsOnce ==
  ASSUME TokenInv, NEW p \in WorkerProc, WorkerFails(p) \/ WorkerLeaves(p)
  PROVE  OnceIn(idle, backDown, backUp)'
<1> DEFINE q == backUp[wId[p]]
<1>1. UNCHANGED brokerVars /\ wPhase[p] # "off"
  BY DEF WorkerFails, WorkerLeaves, WorkerCrash, WorkerLeave, WorkerEnds
<1>2. q \in Seq(BackUpMsg)
  BY <1>1, TokenTypes DEF TokenInv, Inv, PhasesAgree
<1>3. ASSUME WorkerFails(p)  PROVE OnceIn(idle, backDown, backUp)'
  <2>1. PICK n \in 0 .. BackHwm : WorkerCrash(p, n)
    BY <1>3 DEF WorkerFails
  <2>2. WorkerEnds(p, Oldest(q, n)) /\ n <= Len(q) /\ n \in Nat
    BY <1>1, <2>1, NetAssumption DEF WorkerCrash
  <2>3. NoMore(Oldest(q, n), q, SayMsg)
    <3> HIDE DEF q
    <3> QED
      BY <1>2, <2>2, NoMoreOfOldest
  <2> QED
    BY <1>1, <2>2, <2>3, WorkerEndsOnce
<1>4. ASSUME WorkerLeaves(p)  PROVE OnceIn(idle, backDown, backUp)'
  <2>1. WorkerEnds(p, Append(q, Disconnect))
    BY <1>4 DEF WorkerLeaves, WorkerLeave
  <2>2. Disconnect \in BackUpMsg /\ Disconnect \notin SayMsg
    BY DEF Disconnect, BackUpMsg, SayMsg
  <2>3. NoMore(Append(q, Disconnect), q, SayMsg)
    <3> HIDE DEF q
    <3> QED
      BY <1>2, <2>2, NoMoreOfAppend
  <2> QED
    BY <1>1, <2>1, <2>3, WorkerEndsOnce
<1> QED
  BY <1>3, <1>4

LEMMA BackLinkFailsOnce ==
  ASSUME TokenInv, NEW w \in WorkerId, BackLinkFails(w)
  PROVE  OnceIn(idle, backDown, backUp)'
<1>1. PICK read \in 0 .. BackHwm, lost \in 0 .. BackHwm, kept \in 0 .. BackHwm :
        BackConnectionReset(w, read, lost, kept)
  BY DEF BackLinkFails
<1>2. /\ read + lost <= Len(backUp[w]) /\ kept <= Len(backDown[w])
      /\ backUp' = [backUp EXCEPT ![w] = WithLoss(@, read, lost)]
      /\ backDown' = [backDown EXCEPT ![w] = Oldest(@, kept)]
      /\ idle' = idle
  BY <1>1 DEF BackLinkFails, BackConnectionReset, brokerVars
<1>3. /\ backDown \in [WorkerId -> Seq(BackDownMsg)]
      /\ backUp \in [WorkerId -> Seq(BackUpMsg)]
      /\ backDown[w] \in Seq(BackDownMsg) /\ backUp[w] \in Seq(BackUpMsg)
      /\ read \in Nat /\ lost \in Nat /\ kept \in Nat
  BY TokenTypes, NetAssumption DEF TokenInv
<1>4. NoMore(WithLoss(backUp[w], read, lost), backUp[w], SayMsg)
  BY <1>2, <1>3, NoMoreOfLoss
<1>5. NoMore(Oldest(backDown[w], kept), backDown[w], AskMsg)
  BY <1>2, <1>3, NoMoreOfOldest
<1>6. \A x \in WorkerId : /\ NoMore(backDown'[x], backDown[x], AskMsg)
                          /\ NoMore(backUp'[x], backUp[x], SayMsg)
  BY <1>2, <1>3, <1>4, <1>5, NoMoreOfSame
<1>7. \A x \in WorkerId : \A s \in Service : NoMore(idle'[s], idle[s], {x})
  BY <1>2, NoMoreOfSame
<1>8. OnceIn(idle', backDown', backUp')
  BY <1>6, <1>7, OnceOfFewer DEF TokenInv
<1> QED
  BY <1>8

(* connect(): the first token of a fresh identity is its Ready.             *)
LEMMA ConnectOnce ==
  ASSUME TokenInv, NEW p \in WorkerProc, NEW id \in FreshWorkerId, NEW n \in Nat,
         Connect(p, id, n), UNCHANGED brokerVars
  PROVE  OnceIn(idle, backDown, backUp)'
<1> DEFINE old == wId[p]
           first == <<Ready(ServiceOf[p])>>
<1>1. /\ \A s \in Service : idle[s] \in Seq(WorkerId)
      /\ \A w \in WorkerId : backUp[w] \in Seq(BackUpMsg)
      /\ NoId \notin WorkerId
  BY TokenTypes, WorkerAssumption DEF TokenInv
<1>2. /\ old # NoId => n <= Len(backUp[old])
      /\ \A w \in WorkerId :
           /\ backUp'[w] = IF w = id THEN first
                           ELSE IF w = old THEN Oldest(backUp[w], n)
                           ELSE backUp[w]
           /\ backDown'[w] = IF w \in {id, old} THEN <<>> ELSE backDown[w]
      /\ idle' = idle
  BY DEF Connect, brokerVars
<1>3. id \in WorkerId /\ \A s \in Service : NoneOf(idle[s], {id})
  BY DEF FreshWorkerId, NoneOf, Positions
<1>4. OneOf(first, SayMsg)
  BY NoneOfOne
<1> HIDE DEF old, first
<1>5. Once(id, idle', backDown'[id], backUp'[id])
  <2>1. NoneOf(backDown'[id], AskMsg) /\ OneOf(backDown'[id], AskMsg)
    BY <1>2, <1>3, NoMoreOfEmpty
  <2>2. OneOf(backUp'[id], SayMsg)
    BY <1>2, <1>3, <1>4
  <2>3. \A s \in Service : NoneOf(idle'[s], {id}) /\ OneOf(idle'[s], {id})
    BY <1>2, <1>3 DEF NoneOf, OneOf
  <2> QED
    BY <2>1, <2>2, <2>3 DEF Once
<1>6. ASSUME NEW w \in WorkerId, w # id
      PROVE  Once(w, idle', backDown'[w], backUp'[w])
  <2>1. NoMore(backUp'[w], backUp[w], SayMsg)
    <3>1. w = old => NoMore(Oldest(backUp[w], n), backUp[w], SayMsg)
      BY <1>1, <1>2, NoMoreOfOldest
    <3> QED
      BY <1>2, <1>6, <3>1, NoMoreOfSame
  <2>2. NoMore(backDown'[w], backDown[w], AskMsg)
    BY <1>2, NoMoreOfSame, NoMoreOfEmpty
  <2>3. Once(w, idle, backDown[w], backUp[w])
    BY DEF TokenInv, OnceIn
  <2> QED
    BY <1>2, <2>1, <2>2, <2>3 DEF Once, NoMore
<1>7. OnceIn(idle', backDown', backUp')
  BY <1>5, <1>6 DEF OnceIn
<1> QED
  BY <1>7

(* An iteration that keeps the connection: a heartbeat is no token.         *)
LEMMA FinishIterationOnce ==
  ASSUME Inv, NEW p \in WorkerProc, wPhase[p] = "polling",
         NEW msgs \in Seq(BackUpMsg), OneOf(msgs, SayMsg),
         FinishIteration(p, msgs)
  PROVE  LET w == wId[p]
         IN  /\ w \in WorkerId
             /\ \A x \in WorkerId \ {w} : backUp'[x] = backUp[x]
             /\ NoneOf(msgs, SayMsg) => NoMore(backUp'[w], backUp[w], SayMsg)
             /\ NoneOf(backUp[w], SayMsg) => OneOf(backUp'[w], SayMsg)
<1> DEFINE w == wId[p]
           beat == IF elapsed[p] THEN <<Heartbeat>> ELSE <<>>
           out == msgs \o beat
<1>1. w \in WorkerId
  BY DEF Inv, PhasesAgree
<1>2. backUp \in [WorkerId -> Seq(BackUpMsg)] /\ backUp[w] \in Seq(BackUpMsg)
  BY <1>1, TokenTypes
<1>3. backUp' = [backUp EXCEPT ![w] = @ \o out]
  BY DEF FinishIteration
<1>4. beat \in Seq(BackUpMsg) /\ NoneOf(beat, SayMsg)
  <2>1. <<Heartbeat>> \in Seq(BackUpMsg) /\ <<>> \in Seq(BackUpMsg)
    BY EmptySeq DEF Heartbeat, BackUpMsg
  <2>2. NoneOf(<<Heartbeat>>, SayMsg) /\ NoneOf(<<>>, SayMsg)
    BY NoneOfOne, NoMoreOfEmpty DEF Heartbeat, SayMsg
  <2> QED
    BY <2>1, <2>2
<1> HIDE DEF beat
<1>5. out \in Seq(BackUpMsg)
  BY <1>4, ConcatProperties
<1>6. OneOf(out, SayMsg) /\ (NoneOf(msgs, SayMsg) => NoneOf(out, SayMsg))
  BY <1>4, NoMoreOfConcat DEF NoMore
<1> HIDE DEF out, w
<1>7. /\ NoneOf(msgs, SayMsg) => NoMore(backUp[w] \o out, backUp[w], SayMsg)
      /\ NoneOf(backUp[w], SayMsg) => OneOf(backUp[w] \o out, SayMsg)
  BY <1>2, <1>5, <1>6, NoMoreOfConcat
<1>8. /\ backUp'[w] = backUp[w] \o out
      /\ \A x \in WorkerId \ {w} : backUp'[x] = backUp[x]
  BY <1>1, <1>2, <1>3
<1> QED
  BY <1>1, <1>7, <1>8 DEF w

LEMMA WorkerReceiveOnce ==
  ASSUME TokenInv, NEW p \in WorkerProc, WorkerReceive(p), UNCHANGED brokerVars
  PROVE  OnceIn(idle, backDown, backUp)'
<1> DEFINE w == wId[p]
           m == Head(backDown[w])
<1>1. /\ wPhase[p] = "polling" /\ backDown[w] # <<>> /\ idle' = idle
      /\ backDown' = [backDown EXCEPT ![w] = Tail(@)]
  BY DEF WorkerReceive, brokerVars
<1>2. w \in WorkerId /\ Inv
  BY <1>1 DEF TokenInv, Inv, PhasesAgree
<1>3. /\ backDown \in [WorkerId -> Seq(BackDownMsg)]
      /\ backDown[w] \in Seq(BackDownMsg)
  BY <1>2, TokenTypes
<1>4. m \in BackDownMsg
  BY <1>1, <1>3, HeadTailProperties
<1>5. \A x \in WorkerId : NoMore(backDown'[x], backDown[x], AskMsg)
  <2>1. NoMore(Tail(backDown[w]), backDown[w], AskMsg)
    BY <1>1, <1>3, NoMoreOfTail
  <2> QED
    BY <1>1, <1>3, <2>1, NoMoreOfSame
<1>6. ASSUME m.type = "Heartbeat", FinishIteration(p, <<>>)
      PROVE  OnceIn(idle, backDown, backUp)'
  <2>1. /\ NoneOf(<<>>, SayMsg) /\ OneOf(<<>>, SayMsg)
        /\ <<>> \in Seq(BackUpMsg)
    BY NoMoreOfEmpty, EmptySeq
  <2>2. /\ \A x \in WorkerId \ {w} : backUp'[x] = backUp[x]
        /\ NoMore(backUp'[w], backUp[w], SayMsg)
    BY <1>1, <1>2, <1>6, <2>1, FinishIterationOnce
  <2>3. \A x \in WorkerId : NoMore(backUp'[x], backUp[x], SayMsg)
    BY <2>2, NoMoreOfSame
  <2>4. \A x \in WorkerId : \A s \in Service : NoMore(idle'[s], idle[s], {x})
    BY <1>1, NoMoreOfSame
  <2>5. OnceIn(idle', backDown', backUp')
    BY <1>5, <2>3, <2>4, OnceOfFewer DEF TokenInv
  <2> QED
    BY <2>5
<1>7. ASSUME m.type = "Request",
             FinishIteration(p, <<WorkerReply(m.client, m.body)>>)
      PROVE  OnceIn(idle, backDown, backUp)'
  <2> DEFINE out == <<WorkerReply(m.client, m.body)>>
  <2>1. out \in Seq(BackUpMsg)
    BY <1>4, <1>7 DEF BackDownMsg, WorkerReply, BackUpMsg
  <2>2. OneOf(out, SayMsg)
    BY NoneOfOne
  <2> HIDE DEF out
  <2>3. /\ \A x \in WorkerId \ {w} : backUp'[x] = backUp[x]
        /\ NoneOf(backUp[w], SayMsg) => OneOf(backUp'[w], SayMsg)
    BY <1>1, <1>2, <1>7, <2>1, <2>2, FinishIterationOnce DEF out
  <2>4. Once(w, idle, backDown[w], backUp[w])
    BY <1>2 DEF TokenInv, OnceIn
  <2>5. m \in AskMsg /\ 1 \in Positions(backDown[w], AskMsg)
    <3>1. m \in AskMsg
      BY <1>4, <1>7 DEF AskMsg
    <3> QED
      BY <1>1, <1>3, <3>1, LenProperties, HeadTailProperties, EmptySeq
      DEF Positions
  <2>6. /\ OneOf(backDown[w], AskMsg) /\ NoneOf(backUp[w], SayMsg)
        /\ \A s \in Service : NoneOf(idle[s], {w}) /\ OneOf(idle[s], {w})
    BY <2>4, <2>5 DEF Once, NoneOf
  <2>7. NoneOf(backDown'[w], AskMsg)
    BY <1>1, <1>2, <1>3, <2>5, <2>6, NoMoreOfTail
  <2>8. OneOf(backDown'[w], AskMsg)
    BY <2>7 DEF NoneOf, OneOf
  <2>9. Once(w, idle', backDown'[w], backUp'[w])
    <3>1. OneOf(backUp'[w], SayMsg)
      BY <2>3, <2>6
    <3>2. \A s \in Service : NoneOf(idle'[s], {w}) /\ OneOf(idle'[s], {w})
      BY <1>1, <2>6
    <3> QED
      BY <2>7, <2>8, <3>1, <3>2 DEF Once
  <2>10. ASSUME NEW x \in WorkerId, x # w
         PROVE  Once(x, idle', backDown'[x], backUp'[x])
    <3>1. backUp'[x] = backUp[x] /\ backDown'[x] = backDown[x]
      BY <1>1, <1>3, <2>3, <2>10
    <3> QED
      BY <1>1, <3>1 DEF TokenInv, OnceIn
  <2>11. OnceIn(idle', backDown', backUp')
    BY <2>9, <2>10 DEF OnceIn
  <2> QED
    BY <2>11
<1> QED
  BY <1>6, <1>7 DEF WorkerReceive

LEMMA WorkerMissedOnce ==
  ASSUME TokenInv, NEW p \in WorkerProc, WorkerMissed(p), UNCHANGED brokerVars
  PROVE  OnceIn(idle, backDown, backUp)'
<1>1. /\ wPhase[p] = "polling" /\ FinishIteration(p, <<>>)
      /\ idle' = idle /\ backDown' = backDown /\ Inv
  BY DEF WorkerMissed, PollTimedOut, brokerVars, TokenInv
<1>2. /\ NoneOf(<<>>, SayMsg) /\ OneOf(<<>>, SayMsg)
      /\ <<>> \in Seq(BackUpMsg)
  BY NoMoreOfEmpty, EmptySeq
<1>3. /\ \A x \in WorkerId \ {wId[p]} : backUp'[x] = backUp[x]
      /\ NoMore(backUp'[wId[p]], backUp[wId[p]], SayMsg)
  BY <1>1, <1>2, FinishIterationOnce
<1>4. \A x \in WorkerId : /\ NoMore(backUp'[x], backUp[x], SayMsg)
                          /\ NoMore(backDown'[x], backDown[x], AskMsg)
  BY <1>1, <1>3, NoMoreOfSame
<1>5. \A x \in WorkerId : \A s \in Service : NoMore(idle'[s], idle[s], {x})
  BY <1>1, NoMoreOfSame
<1>6. OnceIn(idle', backDown', backUp')
  BY <1>4, <1>5, OnceOfFewer DEF TokenInv
<1> QED
  BY <1>6

LEMMA WorkerStepOnce ==
  ASSUME TokenInv, NEW p \in WorkerProc, WorkerStep(p) \/ StartWorker(p)
  PROVE  OnceIn(idle, backDown, backUp)'
<1>1. UNCHANGED brokerVars
  BY DEF WorkerStep, StartWorker
<1>2. ASSUME WorkerSleep(p)  PROVE OnceIn(idle, backDown, backUp)'
  BY <1>1, <1>2, OnceUntouched DEF WorkerSleep, netVars, brokerVars, TokenInv
<1>3. ASSUME NEW id \in FreshWorkerId, NEW n \in 0 .. BackHwm,
             Connect(p, id, n)
      PROVE  OnceIn(idle, backDown, backUp)'
  <2>1. n \in Nat
    BY NetAssumption
  <2> QED
    BY <1>1, <1>3, <2>1, ConnectOnce
<1>4. ASSUME StartWorker(p)  PROVE OnceIn(idle, backDown, backUp)'
  <2>1. 0 \in 0 .. BackHwm
    BY NetAssumption
  <2> QED
    BY <1>3, <1>4, <2>1 DEF StartWorker, WorkerStart
<1> QED
  BY <1>1, <1>2, <1>3, <1>4, WorkerReceiveOnce, WorkerMissedOnce
  DEF WorkerStep, WorkerReconnect, WorkerWake

(* A client has nothing to do with the tokens.                              *)
LEMMA ClientStepUntouched ==
  ASSUME NEW q \in ClientProc,
         ClientStep(q) \/ StartClient(q) \/ ClientFails(q)
  PROVE  UNCHANGED <<idle, backDown, backUp>>
<1>1. UNCHANGED idle
  BY DEF ClientStep, StartClient, ClientFails, brokerVars
<1>2. UNCHANGED <<backDown, backUp>>
  <2>1. ASSUME ClientStep(q)  PROVE UNCHANGED <<backDown, backUp>>
    BY <2>1 DEF ClientStep, ClientPong, HandleResponse, ClientPingTimeout,
       ClientResume, ClientSend, ClientReceive,
       ClientRecvTimeout, ClientExit, ClientEnds, ClientSocket, netVars
  <2>2. ASSUME StartClient(q) \/ ClientFails(q)
        PROVE  UNCHANGED <<backDown, backUp>>
    BY <2>2 DEF StartClient, ClientFails, ClientStart, ClientCrash, ClientEnds,
       ClientSocket
  <2> QED
    BY <2>1, <2>2
<1> QED
  BY <1>1, <1>2

-----------------------------------------------------------------------------
(* The system.                                                              *)

(* Every step of the system, of whatever process, keeps the invariant.      *)
LEMMA StepKeepsTokens == TokenInv /\ [Next]_vars => TokenInv'
<1> SUFFICES ASSUME TokenInv, [Next]_vars
             PROVE  OnceIn(idle, backDown, backUp)'
  BY StepKeeps DEF TokenInv
<1>1. ASSUME UNCHANGED <<idle, backDown, backUp>>
      PROVE  OnceIn(idle, backDown, backUp)'
  BY <1>1, OnceUntouched DEF TokenInv
<1>2. ASSUME BrokerStep  PROVE OnceIn(idle, backDown, backUp)'
  <2>1. ASSUME BrokerWait  PROVE UNCHANGED <<idle, backDown, backUp>>
    BY <2>1 DEF BrokerWait, netVars
  <2> QED
    BY <1>1, <1>2, <2>1, HandleWorkerResponseOnce, HandleClientRequestOnce,
       HousekeepingOnce DEF BrokerStep, BrokerNext
<1>3. ASSUME Fault  PROVE OnceIn(idle, backDown, backUp)'
  <2>1. ASSUME NEW c \in ClientId, FrontLinkFails(c)
        PROVE  UNCHANGED <<idle, backDown, backUp>>
    BY <2>1 DEF FrontLinkFails, FrontConnectionReset, brokerVars
  <2> QED
    BY <1>1, <1>3, <2>1, BrokerFailsOnce, WorkerFailsOnce, BackLinkFailsOnce,
       ClientStepUntouched DEF Fault
<1>4. ASSUME StartBroker \/ Tick \/ UNCHANGED vars
      PROVE  OnceIn(idle, backDown, backUp)'
  BY <1>1, <1>4 DEF StartBroker, BrokerStart, Tick, BrokerTick, vars, netVars,
     brokerVars
<1> QED
  BY <1>1, <1>2, <1>3, <1>4, WorkerStepOnce, ClientStepUntouched DEF Next, Step

(* A worker never holds two requests and never stands twice in a pool:      *)
(* every request it gets is one it asked for with a Ready or a Reply, for   *)
(* every number of processes, whatever is lost and whoever is purged.       *)
THEOREM WorkersHoldOneRequest == Spec => []OneRequestPerWorker
<1>1. Init => TokenInv
  BY InitInv, InitOnce DEF TokenInv
<1>2. TokenInv /\ [Next]_vars => TokenInv'
  BY StepKeepsTokens
<1>3. TokenInv => OneRequestPerWorker
  BY OnceIsOne DEF TokenInv, Inv
<1> QED
  BY <1>1, <1>2, <1>3, PTL DEF Spec
-----------------------------------------------------------------------------
(* The services.                                                            *)

(* What stands in the wrong place: a client's request under another service *)
(* than the one it wants, a pending request in the queue of another         *)
(* service, a Request for a worker that provides s and a Ready of one that  *)
(* does not.                                                                *)
Misaddressed ==
  {m \in FrontUpMsg : m.type = "Request" /\ WantOf[m.body[1]] # m.service}
Mislaid(s) == {r \in PendingRequest : WantOf[r.body[1]] # s}
Foreign(s) == {m \in BackDownMsg : m.type = "Request" /\ WantOf[m.body[1]] # s}
OtherReady(s) == {m \in BackUpMsg : m.type = "Ready" /\ m.service # s}

Sorted ==
  /\ \A c \in ClientId : NoneOf(frontUp[c], Misaddressed)
  /\ \A s \in Service : NoneOf(pending[s], Mislaid(s))

(* All that the broker and the link know of the identity w fits s.          *)
Fits(w, s) ==
  /\ registered[w] \in {NoService, s}
  /\ NoneOf(backUp[w], OtherReady(s))
  /\ NoneOf(backDown[w], Foreign(s))

(* An identity that a process has is its own, and is connected.             *)
Own ==
  \A p \in WorkerProc : wId[p] \in WorkerId =>
    /\ wId[p] \in peers
    /\ \A r \in WorkerProc : wId[r] = wId[p] => r = p

AllFit == \A p \in WorkerProc : wId[p] \in WorkerId => Fits(wId[p], ServiceOf[p])

ServiceInv == Inv /\ Sorted /\ Own /\ AllFit

(* sendPendingRequests: a request goes to a worker of the pool it was       *)
(* pending for.                                                             *)
LEMMA SendPendingFits ==
  ASSUME TypeOK, NEW s \in Service,
         NEW idles \in Seq(WorkerId), NEW reqs \in Seq(PendingRequest),
         SendPendingRequests(s, idles, reqs), NoneOf(reqs, Mislaid(s))
  PROVE  /\ (\A t \in Service \ {s} : NoneOf(pending[t], Mislaid(t)))
              => \A t \in Service : NoneOf(pending'[t], Mislaid(t))
         /\ \A w \in WorkerId : \A u \in Service :
              /\ \A i \in 1 .. Len(idles) : idles[i] = w => u = s
              /\ NoneOf(backDown[w], Foreign(u))
              => NoneOf(backDown'[w], Foreign(u))
<1> DEFINE n == MinOf(Len(idles), Len(reqs))
           At(w) == {k \in 1 .. n : idles[k] = w}
           msgs(w) == Forward(reqs, At(w))
<1>1. /\ Len(idles) \in Nat /\ Len(reqs) \in Nat
      /\ n \in Nat /\ n <= Len(idles) /\ n <= Len(reqs)
  BY LenProperties DEF MinOf
<1>2. /\ pending' = [pending EXCEPT ![s] = AllButOldest(reqs, n)]
      /\ backDown' = [w \in WorkerId |-> Routed(w, backDown[w], msgs(w), BackHwm)]
  BY DEF SendPendingRequests, AllButOldest
<1>3. /\ pending \in [Service -> Seq(PendingRequest)]
      /\ backDown \in [WorkerId -> Seq(BackDownMsg)]
      /\ BackHwm \in Nat
  BY NetAssumption DEF TypeOK, BrokerTypeOK, NetTypeOK
<1> HIDE DEF n
<1>4. ASSUME \A t \in Service \ {s} : NoneOf(pending[t], Mislaid(t))
      PROVE  \A t \in Service : NoneOf(pending'[t], Mislaid(t))
  <2>1. NoneOf(AllButOldest(reqs, n), Mislaid(s))
    BY <1>1, NoMoreOfAllButOldest DEF NoMore
  <2> QED
    BY <1>2, <1>3, <1>4, <2>1
<1>5. ASSUME NEW w \in WorkerId, NEW u \in Service,
             \A i \in 1 .. Len(idles) : idles[i] = w => u = s,
             NoneOf(backDown[w], Foreign(u))
      PROVE  NoneOf(backDown'[w], Foreign(u))
  <2>1. At(w) \in SUBSET (1 .. Len(reqs)) /\ (u # s => At(w) = {})
    <3>1. \A i \in At(w) : i \in 1 .. n /\ idles[i] = w
      OBVIOUS
    <3> QED
      BY <1>1, <1>5, <3>1
  <2> HIDE DEF At
  <2>2. /\ Pick(reqs, At(w)) \in Seq(PendingRequest)
        /\ Len(Pick(reqs, At(w))) = Cardinality(At(w))
        /\ Cardinality(At(w)) \in 0 .. Len(reqs)
    BY <2>1, PickProperties, Zenon
  <2>3. Cardinality(At(w)) \in Nat
    BY <1>1, <2>2
  <2>4. \A k \in 1 .. Cardinality(At(w)) : Pick(reqs, At(w))[k] \in PendingRequest
    BY <2>2, LenProperties
  <2>5. \A r \in PendingRequest :
          WorkerRequest(r.client, r.body) \in BackDownMsg
    BY DEF PendingRequest, WorkerRequest, BackDownMsg
  <2>6. msgs(w) \in [1 .. Cardinality(At(w)) -> BackDownMsg]
    BY <2>4, <2>5 DEF Forward
  <2>7. msgs(w) \in Seq(BackDownMsg) /\ Len(msgs(w)) = Cardinality(At(w))
    BY <2>3, <2>6, SeqDef
  <2>8. NoMore(Pick(reqs, At(w)), reqs, Mislaid(s))
    BY <2>1, NoMoreOfPick
  <2>9. ASSUME NEW k \in 1 .. Cardinality(At(w))  PROVE msgs(w)[k] \notin Foreign(u)
    <3> DEFINE r == Pick(reqs, At(w))[k]
    <3>1. r \in PendingRequest /\ r \notin Mislaid(s)
      BY <2>2, <2>4, <2>8 DEF NoMore, NoneOf, Positions
    <3>2. msgs(w)[k] = WorkerRequest(r.client, r.body)
      BY DEF Forward
    <3>3. u = s
      <4>1. At(w) = {} => Cardinality(At(w)) = 0
        BY FS_EmptySet
      <4> QED
        BY <2>1, <4>1
    <3> HIDE DEF r, msgs
    <3> QED
      BY <3>1, <3>2, <3>3 DEF Mislaid, Foreign, WorkerRequest
  <2> HIDE DEF msgs
  <2>10. NoneOf(msgs(w), Foreign(u))
    BY <2>7, <2>9 DEF NoneOf, Positions
  <2>11. backDown'[w] = Routed(w, backDown[w], msgs(w), BackHwm)
    BY <1>2
  <2> QED
    BY <1>3, <1>5, <2>7, <2>10, <2>11, NoMoreOfRouted
<1> QED
  BY <1>4, <1>5

(* What is in a pool is registered for it.                                  *)
LEMMA PoolFits ==
  ASSUME Inv, NEW w \in WorkerId, NEW u \in Service, registered[w] \in {NoService, u},
         NEW s \in Service, NEW i \in 1 .. Len(idle[s]), idle[s][i] = w
  PROVE  u = s
<1>1. registered[w] = s
  BY DEF Inv, IdleAreRegistered
<1> QED
  BY <1>1, BrokerAssumption

(* What the steps of the broker have to leave to the workers and clients.   *)
BrokerKeepsFits ==
  /\ Sorted'
  /\ \A w \in WorkerId : \A u \in Service : Fits(w, u) => Fits(w, u)'

LEMMA FitsKept ==
  ASSUME Sorted,
         \A c \in ClientId : NoMore(frontUp'[c], frontUp[c], Misaddressed),
         \A s \in Service : NoMore(pending'[s], pending[s], Mislaid(s)),
         \A w \in WorkerId :
           /\ registered'[w] \in {NoService, registered[w]}
           /\ \A u \in Service :
                /\ NoMore(backUp'[w], backUp[w], OtherReady(u))
                /\ NoMore(backDown'[w], backDown[w], Foreign(u))
  PROVE  BrokerKeepsFits
<1>1. Sorted'
  BY DEF Sorted, NoMore, Misaddressed, Mislaid
<1>2. ASSUME NEW w \in WorkerId, NEW u \in Service, Fits(w, u)
      PROVE  Fits(w, u)'
  BY <1>2 DEF Fits, NoMore, OtherReady, Foreign
<1> QED
  BY <1>1, <1>2 DEF BrokerKeepsFits

LEMMA HandleClientRequestFits ==
  ASSUME Inv, Sorted, NEW c \in ClientId, HandleClientRequest(c)
  PROVE  BrokerKeepsFits
<1> DEFINE m == Head(frontUp[c])
<1>1. /\ frontUp \in [ClientId -> Seq(FrontUpMsg)]
      /\ frontUp[c] \in Seq(FrontUpMsg) /\ frontUp[c] # <<>>
      /\ \A s \in Service : idle[s] \in Seq(WorkerId) /\ pending[s] \in Seq(PendingRequest)
      /\ services \in SUBSET Service /\ TypeOK
  BY DEF HandleClientRequest, Inv, TypeOK, NetTypeOK, BrokerTypeOK
<1>2. m \in FrontUpMsg /\ m \notin Misaddressed
  <2>1. m \in FrontUpMsg /\ 1 \in 1 .. Len(frontUp[c]) /\ m = frontUp[c][1]
    BY <1>1, HeadTailProperties, LenProperties, EmptySeq
  <2> QED
    BY <2>1 DEF Sorted, NoneOf, Positions
<1>3. UNCHANGED <<registered, backUp>> /\ frontUp' = [frontUp EXCEPT ![c] = Tail(@)]
  BY DEF HandleClientRequest
<1>4. \A d \in ClientId : NoMore(frontUp'[d], frontUp[d], Misaddressed)
  <2>1. NoMore(Tail(frontUp[c]), frontUp[c], Misaddressed)
    BY <1>1, NoMoreOfTail
  <2> QED
    BY <1>1, <1>3, <2>1, NoMoreOfSame
<1>5. CASE UNCHANGED <<pending, backDown>>
  BY <1>3, <1>4, <1>5, NoMoreOfSame, FitsKept
<1>6. CASE m.type = "Request" /\ HandleKnownService(c, m.service, m.body)
  <2> DEFINE s == m.service
             r == [client |-> c, body |-> m.body]
             reqs == Append(pending[s], r)
  <2>1. s \in Service /\ m.body \in Body
    BY <1>1, <1>2, <1>6 DEF FrontUpMsg, HandleKnownService
  <2>2. r \in PendingRequest /\ r \notin Mislaid(s)
    BY <1>2, <1>6, <2>1 DEF PendingRequest, Mislaid, Misaddressed
  <2>3. SendPendingRequests(s, idle[s], reqs)
    BY <1>6 DEF HandleKnownService
  <2>4. idle[s] \in Seq(WorkerId) /\ pending[s] \in Seq(PendingRequest)
    BY <1>1, <2>1
  <2>5. NoneOf(pending[s], Mislaid(s))
    BY <2>1 DEF Sorted
  <2> HIDE DEF s, r
  <2>6. reqs \in Seq(PendingRequest) /\ NoneOf(reqs, Mislaid(s))
    BY <2>2, <2>4, <2>5, AppendProperties, NoMoreOfAppend
  <2> HIDE DEF reqs
  <2>7. /\ \A t \in Service : NoneOf(pending'[t], Mislaid(t))
        /\ \A w \in WorkerId : \A u \in Service :
             /\ \A i \in 1 .. Len(idle[s]) : idle[s][i] = w => u = s
             /\ NoneOf(backDown[w], Foreign(u))
             => NoneOf(backDown'[w], Foreign(u))
    BY <1>1, <2>1, <2>3, <2>4, <2>6, SendPendingFits DEF Sorted
  <2>8. Sorted'
    BY <1>4, <2>7 DEF Sorted, NoMore, Misaddressed, Mislaid
  <2>9. ASSUME NEW w \in WorkerId, NEW u \in Service, Fits(w, u)  PROVE Fits(w, u)'
    <3>1. \A i \in 1 .. Len(idle[s]) : idle[s][i] = w => u = s
      BY <2>1, <2>9, PoolFits DEF Fits
    <3>2. NoneOf(backDown'[w], Foreign(u))
      BY <2>7, <2>9, <3>1 DEF Fits
    <3> QED
      BY <1>3, <2>9, <3>2 DEF Fits, OtherReady, Foreign
  <2> QED
    BY <2>8, <2>9 DEF BrokerKeepsFits
<1> QED
  BY <1>5, <1>6 DEF HandleClientRequest, HandleDiscovery, HandleUnknownService

(* handleReady and handleReply: w joins the pool of s, for which it is      *)
(* registered by now.                                                       *)
LEMMA BackToPoolFits ==
  ASSUME Inv, Sorted, NEW w \in WorkerId, NEW s \in Service,
         SendPendingRequests(s, Append(idle[s], w), pending[s]),
         backUp[w] # <<>>, backUp' = [backUp EXCEPT ![w] = Tail(@)],
         UNCHANGED frontUp,
         registered' = [registered EXCEPT ![w] = s],
         \/ registered[w] = s
         \/ Head(backUp[w]).type = "Ready" /\ Head(backUp[w]).service = s
  PROVE  BrokerKeepsFits
<1> DEFINE idles == Append(idle[s], w)
<1>1. /\ TypeOK
      /\ idle[s] \in Seq(WorkerId) /\ pending[s] \in Seq(PendingRequest)
      /\ backUp \in [WorkerId -> Seq(BackUpMsg)] /\ backUp[w] \in Seq(BackUpMsg)
      /\ registered \in [WorkerId -> Service \cup {NoService}]
  BY DEF Inv, TypeOK, NetTypeOK, BrokerTypeOK
<1>2. /\ idles \in Seq(WorkerId) /\ Len(idle[s]) \in Nat
      /\ Len(idles) = Len(idle[s]) + 1 /\ idles[Len(idle[s]) + 1] = w
      /\ \A i \in 1 .. Len(idle[s]) : idles[i] = idle[s][i]
  BY <1>1, AppendProperties, LenProperties
<1> HIDE DEF idles
<1>3. /\ \A t \in Service : NoneOf(pending'[t], Mislaid(t))
      /\ \A x \in WorkerId : \A u \in Service :
           /\ \A i \in 1 .. Len(idles) : idles[i] = x => u = s
           /\ NoneOf(backDown[x], Foreign(u))
           => NoneOf(backDown'[x], Foreign(u))
  <2>1. SendPendingRequests(s, idles, pending[s])
    BY DEF idles
  <2>2. NoneOf(pending[s], Mislaid(s))
    BY DEF Sorted
  <2> QED
    BY <1>1, <1>2, <2>1, <2>2, SendPendingFits DEF Sorted
<1>4. Sorted'
  BY <1>3 DEF Sorted, Misaddressed, Mislaid
<1>5. ASSUME NEW x \in WorkerId, NEW u \in Service, Fits(x, u)  PROVE Fits(x, u)'
  <2>1. x = w => u = s
    <3>1. Head(backUp[w]) \in BackUpMsg /\ 1 \in 1 .. Len(backUp[w])
          /\ Head(backUp[w]) = backUp[w][1]
      BY <1>1, HeadTailProperties, LenProperties, EmptySeq
    <3>2. CASE registered[w] = s
      BY <1>5, <3>2, BrokerAssumption DEF Fits
    <3>3. ASSUME Head(backUp[w]).type = "Ready", Head(backUp[w]).service = s, x = w
          PROVE  u = s
      <4>1. Head(backUp[w]) \notin OtherReady(u)
        BY <1>5, <3>1, <3>3 DEF Fits, NoneOf, Positions
      <4> QED
        BY <3>1, <3>3, <4>1 DEF OtherReady
    <3> QED
      BY <3>2, <3>3
  <2>2. \A i \in 1 .. Len(idles) : idles[i] = x => u = s
    <3> SUFFICES ASSUME NEW i \in 1 .. Len(idles), idles[i] = x  PROVE u = s
      OBVIOUS
    <3>1. CASE i \in 1 .. Len(idle[s])
      BY <1>2, <1>5, <3>1, PoolFits DEF Fits
    <3>2. CASE i = Len(idle[s]) + 1
      BY <1>2, <2>1, <3>2
    <3> QED
      BY <1>2, <3>1, <3>2
  <2>3. NoneOf(backDown'[x], Foreign(u))
    BY <1>3, <1>5, <2>2 DEF Fits
  <2>4. NoneOf(backUp'[x], OtherReady(u))
    <3>1. NoMore(Tail(backUp[w]), backUp[w], OtherReady(u))
      BY <1>1, NoMoreOfTail
    <3> QED
      BY <1>1, <1>5, <3>1 DEF Fits, NoMore
  <2>5. registered'[x] \in {NoService, u}
    BY <1>1, <1>5, <2>1 DEF Fits
  <2> QED
    BY <2>3, <2>4, <2>5 DEF Fits, OtherReady, Foreign
<1> QED
  BY <1>4, <1>5 DEF BrokerKeepsFits

LEMMA HandleWorkerResponseFits ==
  ASSUME Inv, Sorted, NEW w \in WorkerId, HandleWorkerResponse(w)
  PROVE  BrokerKeepsFits
<1> DEFINE m == Head(backUp[w])
<1>1. /\ \A x \in WorkerId : backDown[x] \in Seq(BackDownMsg)
      /\ backDown \in [WorkerId -> Seq(BackDownMsg)]
      /\ backUp \in [WorkerId -> Seq(BackUpMsg)] /\ backUp[w] \in Seq(BackUpMsg)
      /\ registered \in [WorkerId -> Service \cup {NoService}]
      /\ BackHwm \in Nat
  BY TokenTypes DEF TypeOK, BrokerTypeOK
<1>2. /\ backUp[w] # <<>> /\ backUp' = [backUp EXCEPT ![w] = Tail(@)]
      /\ UNCHANGED frontUp
  BY DEF HandleWorkerResponse
<1>3. m \in BackUpMsg
  BY <1>1, <1>2, HeadTailProperties
<1>4. ASSUME m.type = "Ready", HandleReady(w, m.service)
      PROVE  BrokerKeepsFits
  <2>1. m.service \in Service
    BY <1>3, <1>4 DEF BackUpMsg
  <2> QED
    BY <1>2, <1>4, <2>1, BackToPoolFits DEF HandleReady
<1>5. ASSUME HandleReply(w, m.client, m.body)
      PROVE  BrokerKeepsFits
  <2>1. registered[w] \in Service
    BY <1>1, <1>5 DEF HandleReply, Registered
  <2>2. registered' = [registered EXCEPT ![w] = registered[w]]
    BY <1>1, <1>5 DEF HandleReply
  <2> QED
    BY <1>2, <1>5, <2>1, <2>2, BackToPoolFits DEF HandleReply
<1>6. ASSUME HandleHeartbeat(w) \/ HandleUnregistered(w) \/ HandleDisconnect(w)
      PROVE  BrokerKeepsFits
  <2>1. UNCHANGED <<registered, pending>>
    BY <1>6 DEF HandleHeartbeat, HandleUnregistered, HandleDisconnect
  <2>2. \A x \in WorkerId : \A u \in Service :
          NoMore(backUp'[x], backUp[x], OtherReady(u))
    <3>1. \A u \in Service : NoMore(Tail(backUp[w]), backUp[w], OtherReady(u))
      BY <1>1, <1>2, NoMoreOfTail
    <3> QED
      BY <1>1, <1>2, <3>1, NoMoreOfSame
  <2>3. \A x \in WorkerId : \A u \in Service :
          NoMore(backDown'[x], backDown[x], Foreign(u))
    <3>1. CASE UNCHANGED backDown
      BY <3>1, NoMoreOfSame
    <3>2. CASE HandleUnregistered(w)
      <4> DEFINE out == <<Disconnect>>
      <4>1. out \in Seq(BackDownMsg)
        BY DEF Disconnect, BackDownMsg
      <4>2. \A u \in Service : NoneOf(out, Foreign(u))
        BY NoneOfOne DEF Disconnect, Foreign
      <4>3. backDown' = [backDown EXCEPT
                           ![w] = Routed(w, backDown[w], out, BackHwm)]
        BY <3>2 DEF HandleUnregistered, SendDisconnect
      <4> HIDE DEF out
      <4>4. \A u \in Service :
              NoMore(Routed(w, backDown[w], out, BackHwm), backDown[w], Foreign(u))
        BY <1>1, <4>1, <4>2, NoMoreOfRouted
      <4> QED
        BY <1>1, <4>3, <4>4, NoMoreOfSame
    <3> QED
      BY <1>6, <3>1, <3>2 DEF HandleHeartbeat, HandleDisconnect
  <2> QED
    BY <1>2, <2>1, <2>2, <2>3, NoMoreOfSame, FitsKept
<1> QED
  BY <1>4, <1>5, <1>6 DEF HandleWorkerResponse

(* The purge only forgets, and a heartbeat is no request.                   *)
LEMMA HousekeepingFits ==
  ASSUME Inv, Sorted, Housekeeping
  PROVE  BrokerKeepsFits
<1> DEFINE beat == <<Heartbeat>>
<1>1. /\ \A w \in WorkerId : backDown[w] \in Seq(BackDownMsg)
      /\ BackHwm \in Nat
  BY TokenTypes
<1>2. /\ UNCHANGED <<pending, backUp, frontUp>>
      /\ \A w \in WorkerId : registered'[w] \in {NoService, registered[w]}
      /\ \A w \in WorkerId :
           backDown'[w] \in {backDown[w], Routed(w, backDown[w], beat, BackHwm)}
  BY DEF Housekeeping, PurgeExpiredWorker, SendHeartbeat
<1>3. beat \in Seq(BackDownMsg) /\ \A u \in Service : NoneOf(beat, Foreign(u))
  BY NoneOfOne DEF Heartbeat, BackDownMsg, Foreign
<1> HIDE DEF beat
<1>4. ASSUME NEW w \in WorkerId, NEW u \in Service
      PROVE  NoMore(backDown'[w], backDown[w], Foreign(u))
  <2>1. NoMore(Routed(w, backDown[w], beat, BackHwm), backDown[w], Foreign(u))
    BY <1>1, <1>3, NoMoreOfRouted
  <2> QED
    BY <1>2, <2>1, NoMoreOfSame
<1> QED
  BY <1>2, <1>4, NoMoreOfSame, FitsKept

LEMMA BrokerFailsFits ==
  ASSUME Inv, Sorted, BrokerFails
  PROVE  BrokerKeepsFits
<1>1. PICK bu \in Cuts(backUp, BackHwm), bd \in Cuts(backDown, BackHwm),
           fu \in Cuts(frontUp, FrontHwm), fd \in Cuts(frontDown, FrontHwm) :
             BrokerCrash(bu, bd, fu, fd)
  BY DEF BrokerFails
<1>2. /\ backDown \in [WorkerId -> Seq(BackDownMsg)]
      /\ backUp \in [WorkerId -> Seq(BackUpMsg)]
      /\ frontUp \in [ClientId -> Seq(FrontUpMsg)]
      /\ BackHwm \in Nat /\ FrontHwm \in Nat
  BY NetAssumption DEF Inv, TypeOK, NetTypeOK
<1>3. /\ \A w \in WorkerId : /\ bu[w] \in Nat /\ bu[w] <= Len(backUp[w])
                             /\ bd[w] \in Nat /\ bd[w] <= Len(backDown[w])
      /\ \A c \in ClientId : fu[c] \in Nat /\ fu[c] <= Len(frontUp[c])
  BY <1>2 DEF Cuts
<1>4. /\ \A s \in Service : pending'[s] = <<>>
      /\ \A w \in WorkerId : /\ backUp'[w] = AllButOldest(backUp[w], bu[w])
                             /\ backDown'[w] = Oldest(backDown[w], bd[w])
                             /\ registered'[w] = NoService
      /\ \A c \in ClientId : frontUp'[c] = AllButOldest(frontUp[c], fu[c])
  BY <1>1 DEF BrokerCrash, EmptyBroker
<1>5. \A c \in ClientId : NoMore(frontUp'[c], frontUp[c], Misaddressed)
  BY <1>2, <1>3, <1>4, NoMoreOfAllButOldest
<1>6. \A w \in WorkerId : \A u \in Service :
        /\ NoMore(backUp'[w], backUp[w], OtherReady(u))
        /\ NoMore(backDown'[w], backDown[w], Foreign(u))
  <2> TAKE w \in WorkerId
  <2> TAKE u \in Service
  <2>1. backUp[w] \in Seq(BackUpMsg) /\ backDown[w] \in Seq(BackDownMsg)
    BY <1>2
  <2>2. NoMore(AllButOldest(backUp[w], bu[w]), backUp[w], OtherReady(u))
    BY <1>3, <2>1, NoMoreOfAllButOldest
  <2>3. NoMore(Oldest(backDown[w], bd[w]), backDown[w], Foreign(u))
    BY <1>3, <2>1, NoMoreOfOldest
  <2> QED
    BY <1>4, <2>2, <2>3
<1>7. \A s \in Service : NoMore(pending'[s], pending[s], Mislaid(s))
  BY <1>4, NoMoreOfEmpty
<1> QED
  BY <1>4, <1>5, <1>6, <1>7, FitsKept

LEMMA LinkFailsFits ==
  ASSUME Inv, Sorted,
         \/ \E w \in WorkerId : BackLinkFails(w)
         \/ \E c \in ClientId : FrontLinkFails(c)
  PROVE  BrokerKeepsFits
<1>1. /\ backDown \in [WorkerId -> Seq(BackDownMsg)]
      /\ backUp \in [WorkerId -> Seq(BackUpMsg)]
      /\ frontUp \in [ClientId -> Seq(FrontUpMsg)]
      /\ BackHwm \in Nat /\ FrontHwm \in Nat
  BY NetAssumption DEF Inv, TypeOK, NetTypeOK
<1>2. UNCHANGED <<registered, pending>>
  BY DEF BackLinkFails, FrontLinkFails, brokerVars
<1>3. ASSUME NEW w \in WorkerId, BackLinkFails(w)  PROVE BrokerKeepsFits
  <2>1. PICK read \in 0 .. BackHwm, lost \in 0 .. BackHwm, kept \in 0 .. BackHwm :
          BackConnectionReset(w, read, lost, kept)
    BY <1>3 DEF BackLinkFails
  <2>2. /\ read + lost <= Len(backUp[w]) /\ kept <= Len(backDown[w])
        /\ backUp' = [backUp EXCEPT ![w] = WithLoss(@, read, lost)]
        /\ backDown' = [backDown EXCEPT ![w] = Oldest(@, kept)]
        /\ UNCHANGED frontUp
    BY <2>1 DEF BackConnectionReset
  <2>3. \A u \in Service :
          /\ NoMore(WithLoss(backUp[w], read, lost), backUp[w], OtherReady(u))
          /\ NoMore(Oldest(backDown[w], kept), backDown[w], Foreign(u))
    <3>1. read \in Nat /\ lost \in Nat /\ kept \in Nat
      BY <1>1
    <3> QED
      BY <1>1, <2>2, <3>1, NoMoreOfLoss, NoMoreOfOldest
  <2>4. \A x \in WorkerId : \A u \in Service :
          /\ NoMore(backUp'[x], backUp[x], OtherReady(u))
          /\ NoMore(backDown'[x], backDown[x], Foreign(u))
    BY <1>1, <2>2, <2>3, NoMoreOfSame
  <2> QED
    BY <1>2, <2>2, <2>4, NoMoreOfSame, FitsKept
<1>4. ASSUME NEW c \in ClientId, FrontLinkFails(c)  PROVE BrokerKeepsFits
  <2>1. PICK read \in 0 .. FrontHwm, lost \in 0 .. FrontHwm, kept \in 0 .. FrontHwm :
          FrontConnectionReset(c, read, lost, kept)
    BY <1>4 DEF FrontLinkFails
  <2>2. /\ read + lost <= Len(frontUp[c]) /\ read \in Nat /\ lost \in Nat
        /\ frontUp' = [frontUp EXCEPT ![c] = WithLoss(@, read, lost)]
        /\ UNCHANGED <<backUp, backDown>>
    BY <1>1, <2>1 DEF FrontConnectionReset
  <2>3. \A d \in ClientId : NoMore(frontUp'[d], frontUp[d], Misaddressed)
    <3>1. NoMore(WithLoss(frontUp[c], read, lost), frontUp[c], Misaddressed)
      BY <1>1, <2>2, NoMoreOfLoss
    <3> QED
      BY <1>1, <2>2, <3>1, NoMoreOfSame
  <2> QED
    BY <1>2, <2>2, <2>3, NoMoreOfSame, FitsKept
<1> QED
  BY <1>3, <1>4

(* The steps of the broker and of the network leave the processes alone.    *)
LEMMA BrokerKeepsServices ==
  ASSUME ServiceInv, BrokerKeepsFits, UNCHANGED <<wId, peers>>
  PROVE  Sorted' /\ Own' /\ AllFit'
<1>1. Own'
  BY DEF ServiceInv, Own
<1>2. ASSUME NEW p \in WorkerProc, wId'[p] \in WorkerId
      PROVE  Fits(wId[p], ServiceOf[p])'
  <2>1. wId[p] \in WorkerId /\ ServiceOf[p] \in Service /\ Fits(wId[p], ServiceOf[p])
    BY <1>2, WorkerAssumption DEF ServiceInv, AllFit
  <2>2. Fits(wId[p], ServiceOf[p])'
    BY <2>1 DEF BrokerKeepsFits, Fits
  <2> QED
    BY <2>2
<1> QED
  BY <1>1, <1>2 DEF BrokerKeepsFits, AllFit

(* connect(): the broker knows nothing of the new identity, whose Ready     *)
(* names the service of its process.                                        *)
LEMMA ConnectFits ==
  ASSUME ServiceInv, NEW p \in WorkerProc, NEW id \in FreshWorkerId, NEW n \in Nat,
         Connect(p, id, n), UNCHANGED <<registered, pending, frontUp>>
  PROVE  Sorted' /\ Own' /\ AllFit'
<1> DEFINE old == wId[p]
           first == <<Ready(ServiceOf[p])>>
<1>1. /\ wId \in [WorkerProc -> WorkerId \cup {NoId}]
      /\ id \in WorkerId /\ id \notin peers /\ registered[id] = NoService
      /\ NoId \notin WorkerId
  BY WorkerAssumption DEF FreshWorkerId, Registered, ServiceInv, Inv, TypeOK, WorkerTypeOK
<1>2. /\ peers' = (peers \ {old}) \cup {id}
      /\ \A w \in WorkerId :
           /\ backUp'[w] = IF w = id THEN first
                           ELSE IF w = old THEN Oldest(backUp[w], n)
                           ELSE backUp[w]
           /\ backDown'[w] = IF w \in {id, old} THEN <<>> ELSE backDown[w]
      /\ wId' = [wId EXCEPT ![p] = id]
  BY DEF Connect
<1>3. ASSUME NEW r \in WorkerProc, r # p, wId[r] \in WorkerId
      PROVE  wId[r] # id /\ wId[r] # old /\ wId[r] \in peers
  BY <1>1, <1>3 DEF ServiceInv, Own
<1>4. Sorted'
  BY DEF ServiceInv, Sorted, Misaddressed, Mislaid
<1>5. Own'
  BY <1>1, <1>2, <1>3 DEF ServiceInv, Own
<1>6. ASSUME NEW r \in WorkerProc, wId'[r] \in WorkerId
      PROVE  Fits(wId[r], ServiceOf[r])'
  <2>1. CASE r = p
    <3>1. NoneOf(first, OtherReady(ServiceOf[p]))
      BY NoneOfOne DEF Ready, OtherReady
    <3>2. wId'[r] = id /\ backUp'[id] = first /\ backDown'[id] = <<>>
          /\ registered'[id] = NoService
      BY <1>1, <1>2, <2>1
    <3>3. NoneOf(backDown'[id], Foreign(ServiceOf[p]))
      BY <3>2, NoMoreOfEmpty
    <3> HIDE DEF first
    <3> QED
      BY <2>1, <3>1, <3>2, <3>3 DEF Fits, OtherReady, Foreign
  <2>2. CASE r # p
    <3>1. wId'[r] = wId[r] /\ wId[r] \in WorkerId
      BY <1>1, <1>2, <1>6, <2>2
    <3>2. /\ backUp'[wId[r]] = backUp[wId[r]]
          /\ backDown'[wId[r]] = backDown[wId[r]]
      BY <1>2, <1>3, <2>2, <3>1
    <3>3. Fits(wId[r], ServiceOf[r])
      BY <3>1 DEF ServiceInv, AllFit
    <3> QED
      BY <3>1, <3>2, <3>3 DEF Fits, OtherReady, Foreign
  <2> QED
    BY <2>1, <2>2
<1> QED
  BY <1>4, <1>5, <1>6 DEF AllFit

LEMMA WorkerEndsFits ==
  ASSUME ServiceInv, NEW p \in WorkerProc, NEW left, WorkerEnds(p, left),
         UNCHANGED brokerVars
  PROVE  Sorted' /\ Own' /\ AllFit'
<1>1. /\ wId \in [WorkerProc -> WorkerId \cup {NoId}]
      /\ backUp \in [WorkerId -> Seq(BackUpMsg)]
      /\ backDown \in [WorkerId -> Seq(BackDownMsg)]
      /\ NoId \notin WorkerId
  BY WorkerAssumption DEF ServiceInv, Inv, TypeOK, WorkerTypeOK, NetTypeOK
<1>2. /\ peers' = peers \ {wId[p]}
      /\ backUp' = [backUp EXCEPT ![wId[p]] = left]
      /\ backDown' = [backDown EXCEPT ![wId[p]] = <<>>]
      /\ wId' = [wId EXCEPT ![p] = NoId]
      /\ UNCHANGED <<registered, pending, frontUp>>
  BY DEF WorkerEnds, brokerVars
<1>3. Sorted'
  BY <1>2 DEF ServiceInv, Sorted, Misaddressed, Mislaid
<1>4. ASSUME NEW r \in WorkerProc, wId'[r] \in WorkerId
      PROVE  r # p /\ wId'[r] = wId[r] /\ wId[r] # wId[p]
  BY <1>1, <1>2, <1>4 DEF ServiceInv, Own
<1>5. Own'
  BY <1>1, <1>2, <1>4 DEF ServiceInv, Own
<1>6. ASSUME NEW r \in WorkerProc, wId'[r] \in WorkerId
      PROVE  Fits(wId[r], ServiceOf[r])'
  <2>1. Fits(wId[r], ServiceOf[r]) /\ wId[r] \in WorkerId
    BY <1>4, <1>6 DEF ServiceInv, AllFit
  <2>2. /\ backUp'[wId[r]] = backUp[wId[r]]
        /\ backDown'[wId[r]] = backDown[wId[r]]
    BY <1>1, <1>2, <1>4, <1>6, <2>1
  <2> QED
    BY <1>2, <1>4, <1>6, <2>1, <2>2 DEF Fits, OtherReady, Foreign
<1> QED
  BY <1>3, <1>5, <1>6 DEF AllFit

(* An iteration that keeps the connection says no Ready.                    *)
LEMMA FinishIterationFits ==
  ASSUME Inv, NEW p \in WorkerProc, wPhase[p] = "polling",
         NEW msgs \in Seq(BackUpMsg),
         \A u \in Service : NoneOf(msgs, OtherReady(u)),
         FinishIteration(p, msgs)
  PROVE  \A w \in WorkerId : \A u \in Service :
           NoMore(backUp'[w], backUp[w], OtherReady(u))
<1> DEFINE w == wId[p]
           beat == IF elapsed[p] THEN <<Heartbeat>> ELSE <<>>
           out == msgs \o beat
<1>1. w \in WorkerId
  BY DEF Inv, PhasesAgree
<1>2. backUp \in [WorkerId -> Seq(BackUpMsg)] /\ backUp[w] \in Seq(BackUpMsg)
  BY <1>1, TokenTypes
<1>3. backUp' = [backUp EXCEPT ![w] = @ \o out]
  BY DEF FinishIteration
<1>4. beat \in Seq(BackUpMsg) /\ \A u \in Service : NoneOf(beat, OtherReady(u))
  <2>1. <<Heartbeat>> \in Seq(BackUpMsg) /\ <<>> \in Seq(BackUpMsg)
    BY EmptySeq DEF Heartbeat, BackUpMsg
  <2>2. \A u \in Service : NoneOf(<<Heartbeat>>, OtherReady(u)) /\ NoneOf(<<>>, OtherReady(u))
    BY NoneOfOne, NoMoreOfEmpty DEF Heartbeat, OtherReady
  <2> QED
    BY <2>1, <2>2
<1> HIDE DEF beat
<1>5. out \in Seq(BackUpMsg) /\ \A u \in Service : NoneOf(out, OtherReady(u))
  BY <1>4, ConcatProperties, NoMoreOfConcat
<1> HIDE DEF out, w
<1>6. \A u \in Service : NoMore(backUp[w] \o out, backUp[w], OtherReady(u))
  BY <1>2, <1>5, NoMoreOfConcat
<1> QED
  BY <1>1, <1>2, <1>3, <1>6, NoMoreOfSame

LEMMA WorkerKeepsServices ==
  ASSUME ServiceInv, NEW p \in WorkerProc,
         \/ WorkerStep(p) \/ StartWorker(p)
         \/ WorkerFails(p) \/ WorkerLeaves(p)
  PROVE  Sorted' /\ Own' /\ AllFit'
<1>1. UNCHANGED brokerVars
  BY DEF WorkerStep, StartWorker, WorkerFails, WorkerLeaves
<1>2. Inv /\ Sorted
  BY DEF ServiceInv
<1>3. ASSUME NEW id \in FreshWorkerId, NEW n \in 0 .. BackHwm,
             Connect(p, id, n), UNCHANGED frontUp
      PROVE  Sorted' /\ Own' /\ AllFit'
  <2>1. n \in Nat
    BY NetAssumption
  <2> QED
    BY <1>1, <1>3, <2>1, ConnectFits DEF brokerVars
<1>4. ASSUME WorkerReceive(p)  PROVE Sorted' /\ Own' /\ AllFit'
  <2> DEFINE w == wId[p]
             m == Head(backDown[w])
  <2>1. /\ wPhase[p] = "polling" /\ backDown[w] # <<>>
        /\ backDown' = [backDown EXCEPT ![w] = Tail(@)]
        /\ UNCHANGED <<wId, peers, frontUp, registered, pending>>
    BY <1>1, <1>4 DEF WorkerReceive, brokerVars
  <2>2. w \in WorkerId
    BY <1>2, <2>1 DEF Inv, PhasesAgree
  <2>3. /\ backDown \in [WorkerId -> Seq(BackDownMsg)]
        /\ backDown[w] \in Seq(BackDownMsg)
    BY <1>2, <2>2, TokenTypes
  <2>4. m \in BackDownMsg
    BY <2>1, <2>3, HeadTailProperties
  <2>5. \A x \in WorkerId : \A u \in Service :
          NoMore(backDown'[x], backDown[x], Foreign(u))
    <3>1. \A u \in Service : NoMore(Tail(backDown[w]), backDown[w], Foreign(u))
      BY <2>1, <2>3, NoMoreOfTail
    <3> QED
      BY <2>1, <2>3, <3>1, NoMoreOfSame
  <2>6. \A x \in WorkerId : \A u \in Service :
          NoMore(backUp'[x], backUp[x], OtherReady(u))
    <3>1. CASE m.type = "Heartbeat" /\ FinishIteration(p, <<>>)
      <4>1. <<>> \in Seq(BackUpMsg) /\ \A u \in Service : NoneOf(<<>>, OtherReady(u))
        BY NoMoreOfEmpty, EmptySeq
      <4> QED
        BY <1>2, <2>1, <3>1, <4>1, FinishIterationFits
    <3>2. CASE m.type = "Request" /\ FinishIteration(p, <<WorkerReply(m.client, m.body)>>)
      <4> DEFINE out == <<WorkerReply(m.client, m.body)>>
      <4>1. out \in Seq(BackUpMsg)
        BY <2>4, <3>2 DEF BackDownMsg, WorkerReply, BackUpMsg
      <4>2. \A u \in Service : NoneOf(out, OtherReady(u))
        BY NoneOfOne DEF WorkerReply, OtherReady
      <4> HIDE DEF out
      <4> QED
        BY <1>2, <2>1, <3>2, <4>1, <4>2, FinishIterationFits DEF out
    <3> QED
      BY <1>4, <3>1, <3>2 DEF WorkerReceive
  <2>7. BrokerKeepsFits
    BY <1>2, <2>1, <2>5, <2>6, NoMoreOfSame, FitsKept
  <2> QED
    BY <2>1, <2>7, BrokerKeepsServices
<1>5. ASSUME WorkerMissed(p)  PROVE Sorted' /\ Own' /\ AllFit'
  <2>1. /\ wPhase[p] = "polling" /\ FinishIteration(p, <<>>)
        /\ UNCHANGED <<wId, peers, backDown, frontUp, registered, pending>>
    BY <1>1, <1>5 DEF WorkerMissed, PollTimedOut, brokerVars
  <2>2. <<>> \in Seq(BackUpMsg) /\ \A u \in Service : NoneOf(<<>>, OtherReady(u))
    BY NoMoreOfEmpty, EmptySeq
  <2>3. \A x \in WorkerId : \A u \in Service :
          NoMore(backUp'[x], backUp[x], OtherReady(u))
    BY <1>2, <2>1, <2>2, FinishIterationFits
  <2>4. BrokerKeepsFits
    BY <1>2, <2>1, <2>3, NoMoreOfSame, FitsKept
  <2> QED
    BY <2>1, <2>4, BrokerKeepsServices
<1>6. ASSUME WorkerSleep(p)  PROVE Sorted' /\ Own' /\ AllFit'
  <2>1. UNCHANGED <<wId, peers, backUp, backDown, frontUp, registered, pending>>
    BY <1>1, <1>6 DEF WorkerSleep, netVars, brokerVars
  <2>2. BrokerKeepsFits
    BY <1>2, <2>1, NoMoreOfSame, FitsKept
  <2> QED
    BY <2>1, <2>2, BrokerKeepsServices
<1>7. ASSUME WorkerFails(p) \/ WorkerLeaves(p)  PROVE Sorted' /\ Own' /\ AllFit'
  BY <1>1, <1>7, WorkerEndsFits DEF WorkerFails, WorkerLeaves, WorkerCrash, WorkerLeave
<1>8. ASSUME StartWorker(p)  PROVE Sorted' /\ Own' /\ AllFit'
  <2>1. 0 \in 0 .. BackHwm
    BY NetAssumption
  <2> QED
    BY <1>3, <1>8, <2>1 DEF StartWorker, WorkerStart
<1> QED
  BY <1>3, <1>4, <1>5, <1>6, <1>7, <1>8 DEF WorkerStep, WorkerReconnect, WorkerWake

(* A client names the service it wants in every request.                    *)
LEMMA ClientSocketFits ==
  ASSUME ServiceInv, NEW q \in ClientProc, NEW id \in ClientId \cup {NoClientId},
         NEW first, NoneOf(first, Misaddressed), NEW n \in Nat,
         ClientSocket(q, id, first, n), UNCHANGED <<registered, pending, wId>>
  PROVE  Sorted' /\ Own' /\ AllFit'
<1>1. /\ cId[q] \in ClientId \cup {NoClientId}
      /\ \A c \in ClientId : frontUp[c] \in Seq(FrontUpMsg)
      /\ NoClientId \notin WorkerId \cup ClientId /\ WorkerId \cap ClientId = {}
  BY NetAssumption, ClientAssumption DEF ServiceInv, Inv, TypeOK, ClientTypeOK, NetTypeOK
<1>2. /\ cId[q] # NoClientId => n <= Len(frontUp[cId[q]])
      /\ \A c \in ClientId :
           frontUp'[c] = IF c = id THEN first
                         ELSE IF c = cId[q] THEN Oldest(frontUp[c], n)
                         ELSE frontUp[c]
      /\ UNCHANGED <<backUp, backDown>>
      /\ \A w \in WorkerId : w \in peers => w \in peers'
  BY <1>1 DEF ClientSocket
<1>3. Sorted'
  <2>1. ASSUME NEW c \in ClientId  PROVE NoneOf(frontUp'[c], Misaddressed)
    <3>1. NoneOf(frontUp[c], Misaddressed)
      BY DEF ServiceInv, Sorted
    <3>2. c = cId[q] => NoneOf(Oldest(frontUp[c], n), Misaddressed)
      BY <1>1, <1>2, <3>1, NoMoreOfOldest DEF NoMore
    <3> QED
      BY <1>2, <3>1, <3>2
  <2> QED
    BY <2>1 DEF ServiceInv, Sorted, Misaddressed, Mislaid
<1>4. Own'
  BY <1>2 DEF ServiceInv, Own
<1>5. ASSUME NEW p \in WorkerProc, wId[p] \in WorkerId
      PROVE  Fits(wId[p], ServiceOf[p])'
  <2>1. Fits(wId[p], ServiceOf[p])
    BY <1>5 DEF ServiceInv, AllFit
  <2> QED
    BY <1>2, <2>1 DEF Fits, OtherReady, Foreign
<1> QED
  BY <1>3, <1>4, <1>5 DEF AllFit

LEMMA ClientKeepsServices ==
  ASSUME ServiceInv, NEW q \in ClientProc,
         ClientStep(q) \/ StartClient(q) \/ ClientFails(q)
  PROVE  Sorted' /\ Own' /\ AllFit'
<1>1. UNCHANGED <<registered, pending, wId>>
  BY DEF ClientStep, StartClient, ClientFails, brokerVars, workerVars
<1>2. Inv /\ Sorted /\ FrontHwm \in Nat
  BY NetAssumption DEF ServiceInv
<1>3. ASSUME NEW id \in ClientId \cup {NoClientId}, NEW n \in 0 .. FrontHwm,
             \/ ClientSocket(q, id, <<>>, n)
             \/ ClientSocket(q, id, <<DiscoveryRequest(Echo)>>, n)
      PROVE  Sorted' /\ Own' /\ AllFit'
  <2>1. /\ NoneOf(<<>>, Misaddressed)
        /\ NoneOf(<<DiscoveryRequest(Echo)>>, Misaddressed)
    BY NoMoreOfEmpty, NoneOfOne DEF DiscoveryRequest, Misaddressed
  <2>2. n \in Nat
    BY <1>2
  <2> QED
    BY <1>1, <1>3, <2>1, <2>2, ClientSocketFits
<1>4. ASSUME ClientPong(q) \/ ClientReceive(q) \/ ClientResume(q)
      PROVE  Sorted' /\ Own' /\ AllFit'
  <2>1. UNCHANGED <<peers, backUp, backDown, frontUp>>
    BY <1>4 DEF ClientPong, ClientReceive, HandleResponse, ClientResume, netVars
  <2>2. BrokerKeepsFits
    BY <1>1, <1>2, <2>1, NoMoreOfSame, FitsKept
  <2> QED
    BY <1>1, <2>1, <2>2, BrokerKeepsServices
<1>5. ASSUME ClientSend(q)  PROVE Sorted' /\ Own' /\ AllFit'
  <2> DEFINE c == cId[q]
             m == ClientRequest(WantOf[q], <<q, sent[q] + 1>>)
  <2>1. /\ cPhase[q] = "sending"
        /\ frontUp' = [frontUp EXCEPT ![c] = Append(@, m)]
        /\ UNCHANGED <<peers, backUp, backDown>>
    BY <1>5 DEF ClientSend
  <2>2. c \in ClientId /\ sent[q] \in Nat /\ sent[q] + 1 \in 1 .. Requests
    <3>1. sent[q] \in 0 .. Requests /\ sent[q] < Requests /\ Requests \in Nat
      BY <1>2, <2>1, NetAssumption DEF Inv, PhasesAgree, TypeOK, ClientTypeOK
    <3> QED
      BY <1>2, <2>1, <3>1 DEF Inv, PhasesAgree
  <2>3. frontUp \in [ClientId -> Seq(FrontUpMsg)] /\ frontUp[c] \in Seq(FrontUpMsg)
    BY <1>2, <2>2 DEF Inv, TypeOK, NetTypeOK
  <2>4. m \in FrontUpMsg /\ m \notin Misaddressed
    BY <2>2, ClientAssumption DEF ClientRequest, FrontUpMsg, Body, Misaddressed
  <2> HIDE DEF m, c
  <2>5. NoMore(Append(frontUp[c], m), frontUp[c], Misaddressed)
    BY <2>3, <2>4, NoMoreOfAppend
  <2>6. \A d \in ClientId : NoMore(frontUp'[d], frontUp[d], Misaddressed)
    BY <2>1, <2>2, <2>3, <2>5, NoMoreOfSame
  <2>7. BrokerKeepsFits
    BY <1>1, <1>2, <2>1, <2>6, NoMoreOfSame, FitsKept
  <2> QED
    BY <1>1, <2>1, <2>7, BrokerKeepsServices
<1>6. \A id \in FreshClientId : id \in ClientId
  BY DEF FreshClientId
<1>7. ASSUME NEW n \in 0 .. FrontHwm, ClientEnds(q, n)
      PROVE  Sorted' /\ Own' /\ AllFit'
  BY <1>3, <1>7 DEF ClientEnds
<1>8. ASSUME NEW id \in FreshClientId, NEW n \in 0 .. FrontHwm,
             ClientPingTimeout(q, id, n) \/ ClientRecvTimeout(q, id, n)
      PROVE  Sorted' /\ Own' /\ AllFit'
  BY <1>3, <1>6, <1>8 DEF ClientPingTimeout, ClientRecvTimeout
<1>9. ASSUME NEW id \in FreshClientId, ClientStart(q, id)
      PROVE  Sorted' /\ Own' /\ AllFit'
  <2>1. 0 \in 0 .. FrontHwm
    BY <1>2
  <2> QED
    BY <1>3, <1>6, <1>9, <2>1 DEF ClientStart
<1> QED
  BY <1>4, <1>5, <1>7, <1>8, <1>9
  DEF ClientStep, StartClient, ClientFails, ClientExit, ClientCrash

LEMMA InitServices == Init => ServiceInv
<1> SUFFICES ASSUME Init  PROVE ServiceInv
  OBVIOUS
<1>1. /\ \A c \in ClientId : frontUp[c] = <<>>
      /\ \A s \in Service : pending[s] = <<>>
      /\ \A p \in WorkerProc : wId[p] \notin WorkerId
  BY WorkerAssumption DEF Init, NetInit, BrokerInit, EmptyBroker, WorkerInit
<1>2. Sorted
  BY <1>1, NoMoreOfEmpty DEF Sorted
<1> QED
  BY <1>1, <1>2, InitInv DEF ServiceInv, Own, AllFit

LEMMA StepKeepsServices == ServiceInv /\ [Next]_vars => ServiceInv'
<1> SUFFICES ASSUME ServiceInv, [Next]_vars
             PROVE  Sorted' /\ Own' /\ AllFit'
  BY StepKeeps DEF ServiceInv
<1>1. Inv /\ Sorted
  BY DEF ServiceInv
<1>2. ASSUME BrokerStep  PROVE Sorted' /\ Own' /\ AllFit'
  <2>1. UNCHANGED <<wId, peers>>
    BY <1>2 DEF BrokerStep, BrokerNext, BrokerWait, netVars, workerVars,
       HandleWorkerResponse, HandleClientRequest, Housekeeping
  <2>2. ASSUME BrokerWait  PROVE BrokerKeepsFits
    BY <1>1, <2>2, NoMoreOfSame, FitsKept DEF BrokerWait, netVars
  <2> QED
    BY <1>1, <1>2, <2>1, <2>2, HandleWorkerResponseFits, HandleClientRequestFits,
       HousekeepingFits, BrokerKeepsServices DEF BrokerStep, BrokerNext
<1>3. ASSUME \/ BrokerFails
             \/ \E w \in WorkerId : BackLinkFails(w)
             \/ \E c \in ClientId : FrontLinkFails(c)
      PROVE  Sorted' /\ Own' /\ AllFit'
  <2>1. UNCHANGED <<wId, peers>>
    BY <1>3 DEF BrokerFails, BrokerCrash, BackLinkFails, BackConnectionReset,
       FrontLinkFails, FrontConnectionReset, workerVars
  <2> QED
    BY <1>1, <1>3, <2>1, BrokerFailsFits, LinkFailsFits, BrokerKeepsServices
<1>4. ASSUME StartBroker \/ Tick \/ UNCHANGED vars
      PROVE  Sorted' /\ Own' /\ AllFit'
  <2>1. UNCHANGED <<wId, peers, registered, pending, backUp, backDown, frontUp>>
    BY <1>4 DEF StartBroker, BrokerStart, Tick, BrokerTick, WorkerTick, vars,
       netVars, brokerVars, workerVars
  <2>2. BrokerKeepsFits
    BY <1>1, <2>1, NoMoreOfSame, FitsKept
  <2> QED
    BY <2>1, <2>2, BrokerKeepsServices
<1> QED
  BY <1>2, <1>3, <1>4, WorkerKeepsServices, ClientKeepsServices DEF Next, Step, Fault

(* A worker is given only requests for the service it provides: whichever   *)
(* identity of its is in a pool, a Ready of its own put it there, and a     *)
(* Reply puts it back where it was registered, even if the broker forgot it *)
(* in between or a new identity took its place.                             *)
THEOREM RequestsGoToProviders == Spec => []GivenToAProvider
<1>1. ServiceInv => GivenToAProvider
  <2> SUFFICES ASSUME ServiceInv, NEW p \in WorkerProc, wPhase[p] # "off",
                      NEW i \in 1 .. Len(backDown[wId[p]]),
                      backDown[wId[p]][i].type = "Request"
               PROVE  WantOf[backDown[wId[p]][i].body[1]] = ServiceOf[p]
    BY DEF GivenToAProvider
  <2>1. wId[p] \in WorkerId
    BY DEF ServiceInv, Inv, PhasesAgree
  <2>2. NoneOf(backDown[wId[p]], Foreign(ServiceOf[p]))
    BY <2>1 DEF ServiceInv, AllFit, Fits
  <2>3. backDown[wId[p]][i] \in BackDownMsg
    <3>1. backDown[wId[p]] \in Seq(BackDownMsg)
      BY <2>1, TokenTypes DEF ServiceInv
    <3> QED
      BY <3>1, LenProperties
  <2> QED
    BY <2>2, <2>3 DEF NoneOf, Positions, Foreign
<1> QED
  BY <1>1, InitServices, StepKeepsServices, PTL DEF Spec
-----------------------------------------------------------------------------
(* Promptness.                                                              *)

(* What refreshes a registration, and what ends a connection.               *)
Beats == {m \in BackUpMsg : m.type = "Heartbeat"}
Dismissals == {m \in BackDownMsg : m.type = "Disconnect"}

(* The broker knows w, or learns of it before it reads anything else of it. *)
Known(w) ==
  registered[w] = NoService => backUp[w] # <<>> /\ Head(backUp[w]).type = "Ready"

(* The broker heard of w in this period, or heard of it in the last one and *)
(* will in this one: the heartbeat of w is due, or on its way.              *)
OnTime(w, due) ==
  registered[w] # NoService =>
    \/ ttl[w] = Expiry
    \/ ttl[w] = Expiry - 1 /\ (due \/ ~NoneOf(backUp[w], Beats))

(* A process with the identity w, n of whose polls in a row timed out, has  *)
(* missed one at most, and does not miss the next: the broker's heartbeat   *)
(* is due, or something of the broker's waits to be read.                   *)
Patient(w, due, n) ==
  /\ NoneOf(backDown[w], Dismissals)
  /\ n = 0 \/ (n = 1 /\ ~due)
  /\ due \/ n = 1 => backDown[w] # <<>> \/ (beatDue /\ registered[w] # NoService)

InTouch(w, due, n) == Known(w) /\ OnTime(w, due) /\ Patient(w, due, n)

TouchInv ==
  /\ ServiceInv
  /\ up
  /\ \A p \in WorkerProc :
       /\ wPhase[p] # "asleep"
       /\ wPhase[p] = "polling" => InTouch(wId[p], elapsed[p], missing[p])

(* The expiry of the broker is two heartbeat periods at least (3 in the     *)
(* code), gMaxMissingHeartbeats is not zero (3), a queue of the back link   *)
(* has room for a reply and a heartbeat (1000 messages), and neither the    *)
(* broker nor the back link fails.                                          *)
Punctual ==
  /\ Expiry >= 2 /\ MaxMissing >= 1 /\ BackHwm >= 2
  /\ FaultKinds \cap {"broker", "backLink"} = {}

(* What the steps of the broker have to leave to the workers.               *)
BrokerStaysInTouch ==
  \A w \in WorkerId \cap peers : \A due \in BOOLEAN : \A n \in Nat :
    InTouch(w, due, n) =>
      /\ InTouch(w, due, n)'
      /\ registered[w] # NoService => registered'[w] # NoService

(* What a ROUTER does not drop: what waits, and, to a queue that is empty,  *)
(* all it is given.                                                         *)
LEMMA RoutedSome ==
  ASSUME NEW T, NEW q \in Seq(T), NEW m \in Seq(T), NEW id, NEW hwm \in Nat, hwm > 0
  PROVE  /\ q # <<>> => Routed(id, q, m, hwm) # <<>>
         /\ id \in peers /\ m # <<>> => Routed(id, q, m, hwm) # <<>>
<1> DEFINE k == MinOf(hwm, Len(q) + Len(m))
<1>1. /\ q \o m \in Seq(T) /\ Len(q \o m) = Len(q) + Len(m)
      /\ Len(q) \in Nat /\ Len(m) \in Nat
      /\ q # <<>> => Len(q) > 0
      /\ m # <<>> => Len(m) > 0
  BY ConcatProperties, LenProperties, EmptySeq
<1>2. k \in Nat /\ k <= Len(q \o m) /\ (q # <<>> \/ m # <<>> => k > 0)
  BY <1>1 DEF MinOf
<1>3. Offer(q, m, hwm) = Oldest(q \o m, k)
  BY DEF Offer, Oldest
<1> HIDE DEF k
<1>4. Oldest(q \o m, k) \in Seq(T) /\ Len(Oldest(q \o m, k)) = k
  BY <1>1, <1>2, OldestProperties
<1>5. q # <<>> \/ m # <<>> => Offer(q, m, hwm) # <<>>
  BY <1>2, <1>3, <1>4, EmptySeq
<1> QED
  BY <1>5 DEF Routed

(* sendPendingRequests sends nothing but Requests.                          *)
LEMMA SendPendingTouches ==
  ASSUME Inv, NEW s \in Service, NEW idles \in Seq(WorkerId),
         NEW reqs \in Seq(PendingRequest), SendPendingRequests(s, idles, reqs),
         NEW w \in WorkerId
  PROVE  /\ NoneOf(backDown[w], Dismissals) => NoneOf(backDown'[w], Dismissals)
         /\ backDown[w] # <<>> => backDown'[w] # <<>>
<1> DEFINE n == MinOf(Len(idles), Len(reqs))
           I == {k \in 1 .. n : idles[k] = w}
           msgs == Forward(reqs, I)
<1>1. /\ Len(idles) \in Nat /\ Len(reqs) \in Nat
      /\ n \in Nat /\ n <= Len(reqs)
  BY LenProperties DEF MinOf
<1>2. backDown'[w] = Routed(w, backDown[w], msgs, BackHwm)
  BY DEF SendPendingRequests
<1>3. backDown[w] \in Seq(BackDownMsg) /\ BackHwm \in Nat /\ BackHwm > 0
  BY TokenTypes, NetAssumption
<1> HIDE DEF n
<1>4. I \in SUBSET (1 .. Len(reqs))
  BY <1>1
<1> HIDE DEF I
<1>5. /\ Pick(reqs, I) \in Seq(PendingRequest)
      /\ Len(Pick(reqs, I)) = Cardinality(I)
      /\ Cardinality(I) \in 0 .. Len(reqs)
  BY <1>4, PickProperties, Zenon
<1>6. Cardinality(I) \in Nat
  BY <1>1, <1>5
<1>7. \A k \in 1 .. Cardinality(I) : Pick(reqs, I)[k] \in PendingRequest
  BY <1>5, LenProperties
<1>8. \A r \in PendingRequest :
        /\ WorkerRequest(r.client, r.body) \in BackDownMsg
        /\ WorkerRequest(r.client, r.body) \notin Dismissals
  BY DEF PendingRequest, WorkerRequest, BackDownMsg, Dismissals
<1>9. /\ msgs \in [1 .. Cardinality(I) -> BackDownMsg]
      /\ \A k \in 1 .. Cardinality(I) : msgs[k] \notin Dismissals
  BY <1>7, <1>8 DEF Forward
<1>10. msgs \in Seq(BackDownMsg) /\ Len(msgs) = Cardinality(I)
  BY <1>6, <1>9, SeqDef
<1>11. NoneOf(msgs, Dismissals)
  BY <1>9, <1>10 DEF NoneOf, Positions
<1> HIDE DEF msgs
<1>12. NoneOf(backDown[w], Dismissals)
         => NoneOf(Routed(w, backDown[w], msgs, BackHwm), Dismissals)
  BY <1>3, <1>10, <1>11, NoMoreOfRouted
<1> QED
  BY <1>2, <1>3, <1>10, <1>12, RoutedSome

LEMMA InTouchUntouched ==
  ASSUME NEW w, NEW due, NEW n, InTouch(w, due, n),
         registered'[w] = registered[w], ttl'[w] = ttl[w],
         backUp'[w] = backUp[w], backDown'[w] = backDown[w], UNCHANGED beatDue
  PROVE  InTouch(w, due, n)'
BY DEF InTouch, Known, OnTime, Patient, Beats, Dismissals

LEMMA TailHasRest ==
  ASSUME NEW T, NEW q \in Seq(T), q # <<>>, NEW S, Head(q) \notin S
  PROVE  ~NoneOf(q, S) => ~NoneOf(Tail(q), S)
<1>1. /\ Len(q) \in Nat /\ Head(q) = q[1] /\ Len(Tail(q)) = Len(q) - 1
      /\ \A i \in 1 .. Len(Tail(q)) : Tail(q)[i] = q[i + 1]
  BY HeadTailProperties, LenProperties, EmptySeq
<1>2. ASSUME NEW i \in Positions(q, S)  PROVE i - 1 \in Positions(Tail(q), S)
  <2>1. i \in 1 .. Len(q) /\ q[i] \in S /\ i # 1
    BY <1>1 DEF Positions
  <2>2. i - 1 \in 1 .. Len(Tail(q)) /\ (i - 1) + 1 = i
    BY <1>1, <2>1
  <2>3. Tail(q)[i - 1] = q[i]
    BY <1>1, <2>2
  <2> QED
    BY <2>1, <2>2, <2>3 DEF Positions
<1> QED
  BY <1>2 DEF NoneOf

(* The broker forwards, and reads something else than w said, if anything.  *)
LEMMA StaysInTouch ==
  ASSUME NEW w, NEW due, NEW n, InTouch(w, due, n),
         registered'[w] = registered[w], ttl'[w] = ttl[w], UNCHANGED beatDue,
         backUp'[w] = backUp[w],
         NoneOf(backDown[w], Dismissals) => NoneOf(backDown'[w], Dismissals),
         backDown[w] # <<>> => backDown'[w] # <<>>
  PROVE  /\ InTouch(w, due, n)'
         /\ registered[w] # NoService => registered'[w] # NoService
BY DEF InTouch, Known, OnTime, Patient, Beats, Dismissals

LEMMA HandleClientRequestTouches ==
  ASSUME Inv, NEW c \in ClientId, HandleClientRequest(c)
  PROVE  BrokerStaysInTouch
<1> DEFINE m == Head(frontUp[c])
<1>1. /\ frontUp[c] \in Seq(FrontUpMsg) /\ frontUp[c] # <<>>
      /\ \A s \in Service : idle[s] \in Seq(WorkerId) /\ pending[s] \in Seq(PendingRequest)
      /\ services \in SUBSET Service
  BY DEF HandleClientRequest, Inv, TypeOK, NetTypeOK, BrokerTypeOK
<1>2. m \in FrontUpMsg
  BY <1>1, HeadTailProperties
<1>3. UNCHANGED <<registered, ttl, beatDue, backUp>>
  BY DEF HandleClientRequest
<1>4. ASSUME NEW w \in WorkerId
      PROVE  /\ NoneOf(backDown[w], Dismissals) => NoneOf(backDown'[w], Dismissals)
             /\ backDown[w] # <<>> => backDown'[w] # <<>>
  <2>1. CASE UNCHANGED backDown
    BY <2>1
  <2>2. CASE m.type = "Request" /\ HandleKnownService(c, m.service, m.body)
    <3> DEFINE s == m.service
               r == [client |-> c, body |-> m.body]
    <3>1. s \in Service /\ r \in PendingRequest
      BY <1>1, <1>2, <2>2 DEF HandleKnownService, FrontUpMsg, PendingRequest
    <3>2. SendPendingRequests(s, idle[s], Append(pending[s], r))
      BY <2>2 DEF HandleKnownService
    <3> HIDE DEF s, r
    <3>3. Append(pending[s], r) \in Seq(PendingRequest)
      BY <1>1, <3>1, AppendProperties
    <3> QED
      BY <1>1, <3>1, <3>2, <3>3, SendPendingTouches
  <2> QED
    BY <2>1, <2>2 DEF HandleClientRequest, HandleDiscovery, HandleUnknownService
<1> QED
  BY <1>3, <1>4, StaysInTouch DEF BrokerStaysInTouch

LEMMA HandleWorkerResponseTouches ==
  ASSUME Inv, NEW w \in WorkerId, HandleWorkerResponse(w)
  PROVE  BrokerStaysInTouch
<1> DEFINE m == Head(backUp[w])
<1>1. /\ backDown \in [WorkerId -> Seq(BackDownMsg)]
      /\ backUp \in [WorkerId -> Seq(BackUpMsg)] /\ backUp[w] \in Seq(BackUpMsg)
      /\ registered \in [WorkerId -> Service \cup {NoService}]
      /\ ttl \in [WorkerId -> 0 .. Expiry]
      /\ \A s \in Service : idle[s] \in Seq(WorkerId) /\ pending[s] \in Seq(PendingRequest)
  BY TokenTypes DEF TypeOK, BrokerTypeOK
<1>2. /\ backUp[w] # <<>> /\ backUp' = [backUp EXCEPT ![w] = Tail(@)]
      /\ UNCHANGED beatDue
  BY DEF HandleWorkerResponse
<1>3. m \in BackUpMsg
  BY <1>1, <1>2, HeadTailProperties
<1>4. ASSUME NEW s \in Service, SendPendingRequests(s, Append(idle[s], w), pending[s]),
             NEW x \in WorkerId
      PROVE  /\ NoneOf(backDown[x], Dismissals) => NoneOf(backDown'[x], Dismissals)
             /\ backDown[x] # <<>> => backDown'[x] # <<>>
  <2>1. Append(idle[s], w) \in Seq(WorkerId)
    BY <1>1, AppendProperties
  <2> QED
    BY <1>1, <1>4, <2>1, SendPendingTouches
<1>5. m.type = "Ready" => m.service \in Service
  BY <1>3 DEF BackUpMsg
<1>6. w \in Registered => registered[w] \in Service
  BY <1>1 DEF Registered
<1> DEFINE Serves(x) ==
      /\ NoneOf(backDown[x], Dismissals) => NoneOf(backDown'[x], Dismissals)
      /\ backDown[x] # <<>> => backDown'[x] # <<>>
<1>7. ASSUME NEW x \in WorkerId, x # w, NEW due \in BOOLEAN, NEW n \in Nat,
             InTouch(x, due, n)
      PROVE  /\ InTouch(x, due, n)'
             /\ registered[x] # NoService => registered'[x] # NoService
  <2>1. /\ registered'[x] = registered[x] /\ ttl'[x] = ttl[x]
        /\ backUp'[x] = backUp[x]
    BY <1>1, <1>2, <1>7 DEF HandleWorkerResponse, HandleReady, HandleReply,
       HandleHeartbeat, HandleUnregistered, HandleDisconnect
  <2>2. Serves(x)
    <3>1. CASE UNCHANGED backDown
      BY <3>1
    <3>2. CASE m.type = "Ready" /\ HandleReady(w, m.service)
      BY <1>4, <1>5, <3>2 DEF HandleReady
    <3>3. CASE HandleReply(w, m.client, m.body)
      BY <1>4, <1>6, <3>3 DEF HandleReply
    <3>4. CASE HandleUnregistered(w)
      BY <1>1, <1>7, <3>4 DEF HandleUnregistered, SendDisconnect
    <3> QED
      BY <3>1, <3>2, <3>3, <3>4 DEF HandleWorkerResponse, HandleHeartbeat, HandleDisconnect
  <2> QED
    BY <1>2, <1>7, <2>1, <2>2, StaysInTouch
<1>8. ASSUME NEW due \in BOOLEAN, NEW n \in Nat, InTouch(w, due, n)
      PROVE  /\ InTouch(w, due, n)'
             /\ registered[w] # NoService => registered'[w] # NoService
  <2>1. w \notin Registered => m.type = "Ready"
    BY <1>8 DEF InTouch, Known, Registered
  <2>2. backUp'[w] = Tail(backUp[w])
    BY <1>1, <1>2
  <2>3. ASSUME registered'[w] # NoService, Serves(w), ttl'[w] = Expiry,
               n # 0 \/ due => registered[w] # NoService \/ backDown[w] # <<>>
        PROVE  InTouch(w, due, n)'
    BY <1>2, <1>8, <2>3 DEF InTouch, Known, OnTime, Patient, Beats, Dismissals
  <2>4. ASSUME UNCHANGED <<registered, ttl>>, w \in Registered, m \notin Beats, Serves(w)
        PROVE  InTouch(w, due, n)'
    <3>1. ~NoneOf(backUp[w], Beats) => ~NoneOf(backUp'[w], Beats)
      BY <1>1, <1>2, <2>2, <2>4, TailHasRest
    <3> QED
      BY <1>2, <1>8, <2>4, <3>1
      DEF InTouch, Known, OnTime, Patient, Beats, Dismissals, Registered
  <2>5. CASE m.type = "Ready" /\ HandleReady(w, m.service)
    <3>1. registered'[w] = m.service /\ ttl'[w] = Expiry /\ m.service # NoService
      BY <1>1, <1>5, <2>5, BrokerAssumption DEF HandleReady
    <3>2. Serves(w)
      BY <1>4, <1>5, <2>5 DEF HandleReady
    <3>3. n # 0 \/ due => registered[w] # NoService \/ backDown[w] # <<>>
      BY <1>8 DEF InTouch, Patient
    <3> QED
      BY <2>3, <3>1, <3>2, <3>3
  <2>6. CASE m.type = "Reply" /\ HandleReply(w, m.client, m.body)
    <3>1. Serves(w)
      BY <1>4, <1>6, <2>6 DEF HandleReply
    <3> QED
      BY <2>4, <2>6, <3>1 DEF HandleReply, Beats, Registered
  <2>7. CASE m.type = "Heartbeat" /\ HandleHeartbeat(w)
    <3>1. /\ ttl'[w] = Expiry /\ UNCHANGED <<registered, backDown>>
          /\ registered[w] # NoService
      BY <1>1, <2>7 DEF HandleHeartbeat, Registered
    <3> QED
      BY <2>3, <3>1
  <2>8. CASE m.type = "Disconnect" /\ HandleDisconnect(w)
    BY <2>1, <2>4, <2>8 DEF HandleDisconnect, Beats, Registered
  <2>9. CASE m.type \in {"Heartbeat", "Reply"} /\ HandleUnregistered(w)
    BY <2>1, <2>9 DEF HandleUnregistered
  <2> QED
    BY <2>5, <2>6, <2>7, <2>8, <2>9 DEF HandleWorkerResponse
<1> QED
  BY <1>7, <1>8 DEF BrokerStaysInTouch

(* The purge spares whom the broker heard of in time, and the heartbeats    *)
(* reach all the others.                                                    *)
LEMMA HousekeepingTouches ==
  ASSUME Inv, Punctual, Housekeeping
  PROVE  BrokerStaysInTouch
<1> DEFINE beat == <<Heartbeat>>
<1>1. /\ BackHwm \in Nat /\ BackHwm > 0 /\ Expiry \in Nat /\ Expiry >= 2
      /\ \A w \in WorkerId : backDown[w] \in Seq(BackDownMsg)
  BY TokenTypes, NetAssumption, BrokerAssumption DEF Punctual
<1>2. /\ beat \in Seq(BackDownMsg) /\ beat # <<>>
      /\ NoneOf(beat, Dismissals)
  BY NoneOfOne DEF Heartbeat, BackDownMsg, Dismissals
<1>3. /\ UNCHANGED <<ttl, backUp>> /\ beatDue' = FALSE
      /\ \A w \in WorkerId :
           /\ w \notin Expired => registered'[w] = registered[w]
           /\ backDown'[w] = IF beatDue /\ w \in Registered \ Expired
                               THEN Routed(w, backDown[w], beat, BackHwm)
                               ELSE backDown[w]
  BY DEF Housekeeping, PurgeExpiredWorker, SendHeartbeat
<1> HIDE DEF beat
<1>4. ASSUME NEW w \in WorkerId \cap peers, NEW due \in BOOLEAN, NEW n \in Nat,
             InTouch(w, due, n)
      PROVE  /\ InTouch(w, due, n)'
             /\ registered[w] # NoService => registered'[w] # NoService
  <2>1. w \notin Expired
    BY <1>1, <1>4 DEF InTouch, OnTime, Expired, Registered
  <2>2. registered'[w] = registered[w]
    BY <1>3, <2>1
  <2> DEFINE q == Routed(w, backDown[w], beat, BackHwm)
  <2>3. q # <<>> /\ (NoneOf(backDown[w], Dismissals) => NoneOf(q, Dismissals))
    BY <1>1, <1>2, RoutedSome, NoMoreOfRouted
  <2> HIDE DEF q
  <2>4. /\ NoneOf(backDown'[w], Dismissals)
        /\ (beatDue /\ registered[w] # NoService) \/ backDown[w] # <<>> => backDown'[w] # <<>>
    BY <1>3, <1>4, <2>1, <2>3 DEF InTouch, Patient, Registered, q
  <2> QED
    BY <1>3, <1>4, <2>2, <2>4 DEF InTouch, Known, OnTime, Patient, Beats, Dismissals
<1> QED
  BY <1>4 DEF BrokerStaysInTouch

-----------------------------------------------------------------------------
(* The workers.                                                             *)

(* What a worker does to its own queues is nothing to another one.          *)
LEMMA OneWorkerTouches ==
  ASSUME TouchInv, ServiceInv', NEW p \in WorkerProc, UNCHANGED brokerVars,
         \A r \in WorkerProc \ {p} :
           /\ wPhase'[r] = wPhase[r] /\ wId'[r] = wId[r]
           /\ elapsed'[r] = elapsed[r] /\ missing'[r] = missing[r],
         \A w \in WorkerId \cap peers :
           w # wId[p] => backUp'[w] = backUp[w] /\ backDown'[w] = backDown[w],
         wPhase'[p] # "asleep",
         wPhase'[p] = "polling" => InTouch(wId[p], elapsed[p], missing[p])'
  PROVE  TouchInv'
<1>1. up'
  BY DEF TouchInv, brokerVars
<1>2. ASSUME NEW r \in WorkerProc \ {p}, wPhase'[r] = "polling"
      PROVE  InTouch(wId[r], elapsed[r], missing[r])'
  <2>1. /\ wPhase[r] = "polling" /\ wId'[r] = wId[r]
        /\ elapsed'[r] = elapsed[r] /\ missing'[r] = missing[r]
        /\ UNCHANGED <<registered, ttl, beatDue>>
    BY <1>2 DEF brokerVars
  <2>2. wId[r] \in WorkerId \cap peers /\ wId[r] # wId[p]
    BY <2>1 DEF TouchInv, ServiceInv, Inv, PhasesAgree, Own
  <2>3. backUp'[wId[r]] = backUp[wId[r]] /\ backDown'[wId[r]] = backDown[wId[r]]
    BY <2>2
  <2>4. InTouch(wId[r], elapsed[r], missing[r])
    BY <2>1 DEF TouchInv
  <2> QED
    BY <2>1, <2>3, <2>4 DEF InTouch, Known, OnTime, Patient, Beats, Dismissals
<1>3. \A r \in WorkerProc \ {p} : wPhase'[r] # "asleep"
  BY DEF TouchInv
<1> QED
  BY <1>1, <1>2, <1>3 DEF TouchInv

LEMMA ConcatHasBoth ==
  ASSUME NEW T, NEW q \in Seq(T), NEW m \in Seq(T), NEW S
  PROVE  /\ ~NoneOf(q, S) \/ ~NoneOf(m, S) => ~NoneOf(q \o m, S)
         /\ q # <<>> => q \o m # <<>> /\ Head(q \o m) = Head(q)
<1>1. /\ Len(q) \in Nat /\ Len(m) \in Nat /\ q \o m \in Seq(T)
      /\ Len(q \o m) = Len(q) + Len(m)
      /\ \A i \in 1 .. Len(q) + Len(m) :
           (q \o m)[i] = IF i <= Len(q) THEN q[i] ELSE m[i - Len(q)]
  BY ConcatProperties, LenProperties
<1>2. \A i \in Positions(q, S) : i \in Positions(q \o m, S)
  BY <1>1 DEF Positions
<1>3. \A i \in Positions(m, S) : Len(q) + i \in Positions(q \o m, S)
  BY <1>1 DEF Positions
<1>4. ASSUME q # <<>>  PROVE q \o m # <<>> /\ Head(q \o m) = Head(q)
  <2>1. Len(q) >= 1 /\ Head(q) = q[1]
    BY <1>1, <1>4, HeadTailProperties, EmptySeq
  <2>2. Len(q \o m) >= 1 /\ (q \o m)[1] = q[1]
    BY <1>1, <2>1
  <2>3. q \o m # <<>>
    BY <1>1, <2>2, EmptySeq
  <2>4. Head(q \o m) = (q \o m)[1]
    BY <1>1, <2>3, HeadTailProperties
  <2> QED
    BY <2>1, <2>2, <2>3, <2>4
<1> QED
  BY <1>2, <1>3, <1>4 DEF NoneOf

(* The heartbeat that is due goes out at the end of an iteration.           *)
LEMMA FinishIterationTouches ==
  ASSUME Inv, NEW p \in WorkerProc, NEW w \in WorkerId, w = wId[p],
         Known(w), OnTime(w, elapsed[p]), NEW msgs \in Seq(BackUpMsg),
         FinishIteration(p, msgs), UNCHANGED <<registered, ttl>>
  PROVE  Known(w)' /\ OnTime(w, FALSE)'
<1> DEFINE beat == IF elapsed[p] THEN <<Heartbeat>> ELSE <<>>
           out == msgs \o beat
<1>1. backUp[w] \in Seq(BackUpMsg) /\ backUp'[w] = backUp[w] \o out
  BY TokenTypes DEF FinishIteration
<1>2. Heartbeat \in BackUpMsg /\ Heartbeat \in Beats
  BY DEF Heartbeat, BackUpMsg, Beats
<1>3. beat \in Seq(BackUpMsg) /\ (elapsed[p] => ~NoneOf(beat, Beats))
  <2>1. <<Heartbeat>> \in Seq(BackUpMsg) /\ <<>> \in Seq(BackUpMsg)
    BY <1>2, EmptySeq
  <2>2. 1 \in Positions(<<Heartbeat>>, Beats)
    BY <1>2 DEF Positions
  <2> QED
    BY <2>1, <2>2 DEF NoneOf
<1> HIDE DEF beat
<1>4. out \in Seq(BackUpMsg) /\ (elapsed[p] => ~NoneOf(out, Beats))
  BY <1>3, ConcatProperties, ConcatHasBoth
<1> HIDE DEF out
<1>5. /\ elapsed[p] \/ ~NoneOf(backUp[w], Beats) => ~NoneOf(backUp'[w], Beats)
      /\ backUp[w] # <<>> => backUp'[w] # <<>> /\ Head(backUp'[w]) = Head(backUp[w])
  BY <1>1, <1>4, ConcatHasBoth
<1> QED
  BY <1>5 DEF Known, OnTime, Beats

(* A new identity: the broker will learn of it, and owes it nothing.        *)
LEMMA ConnectTouches ==
  ASSUME TouchInv, ServiceInv', NEW p \in WorkerProc, NEW id \in FreshWorkerId, NEW n,
         Connect(p, id, n), UNCHANGED brokerVars,
         wPhase' = [wPhase EXCEPT ![p] = "polling"]
  PROVE  TouchInv'
<1>1. /\ wId \in [WorkerProc -> WorkerId \cup {NoId}]
      /\ wPhase \in [WorkerProc -> {"off", "polling", "asleep"}]
      /\ missing \in [WorkerProc -> 0 .. MaxMissing]
      /\ elapsed \in [WorkerProc -> BOOLEAN]
      /\ id \in WorkerId /\ id \notin peers /\ registered[id] = NoService
  BY DEF FreshWorkerId, Registered, TouchInv, ServiceInv, Inv, TypeOK, WorkerTypeOK
<1>2. /\ \A w \in WorkerId :
           /\ backUp'[w] = IF w = id THEN <<Ready(ServiceOf[p])>>
                           ELSE IF w = wId[p] THEN Oldest(backUp[w], n)
                           ELSE backUp[w]
           /\ backDown'[w] = IF w \in {id, wId[p]} THEN <<>> ELSE backDown[w]
      /\ wId' = [wId EXCEPT ![p] = id]
      /\ missing' = [missing EXCEPT ![p] = 0]
      /\ elapsed' = [elapsed EXCEPT ![p] = FALSE]
  BY DEF Connect
<1>3. InTouch(wId[p], elapsed[p], missing[p])'
  <2>1. /\ wId'[p] = id /\ elapsed'[p] = FALSE /\ missing'[p] = 0
        /\ registered'[id] = NoService
        /\ backUp'[id] = <<Ready(ServiceOf[p])>> /\ backDown'[id] = <<>>
    BY <1>1, <1>2 DEF brokerVars
  <2>2. backUp'[id] # <<>> /\ Head(backUp'[id]).type = "Ready"
    BY <2>1 DEF Ready
  <2>3. NoneOf(backDown'[id], Dismissals)
    BY <2>1, NoMoreOfEmpty
  <2> QED
    BY <2>1, <2>2, <2>3 DEF InTouch, Known, OnTime, Patient, Dismissals
<1>4. wPhase'[p] = "polling" /\ \A r \in WorkerProc \ {p} : wPhase'[r] = wPhase[r]
  BY <1>1
<1>5. \A r \in WorkerProc \ {p} :
        wId'[r] = wId[r] /\ elapsed'[r] = elapsed[r] /\ missing'[r] = missing[r]
  BY <1>1, <1>2
<1>6. \A w \in WorkerId \cap peers :
        w # wId[p] => backUp'[w] = backUp[w] /\ backDown'[w] = backDown[w]
  BY <1>1, <1>2
<1> QED
  BY <1>3, <1>4, <1>5, <1>6, OneWorkerTouches

LEMMA WorkerReceiveTouches ==
  ASSUME TouchInv, ServiceInv', NEW p \in WorkerProc, WorkerReceive(p),
         UNCHANGED brokerVars
  PROVE  TouchInv'
<1>1. wPhase[p] = "polling" /\ Inv
  BY DEF WorkerReceive, TouchInv, ServiceInv
<1>2. PICK w \in WorkerId : w = wId[p]
  BY <1>1 DEF Inv, PhasesAgree
<1> DEFINE m == Head(backDown[w])
<1>3. /\ wPhase[p] = "polling" /\ backDown[w] # <<>>
      /\ backDown' = [backDown EXCEPT ![w] = Tail(@)]
      /\ missing' = [missing EXCEPT ![p] = 0]
      /\ UNCHANGED <<wPhase, wId, registered, ttl, beatDue>>
  BY <1>2 DEF WorkerReceive, brokerVars
<1>4. Inv /\ InTouch(w, elapsed[p], missing[p])
  BY <1>1, <1>3, <1>2 DEF TouchInv
<1>5. /\ backDown \in [WorkerId -> Seq(BackDownMsg)]
      /\ backDown[w] \in Seq(BackDownMsg)
      /\ backUp \in [WorkerId -> Seq(BackUpMsg)]
      /\ missing \in [WorkerProc -> 0 .. MaxMissing]
      /\ elapsed \in [WorkerProc -> BOOLEAN]
  BY <1>4, <1>2, TokenTypes DEF Inv, TypeOK, WorkerTypeOK
<1>6. m \in BackDownMsg
  BY <1>3, <1>5, HeadTailProperties
<1>7. PICK out \in Seq(BackUpMsg) : FinishIteration(p, out)
  <2>1. <<>> \in Seq(BackUpMsg)
    BY EmptySeq
  <2>2. m.type = "Request" => <<WorkerReply(m.client, m.body)>> \in Seq(BackUpMsg)
    BY <1>6 DEF BackDownMsg, WorkerReply, BackUpMsg
  <2> QED
    BY <1>2, <2>1, <2>2 DEF WorkerReceive
<1>8. /\ backUp' = [backUp EXCEPT ![w] = backUp'[w]]
      /\ elapsed' = [elapsed EXCEPT ![p] = FALSE]
  BY <1>2, <1>5, <1>7 DEF FinishIteration
<1>9. Known(w)' /\ OnTime(w, FALSE)'
  BY <1>3, <1>4, <1>2, <1>7, FinishIterationTouches DEF InTouch
<1>10. NoneOf(backDown'[w], Dismissals)
  <2>1. NoMore(Tail(backDown[w]), backDown[w], Dismissals)
    BY <1>3, <1>5, NoMoreOfTail
  <2> QED
    BY <1>3, <1>4, <1>2, <1>5, <2>1 DEF InTouch, Patient, NoMore
<1>11. InTouch(wId[p], elapsed[p], missing[p])'
  <2>1. wId'[p] = w /\ elapsed'[p] = FALSE /\ missing'[p] = 0
    BY <1>3, <1>2, <1>5, <1>8
  <2>2. InTouch(w, FALSE, 0)'
    BY <1>9, <1>10 DEF InTouch, Patient, Known, OnTime, Dismissals, Beats
  <2> QED
    BY <2>1, <2>2 DEF InTouch, Known, OnTime, Patient, Dismissals, Beats
<1>12. \A r \in WorkerProc \ {p} :
         /\ wPhase'[r] = wPhase[r] /\ wId'[r] = wId[r]
         /\ elapsed'[r] = elapsed[r] /\ missing'[r] = missing[r]
  BY <1>3, <1>5, <1>8
<1>13. \A x \in WorkerId \cap peers :
         x # wId[p] => backUp'[x] = backUp[x] /\ backDown'[x] = backDown[x]
  BY <1>3, <1>2, <1>5, <1>8
<1> QED
  BY <1>3, <1>11, <1>12, <1>13, OneWorkerTouches

(* A heartbeat is missed only because it is still to come.                  *)
LEMMA WorkerMissedTouches ==
  ASSUME TouchInv, ServiceInv', NEW p \in WorkerProc, WorkerMissed(p),
         UNCHANGED brokerVars
  PROVE  TouchInv'
<1>1. wPhase[p] = "polling" /\ Inv
  BY DEF WorkerMissed, PollTimedOut, TouchInv, ServiceInv
<1>2. PICK w \in WorkerId : w = wId[p]
  BY <1>1 DEF Inv, PhasesAgree
<1>3. /\ wPhase[p] = "polling" /\ elapsed[p] /\ FinishIteration(p, <<>>)
      /\ missing' = [missing EXCEPT ![p] = @ + 1]
      /\ UNCHANGED <<wPhase, wId, backDown, registered, ttl, beatDue>>
  BY DEF WorkerMissed, PollTimedOut, brokerVars
<1>4. Inv /\ InTouch(w, elapsed[p], missing[p])
  BY <1>1, <1>3, <1>2 DEF TouchInv
<1>5. /\ backUp \in [WorkerId -> Seq(BackUpMsg)]
      /\ missing \in [WorkerProc -> 0 .. MaxMissing]
      /\ elapsed \in [WorkerProc -> BOOLEAN]
  BY <1>4, TokenTypes DEF Inv, TypeOK, WorkerTypeOK
<1>6. /\ backUp' = [backUp EXCEPT ![w] = backUp'[w]]
      /\ elapsed' = [elapsed EXCEPT ![p] = FALSE]
  BY <1>3, <1>2, <1>5 DEF FinishIteration
<1>7. missing[p] = 0 /\ missing'[p] = 1 /\ elapsed'[p] = FALSE /\ wId'[p] = w
  BY <1>3, <1>4, <1>2, <1>5, <1>6 DEF InTouch, Patient
<1>8. Known(w)' /\ OnTime(w, FALSE)'
  <2>1. <<>> \in Seq(BackUpMsg)
    BY EmptySeq
  <2> QED
    BY <1>3, <1>4, <1>2, <2>1, FinishIterationTouches DEF InTouch
<1>9. InTouch(wId[p], elapsed[p], missing[p])'
  <2>1. /\ NoneOf(backDown'[w], Dismissals)
        /\ backDown'[w] # <<>> \/ (beatDue' /\ registered'[w] # NoService)
    BY <1>3, <1>4 DEF InTouch, Patient
  <2>2. InTouch(w, FALSE, 1)'
    BY <1>8, <2>1 DEF InTouch, Patient, Known, OnTime, Dismissals, Beats
  <2> QED
    BY <1>7, <2>2 DEF InTouch, Known, OnTime, Patient, Dismissals, Beats
<1>10. \A r \in WorkerProc \ {p} :
        /\ wPhase'[r] = wPhase[r] /\ wId'[r] = wId[r]
        /\ elapsed'[r] = elapsed[r] /\ missing'[r] = missing[r]
  BY <1>3, <1>5, <1>6
<1>11. \A x \in WorkerId \cap peers :
         x # wId[p] => backUp'[x] = backUp[x] /\ backDown'[x] = backDown[x]
  BY <1>3, <1>2, <1>5, <1>6
<1> QED
  BY <1>3, <1>9, <1>10, <1>11, OneWorkerTouches

LEMMA WorkerEndsTouches ==
  ASSUME TouchInv, ServiceInv', NEW p \in WorkerProc, NEW left, WorkerEnds(p, left),
         UNCHANGED brokerVars
  PROVE  TouchInv'
<1>1. /\ wPhase' = [wPhase EXCEPT ![p] = "off"]
      /\ wId' = [wId EXCEPT ![p] = NoId]
      /\ elapsed' = [elapsed EXCEPT ![p] = FALSE]
      /\ missing' = [missing EXCEPT ![p] = 0]
      /\ backUp' = [backUp EXCEPT ![wId[p]] = left]
      /\ backDown' = [backDown EXCEPT ![wId[p]] = <<>>]
  BY DEF WorkerEnds
<1>2. TypeOK
  BY DEF TouchInv, ServiceInv, Inv
<1>3. wPhase'[p] = "off"
  BY <1>1, <1>2 DEF TypeOK, WorkerTypeOK
<1>4. \A r \in WorkerProc \ {p} :
        /\ wPhase'[r] = wPhase[r] /\ wId'[r] = wId[r]
        /\ elapsed'[r] = elapsed[r] /\ missing'[r] = missing[r]
  BY <1>1, <1>2 DEF TypeOK, WorkerTypeOK
<1>5. \A x \in WorkerId \cap peers :
        x # wId[p] => backUp'[x] = backUp[x] /\ backDown'[x] = backDown[x]
  BY <1>1, <1>2 DEF TypeOK, NetTypeOK
<1> QED
  BY <1>3, <1>4, <1>5, OneWorkerTouches

(* Nobody sleeps, and so nobody wakes up.                                   *)
LEMMA WorkerTouches ==
  ASSUME TouchInv, ServiceInv', Punctual, NEW p \in WorkerProc,
         \/ WorkerStep(p) \/ StartWorker(p)
         \/ WorkerFails(p) \/ WorkerLeaves(p)
  PROVE  TouchInv'
<1>1. UNCHANGED brokerVars
  BY DEF WorkerStep, StartWorker, WorkerFails, WorkerLeaves
<1>2. wPhase \in [WorkerProc -> {"off", "polling", "asleep"}]
  BY DEF TouchInv, ServiceInv, Inv, TypeOK, WorkerTypeOK
<1>3. ~WorkerSleep(p)
  <2> SUFFICES ASSUME WorkerSleep(p)  PROVE FALSE
    OBVIOUS
  <2>1. wPhase[p] = "polling" /\ elapsed[p] /\ missing[p] >= MaxMissing
    BY DEF WorkerSleep, PollTimedOut
  <2>2. missing[p] = 0
    BY <2>1 DEF TouchInv, InTouch, Patient
  <2> QED
    BY <2>1, <2>2, WorkerAssumption DEF Punctual
<1>4. \A id \in FreshWorkerId, n \in 0 .. BackHwm : ~WorkerWake(p, id, n)
  BY DEF WorkerWake, TouchInv
<1>5. ASSUME NEW id \in FreshWorkerId, NEW n, WorkerReconnect(p, id, n)
      PROVE  TouchInv'
  <2>1. wPhase' = [wPhase EXCEPT ![p] = "polling"]
    BY <1>2, <1>5 DEF WorkerReconnect
  <2> QED
    BY <1>1, <1>5, <2>1, ConnectTouches DEF WorkerReconnect
<1>6. ASSUME StartWorker(p)  PROVE TouchInv'
  BY <1>1, <1>6, ConnectTouches DEF StartWorker, WorkerStart
<1>7. ASSUME WorkerFails(p) \/ WorkerLeaves(p)  PROVE TouchInv'
  BY <1>1, <1>7, WorkerEndsTouches DEF WorkerFails, WorkerLeaves, WorkerCrash, WorkerLeave
<1> QED
  BY <1>1, <1>3, <1>4, <1>5, <1>6, <1>7, WorkerReceiveTouches, WorkerMissedTouches
  DEF WorkerStep

-----------------------------------------------------------------------------
(* The clock and the system.                                                *)

(* When all are at rest, everybody has been heard of and has heard.         *)
LEMMA PromptTickTouches ==
  ASSUME TouchInv, ServiceInv', Punctual, PromptTick
  PROVE  TouchInv'
<1>1. Inv /\ up
  BY DEF TouchInv, ServiceInv
<1>2. /\ backUp \in [WorkerId -> Seq(BackUpMsg)]
      /\ ttl \in [WorkerId -> 0 .. Expiry] /\ Expiry \in Nat /\ Expiry >= 2
      /\ wPhase \in [WorkerProc -> {"off", "polling", "asleep"}]
      /\ BackHwm >= 2 /\ BackHwm \in Nat
  BY <1>1, TokenTypes, BrokerAssumption DEF Inv, TypeOK, BrokerTypeOK, WorkerTypeOK, Punctual
<1>3. /\ UNCHANGED <<up, wPhase, wId, missing, registered, backUp, backDown>>
      /\ beatDue' = TRUE
      /\ ttl' = [w \in WorkerId |-> IF ttl[w] = 0 THEN 0 ELSE ttl[w] - 1]
      /\ elapsed' = [p \in WorkerProc |-> elapsed[p] \/ wPhase[p] = "polling"]
  BY DEF PromptTick, Tick, BrokerTick, WorkerTick, netVars
<1>4. ~beatDue /\ \A w \in WorkerId : backUp[w] = <<>>
  BY <1>1 DEF PromptTick, AtRest, BrokerAtRest, Readable
<1>5. ASSUME NEW p \in WorkerProc, wPhase[p] = "polling"
      PROVE  InTouch(wId[p], elapsed[p], missing[p])'
  <2>1. PICK w \in WorkerId : w = wId[p]
    BY <1>1, <1>5 DEF Inv, PhasesAgree
  <2>2. InTouch(w, elapsed[p], missing[p])
    BY <1>5, <2>1 DEF TouchInv
  <2>3. backDown[w] = <<>> /\ ~elapsed[p]
    <3>1. Len(backUp[w]) = 0
      BY <1>4, EmptySeq
    <3>2. Room(backUp[w], 2, BackHwm)
      BY <1>2, <3>1 DEF Room
    <3> QED
      BY <1>5, <2>1, <3>2 DEF PromptTick, AtRest, WorkerAtRest
  <2>4. NoneOf(backUp[w], Beats)
    BY <1>4, NoMoreOfEmpty
  <2>5. registered[w] # NoService /\ ttl[w] = Expiry
    BY <1>4, <2>2, <2>3, <2>4 DEF InTouch, Known, OnTime
  <2>6. missing[p] = 0 /\ NoneOf(backDown[w], Dismissals)
    BY <1>4, <2>2, <2>3 DEF InTouch, Patient
  <2>7. elapsed'[p] = TRUE
    BY <1>3, <1>5, Zenon
  <2>8. ttl'[w] = Expiry - 1
    BY <1>2, <1>3, <2>5
  <2>9. wId'[p] = w /\ missing'[p] = 0 /\ registered'[w] # NoService
    BY <1>3, <2>1, <2>5, <2>6
  <2> QED
    BY <1>3, <2>6, <2>7, <2>8, <2>9 DEF InTouch, Known, OnTime, Patient, Dismissals, Beats
<1> QED
  BY <1>1, <1>3, <1>5 DEF TouchInv

(* The steps that leave the workers alone.                                  *)
LEMMA BrokerTouches ==
  ASSUME TouchInv, ServiceInv', BrokerStaysInTouch,
         UNCHANGED <<up, wPhase, wId, elapsed, missing>>
  PROVE  TouchInv'
<1>1. up' /\ \A p \in WorkerProc : wPhase'[p] # "asleep"
  BY DEF TouchInv
<1>2. ASSUME NEW p \in WorkerProc, wPhase'[p] = "polling"
      PROVE  InTouch(wId[p], elapsed[p], missing[p])'
  <2>1. wPhase[p] = "polling" /\ wId[p] \in WorkerId \cap peers
    BY <1>2 DEF TouchInv, ServiceInv, Inv, PhasesAgree, Own
  <2>2. elapsed[p] \in BOOLEAN /\ missing[p] \in Nat
    BY WorkerAssumption DEF TouchInv, ServiceInv, Inv, TypeOK, WorkerTypeOK
  <2>3. PICK w \in WorkerId \cap peers, due \in BOOLEAN, n \in Nat :
          w = wId[p] /\ due = elapsed[p] /\ n = missing[p]
    BY <2>1, <2>2
  <2>4. InTouch(w, due, n)
    BY <2>1, <2>3 DEF TouchInv
  <2>5. InTouch(w, due, n)'
    BY <2>3, <2>4 DEF BrokerStaysInTouch
  <2> QED
    BY <2>3, <2>5 DEF InTouch, Known, OnTime, Patient, Dismissals, Beats
<1> QED
  BY <1>1, <1>2 DEF TouchInv

LEMMA BrokerStepTouches ==
  ASSUME Inv, Punctual, BrokerStep
  PROVE  BrokerStaysInTouch
<1>1. ASSUME BrokerWait  PROVE BrokerStaysInTouch
  BY <1>1, StaysInTouch DEF BrokerWait, netVars, BrokerStaysInTouch
<1> QED
  BY <1>1, HandleWorkerResponseTouches, HandleClientRequestTouches,
     HousekeepingTouches DEF BrokerStep, BrokerNext

LEMMA PromptStepTouches ==
  ASSUME TouchInv, Punctual, [PromptNext]_vars
  PROVE  TouchInv'
<1>1. ServiceInv'
  BY StepKeepsServices DEF TouchInv, PromptNext, PromptTick, Next
<1>2. ASSUME BrokerStep  PROVE TouchInv'
  <2>1. UNCHANGED <<up, wPhase, wId, elapsed, missing>>
    BY <1>2 DEF BrokerStep, BrokerNext, BrokerWait, workerVars,
       HandleWorkerResponse, HandleClientRequest, Housekeeping
  <2> QED
    BY <1>1, <1>2, <2>1, BrokerStepTouches, BrokerTouches DEF TouchInv, ServiceInv
<1>3. ASSUME NEW q \in ClientProc, ClientStep(q) \/ StartClient(q) \/ ClientFails(q)
      PROVE  TouchInv'
  <2>1. UNCHANGED <<backUp, backDown, brokerVars, workerVars>>
    BY <1>3, ClientStepUntouched DEF ClientStep, StartClient, ClientFails
  <2>2. BrokerStaysInTouch
    BY <2>1, StaysInTouch DEF brokerVars, BrokerStaysInTouch
  <2> QED
    BY <1>1, <2>1, <2>2, BrokerTouches DEF brokerVars, workerVars
<1>4. ASSUME NEW c \in ClientId, FrontLinkFails(c)  PROVE TouchInv'
  <2>1. UNCHANGED <<backUp, backDown, brokerVars, workerVars>>
    BY <1>4 DEF FrontLinkFails, FrontConnectionReset
  <2>2. BrokerStaysInTouch
    BY <2>1, StaysInTouch DEF brokerVars, BrokerStaysInTouch
  <2> QED
    BY <1>1, <2>1, <2>2, BrokerTouches DEF brokerVars, workerVars
<1>5. ASSUME UNCHANGED vars  PROVE TouchInv'
  <2>1. UNCHANGED <<backUp, backDown, brokerVars, workerVars>>
    BY <1>5 DEF vars, netVars
  <2>2. BrokerStaysInTouch
    BY <2>1, StaysInTouch DEF brokerVars, BrokerStaysInTouch
  <2> QED
    BY <1>1, <2>1, <2>2, BrokerTouches DEF brokerVars, workerVars
<1>6. ~StartBroker /\ ~BrokerFails /\ \A w \in WorkerId : ~BackLinkFails(w)
  BY DEF TouchInv, StartBroker, BrokerStart, BrokerFails, BackLinkFails, Fails, Punctual
<1> QED
  BY <1>1, <1>2, <1>3, <1>4, <1>5, <1>6, WorkerTouches, PromptTickTouches
  DEF PromptNext, Step, Fault

LEMMA InitTouches == Init => TouchInv
<1> SUFFICES ASSUME Init  PROVE TouchInv
  OBVIOUS
<1>1. up /\ \A p \in WorkerProc : wPhase[p] = "off"
  BY DEF Init, BrokerInit, WorkerInit
<1> QED
  BY <1>1, InitServices DEF TouchInv

(* When everybody is prompt, the broker purges no worker that runs and no   *)
(* worker gives up on the broker: for any numbers of workers and clients,   *)
(* which may die or leave, and for all times that are not shorter than      *)
(* Punctual says.                                                           *)
THEOREM NobodyIsTakenForDead == Punctual => (PromptSpec => NoFalseAlarm)
<1> SUFFICES ASSUME Punctual  PROVE PromptSpec => NoFalseAlarm
  OBVIOUS
<1> DEFINE Trusted ==
      \A p \in WorkerProc :
        LET w == wId[p]
        IN  /\ wPhase'[p] # "asleep"
            /\ wPhase[p] = "polling" /\ w \in Registered /\ up'
                 => registered'[w] # NoService
<1>1. Init => TouchInv
  BY InitTouches
<1>2. TouchInv /\ [PromptNext]_vars => TouchInv'
  BY PromptStepTouches
<1>3. TouchInv /\ [PromptNext]_vars => [Trusted]_vars
  <2> SUFFICES ASSUME TouchInv, PromptNext  PROVE Trusted
    OBVIOUS
  <2>1. Inv
    BY DEF TouchInv, ServiceInv
  <2>2. \A p \in WorkerProc : wPhase'[p] # "asleep"
    BY PromptStepTouches DEF TouchInv
  <2>3. ASSUME NEW p \in WorkerProc, wPhase[p] = "polling", wId[p] \in Registered
        PROVE  registered'[wId[p]] # NoService
    <3>1. registered[wId[p]] # NoService
      BY <2>3 DEF Registered
    <3>2. CASE BrokerStep
      <4>1. BrokerStaysInTouch
        BY <2>1, <3>2, BrokerStepTouches
      <4>2. wId[p] \in WorkerId \cap peers
        BY <2>3 DEF TouchInv, ServiceInv, Inv, PhasesAgree, Own
      <4>3. elapsed[p] \in BOOLEAN /\ missing[p] \in Nat
        BY <2>1, WorkerAssumption DEF Inv, TypeOK, WorkerTypeOK
      <4>4. InTouch(wId[p], elapsed[p], missing[p])
        BY <2>3 DEF TouchInv
      <4> QED
        BY <3>1, <4>1, <4>2, <4>3, <4>4 DEF BrokerStaysInTouch
    <3>3. ~StartBroker /\ ~BrokerFails
      BY DEF TouchInv, StartBroker, BrokerStart, BrokerFails, Fails, Punctual
    <3>4. CASE UNCHANGED registered
      BY <3>1, <3>4
    <3>5. BrokerStep \/ UNCHANGED registered
      BY <3>3 DEF PromptNext, Step, WorkerStep, StartWorker, ClientStep, StartClient,
         Fault, WorkerFails, WorkerLeaves, ClientFails, BackLinkFails,
         FrontLinkFails, PromptTick, Tick, BrokerTick, brokerVars
    <3> QED
      BY <3>2, <3>4, <3>5
  <2> QED
    BY <2>2, <2>3
<1> QED
  BY <1>1, <1>2, <1>3, PTL DEF PromptSpec, NoFalseAlarm
=============================================================================
