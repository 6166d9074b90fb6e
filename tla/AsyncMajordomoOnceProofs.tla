----------------------- MODULE AsyncMajordomoOnceProofs -----------------------
(***************************************************************************)
(* AtMostOnce and RepliesReachTheAsker hold for every number of workers,   *)
(* clients, services, requests and failures.                               *)
(*                                                                         *)
(* A request travels through queues: frontUp, pending, backDown, backUp,   *)
(* frontDown, received, each time as another message.  What follows a      *)
(* message on this way is a selection: the messages of interest at each    *)
(* place, such that a handler makes one of interest only out of one.  Of   *)
(* such a selection a step leaves no more than there was, at most once     *)
(* stays at most once, and what is nowhere stays nowhere, except where a   *)
(* client says something new.  Four selections are followed: the places of *)
(* a request, the discoveries of an identity, what mentions an identity,   *)
(* and what mentions it with a request of somebody else.                   *)
(***************************************************************************)
EXTENDS AsyncMajordomoProofs

(* The queues of the system, one for each place.                            *)
Place ==
  ({"frontUp", "frontDown"} \X ClientId) \cup ({"backUp", "backDown"} \X WorkerId)
  \cup ({"pending"} \X Service) \cup ({"received"} \X ClientProc)

Packed(fu, fd, bu, bd, pe, re) ==
  [x \in Place |-> CASE x[1] = "frontUp" -> fu[x[2]]
                     [] x[1] = "frontDown" -> fd[x[2]]
                     [] x[1] = "backUp" -> bu[x[2]]
                     [] x[1] = "backDown" -> bd[x[2]]
                     [] x[1] = "pending" -> pe[x[2]]
                     [] x[1] = "received" -> re[x[2]]]

Queues == Packed(frontUp, frontDown, backUp, backDown, pending, received)

(* Of what S selects there is nothing in Q, or one thing at most.           *)
NoneIn(S, Q) == \A x \in Place : NoneOf(Q[x], S[x])
OneIn(S, Q) ==
  /\ \A x \in Place : OneOf(Q[x], S[x])
  /\ \A x, y \in Place : x = y \/ NoneOf(Q[x], S[x]) \/ NoneOf(Q[y], S[y])

(* Of what S selects there is no more in R than in Q.                       *)
Carried(S, Q, R) ==
  (NoneIn(S, Q) => NoneIn(S, R)) /\ (OneIn(S, Q) => OneIn(S, R))

LEMMA PackedAt ==
  ASSUME NEW fu, NEW fd, NEW bu, NEW bd, NEW pe, NEW re
  PROVE  LET Q == Packed(fu, fd, bu, bd, pe, re)
         IN  /\ \A c \in ClientId :
                  /\ <<"frontUp", c>> \in Place /\ Q[<<"frontUp", c>>] = fu[c]
                  /\ <<"frontDown", c>> \in Place /\ Q[<<"frontDown", c>>] = fd[c]
             /\ \A w \in WorkerId :
                  /\ <<"backUp", w>> \in Place /\ Q[<<"backUp", w>>] = bu[w]
                  /\ <<"backDown", w>> \in Place /\ Q[<<"backDown", w>>] = bd[w]
             /\ \A s \in Service :
                  <<"pending", s>> \in Place /\ Q[<<"pending", s>>] = pe[s]
             /\ \A q \in ClientProc :
                  <<"received", q>> \in Place /\ Q[<<"received", q>>] = re[q]
<1>1. \A c \in ClientId : <<"frontUp", c>> \in Place /\ <<"frontDown", c>> \in Place
  BY DEF Place
<1>2. \A w \in WorkerId : <<"backUp", w>> \in Place /\ <<"backDown", w>> \in Place
  BY DEF Place
<1>3. /\ \A s \in Service : <<"pending", s>> \in Place
      /\ \A q \in ClientProc : <<"received", q>> \in Place
  BY DEF Place
<1> QED
  BY <1>1, <1>2, <1>3 DEF Packed

LEMMA PlaceIs ==
  ASSUME NEW x \in Place
  PROVE  \/ \E c \in ClientId : x = <<"frontUp", c>> \/ x = <<"frontDown", c>>
         \/ \E w \in WorkerId : x = <<"backUp", w>> \/ x = <<"backDown", w>>
         \/ \E s \in Service : x = <<"pending", s>>
         \/ \E q \in ClientProc : x = <<"received", q>>
BY DEF Place

(* Queue by queue, but for the places D.                                    *)
LEMMA EachPlace ==
  ASSUME NEW fu, NEW fd, NEW bu, NEW bd, NEW pe, NEW re, NEW S, NEW D,
         NEW fu2, NEW fd2, NEW bu2, NEW bd2, NEW pe2, NEW re2,
         \A c \in ClientId :
           /\ \/ <<"frontUp", c>> \in D
              \/ NoMore(fu2[c], fu[c], S[<<"frontUp", c>>])
           /\ \/ <<"frontDown", c>> \in D
              \/ NoMore(fd2[c], fd[c], S[<<"frontDown", c>>]),
         \A w \in WorkerId :
           /\ \/ <<"backUp", w>> \in D
              \/ NoMore(bu2[w], bu[w], S[<<"backUp", w>>])
           /\ \/ <<"backDown", w>> \in D
              \/ NoMore(bd2[w], bd[w], S[<<"backDown", w>>]),
         \A s \in Service :
           <<"pending", s>> \in D \/ NoMore(pe2[s], pe[s], S[<<"pending", s>>]),
         \A q \in ClientProc :
           <<"received", q>> \in D \/ NoMore(re2[q], re[q], S[<<"received", q>>])
  PROVE  \A x \in Place \ D :
           NoMore(Packed(fu2, fd2, bu2, bd2, pe2, re2)[x],
                  Packed(fu, fd, bu, bd, pe, re)[x], S[x])
<1> DEFINE Q == Packed(fu, fd, bu, bd, pe, re)
           R == Packed(fu2, fd2, bu2, bd2, pe2, re2)
<1> SUFFICES ASSUME NEW x \in Place \ D
             PROVE  NoMore(R[x], Q[x], S[x])
  OBVIOUS
<1>1. /\ \A c \in ClientId : /\ Q[<<"frontUp", c>>] = fu[c]
                             /\ Q[<<"frontDown", c>>] = fd[c]
      /\ \A w \in WorkerId : /\ Q[<<"backUp", w>>] = bu[w]
                             /\ Q[<<"backDown", w>>] = bd[w]
      /\ \A s \in Service : Q[<<"pending", s>>] = pe[s]
      /\ \A q \in ClientProc : Q[<<"received", q>>] = re[q]
  BY PackedAt
<1>2. /\ \A c \in ClientId : /\ R[<<"frontUp", c>>] = fu2[c]
                             /\ R[<<"frontDown", c>>] = fd2[c]
      /\ \A w \in WorkerId : /\ R[<<"backUp", w>>] = bu2[w]
                             /\ R[<<"backDown", w>>] = bd2[w]
      /\ \A s \in Service : R[<<"pending", s>>] = pe2[s]
      /\ \A q \in ClientProc : R[<<"received", q>>] = re2[q]
  BY PackedAt
<1> HIDE DEF Q, R
<1>3. CASE \E c \in ClientId : x = <<"frontUp", c>>
  <2>1. PICK c \in ClientId : x = <<"frontUp", c>>
    BY <1>3
  <2>2. NoMore(fu2[c], fu[c], S[<<"frontUp", c>>])
    BY <2>1
  <2> QED
    BY <1>1, <1>2, <2>1, <2>2
<1>4. CASE \E c \in ClientId : x = <<"frontDown", c>>
  <2>1. PICK c \in ClientId : x = <<"frontDown", c>>
    BY <1>4
  <2>2. NoMore(fd2[c], fd[c], S[<<"frontDown", c>>])
    BY <2>1
  <2> QED
    BY <1>1, <1>2, <2>1, <2>2
<1>5. CASE \E w \in WorkerId : x = <<"backUp", w>>
  <2>1. PICK w \in WorkerId : x = <<"backUp", w>>
    BY <1>5
  <2>2. NoMore(bu2[w], bu[w], S[<<"backUp", w>>])
    BY <2>1
  <2> QED
    BY <1>1, <1>2, <2>1, <2>2
<1>6. CASE \E w \in WorkerId : x = <<"backDown", w>>
  <2>1. PICK w \in WorkerId : x = <<"backDown", w>>
    BY <1>6
  <2>2. NoMore(bd2[w], bd[w], S[<<"backDown", w>>])
    BY <2>1
  <2> QED
    BY <1>1, <1>2, <2>1, <2>2
<1>7. CASE \E s \in Service : x = <<"pending", s>>
  BY <1>1, <1>2, <1>7
<1>8. CASE \E q \in ClientProc : x = <<"received", q>>
  BY <1>1, <1>2, <1>8
<1> QED
  BY <1>3, <1>4, <1>5, <1>6, <1>7, <1>8, PlaceIs

(* Nothing of S is added anywhere.                                          *)
LEMMA Kept ==
  ASSUME NEW Q, NEW R, NEW S, \A x \in Place \ {} : NoMore(R[x], Q[x], S[x])
  PROVE  Carried(S, Q, R)
BY DEF Carried, NoneIn, OneIn, NoMore

(* What leaves the place a may come to the place d.                         *)
LEMMA Moved ==
  ASSUME NEW Q, NEW R, NEW S, NEW a \in Place, NEW d \in Place, a # d,
         \A x \in Place \ {d} : NoMore(R[x], Q[x], S[x]),
         \/ NoMore(R[d], Q[d], S[d])
         \/ /\ ~NoneOf(Q[a], S[a])
            /\ OneOf(Q[a], S[a]) => NoneOf(R[a], S[a])
            /\ NoneOf(Q[d], S[d]) => OneOf(R[d], S[d])
  PROVE  Carried(S, Q, R)
<1>1. CASE NoMore(R[d], Q[d], S[d])
  BY <1>1, Kept
<1>2. ASSUME ~NoneOf(Q[a], S[a]),
             OneOf(Q[a], S[a]) => NoneOf(R[a], S[a]),
             NoneOf(Q[d], S[d]) => OneOf(R[d], S[d]),
             OneIn(S, Q)
      PROVE  OneIn(S, R)
  <2>1. \A x \in Place \ {a} : NoneOf(Q[x], S[x]) /\ OneOf(Q[x], S[x])
    BY <1>2 DEF OneIn
  <2>2. NoneOf(R[a], S[a]) /\ OneOf(R[d], S[d])
    BY <1>2, <2>1 DEF OneIn
  <2>3. \A x \in Place \ {d} : NoneOf(R[x], S[x])
    BY <2>1, <2>2 DEF NoMore
  <2>4. \A x \in Place \ {d} : OneOf(R[x], S[x])
    BY <2>3 DEF NoneOf, OneOf
  <2> QED
    BY <2>2, <2>3, <2>4 DEF OneIn
<1>3. ASSUME ~NoneOf(Q[a], S[a])  PROVE ~NoneIn(S, Q)
  BY <1>3 DEF NoneIn
<1> QED
  BY <1>1, <1>2, <1>3 DEF Carried

LEMMA CarriedOn ==
  ASSUME NEW Q, NEW R, NEW T, NEW S, Carried(S, Q, R), Carried(S, R, T)
  PROVE  Carried(S, Q, T)
BY DEF Carried

-----------------------------------------------------------------------------
(* A selection that follows the messages.                                   *)

(* Whoever makes a message that S selects makes it out of one that S        *)
(* selects, and none of the messages that are made out of nothing is one:   *)
(* what the broker, a worker and a client make.                             *)
BrokerFollows(S) ==
  /\ \A c \in ClientId : \A m \in FrontUpMsg :
       /\ m.type = "Discovery"
            => \A st \in {"Ok", "NotFound"} :
                 DiscoveryReply(m.service, st) \in S[<<"frontDown", c>>]
                   => m \in S[<<"frontUp", c>>]
       /\ m.type = "Request"
            => \A s \in Service :
                 [client |-> c, body |-> m.body] \in S[<<"pending", s>>]
                   => m \in S[<<"frontUp", c>>]
  /\ \A r \in PendingRequest : \A s \in Service : \A w \in WorkerId :
       WorkerRequest(r.client, r.body) \in S[<<"backDown", w>>]
         => r \in S[<<"pending", s>>]
  /\ \A w \in WorkerId : \A m \in BackDownMsg :
       m.type \in {"Heartbeat", "Disconnect"} => m \notin S[<<"backDown", w>>]
  /\ \A w \in WorkerId : \A m \in BackUpMsg :
       m.type = "Reply"
         => \A s \in Service :
              ClientReply(s, m.body) \in S[<<"frontDown", m.client>>]
                => m \in S[<<"backUp", w>>]

WorkerFollows(S) ==
  /\ \A w \in WorkerId : \A m \in BackDownMsg :
       m.type = "Request"
         => (WorkerReply(m.client, m.body) \in S[<<"backUp", w>>]
               => m \in S[<<"backDown", w>>])
  /\ \A w \in WorkerId : \A m \in BackUpMsg :
       m.type \in {"Ready", "Heartbeat", "Disconnect"} => m \notin S[<<"backUp", w>>]

ClientFollows(S) ==
  \A c \in ClientId : \A m \in FrontDownMsg :
    m.type = "Reply"
      => \A q \in ClientProc :
           m.body \in S[<<"received", q>>] => m \in S[<<"frontDown", c>>]

Follows(S) == BrokerFollows(S) /\ WorkerFollows(S) /\ ClientFollows(S)

(* The first message of a queue is selected if what it becomes is.          *)
LEMMA HeadMoves ==
  ASSUME NEW T, NEW q \in Seq(T), q # <<>>, NEW S, Head(q) \in S
  PROVE  ~NoneOf(q, S) /\ (OneOf(q, S) => NoneOf(Tail(q), S))
<1>1. 1 \in Positions(q, S)
  BY LenProperties, HeadTailProperties, EmptySeq DEF Positions
<1> QED
  BY <1>1, NoMoreOfTail DEF NoneOf

(* sendPendingRequests, once the request to be added is in reqs.            *)
LEMMA SendPendingCarries ==
  ASSUME TypeOK, NEW s \in Service, NEW S, BrokerFollows(S),
         NEW idles \in Seq(WorkerId), NEW reqs \in Seq(PendingRequest),
         SendPendingRequests(s, idles, reqs),
         NEW fu, NEW fd, NEW bu, NEW re
  PROVE  Carried(S, Packed(fu, fd, bu, backDown, [pending EXCEPT ![s] = reqs], re),
                    Packed(fu, fd, bu, backDown', pending', re))
<1> DEFINE n == MinOf(Len(idles), Len(reqs))
           pe == [pending EXCEPT ![s] = reqs]
           Q == Packed(fu, fd, bu, backDown, pe, re)
           R == Packed(fu, fd, bu, backDown', pending', re)
           a == <<"pending", s>>
           At(w) == {k \in 1 .. n : idles[k] = w}
           msgs(w) == Forward(reqs, At(w))
           here == Positions(reqs, S[a])
<1>1. /\ Len(idles) \in Nat /\ Len(reqs) \in Nat
      /\ n \in Nat /\ n <= Len(idles) /\ n <= Len(reqs)
  BY LenProperties DEF MinOf
<1>2. /\ pending' = [pending EXCEPT ![s] = AllButOldest(reqs, n)]
      /\ backDown' = [w \in WorkerId |->
                        Routed(w, backDown[w], msgs(w), BackHwm)]
  BY DEF SendPendingRequests, AllButOldest
<1>3. /\ pending \in [Service -> Seq(PendingRequest)]
      /\ backDown \in [WorkerId -> Seq(BackDownMsg)]
      /\ BackHwm \in Nat
  BY NetAssumption DEF TypeOK, BrokerTypeOK, NetTypeOK
<1> HIDE DEF n
<1>4. ASSUME NEW w \in WorkerId
      PROVE  /\ msgs(w) \in Seq(BackDownMsg)
             /\ (\A k \in here : k \notin At(w))
                  => NoneOf(msgs(w), S[<<"backDown", w>>])
             /\ OneOf(reqs, S[a]) => OneOf(msgs(w), S[<<"backDown", w>>])
  <2> DEFINE D == S[<<"backDown", w>>]
             I == At(w)
             f == [k \in 1 .. Cardinality(I) |-> Nth(I, k)]
  <2>1. I \in SUBSET (1 .. Len(reqs)) /\ Len(reqs) \in Nat
    <3>1. \A i \in I : i \in 1 .. n
      OBVIOUS
    <3> QED
      BY <1>1, <3>1
  <2> HIDE DEF I
  <2>2. /\ Pick(reqs, I) \in Seq(PendingRequest)
        /\ Len(Pick(reqs, I)) = Cardinality(I)
        /\ Cardinality(I) \in 0 .. Len(reqs)
    BY <2>1, PickProperties, Zenon
  <2>3. Cardinality(I) \in Nat
    BY <1>1, <2>2
  <2>4. \A k \in 1 .. Cardinality(I) : Pick(reqs, I)[k] \in PendingRequest
    BY <2>2, LenProperties
  <2>5. \A r \in PendingRequest :
          WorkerRequest(r.client, r.body) \in BackDownMsg
    BY DEF PendingRequest, WorkerRequest, BackDownMsg
  <2>6. msgs(w) = [k \in 1 .. Cardinality(I) |->
                     WorkerRequest(Pick(reqs, I)[k].client,
                                   Pick(reqs, I)[k].body)]
    BY DEF I, Forward
  <2> HIDE DEF msgs
  <2>7. msgs(w) \in [1 .. Cardinality(I) -> BackDownMsg]
    BY <2>4, <2>5, <2>6
  <2>8. msgs(w) \in Seq(BackDownMsg) /\ Len(msgs(w)) = Cardinality(I)
    BY <2>3, <2>7, SeqDef
  <2>9. ASSUME NEW k \in 1 .. Cardinality(I)
        PROVE  Nth(I, k) \in I
               /\ Cardinality({j \in I : j <= Nth(I, k)}) = k
    <3>1. \E i \in I : Cardinality({j \in I : j <= i}) = k
      BY <2>1, RankExists
    <3> QED
      BY <3>1, Zenon DEF Nth
  <2>10. \A k \in 1 .. Cardinality(I) :
           f[k] = Nth(I, k) /\ Pick(reqs, I)[k] = reqs[f[k]] /\ f[k] \in I
    BY <2>9 DEF Pick
  <2>11. \A k, l \in 1 .. Cardinality(I) : f[k] = f[l] => k = l
    BY <2>9
  <2> HIDE DEF f
  <2>12. ASSUME NEW k \in Positions(msgs(w), D)
         PROVE  k \in 1 .. Cardinality(I) /\ f[k] \in here /\ f[k] \in I
    <3>1. k \in 1 .. Cardinality(I) /\ msgs(w)[k] \in D
      BY <2>8 DEF Positions
    <3>2. Pick(reqs, I)[k] \in PendingRequest
          /\ WorkerRequest(Pick(reqs, I)[k].client, Pick(reqs, I)[k].body) \in D
      BY <2>4, <2>6, <3>1
    <3>3. Pick(reqs, I)[k] \in S[a]
      BY <3>2 DEF BrokerFollows
    <3>4. reqs[f[k]] \in S[a] /\ f[k] \in 1 .. Len(reqs) /\ f[k] \in I
      BY <2>1, <2>10, <3>1, <3>3
    <3> QED
      BY <3>1, <3>4 DEF Positions
  <2>13. ASSUME \A k \in here : k \notin I  PROVE NoneOf(msgs(w), D)
    BY <2>12, <2>13 DEF NoneOf
  <2>14. ASSUME OneOf(reqs, S[a])  PROVE OneOf(msgs(w), D)
    <3> SUFFICES ASSUME NEW k \in Positions(msgs(w), D),
                        NEW l \in Positions(msgs(w), D)
                 PROVE  k = l
      BY DEF OneOf
    <3>1. f[k] = f[l]
      BY <2>12, <2>14 DEF OneOf
    <3> QED
      BY <2>11, <2>12, <3>1
  <2> QED
    BY <2>8, <2>13, <2>14 DEF I
<1> HIDE DEF msgs
<1>5. ASSUME NEW w \in WorkerId
      PROVE  LET D == S[<<"backDown", w>>]
             IN  /\ NoneOf(msgs(w), D) => NoMore(backDown'[w], backDown[w], D)
                 /\ NoneOf(backDown[w], D) /\ OneOf(msgs(w), D)
                      => OneOf(backDown'[w], D)
  <2>1. backDown'[w] = Routed(w, backDown[w], msgs(w), BackHwm)
    BY <1>2
  <2>2. backDown[w] \in Seq(BackDownMsg) /\ msgs(w) \in Seq(BackDownMsg)
    BY <1>3, <1>4
  <2> QED
    BY <1>3, <2>1, <2>2, NoMoreOfRouted
<1>6. /\ pending'[s] = AllButOldest(reqs, n) /\ pe[s] = reqs
      /\ \A t \in Service \ {s} : pending'[t] = pending[t] /\ pe[t] = pending[t]
  BY <1>2, <1>3
<1>7. \A t \in Service : NoMore(pending'[t], pe[t], S[<<"pending", t>>])
  <2>1. NoMore(AllButOldest(reqs, n), reqs, S[a])
    BY <1>1, NoMoreOfAllButOldest
  <2> QED
    BY <1>6, <2>1, NoMoreOfSame
<1> HIDE DEF pe
<1>8. a \in Place /\ Q[a] = reqs /\ R[a] = AllButOldest(reqs, n)
  <2>1. a \in Place /\ Q[a] = pe[s]
    BY PackedAt
  <2>2. R[a] = pending'[s]
    BY PackedAt
  <2> QED
    BY <1>6, <2>1, <2>2
<1>9. \A w \in WorkerId :
        /\ <<"backDown", w>> \in Place
        /\ Q[<<"backDown", w>>] = backDown[w]
        /\ R[<<"backDown", w>>] = backDown'[w]
  <2> TAKE w \in WorkerId
  <2>1. <<"backDown", w>> \in Place
    BY DEF Place
  <2>2. Q[<<"backDown", w>>] = backDown[w]
    BY <2>1 DEF Packed
  <2>3. R[<<"backDown", w>>] = backDown'[w]
    BY <2>1 DEF Packed
  <2> QED
    BY <2>1, <2>2, <2>3
<1> HIDE DEF a
<1>10. ASSUME NEW D, \A w \in WorkerId :
                       <<"backDown", w>> \in D \/ \A k \in here : k \notin At(w)
       PROVE  \A x \in Place \ D : NoMore(R[x], Q[x], S[x])
  <2>1. \A w \in WorkerId :
          \/ <<"backDown", w>> \in D
          \/ NoMore(backDown'[w], backDown[w], S[<<"backDown", w>>])
    BY <1>4, <1>5, <1>10
  <2> QED
    BY <1>7, <2>1, NoMoreOfSame, EachPlace
<1>11. CASE \A k \in here : k \notin 1 .. n
  <2>1. \A w \in WorkerId : \A k \in here : k \notin At(w)
    BY <1>11
  <2>2. \A x \in Place \ {} : NoMore(R[x], Q[x], S[x])
    BY <1>10, <2>1
  <2> HIDE DEF Q, R
  <2>3. Carried(S, Q, R)
    BY <2>2, Kept
  <2> QED
    BY <2>3 DEF Q, R, pe
<1>12. CASE \E k \in here : k \in 1 .. n
  <2>1. PICK k \in here : k \in 1 .. n
    BY <1>12
  <2> DEFINE w == idles[k]
             d == <<"backDown", w>>
  <2>2. w \in WorkerId
    BY <1>1, <2>1, LenProperties
  <2>3. ~NoneOf(Q[a], S[a])
    BY <1>8, <2>1 DEF NoneOf
  <2>4. a # d
    BY DEF a
  <2>5. CASE OneOf(reqs, S[a])
    <3>1. \A l \in here : l = k
      BY <2>1, <2>5 DEF OneOf
    <3>2. \A x \in WorkerId : <<"backDown", x>> \in {d} \/ \A l \in here : l \notin At(x)
      BY <3>1
    <3>3. \A x \in Place \ {d} : NoMore(R[x], Q[x], S[x])
      BY <1>10, <3>2
    <3>4. NoneOf(R[a], S[a])
      <4>1. /\ Len(AllButOldest(reqs, n)) = Len(reqs) - n
            /\ \A i \in 1 .. Len(reqs) - n :
                 AllButOldest(reqs, n)[i] = reqs[i + n]
        BY <1>1, AllButOldestProperties
      <4>2. \A i \in Positions(AllButOldest(reqs, n), S[a]) :
              i + n \in here /\ i >= 1 /\ i \in Nat
        BY <1>1, <4>1 DEF Positions
      <4>3. \A i \in Positions(AllButOldest(reqs, n), S[a]) : FALSE
        <5> TAKE i \in Positions(AllButOldest(reqs, n), S[a])
        <5>1. i + n = k /\ i >= 1 /\ i \in Nat
          BY <3>1, <4>2
        <5>2. k \in 1 .. n
          BY <2>1
        <5> QED
          BY <1>1, <5>1, <5>2
      <4> QED
        BY <1>8, <4>3 DEF NoneOf
    <3>5. NoneOf(Q[d], S[d]) => OneOf(R[d], S[d])
      BY <1>4, <1>5, <1>9, <2>2, <2>5
    <3>6. d \in Place
      BY <1>9, <2>2
    <3> HIDE DEF Q, R, d
    <3>7. Carried(S, Q, R)
      BY <1>8, <2>3, <2>4, <3>3, <3>4, <3>5, <3>6, Moved
    <3> QED
      BY <3>7 DEF Q, R, pe
  <2>6. CASE ~OneOf(reqs, S[a])
    <3>1. ~NoneIn(S, Q) /\ ~OneIn(S, Q)
      BY <1>8, <2>3, <2>6 DEF NoneIn, OneIn
    <3> QED
      BY <3>1 DEF Carried, pe
  <2> QED
    BY <2>5, <2>6
<1> QED
  BY <1>11, <1>12

-----------------------------------------------------------------------------
(* The steps of the broker.                                                 *)

(* The types of the queues.                                                 *)
LEMMA QueueTypes ==
  ASSUME Inv
  PROVE  /\ TypeOK /\ BackHwm \in Nat /\ FrontHwm \in Nat
         /\ frontUp \in [ClientId -> Seq(FrontUpMsg)]
         /\ frontDown \in [ClientId -> Seq(FrontDownMsg)]
         /\ backUp \in [WorkerId -> Seq(BackUpMsg)]
         /\ backDown \in [WorkerId -> Seq(BackDownMsg)]
         /\ pending \in [Service -> Seq(PendingRequest)]
         /\ received \in [ClientProc -> Seq(Body)]
         /\ \A c \in ClientId : /\ frontUp[c] \in Seq(FrontUpMsg)
                                /\ frontDown[c] \in Seq(FrontDownMsg)
         /\ \A w \in WorkerId : /\ backUp[w] \in Seq(BackUpMsg)
                                /\ backDown[w] \in Seq(BackDownMsg)
         /\ \A s \in Service : pending[s] \in Seq(PendingRequest)
         /\ \A q \in ClientProc : received[q] \in Seq(Body)
BY NetAssumption DEF Inv, TypeOK, BrokerTypeOK, NetTypeOK, ClientTypeOK

(* A message that a ROUTER sends.                                           *)
LEMMA RoutedOne ==
  ASSUME NEW T, NEW q \in Seq(T), NEW x \in T, NEW id, NEW hwm \in Nat, NEW S
  PROVE  /\ x \notin S => NoMore(Routed(id, q, <<x>>, hwm), q, S)
         /\ NoneOf(q, S) => OneOf(Routed(id, q, <<x>>, hwm), S)
<1> DEFINE m == <<x>>
<1>1. m \in Seq(T) /\ OneOf(m, S) /\ (x \notin S => NoneOf(m, S))
  BY NoneOfOne
<1> HIDE DEF m
<1>2. /\ NoneOf(m, S) => NoMore(Routed(id, q, m, hwm), q, S)
      /\ NoneOf(q, S) /\ OneOf(m, S) => OneOf(Routed(id, q, m, hwm), S)
  BY <1>1, NoMoreOfRouted
<1> QED
  BY <1>1, <1>2 DEF m

LEMMA HandleClientRequestCarries ==
  ASSUME Inv, NEW c \in ClientId, HandleClientRequest(c), UNCHANGED clientVars,
         NEW S, BrokerFollows(S)
  PROVE  Carried(S, Queues, Queues')
<1> DEFINE m == Head(frontUp[c])
           a == <<"frontUp", c>>
<1>1. /\ TypeOK /\ FrontHwm \in Nat
      /\ frontUp \in [ClientId -> Seq(FrontUpMsg)]
      /\ frontDown \in [ClientId -> Seq(FrontDownMsg)]
      /\ pending \in [Service -> Seq(PendingRequest)]
      /\ frontUp[c] \in Seq(FrontUpMsg) /\ frontUp[c] # <<>>
      /\ frontDown[c] \in Seq(FrontDownMsg)
  BY QueueTypes DEF HandleClientRequest
<1>2. /\ frontUp' = [frontUp EXCEPT ![c] = Tail(@)]
      /\ backUp' = backUp /\ received' = received
  BY DEF HandleClientRequest, clientVars
<1>3. m \in FrontUpMsg
  BY <1>1, HeadTailProperties
<1>4. \A x \in ClientId : NoMore(frontUp'[x], frontUp[x], S[<<"frontUp", x>>])
  <2>1. NoMore(Tail(frontUp[c]), frontUp[c], S[a])
    BY <1>1, NoMoreOfTail
  <2> QED
    BY <1>1, <1>2, <2>1, NoMoreOfSame
<1>5. m \in S[a] => /\ ~NoneOf(frontUp[c], S[a])
                    /\ OneOf(frontUp[c], S[a]) => NoneOf(frontUp'[c], S[a])
  BY <1>1, <1>2, HeadMoves
<1>6. a \in Place /\ Queues[a] = frontUp[c] /\ Queues'[a] = frontUp'[c]
  BY DEF Place, Packed, Queues
<1>7. ASSUME m.type = "Discovery", HandleDiscovery(c, m.service)
      PROVE  Carried(S, Queues, Queues')
  <2> DEFINE d == <<"frontDown", c>>
  <2>1. PICK st \in {"Ok", "NotFound"} :
          SendToClient(c, DiscoveryReply(m.service, st))
    BY <1>7 DEF HandleDiscovery
  <2> DEFINE x == DiscoveryReply(m.service, st)
  <2>2. x \in FrontDownMsg
    BY <1>3, <1>7 DEF FrontUpMsg, FrontDownMsg, DiscoveryReply
  <2>3. x \in S[d] => m \in S[a]
    BY <1>3, <1>7 DEF BrokerFollows
  <2> HIDE DEF x
  <2>4. /\ frontDown' = [frontDown EXCEPT
                           ![c] = Routed(c, frontDown[c], <<x>>, FrontHwm)]
        /\ UNCHANGED <<pending, backDown>>
    BY <1>7, <2>1 DEF SendToClient, HandleDiscovery, x
  <2>5. /\ x \notin S[d] => NoMore(frontDown'[c], frontDown[c], S[d])
        /\ NoneOf(frontDown[c], S[d]) => OneOf(frontDown'[c], S[d])
    BY <1>1, <2>2, <2>4, RoutedOne
  <2>6. \A y \in ClientId : \/ <<"frontDown", y>> \in {d}
                            \/ NoMore(frontDown'[y], frontDown[y],
                                      S[<<"frontDown", y>>])
    BY <1>1, <2>4, NoMoreOfSame
  <2>7. \A y \in Place \ {d} : NoMore(Queues'[y], Queues[y], S[y])
    BY <1>2, <1>4, <2>4, <2>6, NoMoreOfSame, EachPlace DEF Queues
  <2>8. d \in Place /\ Queues[d] = frontDown[c] /\ Queues'[d] = frontDown'[c]
        /\ a # d
    BY DEF Place, Packed, Queues
  <2> HIDE DEF a, d, m
  <2> QED
    BY <1>5, <1>6, <2>3, <2>5, <2>7, <2>8, Moved
<1>8. ASSUME m.type = "Request", HandleUnknownService(m.service)
      PROVE  Carried(S, Queues, Queues')
  <2>1. UNCHANGED <<pending, backDown, frontDown>>
    BY <1>8 DEF HandleUnknownService
  <2>2. \A x \in Place \ {} : NoMore(Queues'[x], Queues[x], S[x])
    BY <1>2, <1>4, <2>1, NoMoreOfSame, EachPlace DEF Queues
  <2> QED
    BY <2>2, Kept
<1>9. ASSUME m.type = "Request", HandleKnownService(c, m.service, m.body)
      PROVE  Carried(S, Queues, Queues')
  <2> DEFINE s == m.service
             d == <<"pending", s>>
             x == [client |-> c, body |-> m.body]
             reqs == Append(pending[s], x)
             pe == [pending EXCEPT ![s] = reqs]
             Mid == Packed(frontUp', frontDown, backUp, backDown, pe, received)
  <2>1. s \in Service /\ m.body \in Body /\ idle[s] \in Seq(WorkerId)
    BY <1>1, <1>3, <1>9, TokenTypes DEF FrontUpMsg, HandleKnownService
  <2>2. x \in PendingRequest
    BY <2>1 DEF PendingRequest
  <2>3. x \in S[d] => m \in S[a]
    BY <1>3, <1>9, <2>1 DEF BrokerFollows
  <2>4. SendPendingRequests(s, idle[s], reqs) /\ frontDown' = frontDown
    BY <1>9 DEF HandleKnownService
  <2> HIDE DEF x, s
  <2>5. reqs \in Seq(PendingRequest) /\ pending[s] \in Seq(PendingRequest)
    BY <1>1, <2>1, <2>2, AppendProperties
  <2>6. /\ x \notin S[d] => NoMore(reqs, pending[s], S[d])
        /\ NoneOf(pending[s], S[d]) => OneOf(reqs, S[d])
    BY <2>2, <2>5, NoMoreOfAppend
  <2> HIDE DEF reqs
  <2>7. pe[s] = reqs /\ \A t \in Service \ {s} : pe[t] = pending[t]
    BY <1>1, <2>1
  <2> HIDE DEF pe
  <2>8. \A t \in Service : \/ <<"pending", t>> \in {d}
                           \/ NoMore(pe[t], pending[t], S[<<"pending", t>>])
    BY <2>7, NoMoreOfSame
  <2>9. \A y \in Place \ {d} : NoMore(Mid[y], Queues[y], S[y])
    BY <1>4, <2>8, NoMoreOfSame, EachPlace DEF Queues
  <2>10. d \in Place /\ Queues[d] = pending[s] /\ Mid[d] = pe[s] /\ a # d
    BY <2>1 DEF Place, Packed, Queues
  <2>11. Mid[a] = frontUp'[c]
    BY <1>6 DEF Packed
  <2> HIDE DEF a, d, m, Mid
  <2>12. Carried(S, Queues, Mid)
    BY <1>5, <1>6, <2>3, <2>6, <2>7, <2>9, <2>10, <2>11, Moved
  <2>13. Carried(S, Mid, Packed(frontUp', frontDown, backUp, backDown', pending',
                                received))
    BY <1>1, <2>1, <2>4, <2>5, SendPendingCarries DEF Mid, pe
  <2>14. Queues' = Packed(frontUp', frontDown, backUp, backDown', pending',
                          received)
    BY <1>2, <2>4 DEF Queues
  <2> QED
    BY <2>12, <2>13, <2>14, CarriedOn
<1> QED
  BY <1>7, <1>8, <1>9 DEF HandleClientRequest

(* handleReply: the reply goes on before sendPendingRequests.               *)
LEMMA HandleReplyCarries ==
  ASSUME Inv, NEW w \in WorkerId, NEW S, BrokerFollows(S), backUp[w] # <<>>,
         Head(backUp[w]).type = "Reply",
         HandleReply(w, Head(backUp[w]).client, Head(backUp[w]).body),
         backUp' = [backUp EXCEPT ![w] = Tail(@)],
         UNCHANGED <<frontUp, received>>
  PROVE  Carried(S, Queues, Queues')
<1> DEFINE m == Head(backUp[w])
           c == m.client
           s == registered[w]
           a == <<"backUp", w>>
           d == <<"frontDown", c>>
           x == ClientReply(s, m.body)
           Mid == Packed(frontUp, frontDown', backUp', backDown, pending, received)
<1>1. /\ TypeOK /\ FrontHwm \in Nat
      /\ frontDown \in [ClientId -> Seq(FrontDownMsg)]
      /\ backUp \in [WorkerId -> Seq(BackUpMsg)]
      /\ pending \in [Service -> Seq(PendingRequest)]
      /\ backUp[w] \in Seq(BackUpMsg)
      /\ \A y \in ClientId : frontDown[y] \in Seq(FrontDownMsg)
      /\ \A t \in Service : pending[t] \in Seq(PendingRequest)
                            /\ idle[t] \in Seq(WorkerId)
  BY QueueTypes, TokenTypes
<1>2. m \in BackUpMsg /\ c \in ClientId /\ m.body \in Body
  <2>1. m \in BackUpMsg
    BY <1>1, HeadTailProperties
  <2> QED
    BY <2>1 DEF BackUpMsg
<1>3. s \in Service
  BY DEF HandleReply, Registered, Inv, TypeOK, BrokerTypeOK
<1>4. x \in FrontDownMsg
  BY <1>2, <1>3 DEF FrontDownMsg, ClientReply
<1>5. x \in S[d] => m \in S[a]
  BY <1>2, <1>3 DEF BrokerFollows
<1>6. /\ frontDown' = [frontDown EXCEPT
                         ![c] = Routed(c, frontDown[c], <<x>>, FrontHwm)]
      /\ SendPendingRequests(s, Append(idle[s], w), pending[s])
  BY DEF HandleReply, SendToClient
<1> HIDE DEF x
<1>7. /\ x \notin S[d] => NoMore(frontDown'[c], frontDown[c], S[d])
      /\ NoneOf(frontDown[c], S[d]) => OneOf(frontDown'[c], S[d])
  BY <1>1, <1>2, <1>4, <1>6, RoutedOne
<1>8. m \in S[a] => /\ ~NoneOf(backUp[w], S[a])
                    /\ OneOf(backUp[w], S[a]) => NoneOf(backUp'[w], S[a])
  BY <1>1, HeadMoves
<1>9. \A y \in WorkerId : NoMore(backUp'[y], backUp[y], S[<<"backUp", y>>])
  <2>1. NoMore(Tail(backUp[w]), backUp[w], S[a])
    BY <1>1, NoMoreOfTail
  <2> QED
    BY <1>1, <2>1, NoMoreOfSame
<1>10. \A y \in ClientId : \/ <<"frontDown", y>> \in {d}
                           \/ NoMore(frontDown'[y], frontDown[y],
                                     S[<<"frontDown", y>>])
  BY <1>1, <1>6, NoMoreOfSame
<1>11. \A y \in Place \ {d} : NoMore(Mid[y], Queues[y], S[y])
  BY <1>9, <1>10, NoMoreOfSame, EachPlace DEF Queues
<1>12. d \in Place /\ Queues[d] = frontDown[c] /\ Mid[d] = frontDown'[c] /\ a # d
  BY <1>2 DEF Place, Packed, Queues
<1>13. a \in Place /\ Queues[a] = backUp[w] /\ Mid[a] = backUp'[w]
  BY DEF Place, Packed, Queues
<1>14. Append(idle[s], w) \in Seq(WorkerId)
  BY <1>1, <1>3, AppendProperties
<1>15. [pending EXCEPT ![s] = pending[s]] = pending
  BY <1>1, <1>3
<1> HIDE DEF a, c, d, m, s, Mid
<1>16. Carried(S, Queues, Mid)
  BY <1>5, <1>7, <1>8, <1>11, <1>12, <1>13, Moved
<1>17. Carried(S, Packed(frontUp, frontDown', backUp', backDown,
                         [pending EXCEPT ![s] = pending[s]], received),
                  Packed(frontUp, frontDown', backUp', backDown', pending',
                         received))
  BY <1>1, <1>3, <1>6, <1>14, SendPendingCarries
<1>18. Queues' = Packed(frontUp, frontDown', backUp', backDown', pending',
                        received)
  BY DEF Queues
<1> QED
  BY <1>15, <1>16, <1>17, <1>18, CarriedOn DEF Mid

LEMMA HandleReadyCarries ==
  ASSUME Inv, NEW w \in WorkerId, NEW s \in Service, NEW S, BrokerFollows(S),
         backUp[w] # <<>>, HandleReady(w, s),
         backUp' = [backUp EXCEPT ![w] = Tail(@)],
         UNCHANGED <<frontUp, received>>
  PROVE  Carried(S, Queues, Queues')
<1> DEFINE Mid == Packed(frontUp, frontDown, backUp', backDown, pending, received)
<1>1. /\ TypeOK
      /\ backUp \in [WorkerId -> Seq(BackUpMsg)]
      /\ pending \in [Service -> Seq(PendingRequest)]
      /\ backUp[w] \in Seq(BackUpMsg)
      /\ pending[s] \in Seq(PendingRequest) /\ idle[s] \in Seq(WorkerId)
  BY QueueTypes, TokenTypes
<1>2. /\ SendPendingRequests(s, Append(idle[s], w), pending[s])
      /\ frontDown' = frontDown
  BY DEF HandleReady
<1>3. \A y \in WorkerId : NoMore(backUp'[y], backUp[y], S[<<"backUp", y>>])
  <2>1. NoMore(Tail(backUp[w]), backUp[w], S[<<"backUp", w>>])
    BY <1>1, NoMoreOfTail
  <2> QED
    BY <1>1, <2>1, NoMoreOfSame
<1>4. \A y \in Place \ {} : NoMore(Mid[y], Queues[y], S[y])
  BY <1>3, NoMoreOfSame, EachPlace DEF Queues
<1>5. Append(idle[s], w) \in Seq(WorkerId)
  BY <1>1, AppendProperties
<1>6. [pending EXCEPT ![s] = pending[s]] = pending
  BY <1>1
<1> HIDE DEF Mid
<1>7. Carried(S, Queues, Mid)
  BY <1>4, Kept
<1>8. Carried(S, Packed(frontUp, frontDown, backUp', backDown,
                        [pending EXCEPT ![s] = pending[s]], received),
                 Packed(frontUp, frontDown, backUp', backDown', pending',
                        received))
  BY <1>1, <1>2, <1>5, SendPendingCarries
<1>9. Queues' = Packed(frontUp, frontDown, backUp', backDown', pending', received)
  BY <1>2 DEF Queues
<1> QED
  BY <1>6, <1>7, <1>8, <1>9, CarriedOn DEF Mid

LEMMA HandleWorkerResponseCarries ==
  ASSUME Inv, NEW w \in WorkerId, HandleWorkerResponse(w), UNCHANGED clientVars,
         NEW S, BrokerFollows(S)
  PROVE  Carried(S, Queues, Queues')
<1> DEFINE m == Head(backUp[w])
<1>1. /\ backUp \in [WorkerId -> Seq(BackUpMsg)]
      /\ backDown \in [WorkerId -> Seq(BackDownMsg)]
      /\ backDown[w] \in Seq(BackDownMsg)
      /\ backUp[w] \in Seq(BackUpMsg) /\ backUp[w] # <<>> /\ BackHwm \in Nat
  BY QueueTypes DEF HandleWorkerResponse
<1>2. /\ backUp' = [backUp EXCEPT ![w] = Tail(@)]
      /\ UNCHANGED <<frontUp, received>>
  BY DEF HandleWorkerResponse, clientVars
<1>3. m \in BackUpMsg
  BY <1>1, HeadTailProperties
<1>4. ASSUME m.type = "Ready", HandleReady(w, m.service)
      PROVE  Carried(S, Queues, Queues')
  <2>1. m.service \in Service
    BY <1>3, <1>4 DEF BackUpMsg
  <2> QED
    BY <1>1, <1>2, <1>4, <2>1, HandleReadyCarries
<1>5. ASSUME m.type = "Reply", HandleReply(w, m.client, m.body)
      PROVE  Carried(S, Queues, Queues')
  BY <1>1, <1>2, <1>5, HandleReplyCarries
<1>6. \A y \in WorkerId : NoMore(backUp'[y], backUp[y], S[<<"backUp", y>>])
  <2>1. NoMore(Tail(backUp[w]), backUp[w], S[<<"backUp", w>>])
    BY <1>1, NoMoreOfTail
  <2> QED
    BY <1>1, <1>2, <2>1, NoMoreOfSame
<1>7. ASSUME HandleHeartbeat(w) \/ HandleUnregistered(w) \/ HandleDisconnect(w)
      PROVE  Carried(S, Queues, Queues')
  <2>1. UNCHANGED <<frontDown, pending>>
    BY <1>7 DEF HandleHeartbeat, HandleUnregistered, HandleDisconnect
  <2>2. \A y \in WorkerId : NoMore(backDown'[y], backDown[y],
                                   S[<<"backDown", y>>])
    <3>1. CASE UNCHANGED backDown
      BY <3>1, NoMoreOfSame
    <3>2. CASE HandleUnregistered(w)
      <4>1. Disconnect \in BackDownMsg /\ Disconnect \notin S[<<"backDown", w>>]
        <5>1. Disconnect \in BackDownMsg /\ Disconnect.type = "Disconnect"
          BY DEF Disconnect, BackDownMsg
        <5> QED
          BY <5>1 DEF BrokerFollows
      <4>2. NoMore(Routed(w, backDown[w], <<Disconnect>>, BackHwm), backDown[w],
                   S[<<"backDown", w>>])
        BY <1>1, <4>1, RoutedOne
      <4> QED
        BY <1>1, <3>2, <4>2, NoMoreOfSame DEF HandleUnregistered, SendDisconnect
    <3> QED
      BY <1>7, <3>1, <3>2 DEF HandleHeartbeat, HandleDisconnect
  <2>3. \A y \in Place \ {} : NoMore(Queues'[y], Queues[y], S[y])
    BY <1>2, <1>6, <2>1, <2>2, NoMoreOfSame, EachPlace DEF Queues
  <2> QED
    BY <2>3, Kept
<1> QED
  BY <1>4, <1>5, <1>7 DEF HandleWorkerResponse

LEMMA HousekeepingCarries ==
  ASSUME Inv, Housekeeping, UNCHANGED clientVars, NEW S, BrokerFollows(S)
  PROVE  Carried(S, Queues, Queues')
<1>1. /\ backDown' = [w \in WorkerId |->
                        IF beatDue /\ w \in Registered \ Expired
                          THEN Routed(w, backDown[w], <<Heartbeat>>, BackHwm)
                          ELSE backDown[w]]
      /\ UNCHANGED <<frontUp, frontDown, backUp, pending, received>>
  BY DEF Housekeeping, SendHeartbeat, clientVars
<1>2. ASSUME NEW w \in WorkerId
      PROVE  NoMore(backDown'[w], backDown[w], S[<<"backDown", w>>])
  <2>1. Heartbeat \in BackDownMsg /\ Heartbeat.type = "Heartbeat"
    BY DEF Heartbeat, BackDownMsg
  <2>2. Heartbeat \notin S[<<"backDown", w>>]
    BY <2>1 DEF BrokerFollows
  <2>3. NoMore(Routed(w, backDown[w], <<Heartbeat>>, BackHwm), backDown[w],
               S[<<"backDown", w>>])
    BY <2>1, <2>2, RoutedOne, QueueTypes
  <2> QED
    BY <1>1, <2>3, NoMoreOfSame
<1>3. \A y \in Place \ {} : NoMore(Queues'[y], Queues[y], S[y])
  BY <1>1, <1>2, NoMoreOfSame, EachPlace DEF Queues
<1> QED
  BY <1>3, Kept

LEMMA BrokerStepCarries ==
  ASSUME Inv, BrokerStep, NEW S, BrokerFollows(S)
  PROVE  Carried(S, Queues, Queues')
<1>1. UNCHANGED clientVars
  BY DEF BrokerStep
<1>2. ASSUME BrokerWait  PROVE Carried(S, Queues, Queues')
  <2>1. Queues' = Queues
    BY <1>1, <1>2 DEF BrokerWait, netVars, clientVars, Queues
  <2> QED
    BY <2>1 DEF Carried
<1> QED
  BY <1>1, <1>2, HandleClientRequestCarries, HandleWorkerResponseCarries,
     HousekeepingCarries DEF BrokerStep, BrokerNext

-----------------------------------------------------------------------------
(* Failures.                                                                *)

LEMMA BrokerFailsCarries ==
  ASSUME Inv, BrokerFails, NEW S
  PROVE  Carried(S, Queues, Queues')
<1>1. PICK bu \in Cuts(backUp, BackHwm), bd \in Cuts(backDown, BackHwm),
           fu \in Cuts(frontUp, FrontHwm), fd \in Cuts(frontDown, FrontHwm) :
             BrokerCrash(bu, bd, fu, fd)
  BY DEF BrokerFails
<1>2. /\ \A w \in WorkerId : /\ backDown[w] \in Seq(BackDownMsg)
                             /\ backUp[w] \in Seq(BackUpMsg)
      /\ \A c \in ClientId : /\ frontUp[c] \in Seq(FrontUpMsg)
                             /\ frontDown[c] \in Seq(FrontDownMsg)
      /\ DOMAIN backUp = WorkerId /\ DOMAIN backDown = WorkerId
      /\ DOMAIN frontUp = ClientId /\ DOMAIN frontDown = ClientId
      /\ BackHwm \in Nat /\ FrontHwm \in Nat
  BY QueueTypes
<1>3. /\ \A w \in WorkerId : /\ bu[w] \in Nat /\ bu[w] <= Len(backUp[w])
                             /\ bd[w] \in Nat /\ bd[w] <= Len(backDown[w])
      /\ \A c \in ClientId : /\ fu[c] \in Nat /\ fu[c] <= Len(frontUp[c])
                             /\ fd[c] \in Nat /\ fd[c] <= Len(frontDown[c])
  BY <1>2 DEF Cuts
<1>4. /\ \A s \in Service : pending'[s] = <<>>
      /\ \A w \in WorkerId : /\ backUp'[w] = AllButOldest(backUp[w], bu[w])
                             /\ backDown'[w] = Oldest(backDown[w], bd[w])
      /\ \A c \in ClientId : /\ frontUp'[c] = AllButOldest(frontUp[c], fu[c])
                             /\ frontDown'[c] = Oldest(frontDown[c], fd[c])
      /\ received' = received
  BY <1>1 DEF BrokerFails, BrokerCrash, EmptyBroker, clientVars
<1>5. \A w \in WorkerId :
        /\ NoMore(backUp'[w], backUp[w], S[<<"backUp", w>>])
        /\ NoMore(backDown'[w], backDown[w], S[<<"backDown", w>>])
  BY <1>2, <1>3, <1>4, NoMoreOfOldest, NoMoreOfAllButOldest
<1>6. \A c \in ClientId :
        /\ NoMore(frontUp'[c], frontUp[c], S[<<"frontUp", c>>])
        /\ NoMore(frontDown'[c], frontDown[c], S[<<"frontDown", c>>])
  BY <1>2, <1>3, <1>4, NoMoreOfOldest, NoMoreOfAllButOldest
<1>7. \A s \in Service : NoMore(pending'[s], pending[s], S[<<"pending", s>>])
  BY <1>4, NoMoreOfEmpty
<1>8. \A y \in Place \ {} : NoMore(Queues'[y], Queues[y], S[y])
  BY <1>4, <1>5, <1>6, <1>7, NoMoreOfSame, EachPlace DEF Queues
<1> QED
  BY <1>8, Kept

LEMMA LinkFailsCarries ==
  ASSUME Inv, NEW S,
         \/ \E w \in WorkerId : BackLinkFails(w)
         \/ \E c \in ClientId : FrontLinkFails(c)
  PROVE  Carried(S, Queues, Queues')
<1>1. UNCHANGED <<pending, received>>
  BY DEF BackLinkFails, FrontLinkFails, brokerVars, clientVars
<1>2. ASSUME NEW w \in WorkerId, BackLinkFails(w)
      PROVE  Carried(S, Queues, Queues')
  <2>1. PICK read \in 0 .. BackHwm, lost \in 0 .. BackHwm, kept \in 0 .. BackHwm :
          BackConnectionReset(w, read, lost, kept)
    BY <1>2 DEF BackLinkFails
  <2>2. /\ read + lost <= Len(backUp[w]) /\ kept <= Len(backDown[w])
        /\ backUp' = [backUp EXCEPT ![w] = WithLoss(@, read, lost)]
        /\ backDown' = [backDown EXCEPT ![w] = Oldest(@, kept)]
        /\ UNCHANGED <<frontUp, frontDown>>
    BY <2>1 DEF BackConnectionReset
  <2>3. /\ backDown \in [WorkerId -> Seq(BackDownMsg)]
        /\ backUp \in [WorkerId -> Seq(BackUpMsg)]
        /\ backDown[w] \in Seq(BackDownMsg) /\ backUp[w] \in Seq(BackUpMsg)
        /\ read \in Nat /\ lost \in Nat /\ kept \in Nat
    BY QueueTypes
  <2>4. NoMore(WithLoss(backUp[w], read, lost), backUp[w], S[<<"backUp", w>>])
    BY <2>2, <2>3, NoMoreOfLoss
  <2>5. NoMore(Oldest(backDown[w], kept), backDown[w], S[<<"backDown", w>>])
    BY <2>2, <2>3, NoMoreOfOldest
  <2>6. \A x \in WorkerId :
          /\ NoMore(backUp'[x], backUp[x], S[<<"backUp", x>>])
          /\ NoMore(backDown'[x], backDown[x], S[<<"backDown", x>>])
    BY <2>2, <2>3, <2>4, <2>5, NoMoreOfSame
  <2>7. \A y \in Place \ {} : NoMore(Queues'[y], Queues[y], S[y])
    BY <1>1, <2>2, <2>6, NoMoreOfSame, EachPlace DEF Queues
  <2> QED
    BY <2>7, Kept
<1>3. ASSUME NEW c \in ClientId, FrontLinkFails(c)
      PROVE  Carried(S, Queues, Queues')
  <2>1. PICK read \in 0 .. FrontHwm, lost \in 0 .. FrontHwm,
             kept \in 0 .. FrontHwm : FrontConnectionReset(c, read, lost, kept)
    BY <1>3 DEF FrontLinkFails
  <2>2. /\ read + lost <= Len(frontUp[c]) /\ kept <= Len(frontDown[c])
        /\ frontUp' = [frontUp EXCEPT ![c] = WithLoss(@, read, lost)]
        /\ frontDown' = [frontDown EXCEPT ![c] = Oldest(@, kept)]
        /\ UNCHANGED <<backUp, backDown>>
    BY <2>1 DEF FrontConnectionReset
  <2>3. /\ frontDown \in [ClientId -> Seq(FrontDownMsg)]
        /\ frontUp \in [ClientId -> Seq(FrontUpMsg)]
        /\ frontDown[c] \in Seq(FrontDownMsg) /\ frontUp[c] \in Seq(FrontUpMsg)
        /\ read \in Nat /\ lost \in Nat /\ kept \in Nat
    BY QueueTypes
  <2>4. NoMore(WithLoss(frontUp[c], read, lost), frontUp[c], S[<<"frontUp", c>>])
    BY <2>2, <2>3, NoMoreOfLoss
  <2>5. NoMore(Oldest(frontDown[c], kept), frontDown[c], S[<<"frontDown", c>>])
    BY <2>2, <2>3, NoMoreOfOldest
  <2>6. \A x \in ClientId :
          /\ NoMore(frontUp'[x], frontUp[x], S[<<"frontUp", x>>])
          /\ NoMore(frontDown'[x], frontDown[x], S[<<"frontDown", x>>])
    BY <2>2, <2>3, <2>4, <2>5, NoMoreOfSame
  <2>7. \A y \in Place \ {} : NoMore(Queues'[y], Queues[y], S[y])
    BY <1>1, <2>2, <2>6, NoMoreOfSame, EachPlace DEF Queues
  <2> QED
    BY <2>7, Kept
<1> QED
  BY <1>2, <1>3

(* A worker's socket is gone.                                               *)
LEMMA WorkerEndsCarries ==
  ASSUME Inv, NEW p \in WorkerProc, NEW S, WorkerFollows(S),
         WorkerFails(p) \/ WorkerLeaves(p)
  PROVE  Carried(S, Queues, Queues')
<1> DEFINE w == wId[p]
<1>1. /\ wPhase[p] # "off" /\ UNCHANGED <<pending, received, frontUp, frontDown>>
      /\ backDown' = [backDown EXCEPT ![w] = <<>>]
  BY DEF WorkerFails, WorkerLeaves, WorkerCrash, WorkerLeave, WorkerEnds,
     brokerVars, clientVars
<1>2. /\ w \in WorkerId
      /\ backDown \in [WorkerId -> Seq(BackDownMsg)]
      /\ backUp \in [WorkerId -> Seq(BackUpMsg)]
      /\ backUp[w] \in Seq(BackUpMsg)
  BY <1>1, QueueTypes DEF Inv, PhasesAgree
<1>3. PICK left : /\ backUp' = [backUp EXCEPT ![w] = left]
                  /\ NoMore(left, backUp[w], S[<<"backUp", w>>])
  <2>1. ASSUME WorkerFails(p)
        PROVE  \E left : /\ backUp' = [backUp EXCEPT ![w] = left]
                         /\ NoMore(left, backUp[w], S[<<"backUp", w>>])
    <3>1. PICK n \in 0 .. BackHwm : WorkerCrash(p, n)
      BY <2>1 DEF WorkerFails
    <3>2. /\ backUp' = [backUp EXCEPT ![w] = Oldest(backUp[w], n)]
          /\ n <= Len(backUp[w]) /\ n \in Nat
      BY <1>1, <3>1, NetAssumption DEF WorkerCrash, WorkerEnds
    <3>3. NoMore(Oldest(backUp[w], n), backUp[w], S[<<"backUp", w>>])
      BY <1>2, <3>2, NoMoreOfOldest
    <3> QED
      BY <3>2, <3>3
  <2>2. ASSUME WorkerLeaves(p)
        PROVE  \E left : /\ backUp' = [backUp EXCEPT ![w] = left]
                         /\ NoMore(left, backUp[w], S[<<"backUp", w>>])
    <3>1. backUp' = [backUp EXCEPT ![w] = Append(backUp[w], Disconnect)]
      BY <2>2 DEF WorkerLeaves, WorkerLeave, WorkerEnds
    <3>2. Disconnect \in BackUpMsg /\ Disconnect.type = "Disconnect"
      BY DEF Disconnect, BackUpMsg
    <3>3. Disconnect \notin S[<<"backUp", w>>]
      BY <1>2, <3>2 DEF WorkerFollows
    <3>4. NoMore(Append(backUp[w], Disconnect), backUp[w], S[<<"backUp", w>>])
      BY <1>2, <3>2, <3>3, NoMoreOfAppend
    <3> QED
      BY <3>1, <3>4
  <2> QED
    BY <2>1, <2>2
<1>4. \A x \in WorkerId :
        /\ NoMore(backUp'[x], backUp[x], S[<<"backUp", x>>])
        /\ NoMore(backDown'[x], backDown[x], S[<<"backDown", x>>])
  BY <1>1, <1>2, <1>3, NoMoreOfSame, NoMoreOfEmpty
<1>5. \A y \in Place \ {} : NoMore(Queues'[y], Queues[y], S[y])
  BY <1>1, <1>4, NoMoreOfSame, EachPlace DEF Queues
<1> QED
  BY <1>5, Kept

-----------------------------------------------------------------------------
(* The steps of a worker.                                                   *)

LEMMA ConnectCarries ==
  ASSUME Inv, NEW p \in WorkerProc, NEW id \in FreshWorkerId, NEW n \in Nat,
         Connect(p, id, n), NEW S, WorkerFollows(S),
         UNCHANGED <<pending, received, frontUp, frontDown>>
  PROVE  Carried(S, Queues, Queues')
<1> DEFINE old == wId[p]
           first == <<Ready(ServiceOf[p])>>
<1>1. /\ \A w \in WorkerId : backUp[w] \in Seq(BackUpMsg)
      /\ ServiceOf[p] \in Service /\ NoId \notin WorkerId /\ id \in WorkerId
      /\ backUp[id] = <<>>
  BY QueueTypes, WorkerAssumption DEF FreshWorkerId
<1>2. /\ old # NoId => n <= Len(backUp[old])
      /\ \A w \in WorkerId :
           /\ backUp'[w] = IF w = id THEN first
                           ELSE IF w = old THEN Oldest(backUp[w], n)
                           ELSE backUp[w]
           /\ backDown'[w] = IF w \in {id, old} THEN <<>> ELSE backDown[w]
  BY DEF Connect
<1>3. NoneOf(first, S[<<"backUp", id>>])
  <2>1. /\ Ready(ServiceOf[p]) \in BackUpMsg
        /\ Ready(ServiceOf[p]).type = "Ready"
    BY <1>1 DEF Ready, BackUpMsg
  <2>2. Ready(ServiceOf[p]) \notin S[<<"backUp", id>>]
    BY <1>1, <2>1 DEF WorkerFollows
  <2> QED
    BY <2>2, NoneOfOne
<1> HIDE DEF first, old
<1>4. ASSUME NEW w \in WorkerId
      PROVE  NoMore(backUp'[w], backUp[w], S[<<"backUp", w>>])
  <2>1. CASE w = id
    <3>1. NoMore(first, backUp[w], S[<<"backUp", w>>])
      BY <1>3, <2>1 DEF NoMore, NoneOf, OneOf
    <3> QED
      BY <1>2, <2>1, <3>1
  <2>2. CASE w # id /\ w = old
    <3>1. NoMore(Oldest(backUp[w], n), backUp[w], S[<<"backUp", w>>])
      BY <1>1, <1>2, <2>2, NoMoreOfOldest
    <3> QED
      BY <1>2, <2>2, <3>1
  <2> QED
    BY <1>2, <2>1, <2>2, NoMoreOfSame
<1>5. \A w \in WorkerId :
        NoMore(backDown'[w], backDown[w], S[<<"backDown", w>>])
  BY <1>2, NoMoreOfSame, NoMoreOfEmpty
<1>6. \A y \in Place \ {} : NoMore(Queues'[y], Queues[y], S[y])
  BY <1>4, <1>5, NoMoreOfSame, EachPlace DEF Queues
<1> QED
  BY <1>6, Kept

(* The end of an iteration, whatever it sends.                              *)
LEMMA FinishIterationCarries ==
  ASSUME Inv, NEW p \in WorkerProc, wPhase[p] = "polling", NEW S, WorkerFollows(S),
         NEW msgs \in Seq(BackUpMsg), FinishIteration(p, msgs),
         OneOf(msgs, S[<<"backUp", wId[p]>>])
  PROVE  LET w == wId[p]
             D == S[<<"backUp", w>>]
         IN  /\ \A x \in WorkerId \ {w} : backUp'[x] = backUp[x]
             /\ NoneOf(msgs, D) => NoMore(backUp'[w], backUp[w], D)
             /\ NoneOf(backUp[w], D) => OneOf(backUp'[w], D)
<1> DEFINE w == wId[p]
           D == S[<<"backUp", w>>]
           beat == IF elapsed[p] THEN <<Heartbeat>> ELSE <<>>
           out == msgs \o beat
<1>1. /\ w \in WorkerId /\ backUp \in [WorkerId -> Seq(BackUpMsg)]
      /\ backUp[w] \in Seq(BackUpMsg)
  BY QueueTypes DEF Inv, PhasesAgree
<1>2. backUp' = [backUp EXCEPT ![w] = @ \o out]
  BY DEF FinishIteration
<1>3. beat \in Seq(BackUpMsg) /\ NoneOf(beat, D)
  <2>1. Heartbeat \in BackUpMsg /\ Heartbeat.type = "Heartbeat"
    BY DEF Heartbeat, BackUpMsg
  <2>2. Heartbeat \notin D
    BY <1>1, <2>1 DEF WorkerFollows
  <2>3. NoneOf(<<Heartbeat>>, D) /\ NoneOf(<<>>, D)
    BY <2>2, NoneOfOne, NoMoreOfEmpty
  <2>4. <<Heartbeat>> \in Seq(BackUpMsg) /\ <<>> \in Seq(BackUpMsg)
    BY <2>1, EmptySeq
  <2> QED
    BY <2>3, <2>4
<1> HIDE DEF beat, D
<1>4. out \in Seq(BackUpMsg)
  BY <1>3, ConcatProperties
<1>5. OneOf(msgs, D) => OneOf(out, D)
  BY <1>3, NoMoreOfConcat DEF NoMore
<1>6. NoneOf(msgs, D) => NoneOf(out, D)
  BY <1>3, NoMoreOfConcat
<1> HIDE DEF out, w
<1>7. /\ NoneOf(msgs, D) => NoMore(backUp[w] \o out, backUp[w], D)
      /\ NoneOf(backUp[w], D) /\ OneOf(msgs, D) => OneOf(backUp[w] \o out, D)
  BY <1>1, <1>4, <1>5, <1>6, NoMoreOfConcat
<1>8. /\ backUp'[w] = backUp[w] \o out
      /\ \A x \in WorkerId \ {w} : backUp'[x] = backUp[x]
  BY <1>1, <1>2
<1> QED
  BY <1>7, <1>8 DEF w, D

LEMMA WorkerReceiveCarries ==
  ASSUME Inv, NEW p \in WorkerProc, WorkerReceive(p), NEW S, WorkerFollows(S),
         UNCHANGED <<pending, received>>
  PROVE  Carried(S, Queues, Queues')
<1> DEFINE w == wId[p]
           m == Head(backDown[w])
           a == <<"backDown", w>>
           d == <<"backUp", w>>
<1>1. /\ wPhase[p] = "polling" /\ backDown[w] # <<>>
      /\ backDown' = [backDown EXCEPT ![w] = Tail(@)]
      /\ UNCHANGED <<frontUp, frontDown>>
  BY DEF WorkerReceive
<1>2. /\ w \in WorkerId /\ backDown \in [WorkerId -> Seq(BackDownMsg)]
      /\ backDown[w] \in Seq(BackDownMsg)
  BY <1>1, QueueTypes DEF Inv, PhasesAgree
<1>3. m \in BackDownMsg
  BY <1>1, <1>2, HeadTailProperties
<1>4. \A x \in WorkerId : NoMore(backDown'[x], backDown[x], S[<<"backDown", x>>])
  <2>1. NoMore(Tail(backDown[w]), backDown[w], S[a])
    BY <1>1, <1>2, NoMoreOfTail
  <2> QED
    BY <1>1, <1>2, <2>1, NoMoreOfSame
<1>5. m \in S[a] => /\ ~NoneOf(backDown[w], S[a])
                    /\ OneOf(backDown[w], S[a]) => NoneOf(backDown'[w], S[a])
  BY <1>1, <1>2, HeadMoves
<1>6. ASSUME m.type = "Heartbeat", FinishIteration(p, <<>>)
      PROVE  Carried(S, Queues, Queues')
  <2>1. <<>> \in Seq(BackUpMsg) /\ NoneOf(<<>>, S[d]) /\ OneOf(<<>>, S[d])
    BY EmptySeq, NoMoreOfEmpty
  <2>2. /\ \A x \in WorkerId \ {w} : backUp'[x] = backUp[x]
        /\ NoMore(backUp'[w], backUp[w], S[d])
    BY <1>1, <1>6, <2>1, FinishIterationCarries
  <2>3. \A x \in WorkerId : NoMore(backUp'[x], backUp[x], S[<<"backUp", x>>])
    BY <2>2, NoMoreOfSame
  <2>4. \A y \in Place \ {} : NoMore(Queues'[y], Queues[y], S[y])
    BY <1>1, <1>4, <2>3, NoMoreOfSame, EachPlace DEF Queues
  <2> QED
    BY <2>4, Kept
<1>7. ASSUME m.type = "Request",
             FinishIteration(p, <<WorkerReply(m.client, m.body)>>)
      PROVE  Carried(S, Queues, Queues')
  <2> DEFINE x == WorkerReply(m.client, m.body)
             out == <<x>>
  <2>1. x \in BackUpMsg /\ (x \in S[d] => m \in S[a])
    BY <1>2, <1>3, <1>7 DEF BackDownMsg, WorkerReply, BackUpMsg, WorkerFollows
  <2>2. FinishIteration(p, out)
    BY <1>7
  <2> HIDE DEF x
  <2>3. out \in Seq(BackUpMsg) /\ OneOf(out, S[d])
        /\ (x \notin S[d] => NoneOf(out, S[d]))
    BY <2>1, NoneOfOne
  <2> HIDE DEF out
  <2>4. /\ \A y \in WorkerId \ {w} : backUp'[y] = backUp[y]
        /\ NoneOf(out, S[d]) => NoMore(backUp'[w], backUp[w], S[d])
        /\ NoneOf(backUp[w], S[d]) => OneOf(backUp'[w], S[d])
    BY <1>1, <2>2, <2>3, FinishIterationCarries
  <2>5. \A y \in WorkerId : \/ <<"backUp", y>> \in {d}
                            \/ NoMore(backUp'[y], backUp[y], S[<<"backUp", y>>])
    BY <2>4, NoMoreOfSame
  <2>6. \A y \in Place \ {d} : NoMore(Queues'[y], Queues[y], S[y])
    BY <1>1, <1>4, <2>5, NoMoreOfSame, EachPlace DEF Queues
  <2>7. /\ a \in Place /\ Queues[a] = backDown[w] /\ Queues'[a] = backDown'[w]
        /\ d \in Place /\ Queues[d] = backUp[w] /\ Queues'[d] = backUp'[w]
        /\ a # d
    BY <1>2 DEF Place, Packed, Queues
  <2> HIDE DEF a, d, m, w
  <2> QED
    BY <1>5, <2>1, <2>3, <2>4, <2>6, <2>7, Moved
<1> QED
  BY <1>6, <1>7 DEF WorkerReceive

LEMMA WorkerStepCarries ==
  ASSUME Inv, NEW p \in WorkerProc, WorkerStep(p) \/ StartWorker(p),
         NEW S, WorkerFollows(S)
  PROVE  Carried(S, Queues, Queues')
<1>1. UNCHANGED <<pending, received>>
  BY DEF WorkerStep, StartWorker, brokerVars, clientVars
<1>2. ASSUME WorkerSleep(p)  PROVE Carried(S, Queues, Queues')
  <2>1. Queues' = Queues
    BY <1>1, <1>2 DEF WorkerSleep, netVars, Queues
  <2> QED
    BY <2>1 DEF Carried
<1>3. ASSUME NEW id \in FreshWorkerId, NEW n \in 0 .. BackHwm,
             Connect(p, id, n), UNCHANGED <<frontUp, frontDown>>
      PROVE  Carried(S, Queues, Queues')
  <2>1. n \in Nat
    BY NetAssumption
  <2> QED
    BY <1>1, <1>3, <2>1, ConnectCarries
<1>4. ASSUME StartWorker(p)  PROVE Carried(S, Queues, Queues')
  <2>1. 0 \in 0 .. BackHwm
    BY NetAssumption
  <2> QED
    BY <1>3, <1>4, <2>1 DEF StartWorker, WorkerStart
<1>5. ASSUME WorkerMissed(p)  PROVE Carried(S, Queues, Queues')
  <2> DEFINE w == wId[p]
             D == S[<<"backUp", w>>]
  <2>1. /\ wPhase[p] = "polling" /\ FinishIteration(p, <<>>)
        /\ UNCHANGED <<backDown, frontUp, frontDown>>
    BY <1>5 DEF WorkerMissed, PollTimedOut
  <2>2. <<>> \in Seq(BackUpMsg) /\ NoneOf(<<>>, D) /\ OneOf(<<>>, D)
    BY EmptySeq, NoMoreOfEmpty
  <2>3. /\ \A x \in WorkerId \ {w} : backUp'[x] = backUp[x]
        /\ NoMore(backUp'[w], backUp[w], D)
    BY <2>1, <2>2, FinishIterationCarries
  <2>4. \A x \in WorkerId : NoMore(backUp'[x], backUp[x], S[<<"backUp", x>>])
    BY <2>3, NoMoreOfSame
  <2>5. \A y \in Place \ {} : NoMore(Queues'[y], Queues[y], S[y])
    BY <1>1, <2>1, <2>4, NoMoreOfSame, EachPlace DEF Queues
  <2> QED
    BY <2>5, Kept
<1> QED
  BY <1>1, <1>2, <1>3, <1>4, <1>5, WorkerReceiveCarries
  DEF WorkerStep, WorkerReconnect, WorkerWake

-----------------------------------------------------------------------------
(* The selections that are followed.                                        *)

(* The request b and its reply.                                             *)
Carrying(b) ==
  Packed([c \in ClientId |-> {m \in FrontUpMsg : m.type = "Request" /\ m.body = b}],
         [c \in ClientId |-> {m \in FrontDownMsg : m.type = "Reply" /\ m.body = b}],
         [w \in WorkerId |-> {m \in BackUpMsg : m.type = "Reply" /\ m.body = b}],
         [w \in WorkerId |-> {m \in BackDownMsg : m.type = "Request" /\ m.body = b}],
         [s \in Service |-> {r \in PendingRequest : r.body = b}],
         [q \in ClientProc |-> {b}])

(* What mentions the identity c, with a request of B.                       *)
Naming(c, B) ==
  Packed([x \in ClientId |-> {m \in FrontUpMsg :
                                x = c /\ m.type = "Request" /\ m.body \in B}],
         [x \in ClientId |-> {m \in FrontDownMsg :
                                x = c /\ m.type = "Reply" /\ m.body \in B}],
         [w \in WorkerId |-> {m \in BackUpMsg :
                                m.type = "Reply" /\ m.client = c /\ m.body \in B}],
         [w \in WorkerId |-> {m \in BackDownMsg :
                                m.type = "Request" /\ m.client = c
                                  /\ m.body \in B}],
         [s \in Service |-> {r \in PendingRequest : r.client = c /\ r.body \in B}],
         [q \in ClientProc |-> {}])

(* The discovery of c, and the answer to it.                                *)
Greeting(c) ==
  Packed([x \in ClientId |-> {m \in FrontUpMsg : x = c /\ m.type = "Discovery"}],
         [x \in ClientId |-> {m \in FrontDownMsg : x = c /\ m.type = "Discovery"}],
         [w \in WorkerId |-> {}], [w \in WorkerId |-> {}],
         [s \in Service |-> {}], [q \in ClientProc |-> {}])

LEMMA CarryingAt ==
  ASSUME NEW b
  PROVE  /\ \A c \in ClientId :
              /\ \A x : x \in Carrying(b)[<<"frontUp", c>>]
                        <=> x \in FrontUpMsg /\ x.type = "Request" /\ x.body = b
              /\ \A x : x \in Carrying(b)[<<"frontDown", c>>]
                        <=> x \in FrontDownMsg /\ x.type = "Reply" /\ x.body = b
         /\ \A w \in WorkerId :
              /\ \A x : x \in Carrying(b)[<<"backUp", w>>]
                        <=> x \in BackUpMsg /\ x.type = "Reply" /\ x.body = b
              /\ \A x : x \in Carrying(b)[<<"backDown", w>>]
                        <=> x \in BackDownMsg /\ x.type = "Request" /\ x.body = b
         /\ \A s \in Service :
              \A x : x \in Carrying(b)[<<"pending", s>>]
                     <=> x \in PendingRequest /\ x.body = b
         /\ \A q \in ClientProc : Carrying(b)[<<"received", q>>] = {b}
BY DEF Carrying, Packed, Place

LEMMA NamingAt ==
  ASSUME NEW c, NEW B
  PROVE  /\ \A y \in ClientId :
              /\ \A x : x \in Naming(c, B)[<<"frontUp", y>>]
                        <=> /\ x \in FrontUpMsg /\ y = c
                            /\ x.type = "Request" /\ x.body \in B
              /\ \A x : x \in Naming(c, B)[<<"frontDown", y>>]
                        <=> /\ x \in FrontDownMsg /\ y = c
                            /\ x.type = "Reply" /\ x.body \in B
         /\ \A w \in WorkerId :
              /\ \A x : x \in Naming(c, B)[<<"backUp", w>>]
                        <=> /\ x \in BackUpMsg /\ x.client = c
                            /\ x.type = "Reply" /\ x.body \in B
              /\ \A x : x \in Naming(c, B)[<<"backDown", w>>]
                        <=> /\ x \in BackDownMsg /\ x.client = c
                            /\ x.type = "Request" /\ x.body \in B
         /\ \A s \in Service :
              \A x : x \in Naming(c, B)[<<"pending", s>>]
                     <=> x \in PendingRequest /\ x.client = c /\ x.body \in B
         /\ \A q \in ClientProc : Naming(c, B)[<<"received", q>>] = {}
BY DEF Naming, Packed, Place

LEMMA GreetingAt ==
  ASSUME NEW c
  PROVE  /\ \A y \in ClientId :
              /\ \A x : x \in Greeting(c)[<<"frontUp", y>>]
                        <=> x \in FrontUpMsg /\ y = c /\ x.type = "Discovery"
              /\ \A x : x \in Greeting(c)[<<"frontDown", y>>]
                        <=> x \in FrontDownMsg /\ y = c /\ x.type = "Discovery"
         /\ \A w \in WorkerId : /\ Greeting(c)[<<"backUp", w>>] = {}
                                /\ Greeting(c)[<<"backDown", w>>] = {}
         /\ \A s \in Service : Greeting(c)[<<"pending", s>>] = {}
         /\ \A q \in ClientProc : Greeting(c)[<<"received", q>>] = {}
BY DEF Greeting, Packed, Place

LEMMA CarryingFollows ==
  ASSUME NEW b
  PROVE  Follows(Carrying(b))
<1> DEFINE S == Carrying(b)
<1>1. ASSUME NEW c \in ClientId, NEW m \in FrontUpMsg
      PROVE  /\ m.type = "Discovery"
                  => \A st \in {"Ok", "NotFound"} :
                       DiscoveryReply(m.service, st) \in S[<<"frontDown", c>>]
                         => m \in S[<<"frontUp", c>>]
             /\ m.type = "Request"
                  => \A s \in Service :
                       [client |-> c, body |-> m.body] \in S[<<"pending", s>>]
                         => m \in S[<<"frontUp", c>>]
  BY CarryingAt DEF DiscoveryReply
<1>2. ASSUME NEW r \in PendingRequest, NEW s \in Service, NEW w \in WorkerId
      PROVE  WorkerRequest(r.client, r.body) \in S[<<"backDown", w>>]
               => r \in S[<<"pending", s>>]
  <2>1. \A x : x \in S[<<"backDown", w>>]
                  <=> x \in BackDownMsg /\ x.type = "Request" /\ x.body = b
    BY CarryingAt
  <2>2. \A x : x \in S[<<"pending", s>>]
                  <=> x \in PendingRequest /\ x.body = b
    BY CarryingAt
  <2>3. WorkerRequest(r.client, r.body).body = r.body
    BY DEF WorkerRequest
  <2> QED
    BY <2>1, <2>2, <2>3
<1>3. ASSUME NEW w \in WorkerId, NEW m \in BackDownMsg
      PROVE  /\ m.type = "Request"
                  => (WorkerReply(m.client, m.body) \in S[<<"backUp", w>>]
                        => m \in S[<<"backDown", w>>])
             /\ m.type \in {"Heartbeat", "Disconnect"}
                  => m \notin S[<<"backDown", w>>]
  BY CarryingAt DEF WorkerReply
<1>4. ASSUME NEW w \in WorkerId, NEW m \in BackUpMsg
      PROVE  /\ m.type = "Reply"
                  => \A s \in Service :
                       ClientReply(s, m.body) \in S[<<"frontDown", m.client>>]
                         => m \in S[<<"backUp", w>>]
             /\ m.type \in {"Ready", "Heartbeat", "Disconnect"}
                  => m \notin S[<<"backUp", w>>]
  <2>1. m.type = "Reply" => m.client \in ClientId
    BY DEF BackUpMsg
  <2>2. \A x : x \in S[<<"backUp", w>>]
                  <=> x \in BackUpMsg /\ x.type = "Reply" /\ x.body = b
    BY CarryingAt
  <2>3. m.type = "Reply"
          => \A x : x \in S[<<"frontDown", m.client>>]
                  <=> x \in FrontDownMsg /\ x.type = "Reply" /\ x.body = b
    BY <2>1, CarryingAt
  <2>4. \A s \in Service : ClientReply(s, m.body).body = m.body
    BY DEF ClientReply
  <2> QED
    BY <2>2, <2>3, <2>4
<1>5. ASSUME NEW c \in ClientId, NEW m \in FrontDownMsg, m.type = "Reply",
             NEW q \in ClientProc, m.body \in S[<<"received", q>>]
      PROVE  m \in S[<<"frontDown", c>>]
  <2>1. S[<<"received", q>>] = {b}
    BY CarryingAt
  <2>2. \A x : x \in S[<<"frontDown", c>>]
                  <=> x \in FrontDownMsg /\ x.type = "Reply" /\ x.body = b
    BY CarryingAt
  <2> QED
    BY <1>5, <2>1, <2>2
<1> HIDE DEF S
<1>6. Follows(S)
  BY <1>1, <1>2, <1>3, <1>4, <1>5
  DEF Follows, BrokerFollows, WorkerFollows, ClientFollows
<1> QED
  BY <1>6 DEF S

LEMMA NamingFollows ==
  ASSUME NEW c0, NEW B
  PROVE  Follows(Naming(c0, B))
<1> DEFINE S == Naming(c0, B)
<1>1. ASSUME NEW c \in ClientId, NEW m \in FrontUpMsg
      PROVE  /\ m.type = "Discovery"
                  => \A st \in {"Ok", "NotFound"} :
                       DiscoveryReply(m.service, st) \in S[<<"frontDown", c>>]
                         => m \in S[<<"frontUp", c>>]
             /\ m.type = "Request"
                  => \A s \in Service :
                       [client |-> c, body |-> m.body] \in S[<<"pending", s>>]
                         => m \in S[<<"frontUp", c>>]
  BY NamingAt DEF DiscoveryReply
<1>2. ASSUME NEW r \in PendingRequest, NEW s \in Service, NEW w \in WorkerId
      PROVE  WorkerRequest(r.client, r.body) \in S[<<"backDown", w>>]
               => r \in S[<<"pending", s>>]
  <2>1. \A x : x \in S[<<"backDown", w>>]
                  <=> /\ x \in BackDownMsg /\ x.client = c0
                      /\ x.type = "Request" /\ x.body \in B
    BY NamingAt
  <2>2. \A x : x \in S[<<"pending", s>>]
                  <=> x \in PendingRequest /\ x.client = c0 /\ x.body \in B
    BY NamingAt
  <2>3. /\ WorkerRequest(r.client, r.body).body = r.body
        /\ WorkerRequest(r.client, r.body).client = r.client
    BY DEF WorkerRequest
  <2> QED
    BY <2>1, <2>2, <2>3
<1>3. ASSUME NEW w \in WorkerId, NEW m \in BackDownMsg
      PROVE  /\ m.type = "Request"
                  => (WorkerReply(m.client, m.body) \in S[<<"backUp", w>>]
                        => m \in S[<<"backDown", w>>])
             /\ m.type \in {"Heartbeat", "Disconnect"}
                  => m \notin S[<<"backDown", w>>]
  BY NamingAt DEF WorkerReply
<1>4. ASSUME NEW w \in WorkerId, NEW m \in BackUpMsg
      PROVE  /\ m.type = "Reply"
                  => \A s \in Service :
                       ClientReply(s, m.body) \in S[<<"frontDown", m.client>>]
                         => m \in S[<<"backUp", w>>]
             /\ m.type \in {"Ready", "Heartbeat", "Disconnect"}
                  => m \notin S[<<"backUp", w>>]
  <2>1. m.type = "Reply" => m.client \in ClientId
    BY DEF BackUpMsg
  <2>2. \A x : x \in S[<<"backUp", w>>]
                  <=> /\ x \in BackUpMsg /\ x.client = c0
                      /\ x.type = "Reply" /\ x.body \in B
    BY NamingAt
  <2>3. \A y \in ClientId :
          \A x : x \in S[<<"frontDown", y>>]
                  <=> /\ x \in FrontDownMsg /\ y = c0
                      /\ x.type = "Reply" /\ x.body \in B
    BY NamingAt
  <2>4. \A s \in Service : ClientReply(s, m.body).body = m.body
    BY DEF ClientReply
  <2> QED
    BY <2>1, <2>2, <2>3, <2>4
<1>5. ASSUME NEW c \in ClientId, NEW m \in FrontDownMsg, m.type = "Reply",
             NEW q \in ClientProc, m.body \in S[<<"received", q>>]
      PROVE  m \in S[<<"frontDown", c>>]
  BY <1>5, NamingAt
<1> HIDE DEF S
<1>6. Follows(S)
  BY <1>1, <1>2, <1>3, <1>4, <1>5
  DEF Follows, BrokerFollows, WorkerFollows, ClientFollows
<1> QED
  BY <1>6 DEF S

LEMMA GreetingFollows ==
  ASSUME NEW c0
  PROVE  Follows(Greeting(c0))
<1> DEFINE S == Greeting(c0)
<1>1. ASSUME NEW c \in ClientId, NEW m \in FrontUpMsg
      PROVE  /\ m.type = "Discovery"
                  => \A st \in {"Ok", "NotFound"} :
                       DiscoveryReply(m.service, st) \in S[<<"frontDown", c>>]
                         => m \in S[<<"frontUp", c>>]
             /\ m.type = "Request"
                  => \A s \in Service :
                       [client |-> c, body |-> m.body] \in S[<<"pending", s>>]
                         => m \in S[<<"frontUp", c>>]
  BY GreetingAt
<1>2. ASSUME NEW w \in WorkerId, NEW x
      PROVE  x \notin S[<<"backDown", w>>] /\ x \notin S[<<"backUp", w>>]
  BY GreetingAt
<1>3. ASSUME NEW y \in ClientId, NEW s \in Service, NEW b
      PROVE  ClientReply(s, b) \notin S[<<"frontDown", y>>]
  <2>1. ClientReply(s, b).type = "Reply"
    BY DEF ClientReply
  <2> QED
    BY <2>1, GreetingAt
<1>4. ASSUME NEW q \in ClientProc, NEW x
      PROVE  x \notin S[<<"received", q>>]
  BY GreetingAt
<1> HIDE DEF S
<1>5. \A m \in BackUpMsg : m.type = "Reply" => m.client \in ClientId
  BY DEF BackUpMsg
<1>6. Follows(S)
  BY <1>1, <1>2, <1>3, <1>4, <1>5
  DEF Follows, BrokerFollows, WorkerFollows, ClientFollows
<1> QED
  BY <1>6 DEF S

-----------------------------------------------------------------------------
(* Places that hold nothing, or one thing.                                  *)

LEMMA NonePacked ==
  ASSUME NEW fu, NEW fd, NEW bu, NEW bd, NEW pe, NEW re, NEW S,
         \A c \in ClientId : /\ NoneOf(fu[c], S[<<"frontUp", c>>])
                             /\ NoneOf(fd[c], S[<<"frontDown", c>>]),
         \A w \in WorkerId : /\ NoneOf(bu[w], S[<<"backUp", w>>])
                             /\ NoneOf(bd[w], S[<<"backDown", w>>]),
         \A s \in Service : NoneOf(pe[s], S[<<"pending", s>>]),
         \A q \in ClientProc : NoneOf(re[q], S[<<"received", q>>])
  PROVE  NoneIn(S, Packed(fu, fd, bu, bd, pe, re))
<1> DEFINE Q == Packed(fu, fd, bu, bd, pe, re)
<1> SUFFICES ASSUME NEW x \in Place  PROVE NoneOf(Q[x], S[x])
  BY DEF NoneIn
<1>1. /\ \A c \in ClientId : /\ Q[<<"frontUp", c>>] = fu[c]
                             /\ Q[<<"frontDown", c>>] = fd[c]
      /\ \A w \in WorkerId : /\ Q[<<"backUp", w>>] = bu[w]
                             /\ Q[<<"backDown", w>>] = bd[w]
      /\ \A s \in Service : Q[<<"pending", s>>] = pe[s]
      /\ \A q \in ClientProc : Q[<<"received", q>>] = re[q]
  BY PackedAt
<1> HIDE DEF Q
<1>2. CASE \E c \in ClientId : x = <<"frontUp", c>>
  BY <1>1, <1>2
<1>3. CASE \E c \in ClientId : x = <<"frontDown", c>>
  BY <1>1, <1>3
<1>4. CASE \E w \in WorkerId : x = <<"backUp", w>>
  BY <1>1, <1>4
<1>5. CASE \E w \in WorkerId : x = <<"backDown", w>>
  BY <1>1, <1>5
<1>6. CASE \E s \in Service : x = <<"pending", s>>
  BY <1>1, <1>6
<1>7. CASE \E q \in ClientProc : x = <<"received", q>>
  BY <1>1, <1>7
<1> QED
  BY <1>2, <1>3, <1>4, <1>5, <1>6, <1>7, PlaceIs

LEMMA NoneIsOne ==
  ASSUME NEW S, NEW Q, NoneIn(S, Q)
  PROVE  OneIn(S, Q)
BY DEF NoneIn, OneIn, NoneOf, OneOf

(* The first message of S comes to the place d.                             *)
LEMMA FirstOne ==
  ASSUME NEW Q, NEW R, NEW S, NEW d \in Place, NoneIn(S, Q),
         \A x \in Place \ {d} : NoMore(R[x], Q[x], S[x]),
         OneOf(R[d], S[d])
  PROVE  OneIn(S, R)
<1>1. \A x \in Place \ {d} : NoneOf(R[x], S[x])
  BY DEF NoneIn, NoMore
<1>2. \A x \in Place \ {d} : OneOf(R[x], S[x])
  BY <1>1 DEF NoneOf, OneOf
<1> QED
  BY <1>1, <1>2 DEF OneIn

-----------------------------------------------------------------------------
(* The invariant.                                                           *)

(* An identity belongs to the client that took it, as long as it is used.   *)
Owners ==
  /\ \A q \in ClientProc : cId[q] # NoClientId => cId[q] \in peers
  /\ \A q, r \in ClientProc : cId[q] = cId[r] => q = r \/ cId[q] = NoClientId

Others(q) == {b \in Body : b[1] # q}

(* A request is in one place at most, and nowhere before it is sent.        *)
SentOnce ==
  \A b \in Body : /\ OneIn(Carrying(b), Queues)
                  /\ b[2] > sent[b[1]] => NoneIn(Carrying(b), Queues)

(* What mentions the identity of a client is about its own requests.        *)
NamedForOwn ==
  /\ \A q \in ClientProc :
       cId[q] # NoClientId => NoneIn(Naming(cId[q], Others(q)), Queues)
  /\ \A q \in ClientProc : \A i \in 1 .. Len(received[q]) : received[q][i][1] = q

(* A client pings once with an identity, and no pong comes later.           *)
GreetedOnce ==
  \A q \in ClientProc :
    /\ cPhase[q] = "pinging" => /\ OneIn(Greeting(cId[q]), Queues)
                                /\ NoneIn(Naming(cId[q], Body), Queues)
    /\ cPhase[q] \in {"pausing", "sending", "receiving"}
         => NoneIn(Greeting(cId[q]), Queues)

OnceInv == Inv /\ Owners /\ SentOnce /\ NamedForOwn /\ GreetedOnce

LEMMA OwnersKept ==
  ASSUME Owners, TypeOK, UNCHANGED cId,
         \A c \in ClientId : c \in peers => c \in peers'
  PROVE  Owners'
BY DEF Owners, TypeOK, ClientTypeOK

(* A step of others than the clients.                                       *)
LEMMA OthersKeepOnce ==
  ASSUME OnceInv, \A S : Follows(S) => Carried(S, Queues, Queues'),
         UNCHANGED <<cId, cPhase, sent, received>>
  PROVE  SentOnce' /\ NamedForOwn' /\ GreetedOnce'
<1>1. SentOnce'
  BY CarryingFollows DEF OnceInv, SentOnce, Carried
<1>2. NamedForOwn'
  BY NamingFollows DEF OnceInv, NamedForOwn, Carried
<1>3. GreetedOnce'
  BY NamingFollows, GreetingFollows DEF OnceInv, GreetedOnce, Carried
<1> QED
  BY <1>1, <1>2, <1>3

-----------------------------------------------------------------------------
(* The socket of a client.                                                  *)

LEMMA ClientSocketCarries ==
  ASSUME TypeOK, NEW q \in ClientProc, NEW id, NEW first, NEW n \in Nat,
         ClientSocket(q, id, first, n), UNCHANGED <<pending, received>>, NEW S
  PROVE  /\ \A x \in Place \ {<<"frontUp", id>>} : NoMore(Queues'[x], Queues[x], S[x])
         /\ (id \in ClientId => NoneOf(first, S[<<"frontUp", id>>]))
              => Carried(S, Queues, Queues')
<1> DEFINE old == cId[q]
           d == <<"frontUp", id>>
<1>1. /\ \A c \in ClientId : frontUp[c] \in Seq(FrontUpMsg)
      /\ old \in ClientId \cup {NoClientId} /\ NoClientId \notin ClientId
  BY ClientAssumption DEF TypeOK, NetTypeOK, ClientTypeOK
<1>2. /\ old # NoClientId => n <= Len(frontUp[old])
      /\ \A c \in ClientId :
           /\ frontUp'[c] = IF c = id THEN first
                            ELSE IF c = old THEN Oldest(frontUp[c], n)
                            ELSE frontUp[c]
           /\ frontDown'[c] = IF c \in {id, old} THEN <<>> ELSE frontDown[c]
      /\ UNCHANGED <<backUp, backDown>>
  BY DEF ClientSocket
<1> HIDE DEF old
<1>3. ASSUME NEW c \in ClientId, c # id
      PROVE  NoMore(frontUp'[c], frontUp[c], S[<<"frontUp", c>>])
  <2>1. CASE c = old
    <3>1. NoMore(Oldest(frontUp[c], n), frontUp[c], S[<<"frontUp", c>>])
      BY <1>1, <1>2, <2>1, NoMoreOfOldest
    <3> QED
      BY <1>2, <1>3, <2>1, <3>1
  <2>2. CASE c # old
    BY <1>2, <1>3, <2>2, NoMoreOfSame
  <2> QED
    BY <2>1, <2>2
<1>4. \A c \in ClientId :
        NoMore(frontDown'[c], frontDown[c], S[<<"frontDown", c>>])
  BY <1>2, NoMoreOfSame, NoMoreOfEmpty
<1>5. \A c \in ClientId : \/ <<"frontUp", c>> \in {d}
                          \/ NoMore(frontUp'[c], frontUp[c], S[<<"frontUp", c>>])
  BY <1>3
<1> HIDE DEF d
<1>6. \A x \in Place \ {d} : NoMore(Queues'[x], Queues[x], S[x])
  BY <1>2, <1>4, <1>5, NoMoreOfSame, EachPlace, ZenonT(40) DEF Queues
<1>7. ASSUME id \in ClientId => NoneOf(first, S[d])
      PROVE  Carried(S, Queues, Queues')
  <2>1. ASSUME NEW c \in ClientId
        PROVE  NoMore(frontUp'[c], frontUp[c], S[<<"frontUp", c>>])
    <3>1. CASE c = id
      <4>1. NoneOf(frontUp'[c], S[<<"frontUp", c>>])
        BY <1>2, <1>7, <3>1 DEF d
      <4> QED
        BY <4>1 DEF NoMore, NoneOf, OneOf
    <3> QED
      BY <1>3, <3>1
  <2>2. \A x \in Place \ {} : NoMore(Queues'[x], Queues[x], S[x])
    BY <1>2, <1>4, <2>1, NoMoreOfSame, EachPlace, ZenonT(40) DEF Queues
  <2> QED
    BY <2>2, Kept
<1> QED
  BY <1>6, <1>7 DEF d

LEMMA ClientSocketOwners ==
  ASSUME TypeOK, Owners, NEW q \in ClientProc, NEW id, NEW first, NEW n,
         ClientSocket(q, id, first, n),
         id = NoClientId \/ id \notin peers
  PROVE  /\ Owners'
         /\ cId' = [cId EXCEPT ![q] = id] /\ cId'[q] = id
         /\ \A r \in ClientProc \ {q} : cId'[r] = cId[r]
<1> DEFINE old == cId[q]
<1>1. /\ cId' = [cId EXCEPT ![q] = id]
      /\ peers' = (peers \ {old}) \cup ({id} \ {NoClientId})
  BY DEF ClientSocket
<1>2. cId'[q] = id /\ \A r \in ClientProc \ {q} : cId'[r] = cId[r]
  BY <1>1 DEF TypeOK, ClientTypeOK
<1>3. ASSUME NEW r \in ClientProc, cId'[r] # NoClientId  PROVE cId'[r] \in peers'
  <2>1. CASE r = q
    BY <1>1, <1>2, <1>3, <2>1
  <2>2. CASE r # q
    <3>1. cId[r] \in peers /\ cId[r] # old
      BY <1>2, <1>3, <2>2 DEF Owners
    <3> QED
      BY <1>1, <1>2, <2>2, <3>1
  <2> QED
    BY <2>1, <2>2
<1>4. ASSUME NEW r \in ClientProc, NEW s \in ClientProc, cId'[r] = cId'[s], r # s
      PROVE  cId'[r] = NoClientId
  <2>1. CASE r # q /\ s # q
    BY <1>2, <1>4, <2>1 DEF Owners
  <2>2. CASE r = q \/ s = q
    <3>1. PICK t \in ClientProc \ {q} : cId'[t] = id /\ cId[t] = id
      BY <1>2, <1>4, <2>2
    <3>2. id = NoClientId
      BY <3>1 DEF Owners
    <3> QED
      BY <1>2, <1>4, <2>2, <3>2
  <2> QED
    BY <2>1, <2>2
<1>5. Owners'
  BY <1>3, <1>4 DEF Owners
<1> QED
  BY <1>1, <1>2, <1>5

(* Nothing mentions an identity that is generated now.                      *)
LEMMA FreshIsUnnamed ==
  ASSUME Inv, NEW id \in FreshClientId, NEW B
  PROVE  /\ NoneIn(Naming(id, B), Queues)
         /\ NoneIn(Greeting(id), Queues)
<1>1. /\ id \in ClientId /\ id \notin peers
      /\ frontUp[id] = <<>> /\ frontDown[id] = <<>>
      /\ \A s \in Service : \A i \in 1 .. Len(pending[s]) : pending[s][i].client # id
      /\ \A w \in WorkerId :
           /\ \A i \in 1 .. Len(backDown[w]) :
                backDown[w][i].type = "Request" => backDown[w][i].client # id
           /\ \A i \in 1 .. Len(backUp[w]) :
                backUp[w][i].type = "Reply" => backUp[w][i].client # id
  BY DEF FreshClientId
<1>2. \A S : NoneOf(<<>>, S)
  BY NoMoreOfEmpty
<1>3. \A y : NoneOf(y, {})
  BY DEF NoneOf, Positions
<1>4. NoneIn(Naming(id, B), Queues)
  <2> DEFINE S == Naming(id, B)
  <2>1. \A c \in ClientId : /\ NoneOf(frontUp[c], S[<<"frontUp", c>>])
                            /\ NoneOf(frontDown[c], S[<<"frontDown", c>>])
    <3> TAKE c \in ClientId
    <3>1. CASE c = id
      BY <1>1, <1>2, <3>1
    <3>2. CASE c # id
      <4>1. \A x : x \notin S[<<"frontUp", c>>] /\ x \notin S[<<"frontDown", c>>]
        BY <3>2, NamingAt
      <4> HIDE DEF S
      <4> QED
        BY <4>1 DEF NoneOf, Positions
    <3> QED
      BY <3>1, <3>2
  <2>2. \A w \in WorkerId : /\ NoneOf(backUp[w], S[<<"backUp", w>>])
                            /\ NoneOf(backDown[w], S[<<"backDown", w>>])
    <3> TAKE w \in WorkerId
    <3>1. \A x : /\ x \in S[<<"backUp", w>>]
                      => x.type = "Reply" /\ x.client = id
                 /\ x \in S[<<"backDown", w>>]
                      => x.type = "Request" /\ x.client = id
      BY NamingAt
    <3> HIDE DEF S
    <3> QED
      BY <1>1, <3>1 DEF NoneOf, Positions
  <2>3. \A s \in Service : NoneOf(pending[s], S[<<"pending", s>>])
    <3> TAKE s \in Service
    <3>1. \A x : x \in S[<<"pending", s>>] => x.client = id
      BY NamingAt
    <3> HIDE DEF S
    <3> QED
      BY <1>1, <3>1 DEF NoneOf, Positions
  <2>4. \A q \in ClientProc : NoneOf(received[q], S[<<"received", q>>])
    BY <1>3, NamingAt
  <2> HIDE DEF S
  <2>5. NoneIn(S, Queues)
    BY <2>1, <2>2, <2>3, <2>4, NonePacked DEF Queues
  <2> QED
    BY <2>5 DEF S
<1>5. NoneIn(Greeting(id), Queues)
  <2> DEFINE S == Greeting(id)
  <2>1. \A c \in ClientId : /\ NoneOf(frontUp[c], S[<<"frontUp", c>>])
                            /\ NoneOf(frontDown[c], S[<<"frontDown", c>>])
    <3> TAKE c \in ClientId
    <3>1. CASE c = id
      BY <1>1, <1>2, <3>1
    <3>2. CASE c # id
      <4>1. \A x : x \notin S[<<"frontUp", c>>] /\ x \notin S[<<"frontDown", c>>]
        BY <3>2, GreetingAt
      <4> HIDE DEF S
      <4> QED
        BY <4>1 DEF NoneOf, Positions
    <3> QED
      BY <3>1, <3>2
  <2>2. \A w \in WorkerId : S[<<"backUp", w>>] = {} /\ S[<<"backDown", w>>] = {}
    BY GreetingAt
  <2>3. /\ \A s \in Service : S[<<"pending", s>>] = {}
        /\ \A q \in ClientProc : S[<<"received", q>>] = {}
    BY GreetingAt
  <2> HIDE DEF S
  <2>4. /\ \A w \in WorkerId : /\ NoneOf(backUp[w], S[<<"backUp", w>>])
                               /\ NoneOf(backDown[w], S[<<"backDown", w>>])
        /\ \A s \in Service : NoneOf(pending[s], S[<<"pending", s>>])
        /\ \A q \in ClientProc : NoneOf(received[q], S[<<"received", q>>])
    BY <1>3, <2>2, <2>3
  <2>5. NoneIn(S, Queues)
    BY <2>1, <2>4, NonePacked DEF Queues
  <2> QED
    BY <2>5 DEF S
<1> QED
  BY <1>4, <1>5

-----------------------------------------------------------------------------
(* The steps of a client.                                                   *)

(* A new socket that says nothing yet, or none.                             *)
LEMMA NewSocketKeepsOnce ==
  ASSUME OnceInv, NEW q \in ClientProc, NEW id, NEW n \in Nat,
         id \in FreshClientId \cup {NoClientId}, ClientSocket(q, id, <<>>, n),
         NEW ph, cPhase' = [cPhase EXCEPT ![q] = ph],
         (ph = "pausing" /\ id \in FreshClientId) \/ ph \in {"stopping", "done"},
         UNCHANGED <<sent, received, pending>>
  PROVE  Owners' /\ SentOnce' /\ NamedForOwn' /\ GreetedOnce'
<1>1. \A S : Carried(S, Queues, Queues')
  BY ClientSocketCarries, NoMoreOfEmpty DEF OnceInv, Inv
<1>2. /\ Owners' /\ cId'[q] = id
      /\ \A r \in ClientProc \ {q} : cId'[r] = cId[r]
  <2>1. id = NoClientId \/ id \notin peers
    BY DEF FreshClientId
  <2> QED
    BY <2>1, ClientSocketOwners DEF OnceInv, Inv
<1>3. SentOnce'
  BY <1>1 DEF OnceInv, SentOnce, Carried
<1>4. id \in FreshClientId
        => /\ \A B : NoneIn(Naming(id, B), Queues)
           /\ NoneIn(Greeting(id), Queues)
  BY FreshIsUnnamed DEF OnceInv
<1>5. NamedForOwn'
  <2>1. ASSUME NEW r \in ClientProc, cId'[r] # NoClientId
        PROVE  NoneIn(Naming(cId'[r], Others(r)), Queues')
    <3>1. NoneIn(Naming(cId'[r], Others(r)), Queues)
      <4>1. CASE r = q
        BY <1>2, <1>4, <2>1, <4>1
      <4>2. CASE r # q
        BY <1>2, <2>1, <4>2 DEF OnceInv, NamedForOwn
      <4> QED
        BY <4>1, <4>2
    <3> QED
      BY <1>1, <3>1 DEF Carried
  <2> QED
    BY <2>1 DEF OnceInv, NamedForOwn, Others
<1>6. GreetedOnce'
  <2> SUFFICES ASSUME NEW r \in ClientProc
               PROVE  /\ cPhase'[r] = "pinging"
                           => /\ OneIn(Greeting(cId'[r]), Queues')
                              /\ NoneIn(Naming(cId'[r], Body), Queues')
                      /\ cPhase'[r] \in {"pausing", "sending", "receiving"}
                           => NoneIn(Greeting(cId'[r]), Queues')
    BY DEF GreetedOnce
  <2>1. CASE r = q
    <3>1. cPhase'[q] = ph
      BY DEF OnceInv, Inv, TypeOK, ClientTypeOK
    <3>2. ph = "pausing" => NoneIn(Greeting(id), Queues')
      BY <1>1, <1>4 DEF Carried
    <3> QED
      BY <1>2, <2>1, <3>1, <3>2
  <2>2. CASE r # q
    <3>1. cPhase'[r] = cPhase[r] /\ cId'[r] = cId[r]
      BY <1>2, <2>2 DEF OnceInv, Inv, TypeOK, ClientTypeOK
    <3>2. /\ cPhase[r] = "pinging"
               => /\ OneIn(Greeting(cId[r]), Queues)
                  /\ NoneIn(Naming(cId[r], Body), Queues)
          /\ cPhase[r] \in {"pausing", "sending", "receiving"}
               => NoneIn(Greeting(cId[r]), Queues)
      BY DEF OnceInv, GreetedOnce
    <3> QED
      BY <1>1, <3>1, <3>2 DEF Carried
  <2> QED
    BY <2>1, <2>2
<1> QED
  BY <1>2, <1>3, <1>5, <1>6

LEMMA StartClientKeepsOnce ==
  ASSUME OnceInv, NEW q \in ClientProc, StartClient(q)
  PROVE  Owners' /\ SentOnce' /\ NamedForOwn' /\ GreetedOnce'
<1> DEFINE x == DiscoveryRequest(Echo)
           first == <<x>>
<1>1. PICK id \in FreshClientId : ClientStart(q, id)
  BY DEF StartClient
<1>2. /\ ClientSocket(q, id, first, 0)
      /\ cPhase' = [cPhase EXCEPT ![q] = "pinging"]
      /\ UNCHANGED <<sent, received, pending>>
  BY <1>1 DEF ClientStart, Goto, StartClient, brokerVars
<1>3. id \in ClientId /\ id \notin peers /\ x.type = "Discovery"
  BY DEF FreshClientId, DiscoveryRequest
<1>4. \A S : OneOf(first, S) /\ (x \notin S => NoneOf(first, S))
  BY NoneOfOne
<1> HIDE DEF x, first
<1>5. \A S : /\ \A y \in Place \ {<<"frontUp", id>>} :
                  NoMore(Queues'[y], Queues[y], S[y])
             /\ x \notin S[<<"frontUp", id>>] => Carried(S, Queues, Queues')
  BY <1>2, <1>4, ClientSocketCarries DEF OnceInv, Inv
<1>6. /\ Owners' /\ cId'[q] = id
      /\ \A r \in ClientProc \ {q} : cId'[r] = cId[r]
  BY <1>2, <1>3, ClientSocketOwners DEF OnceInv, Inv
<1>7. /\ \A b : Carried(Carrying(b), Queues, Queues')
      /\ \A c, B : Carried(Naming(c, B), Queues, Queues')
      /\ \A c : c # id => Carried(Greeting(c), Queues, Queues')
  <2>1. \A b : x \notin Carrying(b)[<<"frontUp", id>>]
    BY <1>3, CarryingAt
  <2>2. ASSUME NEW c, NEW B  PROVE x \notin Naming(c, B)[<<"frontUp", id>>]
    <3>1. \A y : y \in Naming(c, B)[<<"frontUp", id>>]
                   <=> /\ y \in FrontUpMsg /\ id = c
                       /\ y.type = "Request" /\ y.body \in B
      BY <1>3, NamingAt
    <3> QED
      BY <1>3, <3>1
  <2>3. \A c : c # id => x \notin Greeting(c)[<<"frontUp", id>>]
    BY <1>3, GreetingAt
  <2> QED
    BY <1>5, <2>1, <2>2, <2>3
<1>8. /\ \A B : NoneIn(Naming(id, B), Queues')
      /\ OneIn(Greeting(id), Queues')
  <2>1. /\ \A B : NoneIn(Naming(id, B), Queues)
        /\ NoneIn(Greeting(id), Queues)
    BY FreshIsUnnamed DEF OnceInv
  <2>2. <<"frontUp", id>> \in Place /\ Queues'[<<"frontUp", id>>] = first
    <3>1. frontUp'[id] = first
      BY <1>2, <1>3 DEF ClientSocket
    <3> QED
      BY <1>3, <3>1 DEF Place, Packed, Queues
  <2>3. OneIn(Greeting(id), Queues')
    BY <1>4, <1>5, <2>1, <2>2, FirstOne
  <2> QED
    BY <1>7, <2>1, <2>3 DEF Carried
<1>9. SentOnce'
  BY <1>2, <1>7 DEF OnceInv, SentOnce, Carried
<1>10. NamedForOwn'
  <2>1. ASSUME NEW r \in ClientProc, cId'[r] # NoClientId
        PROVE  NoneIn(Naming(cId'[r], Others(r)), Queues')
    <3>1. CASE r = q
      BY <1>6, <1>8, <3>1
    <3>2. CASE r # q
      BY <1>6, <1>7, <2>1, <3>2 DEF OnceInv, NamedForOwn, Carried
    <3> QED
      BY <3>1, <3>2
  <2> QED
    BY <1>2, <2>1 DEF OnceInv, NamedForOwn, Others
<1>11. GreetedOnce'
  <2> SUFFICES ASSUME NEW r \in ClientProc
               PROVE  /\ cPhase'[r] = "pinging"
                           => /\ OneIn(Greeting(cId'[r]), Queues')
                              /\ NoneIn(Naming(cId'[r], Body), Queues')
                      /\ cPhase'[r] \in {"pausing", "sending", "receiving"}
                           => NoneIn(Greeting(cId'[r]), Queues')
    BY DEF GreetedOnce
  <2>1. CASE r = q
    <3>1. cPhase'[q] = "pinging"
      BY <1>2 DEF OnceInv, Inv, TypeOK, ClientTypeOK
    <3> QED
      BY <1>6, <1>8, <2>1, <3>1
  <2>2. CASE r # q
    <3>1. cPhase'[r] = cPhase[r] /\ cId'[r] = cId[r]
      BY <1>2, <1>6, <2>2 DEF OnceInv, Inv, TypeOK, ClientTypeOK
    <3>2. ASSUME cPhase[r] \in {"pinging", "pausing", "sending", "receiving"}
          PROVE  cId[r] # id
      <4>1. cId[r] # NoClientId
        BY <3>2, ClientAssumption DEF OnceInv, Inv, PhasesAgree
      <4> QED
        BY <1>3, <4>1 DEF OnceInv, Owners
    <3>3. /\ cPhase[r] = "pinging"
               => /\ OneIn(Greeting(cId[r]), Queues)
                  /\ NoneIn(Naming(cId[r], Body), Queues)
          /\ cPhase[r] \in {"pausing", "sending", "receiving"}
               => NoneIn(Greeting(cId[r]), Queues)
      BY DEF OnceInv, GreetedOnce
    <3> QED
      BY <1>7, <3>1, <3>2, <3>3 DEF Carried
  <2> QED
    BY <2>1, <2>2
<1> QED
  BY <1>6, <1>9, <1>10, <1>11

(* What ClientSend says is the next request of the client.                  *)
LEMMA ClientSendAdds ==
  ASSUME OnceInv, NEW q \in ClientProc, ClientSend(q), UNCHANGED pending
  PROVE  LET c == cId[q]
             new == <<q, sent[q] + 1>>
             x == ClientRequest(WantOf[q], new)
             d == <<"frontUp", c>>
         IN  /\ c \in ClientId /\ sent[q] \in Nat
             /\ new \in Body /\ new[1] = q /\ new[2] = sent[q] + 1
             /\ x \in FrontUpMsg /\ x.type = "Request" /\ x.body = new
             /\ d \in Place
             /\ Queues[d] \in Seq(FrontUpMsg) /\ Queues'[d] = Append(Queues[d], x)
             /\ \A r \in ClientProc \ {q} : sent'[r] = sent[r]
             /\ sent'[q] = sent[q] + 1
             /\ \A S : \A y \in Place \ {d} : NoMore(Queues'[y], Queues[y], S[y])
             /\ \A S : x \notin S[d] => Carried(S, Queues, Queues')
<1> DEFINE c == cId[q]
           new == <<q, sent[q] + 1>>
           x == ClientRequest(WantOf[q], new)
           d == <<"frontUp", c>>
<1>1. /\ cPhase[q] = "sending"
      /\ sent' = [sent EXCEPT ![q] = @ + 1]
      /\ frontUp' = [frontUp EXCEPT ![c] = Append(@, x)]
      /\ \/ cPhase' = [cPhase EXCEPT ![q] = "receiving"]
         \/ UNCHANGED cPhase
      /\ UNCHANGED <<cId, received, pending, peers, backUp, backDown, frontDown>>
  BY DEF ClientSend, Goto
<1>2. /\ c \in ClientId /\ sent[q] \in Nat /\ sent[q] + 1 \in 1 .. Requests
      /\ sent[q] < Requests
  BY <1>1, NetAssumption DEF OnceInv, Inv, PhasesAgree, TypeOK, ClientTypeOK
<1>3. /\ new \in Body /\ new[1] = q /\ new[2] = sent[q] + 1
      /\ x \in FrontUpMsg /\ x.type = "Request" /\ x.body = new
  <2>1. new \in Body /\ new[1] = q /\ new[2] = sent[q] + 1
    BY <1>2 DEF Body
  <2> HIDE DEF new
  <2>2. x \in FrontUpMsg /\ x.type = "Request" /\ x.body = new
    BY <2>1, ClientAssumption DEF ClientRequest, FrontUpMsg
  <2> QED
    BY <2>1, <2>2 DEF new
<1>4. /\ frontUp \in [ClientId -> Seq(FrontUpMsg)]
      /\ frontUp[c] \in Seq(FrontUpMsg)
  BY <1>2, QueueTypes DEF OnceInv
<1>5. /\ frontUp'[c] = Append(frontUp[c], x)
      /\ \A y \in ClientId \ {c} : frontUp'[y] = frontUp[y]
  BY <1>1, <1>2, <1>4
<1>6. /\ \A r \in ClientProc \ {q} : sent'[r] = sent[r]
      /\ sent'[q] = sent[q] + 1
  BY <1>1 DEF OnceInv, Inv, TypeOK, ClientTypeOK
<1> HIDE DEF x, new, c
<1>7. d \in Place /\ Queues[d] = frontUp[c] /\ Queues'[d] = frontUp'[c]
  BY <1>2 DEF Place, Packed, Queues
<1> HIDE DEF d
<1>8. \A S : \A y \in Place \ {d} : NoMore(Queues'[y], Queues[y], S[y])
  <2> TAKE S
  <2>1. \A y \in ClientId :
          \/ <<"frontUp", y>> \in {d}
          \/ NoMore(frontUp'[y], frontUp[y], S[<<"frontUp", y>>])
    BY <1>5, NoMoreOfSame DEF d
  <2> QED
    BY <1>1, <2>1, NoMoreOfSame, EachPlace DEF Queues
<1>9. ASSUME NEW S, x \notin S[d]
      PROVE  Carried(S, Queues, Queues')
  <2>1. NoMore(Append(frontUp[c], x), frontUp[c], S[d])
    BY <1>3, <1>4, <1>9, NoMoreOfAppend
  <2>2. \A y \in Place \ {} : NoMore(Queues'[y], Queues[y], S[y])
    BY <1>5, <1>7, <1>8, <2>1
  <2> QED
    BY <2>2, Kept
<1>10. /\ d \in Place
       /\ Queues[d] \in Seq(FrontUpMsg) /\ Queues'[d] = Append(Queues[d], x)
       /\ \A S : \A y \in Place \ {d} : NoMore(Queues'[y], Queues[y], S[y])
       /\ \A S : x \notin S[d] => Carried(S, Queues, Queues')
  BY <1>4, <1>5, <1>7, <1>8, <1>9
<1> QED
  BY <1>2, <1>3, <1>6, <1>10 DEF c, new, x, d

(* A new request is no more than one.                                       *)
LEMMA ClientSendKeepsOnce ==
  ASSUME OnceInv, NEW q \in ClientProc, ClientSend(q), UNCHANGED pending
  PROVE  Owners' /\ SentOnce' /\ NamedForOwn' /\ GreetedOnce'
<1> DEFINE c == cId[q]
           new == <<q, sent[q] + 1>>
           x == ClientRequest(WantOf[q], new)
           d == <<"frontUp", c>>
<1>1. /\ cPhase[q] = "sending"
      /\ \/ cPhase' = [cPhase EXCEPT ![q] = "receiving"]
         \/ UNCHANGED cPhase
      /\ UNCHANGED <<cId, received, peers>>
  BY DEF ClientSend, Goto
<1>2. /\ c \in ClientId /\ sent[q] \in Nat
      /\ d \in Place
      /\ Queues[d] \in Seq(FrontUpMsg) /\ Queues'[d] = Append(Queues[d], x)
  BY ClientSendAdds
<1>3. /\ new \in Body /\ new[1] = q /\ new[2] = sent[q] + 1
      /\ x \in FrontUpMsg /\ x.type = "Request" /\ x.body = new
  BY ClientSendAdds
<1>6. /\ \A r \in ClientProc \ {q} : sent'[r] = sent[r]
      /\ sent'[q] = sent[q] + 1
  BY ClientSendAdds
<1>8. \A S : \A y \in Place \ {d} : NoMore(Queues'[y], Queues[y], S[y])
  BY ClientSendAdds
<1>9. \A S : x \notin S[d] => Carried(S, Queues, Queues')
  BY ClientSendAdds
<1> HIDE DEF c, new, x, d
<1>10. ASSUME NEW b \in Body, b # new
       PROVE  Carried(Carrying(b), Queues, Queues')
  <2>1. \A z : z \in Carrying(b)[<<"frontUp", c>>]
                <=> z \in FrontUpMsg /\ z.type = "Request" /\ z.body = b
    BY <1>2, CarryingAt
  <2> QED
    BY <1>3, <1>9, <1>10, <2>1 DEF d
<1>11. ASSUME NEW y, NEW B, y # c \/ new \notin B
       PROVE  Carried(Naming(y, B), Queues, Queues')
  <2>1. \A z : z \in Naming(y, B)[<<"frontUp", c>>]
                <=> /\ z \in FrontUpMsg /\ c = y
                    /\ z.type = "Request" /\ z.body \in B
    BY <1>2, NamingAt
  <2> QED
    BY <1>3, <1>9, <1>11, <2>1 DEF d
<1>12. ASSUME NEW y
       PROVE  Carried(Greeting(y), Queues, Queues')
  <2>1. \A z : z \in Greeting(y)[<<"frontUp", c>>]
                <=> z \in FrontUpMsg /\ c = y /\ z.type = "Discovery"
    BY <1>2, GreetingAt
  <2> QED
    BY <1>3, <1>9, <2>1 DEF d
<1>13. SentOnce'
  <2> SUFFICES ASSUME NEW b \in Body
               PROVE  /\ OneIn(Carrying(b), Queues')
                      /\ b[2] > sent'[b[1]] => NoneIn(Carrying(b), Queues')
    BY DEF SentOnce
  <2>1. b[1] \in ClientProc /\ b[2] \in Nat /\ b = <<b[1], b[2]>>
    BY NetAssumption DEF Body
  <2>2. CASE b = new
    <3>1. NoneIn(Carrying(new), Queues)
      BY <1>2, <1>3 DEF OnceInv, SentOnce
    <3>2. OneOf(Queues'[d], Carrying(new)[d])
      BY <1>2, <1>3, <3>1, NoMoreOfAppend DEF NoneIn
    <3>3. OneIn(Carrying(new), Queues')
      BY <1>2, <1>8, <3>1, <3>2, FirstOne
    <3>4. ~(new[2] > sent'[new[1]])
      BY <1>2, <1>3, <1>6
    <3> QED
      BY <2>2, <3>3, <3>4
  <2>3. CASE b # new
    <3>1. b[2] > sent'[b[1]] => b[2] > sent[b[1]]
      <4>1. CASE b[1] = q
        BY <1>2, <1>6, <2>1, <4>1
      <4>2. CASE b[1] # q
        BY <1>6, <2>1, <4>2
      <4> QED
        BY <4>1, <4>2
    <3>2. /\ OneIn(Carrying(b), Queues)
          /\ b[2] > sent[b[1]] => NoneIn(Carrying(b), Queues)
      BY DEF OnceInv, SentOnce
    <3> QED
      BY <1>10, <2>3, <3>1, <3>2 DEF Carried
  <2> QED
    BY <2>2, <2>3
<1>14. \A r \in ClientProc \ {q} : cId[r] # NoClientId => cId[r] # c
  BY DEF OnceInv, Owners, c
<1>15. NamedForOwn'
  <2>1. ASSUME NEW r \in ClientProc, cId[r] # NoClientId
        PROVE  NoneIn(Naming(cId[r], Others(r)), Queues')
    <3>1. cId[r] # c \/ new \notin Others(r)
      BY <1>3, <1>14, <2>1 DEF Others
    <3>2. NoneIn(Naming(cId[r], Others(r)), Queues)
      BY <2>1 DEF OnceInv, NamedForOwn
    <3> QED
      BY <1>11, <3>1, <3>2 DEF Carried
  <2> QED
    BY <1>1, <2>1 DEF OnceInv, NamedForOwn, Others
<1>16. GreetedOnce'
  <2> SUFFICES ASSUME NEW r \in ClientProc
               PROVE  /\ cPhase'[r] = "pinging"
                           => /\ OneIn(Greeting(cId'[r]), Queues')
                              /\ NoneIn(Naming(cId'[r], Body), Queues')
                      /\ cPhase'[r] \in {"pausing", "sending", "receiving"}
                           => NoneIn(Greeting(cId'[r]), Queues')
    BY DEF GreetedOnce
  <2>1. CASE r = q
    <3>1. cPhase'[q] \in {"sending", "receiving"}
      BY <1>1 DEF OnceInv, Inv, TypeOK, ClientTypeOK
    <3>2. NoneIn(Greeting(cId[q]), Queues)
      BY <1>1 DEF OnceInv, GreetedOnce
    <3> QED
      BY <1>1, <1>12, <2>1, <3>1, <3>2 DEF Carried
  <2>2. CASE r # q
    <3>1. cPhase'[r] = cPhase[r] /\ cId'[r] = cId[r]
      BY <1>1, <2>2 DEF OnceInv, Inv, TypeOK, ClientTypeOK
    <3>2. ASSUME cPhase[r] = "pinging"  PROVE cId[r] # c
      BY <1>14, <2>2, <3>2, ClientAssumption DEF OnceInv, Inv, PhasesAgree
    <3>3. /\ cPhase[r] = "pinging"
               => /\ OneIn(Greeting(cId[r]), Queues)
                  /\ NoneIn(Naming(cId[r], Body), Queues)
          /\ cPhase[r] \in {"pausing", "sending", "receiving"}
               => NoneIn(Greeting(cId[r]), Queues)
      BY DEF OnceInv, GreetedOnce
    <3> QED
      BY <1>11, <1>12, <3>1, <3>2, <3>3 DEF Carried
  <2> QED
    BY <2>1, <2>2
<1> QED
  BY <1>1, <1>13, <1>15, <1>16, OwnersKept DEF OnceInv, Inv

(* What a client reads, it takes away; it adds to what it received.         *)
LEMMA HandleResponseTakes ==
  ASSUME Inv, NEW q \in ClientProc, cId[q] \in ClientId, HandleResponse(q),
         \A r \in ClientProc \ {q} : received'[r] = received[r],
         UNCHANGED pending
  PROVE  LET c == cId[q]
             m == Head(frontDown[c])
             a == <<"frontDown", c>>
             d == <<"received", q>>
         IN  /\ m \in FrontDownMsg
             /\ a \in Place /\ d \in Place /\ a # d
             /\ Queues[d] = received[q] /\ Queues'[d] = received'[q]
             /\ \A S : /\ \A x \in Place \ {d} : NoMore(Queues'[x], Queues[x], S[x])
                       /\ m \in S[a]
                            => /\ ~NoneOf(Queues[a], S[a])
                               /\ OneOf(Queues[a], S[a]) => NoneOf(Queues'[a], S[a])
<1> DEFINE c == cId[q]
           m == Head(frontDown[c])
           a == <<"frontDown", c>>
           d == <<"received", q>>
<1>1. /\ frontDown[c] # <<>>
      /\ frontDown' = [frontDown EXCEPT ![c] = Tail(@)]
      /\ UNCHANGED <<frontUp, backUp, backDown>>
  BY DEF HandleResponse
<1>2. /\ frontDown \in [ClientId -> Seq(FrontDownMsg)]
      /\ frontDown[c] \in Seq(FrontDownMsg)
  BY QueueTypes
<1>3. m \in FrontDownMsg
  BY <1>1, <1>2, HeadTailProperties
<1>4. /\ frontDown'[c] = Tail(frontDown[c])
      /\ \A y \in ClientId \ {c} : frontDown'[y] = frontDown[y]
  BY <1>1, <1>2
<1>5. /\ a \in Place /\ Queues[a] = frontDown[c] /\ Queues'[a] = frontDown'[c]
      /\ d \in Place /\ Queues[d] = received[q] /\ Queues'[d] = received'[q]
      /\ a # d
  BY DEF Place, Packed, Queues
<1> HIDE DEF c, a
<1>6. ASSUME NEW S
      PROVE  \A x \in Place \ {d} : NoMore(Queues'[x], Queues[x], S[x])
  <2>1. \A y \in ClientId :
          NoMore(frontDown'[y], frontDown[y], S[<<"frontDown", y>>])
    BY <1>1, <1>2, <1>4, NoMoreOfTail, NoMoreOfSame
  <2>2. \A r \in ClientProc :
          \/ <<"received", r>> \in {d}
          \/ NoMore(received'[r], received[r], S[<<"received", r>>])
    BY NoMoreOfSame
  <2> HIDE DEF d
  <2> QED
    BY <1>1, <2>1, <2>2, NoMoreOfSame, EachPlace DEF Queues
<1>7. ASSUME NEW S, m \in S[a]
      PROVE  /\ ~NoneOf(Queues[a], S[a])
             /\ OneOf(Queues[a], S[a]) => NoneOf(Queues'[a], S[a])
  BY <1>1, <1>2, <1>4, <1>5, <1>7, HeadMoves
<1> HIDE DEF d, m
<1>8. /\ m \in FrontDownMsg
      /\ a \in Place /\ d \in Place /\ a # d
      /\ Queues[d] = received[q] /\ Queues'[d] = received'[q]
      /\ \A S : /\ \A x \in Place \ {d} : NoMore(Queues'[x], Queues[x], S[x])
                /\ m \in S[a]
                     => /\ ~NoneOf(Queues[a], S[a])
                        /\ OneOf(Queues[a], S[a]) => NoneOf(Queues'[a], S[a])
  BY <1>3, <1>5, <1>6, <1>7
<1> QED
  BY <1>8 DEF c, m, a, d

(* What of the selections may be on its way to the client that reads.       *)
LEMMA DownOf ==
  ASSUME NEW c \in ClientId, NEW B
  PROVE  /\ \A z : z \in Naming(c, B)[<<"frontDown", c>>]
                  <=> z \in FrontDownMsg /\ z.type = "Reply" /\ z.body \in B
         /\ \A z : z \in Greeting(c)[<<"frontDown", c>>]
                  <=> z \in FrontDownMsg /\ z.type = "Discovery"
<1>1. \A y \in ClientId :
        \A z : z \in Naming(c, B)[<<"frontDown", y>>]
                <=> /\ z \in FrontDownMsg /\ y = c
                    /\ z.type = "Reply" /\ z.body \in B
  BY NamingAt
<1>2. \A y \in ClientId :
        \A z : z \in Greeting(c)[<<"frontDown", y>>]
                <=> z \in FrontDownMsg /\ y = c /\ z.type = "Discovery"
  BY GreetingAt, ZenonT(40)
<1> QED
  BY <1>1, <1>2

LEMMA ClientPongKeepsOnce ==
  ASSUME OnceInv, NEW q \in ClientProc, ClientPong(q), UNCHANGED pending
  PROVE  Owners' /\ SentOnce' /\ NamedForOwn' /\ GreetedOnce'
<1> DEFINE c == cId[q]
           m == Head(frontDown[c])
           a == <<"frontDown", c>>
           d == <<"received", q>>
           G == Greeting(c)
<1>1. /\ cPhase[q] = "pinging" /\ HandleResponse(q)
      /\ cPhase' = [cPhase EXCEPT ![q] = "pausing"]
      /\ UNCHANGED <<received, cId, sent, peers>>
  BY DEF ClientPong, Goto, HandleResponse
<1>2. c \in ClientId
  BY <1>1 DEF OnceInv, Inv, PhasesAgree
<1>3. /\ m \in FrontDownMsg
      /\ a \in Place /\ d \in Place /\ a # d
      /\ Queues[d] = received[q] /\ Queues'[d] = received'[q]
      /\ \A S : /\ \A x \in Place \ {d} : NoMore(Queues'[x], Queues[x], S[x])
                /\ m \in S[a]
                     => /\ ~NoneOf(Queues[a], S[a])
                        /\ OneOf(Queues[a], S[a]) => NoneOf(Queues'[a], S[a])
  BY <1>1, <1>2, HandleResponseTakes DEF OnceInv
<1>4. m \in G[a]
  <2>1. NoneIn(Naming(c, Body), Queues) /\ m \notin Naming(c, Body)[a]
    <3>1. NoneIn(Naming(c, Body), Queues)
      BY <1>1 DEF OnceInv, GreetedOnce
    <3> HIDE DEF c, m, a, d
    <3> QED
      BY <1>3, <3>1 DEF NoneIn
  <2>2. \A z : z \in Naming(c, Body)[<<"frontDown", c>>]
               <=> z \in FrontDownMsg /\ z.type = "Reply" /\ z.body \in Body
    <3> HIDE DEF c
    <3> QED
      BY <1>2, DownOf
  <2>3. \A z : z \in G[<<"frontDown", c>>]
               <=> z \in FrontDownMsg /\ z.type = "Discovery"
    <3> HIDE DEF c
    <3> QED
      BY <1>2, DownOf
  <2>4. m.type = "Discovery" \/ (m.type = "Reply" /\ m.body \in Body)
    BY <1>3 DEF FrontDownMsg
  <2> QED
    BY <1>3, <2>1, <2>2, <2>3, <2>4
<1> HIDE DEF c, m, a, d, G
<1>5. \A S : Carried(S, Queues, Queues')
  <2> TAKE S
  <2>1. NoMore(Queues'[d], Queues[d], S[d])
    BY <1>1, <1>3, NoMoreOfSame
  <2>2. \A x \in Place \ {} : NoMore(Queues'[x], Queues[x], S[x])
    BY <1>3, <2>1
  <2> QED
    BY <2>2, Kept
<1>6. NoneIn(G, Queues')
  <2>1. OneIn(G, Queues)
    BY <1>1 DEF OnceInv, GreetedOnce, G, c
  <2>2. NoneOf(Queues'[a], G[a])
    BY <1>3, <1>4, <2>1 DEF OneIn
  <2>3. \A x \in Place \ {a} : NoneOf(Queues[x], G[x])
    BY <1>3, <1>4, <2>1 DEF OneIn
  <2>4. \A x \in Place : NoMore(Queues'[x], Queues[x], G[x])
    BY <1>1, <1>3, NoMoreOfSame
  <2> QED
    BY <2>2, <2>3, <2>4 DEF NoneIn, NoMore
<1>7. SentOnce'
  BY <1>1, <1>5 DEF OnceInv, SentOnce, Carried
<1>8. NamedForOwn'
  BY <1>1, <1>5 DEF OnceInv, NamedForOwn, Carried
<1>9. GreetedOnce'
  <2> SUFFICES ASSUME NEW r \in ClientProc
               PROVE  /\ cPhase'[r] = "pinging"
                           => /\ OneIn(Greeting(cId'[r]), Queues')
                              /\ NoneIn(Naming(cId'[r], Body), Queues')
                      /\ cPhase'[r] \in {"pausing", "sending", "receiving"}
                           => NoneIn(Greeting(cId'[r]), Queues')
    BY DEF GreetedOnce
  <2>1. CASE r = q
    <3>1. cPhase'[q] = "pausing"
      BY <1>1 DEF OnceInv, Inv, TypeOK, ClientTypeOK
    <3> QED
      BY <1>1, <1>6, <2>1, <3>1 DEF G, c
  <2>2. CASE r # q
    <3>1. cPhase'[r] = cPhase[r] /\ cId'[r] = cId[r]
      BY <1>1, <2>2 DEF OnceInv, Inv, TypeOK, ClientTypeOK
    <3>2. /\ cPhase[r] = "pinging"
               => /\ OneIn(Greeting(cId[r]), Queues)
                  /\ NoneIn(Naming(cId[r], Body), Queues)
          /\ cPhase[r] \in {"pausing", "sending", "receiving"}
               => NoneIn(Greeting(cId[r]), Queues)
      BY DEF OnceInv, GreetedOnce
    <3> QED
      BY <1>5, <3>1, <3>2 DEF Carried
  <2> QED
    BY <2>1, <2>2
<1> QED
  BY <1>1, <1>7, <1>8, <1>9, OwnersKept DEF OnceInv, Inv

(* A reply that a client reads is the next that it received.                *)
LEMMA ClientReceiveCarries ==
  ASSUME OnceInv, NEW q \in ClientProc, ClientReceive(q), UNCHANGED pending
  PROVE  LET b == Head(frontDown[cId[q]]).body
         IN  /\ b \in Body /\ b[1] = q
             /\ \/ received'[q] = received[q]
                \/ received'[q] = Append(received[q], b)
             /\ \A r \in ClientProc \ {q} : received'[r] = received[r]
             /\ \A S : ClientFollows(S) => Carried(S, Queues, Queues')
<1> DEFINE c == cId[q]
           m == Head(frontDown[c])
           a == <<"frontDown", c>>
           d == <<"received", q>>
<1>1. /\ cPhase[q] = "receiving" /\ HandleResponse(q)
      /\ \/ cPhase' = [cPhase EXCEPT ![q] = "stopping"]
         \/ cPhase' = [cPhase EXCEPT ![q] = "receiving"]
      /\ UNCHANGED <<cId, sent, peers>>
      /\ \/ UNCHANGED received
         \/ received' = [received EXCEPT ![q] = Append(@, mReply'[q])]
      /\ mReply' = [mReply EXCEPT ![q] = IF m.type = "Reply" THEN m.body ELSE @]
  BY DEF ClientReceive, Goto, HandleResponse
<1>2. /\ c \in ClientId /\ c # NoClientId
      /\ received \in [ClientProc -> Seq(Body)] /\ received[q] \in Seq(Body)
  BY <1>1, ClientAssumption
  DEF OnceInv, Inv, PhasesAgree, TypeOK, ClientTypeOK
<1>3. \A r \in ClientProc \ {q} : received'[r] = received[r]
  BY <1>1, <1>2
<1>4. /\ m \in FrontDownMsg
      /\ a \in Place /\ d \in Place /\ a # d
      /\ Queues[d] = received[q] /\ Queues'[d] = received'[q]
      /\ \A S : /\ \A x \in Place \ {d} : NoMore(Queues'[x], Queues[x], S[x])
                /\ m \in S[a]
                     => /\ ~NoneOf(Queues[a], S[a])
                        /\ OneOf(Queues[a], S[a]) => NoneOf(Queues'[a], S[a])
  BY <1>1, <1>2, <1>3, HandleResponseTakes DEF OnceInv
<1>5. ASSUME NEW S, NoneIn(S, Queues)  PROVE m \notin S[<<"frontDown", c>>]
  <2> HIDE DEF m, c
  <2> QED
    BY <1>4, <1>5 DEF NoneIn
<1>6. m.type = "Reply" /\ m.body \in Body
  <2>1. m \notin Greeting(c)[<<"frontDown", c>>]
    <3>1. NoneIn(Greeting(c), Queues)
      BY <1>1 DEF OnceInv, GreetedOnce
    <3> HIDE DEF m, c
    <3> QED
      BY <1>5, <3>1
  <2>2. \A z : z \in Greeting(c)[<<"frontDown", c>>]
               <=> z \in FrontDownMsg /\ z.type = "Discovery"
    <3> HIDE DEF c
    <3> QED
      BY <1>2, DownOf
  <2> HIDE DEF m, c
  <2> QED
    BY <1>4, <2>1, <2>2 DEF FrontDownMsg
<1>7. m.body[1] = q
  <2>1. m \notin Naming(c, Others(q))[<<"frontDown", c>>]
    <3>1. NoneIn(Naming(c, Others(q)), Queues)
      BY <1>2 DEF OnceInv, NamedForOwn
    <3> HIDE DEF m, c
    <3> QED
      BY <1>5, <3>1
  <2>2. \A z : z \in Naming(c, Others(q))[<<"frontDown", c>>]
               <=> z \in FrontDownMsg /\ z.type = "Reply" /\ z.body \in Others(q)
    <3> HIDE DEF c
    <3> QED
      BY <1>2, DownOf
  <2> HIDE DEF m, c
  <2> QED
    BY <1>4, <1>6, <2>1, <2>2 DEF Others
<1>8. mReply'[q] = m.body
  BY <1>1, <1>6 DEF OnceInv, Inv, TypeOK, ClientTypeOK
<1> HIDE DEF m
<1>9. received'[q] = received[q] \/ received'[q] = Append(received[q], m.body)
  BY <1>1, <1>2, <1>8
<1>10. ASSUME NEW S, ClientFollows(S)
       PROVE  Carried(S, Queues, Queues')
  <2>1. m.body \in S[d] => m \in S[a]
    BY <1>2, <1>4, <1>6, <1>10 DEF ClientFollows
  <2>2. ASSUME m.body \notin S[d]
        PROVE  NoMore(Queues'[d], Queues[d], S[d])
    BY <1>2, <1>4, <1>6, <1>9, <2>2, NoMoreOfAppend, NoMoreOfSame
  <2>3. NoneOf(Queues[d], S[d]) => OneOf(Queues'[d], S[d])
    <3>1. NoneOf(received[q], S[d]) => OneOf(received[q], S[d])
      BY DEF NoneOf, OneOf
    <3> QED
      BY <1>2, <1>4, <1>6, <1>9, <3>1, NoMoreOfAppend
  <2> HIDE DEF a, d
  <2> QED
    BY <1>4, <2>1, <2>2, <2>3, Moved
<1> QED
  BY <1>3, <1>6, <1>7, <1>9, <1>10 DEF m, c

LEMMA ClientReceiveKeepsOnce ==
  ASSUME OnceInv, NEW q \in ClientProc, ClientReceive(q), UNCHANGED pending
  PROVE  Owners' /\ SentOnce' /\ NamedForOwn' /\ GreetedOnce'
<1> DEFINE new == Head(frontDown[cId[q]]).body
<1>1. /\ \/ cPhase' = [cPhase EXCEPT ![q] = "stopping"]
         \/ cPhase' = [cPhase EXCEPT ![q] = "receiving"]
      /\ cPhase[q] = "receiving"
      /\ UNCHANGED <<cId, sent, peers>>
  BY DEF ClientReceive, Goto, HandleResponse
<1>2. received[q] \in Seq(Body)
  BY DEF OnceInv, Inv, TypeOK, ClientTypeOK
<1>3. /\ new \in Body /\ new[1] = q
      /\ \/ received'[q] = received[q]
         \/ received'[q] = Append(received[q], new)
      /\ \A r \in ClientProc \ {q} : received'[r] = received[r]
      /\ \A S : ClientFollows(S) => Carried(S, Queues, Queues')
  BY ClientReceiveCarries
<1> HIDE DEF new
<1>10. ASSUME NEW S, Follows(S)
       PROVE  Carried(S, Queues, Queues')
  BY <1>3, <1>10 DEF Follows
<1>11. SentOnce'
  BY <1>1, <1>10, CarryingFollows DEF OnceInv, SentOnce, Carried
<1>12. NamedForOwn'
  <2>1. ASSUME NEW r \in ClientProc, cId'[r] # NoClientId
        PROVE  NoneIn(Naming(cId'[r], Others(r)), Queues')
    BY <1>1, <1>10, <2>1, NamingFollows DEF OnceInv, NamedForOwn, Carried
  <2>2. ASSUME NEW r \in ClientProc, NEW i \in 1 .. Len(received'[r])
        PROVE  received'[r][i][1] = r
    <3>1. \A j \in 1 .. Len(received[r]) : received[r][j][1] = r
      BY DEF OnceInv, NamedForOwn
    <3>2. CASE r = q /\ received'[q] = Append(received[q], new)
      <4>1. /\ Len(received[q]) \in Nat
            /\ Len(Append(received[q], new)) = Len(received[q]) + 1
            /\ \A j \in 1 .. Len(received[q]) :
                 Append(received[q], new)[j] = received[q][j]
            /\ Append(received[q], new)[Len(received[q]) + 1] = new
        BY <1>2, <1>3, AppendProperties, LenProperties
      <4>2. i \in 1 .. Len(received[q]) \/ i = Len(received[q]) + 1
        BY <2>2, <3>2, <4>1
      <4> QED
        BY <1>3, <3>1, <3>2, <4>1, <4>2
    <3>3. CASE received'[r] = received[r]
      BY <2>2, <3>1, <3>3
    <3> QED
      BY <1>3, <3>2, <3>3
  <2> QED
    BY <2>1, <2>2 DEF NamedForOwn, Others
<1>13. GreetedOnce'
  <2> SUFFICES ASSUME NEW r \in ClientProc
               PROVE  /\ cPhase'[r] = "pinging"
                           => /\ OneIn(Greeting(cId'[r]), Queues')
                              /\ NoneIn(Naming(cId'[r], Body), Queues')
                      /\ cPhase'[r] \in {"pausing", "sending", "receiving"}
                           => NoneIn(Greeting(cId'[r]), Queues')
    BY DEF GreetedOnce
  <2>1. /\ (cPhase'[r] = cPhase[r] \/ cPhase'[r] = "stopping")
        /\ cId'[r] = cId[r]
    BY <1>1 DEF OnceInv, Inv, TypeOK, ClientTypeOK
  <2>2. /\ cPhase[r] = "pinging"
             => /\ OneIn(Greeting(cId[r]), Queues)
                /\ NoneIn(Naming(cId[r], Body), Queues)
        /\ cPhase[r] \in {"pausing", "sending", "receiving"}
             => NoneIn(Greeting(cId[r]), Queues)
    BY DEF OnceInv, GreetedOnce
  <2> QED
    BY <1>10, <2>1, <2>2, NamingFollows, GreetingFollows DEF Carried
<1> QED
  BY <1>1, <1>11, <1>12, <1>13, OwnersKept DEF OnceInv, Inv

LEMMA ClientStepKeepsOnce ==
  ASSUME OnceInv, NEW q \in ClientProc, ClientStep(q) \/ ClientFails(q)
  PROVE  Owners' /\ SentOnce' /\ NamedForOwn' /\ GreetedOnce'
<1>1. UNCHANGED pending
  BY DEF ClientStep, ClientFails, brokerVars
<1>2. \A n \in 0 .. FrontHwm : n \in Nat
  BY NetAssumption
<1>3. ASSUME NEW id \in FreshClientId, NEW n \in 0 .. FrontHwm,
             ClientPingTimeout(q, id, n) \/ ClientRecvTimeout(q, id, n)
      PROVE  Owners' /\ SentOnce' /\ NamedForOwn' /\ GreetedOnce'
  <2>1. PICK ph \in {"pausing", "stopping"} :
          /\ ClientSocket(q, id, <<>>, n)
          /\ cPhase' = [cPhase EXCEPT ![q] = ph]
          /\ UNCHANGED <<sent, received>>
    BY <1>3 DEF ClientPingTimeout, ClientRecvTimeout, Goto
  <2> QED
    BY <1>1, <1>2, <2>1, NewSocketKeepsOnce
<1>4. ASSUME NEW n \in 0 .. FrontHwm, ClientEnds(q, n)
      PROVE  Owners' /\ SentOnce' /\ NamedForOwn' /\ GreetedOnce'
  <2>1. /\ ClientSocket(q, NoClientId, <<>>, n)
        /\ cPhase' = [cPhase EXCEPT ![q] = "done"]
        /\ UNCHANGED <<sent, received>>
    BY <1>4 DEF ClientEnds, Goto
  <2> QED
    BY <1>1, <1>2, <2>1, NewSocketKeepsOnce
<1>5. ASSUME ClientResume(q)
      PROVE  Owners' /\ SentOnce' /\ NamedForOwn' /\ GreetedOnce'
  <2>1. /\ cPhase[q] = "pausing" /\ cPhase' = [cPhase EXCEPT ![q] = "sending"]
        /\ UNCHANGED <<cId, sent, received, peers>> /\ Queues' = Queues
    BY <1>1, <1>5 DEF ClientResume, Goto, netVars, Queues
  <2>2. SentOnce' /\ NamedForOwn'
    BY <2>1 DEF OnceInv, SentOnce, NamedForOwn
  <2>3. \A r \in ClientProc :
          cPhase'[r] = cPhase[r] \/ (cPhase[r] = "pausing" /\ cPhase'[r] = "sending")
    BY <2>1 DEF OnceInv, Inv, TypeOK, ClientTypeOK
  <2>4. GreetedOnce'
    BY <2>1, <2>3 DEF OnceInv, GreetedOnce
  <2> QED
    BY <2>1, <2>2, <2>4, OwnersKept DEF OnceInv, Inv
<1>6. ASSUME ClientStep(q)  PROVE Owners' /\ SentOnce' /\ NamedForOwn' /\ GreetedOnce'
  <2>1. CASE ClientPong(q)
    BY <1>1, <2>1, ClientPongKeepsOnce
  <2>2. CASE ClientSend(q)
    BY <1>1, <2>2, ClientSendKeepsOnce
  <2>3. CASE ClientReceive(q)
    BY <1>1, <2>3, ClientReceiveKeepsOnce
  <2>4. CASE \E n \in 0 .. FrontHwm : ClientExit(q, n)
    BY <1>4, <2>4 DEF ClientExit
  <2> QED
    BY <1>3, <1>5, <1>6, <2>1, <2>2, <2>3, <2>4 DEF ClientStep
<1>7. ASSUME ClientFails(q)  PROVE Owners' /\ SentOnce' /\ NamedForOwn' /\ GreetedOnce'
  BY <1>4, <1>7 DEF ClientFails, ClientCrash
<1> QED
  BY <1>6, <1>7

-----------------------------------------------------------------------------
(* The system.                                                              *)

LEMMA InitOnceInv == Init => OnceInv
<1> SUFFICES ASSUME Init  PROVE OnceInv
  OBVIOUS
<1>1. \A x, S : NoneOf(<<>>, S)
  BY NoMoreOfEmpty
<1>2. /\ \A c \in ClientId : frontUp[c] = <<>> /\ frontDown[c] = <<>>
      /\ \A w \in WorkerId : backUp[w] = <<>> /\ backDown[w] = <<>>
      /\ \A s \in Service : pending[s] = <<>>
      /\ \A q \in ClientProc : received[q] = <<>>
  BY DEF Init, NetInit, BrokerInit, EmptyBroker, ClientInit
<1>3. ASSUME NEW S  PROVE NoneIn(S, Queues)
  BY <1>1, <1>2, NonePacked DEF Queues
<1>4. \A q \in ClientProc : /\ cId[q] = NoClientId /\ cPhase[q] = "off"
                            /\ received[q] = <<>>
  BY DEF Init, ClientInit
<1>5. Owners /\ NamedForOwn /\ GreetedOnce
  BY <1>4 DEF Owners, NamedForOwn, GreetedOnce
<1>6. SentOnce
  BY <1>3, NoneIsOne DEF SentOnce
<1> QED
  BY <1>5, <1>6, InitInv DEF OnceInv

(* Every step of the system, of whatever process, keeps the invariant.      *)
LEMMA StepKeepsOnce == OnceInv /\ [Next]_vars => OnceInv'
<1> SUFFICES ASSUME OnceInv, [Next]_vars
             PROVE  Owners' /\ SentOnce' /\ NamedForOwn' /\ GreetedOnce'
  BY StepKeeps DEF OnceInv
<1>1. ASSUME \A S : Follows(S) => Carried(S, Queues, Queues'),
             UNCHANGED clientVars,
             \A c \in ClientId : c \in peers => c \in peers'
      PROVE  Owners' /\ SentOnce' /\ NamedForOwn' /\ GreetedOnce'
  <2>1. UNCHANGED <<cId, cPhase, sent, received>>
    BY <1>1 DEF clientVars
  <2> QED
    BY <1>1, <2>1, OwnersKept, OthersKeepOnce DEF OnceInv, Inv
<1>2. ASSUME BrokerStep
      PROVE  Owners' /\ SentOnce' /\ NamedForOwn' /\ GreetedOnce'
  <2>1. UNCHANGED <<peers, clientVars>>
    BY <1>2 DEF BrokerStep, BrokerNext, BrokerWait, netVars,
       HandleWorkerResponse, HandleClientRequest, Housekeeping
  <2>2. \A S : Follows(S) => Carried(S, Queues, Queues')
    BY <1>2, BrokerStepCarries DEF OnceInv, Follows
  <2> QED
    BY <1>1, <2>1, <2>2
<1>3. ASSUME NEW p \in WorkerProc,
             \/ WorkerStep(p) \/ StartWorker(p)
             \/ WorkerFails(p) \/ WorkerLeaves(p)
      PROVE  Owners' /\ SentOnce' /\ NamedForOwn' /\ GreetedOnce'
  <2>1. UNCHANGED clientVars
    BY <1>3 DEF WorkerStep, StartWorker, WorkerFails, WorkerLeaves
  <2>2. wId[p] \notin ClientId
    BY WorkerAssumption, NetAssumption DEF OnceInv, Inv, TypeOK, WorkerTypeOK
  <2>3. \A c \in peers : c # wId[p] => c \in peers'
    <3>1. ASSUME WorkerStep(p)  PROVE \A c \in peers : c # wId[p] => c \in peers'
      BY <3>1 DEF WorkerStep, WorkerReceive, WorkerReconnect, WorkerMissed,
         WorkerSleep, WorkerWake, Connect, netVars
    <3>2. ASSUME StartWorker(p) \/ WorkerFails(p) \/ WorkerLeaves(p)
          PROVE  \A c \in peers : c # wId[p] => c \in peers'
      BY <3>2 DEF StartWorker, WorkerStart, Connect, WorkerFails, WorkerLeaves,
         WorkerCrash, WorkerLeave, WorkerEnds
    <3> QED
      BY <1>3, <3>1, <3>2
  <2>4. \A S : Follows(S) => Carried(S, Queues, Queues')
    BY <1>3, WorkerStepCarries, WorkerEndsCarries DEF OnceInv, Follows
  <2> QED
    BY <1>1, <2>1, <2>2, <2>3, <2>4
<1>4. ASSUME \/ BrokerFails
             \/ \E w \in WorkerId : BackLinkFails(w)
             \/ \E c \in ClientId : FrontLinkFails(c)
      PROVE  Owners' /\ SentOnce' /\ NamedForOwn' /\ GreetedOnce'
  <2>1. UNCHANGED <<peers, clientVars>>
    BY <1>4 DEF BrokerFails, BrokerCrash, BackLinkFails, BackConnectionReset,
       FrontLinkFails, FrontConnectionReset
  <2>2. \A S : Carried(S, Queues, Queues')
    BY <1>4, BrokerFailsCarries, LinkFailsCarries DEF OnceInv
  <2> QED
    BY <1>1, <2>1, <2>2
<1>5. ASSUME StartBroker \/ Tick \/ UNCHANGED vars
      PROVE  Owners' /\ SentOnce' /\ NamedForOwn' /\ GreetedOnce'
  <2>1. /\ UNCHANGED <<peers, cId, cPhase, sent, received>>
        /\ Queues' = Queues
    BY <1>5 DEF StartBroker, BrokerStart, Tick, BrokerTick, ClientTick, vars,
       netVars, brokerVars, clientVars, Queues
  <2>2. \A S : Carried(S, Queues, Queues')
    BY <2>1 DEF Carried
  <2> QED
    BY <2>1, <2>2, OwnersKept, OthersKeepOnce DEF OnceInv, Inv
<1>6. ASSUME NEW q \in ClientProc,
             ClientStep(q) \/ StartClient(q) \/ ClientFails(q)
      PROVE  Owners' /\ SentOnce' /\ NamedForOwn' /\ GreetedOnce'
  BY <1>6, ClientStepKeepsOnce, StartClientKeepsOnce
<1> QED
  BY <1>2, <1>3, <1>4, <1>5, <1>6 DEF Next, Step, Fault

(* The places of a request are where Carrying finds it.                     *)
LEMMA PlacesAreCarrying ==
  ASSUME TypeOK, NEW b
  PROVE  \A p \in Places(b) :
           \E x \in Place : \E i \in Positions(Queues[x], Carrying(b)[x]) :
             p = <<x, i>>
<1> DEFINE S == Carrying(b)
           Bears(m) == m.type \in {"Request", "Reply"} /\ m.body = b
           In(name, qs) ==
             UNION {{<<name, x>>} \X {i \in 1 .. Len(qs[x]) : Bears(qs[x][i])} :
                      x \in DOMAIN qs}
           Pend == UNION {{<<"pending", s>>} \X {i \in 1 .. Len(pending[s]) :
                                                 pending[s][i].body = b} :
                            s \in Service}
           Rec == UNION {{<<"received", q>>} \X {i \in 1 .. Len(received[q]) :
                                                 received[q][i] = b} :
                           q \in ClientProc}
<1>1. Places(b) = In("frontUp", frontUp) \cup In("frontDown", frontDown)
                  \cup In("backUp", backUp) \cup In("backDown", backDown)
                  \cup Pend \cup Rec
  BY DEF Places
<1>2. ASSUME NEW name, NEW qs, NEW p \in In(name, qs)
      PROVE  \E y \in DOMAIN qs : \E i \in 1 .. Len(qs[y]) :
               Bears(qs[y][i]) /\ p = <<<<name, y>>, i>>
  <2>1. PICK y \in DOMAIN qs :
          p \in {<<name, y>>} \X {i \in 1 .. Len(qs[y]) : Bears(qs[y][i])}
    BY <1>2
  <2> QED
    BY <2>1
<1>3. ASSUME NEW p \in Pend
      PROVE  \E s \in Service : \E i \in 1 .. Len(pending[s]) :
               pending[s][i].body = b /\ p = <<<<"pending", s>>, i>>
  <2>1. PICK s \in Service :
          p \in {<<"pending", s>>} \X {i \in 1 .. Len(pending[s]) :
                                       pending[s][i].body = b}
    BY <1>3
  <2> QED
    BY <2>1
<1>4. ASSUME NEW p \in Rec
      PROVE  \E q \in ClientProc : \E i \in 1 .. Len(received[q]) :
               received[q][i] = b /\ p = <<<<"received", q>>, i>>
  <2>1. PICK q \in ClientProc :
          p \in {<<"received", q>>} \X {i \in 1 .. Len(received[q]) :
                                        received[q][i] = b}
    BY <1>4
  <2> QED
    BY <2>1
<1>5. /\ DOMAIN frontUp = ClientId /\ DOMAIN frontDown = ClientId
      /\ DOMAIN backUp = WorkerId /\ DOMAIN backDown = WorkerId
      /\ \A c \in ClientId :
           /\ \A i \in 1 .. Len(frontUp[c]) : frontUp[c][i] \in FrontUpMsg
           /\ \A i \in 1 .. Len(frontDown[c]) : frontDown[c][i] \in FrontDownMsg
      /\ \A w \in WorkerId :
           /\ \A i \in 1 .. Len(backUp[w]) : backUp[w][i] \in BackUpMsg
           /\ \A i \in 1 .. Len(backDown[w]) : backDown[w][i] \in BackDownMsg
      /\ \A s \in Service : \A i \in 1 .. Len(pending[s]) :
           pending[s][i] \in PendingRequest
  BY LenProperties DEF TypeOK, NetTypeOK, BrokerTypeOK
<1> HIDE DEF In, Pend, Rec
<1>6. ASSUME NEW p \in Places(b)
      PROVE  \E x \in Place : \E i \in Positions(Queues[x], S[x]) : p = <<x, i>>
  <2>1. CASE p \in In("frontUp", frontUp)
    <3>1. PICK c \in ClientId : \E i \in 1 .. Len(frontUp[c]) :
                 Bears(frontUp[c][i]) /\ p = <<<<"frontUp", c>>, i>>
      BY <1>2, <1>5, <2>1
    <3>2. PICK i \in 1 .. Len(frontUp[c]) :
                 Bears(frontUp[c][i]) /\ p = <<<<"frontUp", c>>, i>>
      BY <3>1
    <3>3. frontUp[c][i] \in FrontUpMsg /\ frontUp[c][i].type = "Request"
      BY <1>5, <3>2 DEF FrontUpMsg
    <3>4. \A z : z \in S[<<"frontUp", c>>]
                  <=> z \in FrontUpMsg /\ z.type = "Request" /\ z.body = b
      BY CarryingAt
    <3>5. <<"frontUp", c>> \in Place /\ Queues[<<"frontUp", c>>] = frontUp[c]
      BY DEF Place, Packed, Queues
    <3> HIDE DEF S
    <3> QED
      BY <3>2, <3>3, <3>4, <3>5 DEF Positions
  <2>2. CASE p \in In("frontDown", frontDown)
    <3>1. PICK c \in ClientId : \E i \in 1 .. Len(frontDown[c]) :
                 Bears(frontDown[c][i]) /\ p = <<<<"frontDown", c>>, i>>
      BY <1>2, <1>5, <2>2
    <3>2. PICK i \in 1 .. Len(frontDown[c]) :
                 Bears(frontDown[c][i]) /\ p = <<<<"frontDown", c>>, i>>
      BY <3>1
    <3>3. frontDown[c][i] \in FrontDownMsg /\ frontDown[c][i].type = "Reply"
      BY <1>5, <3>2 DEF FrontDownMsg
    <3>4. \A z : z \in S[<<"frontDown", c>>]
                  <=> z \in FrontDownMsg /\ z.type = "Reply" /\ z.body = b
      BY CarryingAt
    <3>5. /\ <<"frontDown", c>> \in Place
          /\ Queues[<<"frontDown", c>>] = frontDown[c]
      BY DEF Place, Packed, Queues
    <3> HIDE DEF S
    <3> QED
      BY <3>2, <3>3, <3>4, <3>5 DEF Positions
  <2>3. CASE p \in In("backUp", backUp)
    <3>1. PICK w \in WorkerId : \E i \in 1 .. Len(backUp[w]) :
                 Bears(backUp[w][i]) /\ p = <<<<"backUp", w>>, i>>
      BY <1>2, <1>5, <2>3
    <3>2. PICK i \in 1 .. Len(backUp[w]) :
                 Bears(backUp[w][i]) /\ p = <<<<"backUp", w>>, i>>
      BY <3>1
    <3>3. backUp[w][i] \in BackUpMsg /\ backUp[w][i].type = "Reply"
      BY <1>5, <3>2 DEF BackUpMsg
    <3>4. \A z : z \in S[<<"backUp", w>>]
                  <=> z \in BackUpMsg /\ z.type = "Reply" /\ z.body = b
      BY CarryingAt
    <3>5. <<"backUp", w>> \in Place /\ Queues[<<"backUp", w>>] = backUp[w]
      BY DEF Place, Packed, Queues
    <3> HIDE DEF S
    <3> QED
      BY <3>2, <3>3, <3>4, <3>5 DEF Positions
  <2>4. CASE p \in In("backDown", backDown)
    <3>1. PICK w \in WorkerId : \E i \in 1 .. Len(backDown[w]) :
                 Bears(backDown[w][i]) /\ p = <<<<"backDown", w>>, i>>
      BY <1>2, <1>5, <2>4
    <3>2. PICK i \in 1 .. Len(backDown[w]) :
                 Bears(backDown[w][i]) /\ p = <<<<"backDown", w>>, i>>
      BY <3>1
    <3>3. backDown[w][i] \in BackDownMsg /\ backDown[w][i].type = "Request"
      BY <1>5, <3>2 DEF BackDownMsg
    <3>4. \A z : z \in S[<<"backDown", w>>]
                  <=> z \in BackDownMsg /\ z.type = "Request" /\ z.body = b
      BY CarryingAt
    <3>5. <<"backDown", w>> \in Place /\ Queues[<<"backDown", w>>] = backDown[w]
      BY DEF Place, Packed, Queues
    <3> HIDE DEF S
    <3> QED
      BY <3>2, <3>3, <3>4, <3>5 DEF Positions
  <2>5. CASE p \in Pend
    <3>1. PICK s \in Service : \E i \in 1 .. Len(pending[s]) :
                 pending[s][i].body = b /\ p = <<<<"pending", s>>, i>>
      BY <1>3, <2>5
    <3>2. PICK i \in 1 .. Len(pending[s]) :
                 pending[s][i].body = b /\ p = <<<<"pending", s>>, i>>
      BY <3>1
    <3>3. pending[s][i] \in S[<<"pending", s>>]
      BY <1>5, <3>2, CarryingAt
    <3>4. <<"pending", s>> \in Place /\ Queues[<<"pending", s>>] = pending[s]
      BY DEF Place, Packed, Queues
    <3> HIDE DEF S
    <3> QED
      BY <3>2, <3>3, <3>4 DEF Positions
  <2>6. CASE p \in Rec
    <3>1. PICK q \in ClientProc : \E i \in 1 .. Len(received[q]) :
                 received[q][i] = b /\ p = <<<<"received", q>>, i>>
      BY <1>4, <2>6
    <3>2. S[<<"received", q>>] = {b}
      BY CarryingAt
    <3>3. <<"received", q>> \in Place /\ Queues[<<"received", q>>] = received[q]
      BY DEF Place, Packed, Queues
    <3> HIDE DEF S
    <3> QED
      BY <3>1, <3>2, <3>3 DEF Positions
  <2> QED
    BY <1>1, <2>1, <2>2, <2>3, <2>4, <2>5, <2>6
<1> QED
  BY <1>6

(* Two places of a request are one.                                         *)
LEMMA OnePlace ==
  ASSUME TypeOK, SentOnce
  PROVE  AtMostOnce
<1> SUFFICES ASSUME NEW b \in Body  PROVE Cardinality(Places(b)) <= 1
  BY DEF AtMostOnce
<1> DEFINE S == Carrying(b)
<1>6. \A p \in Places(b) :
        \E x \in Place : \E i \in Positions(Queues[x], S[x]) : p = <<x, i>>
  BY PlacesAreCarrying
<1>7. OneIn(S, Queues)
  BY DEF SentOnce
<1> HIDE DEF S
<1>8. ASSUME NEW p \in Places(b), NEW r \in Places(b)
      PROVE  p = r
  <2>1. PICK x \in Place : \E i \in Positions(Queues[x], S[x]) : p = <<x, i>>
    BY <1>6
  <2>2. PICK i \in Positions(Queues[x], S[x]) : p = <<x, i>>
    BY <2>1
  <2>3. PICK y \in Place : \E j \in Positions(Queues[y], S[y]) : r = <<y, j>>
    BY <1>6
  <2>4. PICK j \in Positions(Queues[y], S[y]) : r = <<y, j>>
    BY <2>3
  <2>5. x = y
    BY <1>7, <2>2, <2>4 DEF OneIn, NoneOf
  <2>6. i = j
    BY <1>7, <2>2, <2>4, <2>5 DEF OneIn, OneOf
  <2> QED
    BY <2>2, <2>4, <2>5, <2>6
<1>9. CASE Places(b) = {}
  BY <1>9, FS_EmptySet
<1>10. CASE Places(b) # {}
  <2>1. PICK p \in Places(b) : TRUE
    BY <1>10
  <2>2. Places(b) = {p}
    BY <1>8, <2>1
  <2>3. Cardinality({p}) = 1
    BY FS_Singleton
  <2> QED
    BY <2>2, <2>3
<1> QED
  BY <1>9, <1>10

(* A request is executed at most once and answered at most once: it is in   *)
(* one place at a time all its life, for every number of processes and      *)
(* requests, whoever fails, reconnects or is purged.                        *)
THEOREM RequestsRunOnce == Spec => []AtMostOnce
<1>1. OnceInv => AtMostOnce
  BY OnePlace DEF OnceInv, Inv
<1> QED
  BY <1>1, InitOnceInv, StepKeepsOnce, PTL DEF Spec

(* recv() hands a client only replies to requests of its own, and each      *)
(* once, whatever identities the clients take and give up.                  *)
THEOREM RepliesAreForTheAsker == Spec => []RepliesReachTheAsker
<1>1. ASSUME OnceInv  PROVE RepliesReachTheAsker
  <2> SUFFICES ASSUME NEW q \in ClientProc, NEW i \in 1 .. Len(received[q]),
                      NEW j \in 1 .. i - 1, received[q][j] = received[q][i]
               PROVE  FALSE
    BY <1>1 DEF RepliesReachTheAsker, OnceInv, NamedForOwn
  <2> DEFINE b == received[q][i]
             x == <<"received", q>>
  <2>1. /\ received[q] \in Seq(Body) /\ Len(received[q]) \in Nat
        /\ i \in Nat /\ j \in 1 .. Len(received[q]) /\ j # i
    BY <1>1, LenProperties DEF OnceInv, Inv, TypeOK, ClientTypeOK
  <2>2. b \in Body
    BY <2>1, LenProperties
  <2>3. x \in Place /\ Queues[x] = received[q]
    BY DEF Place, Packed, Queues
  <2>4. Carrying(b)[x] = {b}
    BY CarryingAt
  <2> HIDE DEF b, x
  <2>5. OneIn(Carrying(b), Queues)
    BY <1>1, <2>2 DEF OnceInv, SentOnce
  <2>6. OneOf(received[q], {b})
    BY <2>3, <2>4, <2>5 DEF OneIn
  <2> QED
    BY <2>1, <2>6 DEF OneOf, Positions, b
<1> QED
  BY <1>1, InitOnceInv, StepKeepsOnce, PTL DEF Spec
=============================================================================
