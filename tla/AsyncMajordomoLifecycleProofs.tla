-------------------- MODULE AsyncMajordomoLifecycleProofs --------------------
(***************************************************************************)
(* The asynchronous Majordomo implements RequestLifecycle, for every       *)
(* number of workers, clients, services, requests and failures.            *)
(*                                                                         *)
(* The stage of a request is told from the places where it is, and these   *)
(* are followed with the selections of AsyncMajordomoOnceProofs, each      *)
(* restricted to the places of one stage and, for the process that moves a *)
(* request into it, those of the stage before.  A step finds a request at  *)
(* a stage only if it was there or one stage before; that it was in one    *)
(* place leaves no other move.  That the workers together hold no more     *)
(* requests than there are worker processes follows from the tokens, and   *)
(* from a worker identity with messages belonging to a process.            *)
(*                                                                         *)
(* The same stages say what GivenInOrder is about: of two requests of a    *)
(* client the later one is not with a worker while the earlier one waits.  *)
(***************************************************************************)
EXTENDS AsyncMajordomoOnceProofs

(* The places of a request at each stage.                                   *)
Waits == {"frontUp", "pending"}
Works == {"backDown"}
Returns == {"backUp", "frontDown"}
Read == {"received"}

(* The request b or its reply is in a place of N.                           *)
Found(N, b, Q) == \E x \in Place : x[1] \in N /\ ~NoneOf(Q[x], Carrying(b)[x])

(* The request b and its reply, as far as they are in places of N.          *)
Part(N, b) == [x \in Place |-> IF x[1] \in N THEN Carrying(b)[x] ELSE {}]

(* A step finds the request at a stage only where it was or moved it on by  *)
(* one.                                                                     *)
MovesOn(b) ==
  /\ Found(Waits, b, Queues') => Found(Waits, b, Queues)
  /\ Found(Works, b, Queues') => Found(Works, b, Queues) \/ Found(Waits, b, Queues)
  /\ Found(Returns, b, Queues')
       => Found(Returns, b, Queues) \/ Found(Works, b, Queues)
  /\ Found(Read, b, Queues') => Found(Read, b, Queues) \/ Found(Returns, b, Queues)
  /\ Found(Read, b, Queues) => Found(Read, b, Queues')
  /\ b[2] > sent[b[1]] <=> b[2] > sent'[b[1]]

(* A step that sends the request.                                           *)
IsSent(b) ==
  /\ b[2] > sent[b[1]]
  /\ Found(Waits, b, Queues')
  /\ ~Found(Works, b, Queues') /\ ~Found(Returns, b, Queues')
  /\ ~Found(Read, b, Queues')

LEMMA PartFound ==
  ASSUME NEW N, NEW b, NEW Q, NEW R, Carried(Part(N, b), Q, R), Found(N, b, R)
  PROVE  Found(N, b, Q)
<1>1. ASSUME ~Found(N, b, Q)  PROVE NoneIn(Part(N, b), Q)
  BY <1>1 DEF NoneIn, Part, Found, NoneOf, Positions
<1>2. ~NoneIn(Part(N, b), R)
  BY DEF NoneIn, Part, Found
<1> QED
  BY <1>1, <1>2 DEF Carried

LEMMA FoundInEither ==
  ASSUME NEW N, NEW M, NEW b, NEW Q
  PROVE  /\ Found(N \cup M, b, Q) => Found(N, b, Q) \/ Found(M, b, Q)
         /\ Found(N, b, Q) => Found(N \cup M, b, Q)
         /\ Found(M, b, Q) => Found(N \cup M, b, Q)
BY DEF Found

LEMMA PartFollows ==
  ASSUME NEW b, NEW N
  PROVE  /\ /\ "pending" \in N => "frontUp" \in N
            /\ "backDown" \in N => "pending" \in N
            /\ "frontDown" \in N => "backUp" \in N
            => BrokerFollows(Part(N, b))
         /\ ("backUp" \in N => "backDown" \in N) => WorkerFollows(Part(N, b))
         /\ ("received" \in N => "frontDown" \in N) => ClientFollows(Part(N, b))
<1> DEFINE S == Carrying(b)
           P == Part(N, b)
<1>1. /\ \A c \in ClientId :
           /\ P[<<"frontUp", c>>] = IF "frontUp" \in N THEN S[<<"frontUp", c>>] ELSE {}
           /\ P[<<"frontDown", c>>]
                = IF "frontDown" \in N THEN S[<<"frontDown", c>>] ELSE {}
      /\ \A w \in WorkerId :
           /\ P[<<"backUp", w>>] = IF "backUp" \in N THEN S[<<"backUp", w>>] ELSE {}
           /\ P[<<"backDown", w>>]
                = IF "backDown" \in N THEN S[<<"backDown", w>>] ELSE {}
      /\ \A s \in Service :
           P[<<"pending", s>>] = IF "pending" \in N THEN S[<<"pending", s>>] ELSE {}
      /\ \A q \in ClientProc :
           P[<<"received", q>>] = IF "received" \in N THEN S[<<"received", q>>] ELSE {}
  BY DEF Part, Place
<1>2. BrokerFollows(S) /\ WorkerFollows(S) /\ ClientFollows(S)
  BY CarryingFollows DEF Follows
<1>3. \A c \in ClientId : \A x \in S[<<"frontDown", c>>] : x.type = "Reply"
  <2> TAKE c \in ClientId
  <2>1. \A x : x \in S[<<"frontDown", c>>]
                <=> x \in FrontDownMsg /\ x.type = "Reply" /\ x.body = b
    BY CarryingAt
  <2> HIDE DEF S
  <2> QED
    BY <2>1
<1> HIDE DEF S, P
<1>4. ASSUME "pending" \in N => "frontUp" \in N,
             "backDown" \in N => "pending" \in N,
             "frontDown" \in N => "backUp" \in N
      PROVE  BrokerFollows(P)
  <2>1. ASSUME NEW c \in ClientId, NEW m \in FrontUpMsg
        PROVE  /\ m.type = "Discovery"
                    => \A st \in {"Ok", "NotFound"} :
                         DiscoveryReply(m.service, st) \notin P[<<"frontDown", c>>]
               /\ m.type = "Request"
                    => \A s \in Service :
                         [client |-> c, body |-> m.body] \in P[<<"pending", s>>]
                           => m \in P[<<"frontUp", c>>]
    <3>1. \A st \in {"Ok", "NotFound"} :
            DiscoveryReply(m.service, st).type = "Discovery"
      BY DEF DiscoveryReply
    <3>2. \A s \in Service :
            m.type = "Request" /\ [client |-> c, body |-> m.body] \in S[<<"pending", s>>]
              => m \in S[<<"frontUp", c>>]
      BY <1>2 DEF BrokerFollows
    <3> QED
      BY <1>1, <1>3, <1>4, <3>1, <3>2
  <2>2. ASSUME NEW r \in PendingRequest, NEW s \in Service, NEW w \in WorkerId,
               WorkerRequest(r.client, r.body) \in P[<<"backDown", w>>]
        PROVE  r \in P[<<"pending", s>>]
    <3>1. WorkerRequest(r.client, r.body) \in S[<<"backDown", w>>]
            => r \in S[<<"pending", s>>]
      BY <1>2 DEF BrokerFollows
    <3> QED
      BY <1>1, <1>4, <2>2, <3>1
  <2>3. ASSUME NEW w \in WorkerId, NEW m \in BackDownMsg,
               m.type \in {"Heartbeat", "Disconnect"}
        PROVE  m \notin P[<<"backDown", w>>]
    BY <1>1, <1>2, <2>3 DEF BrokerFollows
  <2>4. ASSUME NEW w \in WorkerId, NEW m \in BackUpMsg, m.type = "Reply",
               NEW s \in Service,
               ClientReply(s, m.body) \in P[<<"frontDown", m.client>>]
        PROVE  m \in P[<<"backUp", w>>]
    <3>1. m.client \in ClientId
      BY <2>4 DEF BackUpMsg
    <3>2. ClientReply(s, m.body) \in S[<<"frontDown", m.client>>]
            => m \in S[<<"backUp", w>>]
      BY <1>2, <2>4 DEF BrokerFollows
    <3> QED
      BY <1>1, <1>4, <2>4, <3>1, <3>2
  <2> QED
    BY <2>1, <2>2, <2>3, <2>4 DEF BrokerFollows
<1>5. ASSUME "backUp" \in N => "backDown" \in N
      PROVE  WorkerFollows(P)
  BY <1>1, <1>2, <1>5 DEF WorkerFollows
<1>6. ASSUME "received" \in N => "frontDown" \in N
      PROVE  ClientFollows(P)
  BY <1>1, <1>2, <1>6 DEF ClientFollows
<1> QED
  BY <1>4, <1>5, <1>6 DEF P

(* Enough to be carried for a step to move the request forward.             *)
LEMMA CarriedOnMoves ==
  ASSUME NEW b,
         Carried(Part(Waits, b), Queues, Queues'),
         \/ Carried(Part(Works, b), Queues, Queues')
         \/ Carried(Part(Waits \cup Works, b), Queues, Queues'),
         \/ Carried(Part(Returns, b), Queues, Queues')
         \/ Carried(Part(Works \cup Returns, b), Queues, Queues'),
         \/ Carried(Part(Read, b), Queues, Queues')
         \/ Carried(Part(Returns \cup Read, b), Queues, Queues'),
         Found(Read, b, Queues) => Found(Read, b, Queues'),
         b[2] > sent[b[1]] <=> b[2] > sent'[b[1]]
  PROVE  MovesOn(b)
<1>1. Found(Waits, b, Queues') => Found(Waits, b, Queues)
  BY PartFound
<1>2. Found(Works, b, Queues') => Found(Works, b, Queues) \/ Found(Waits, b, Queues)
  BY PartFound, FoundInEither
<1>3. Found(Returns, b, Queues')
        => Found(Returns, b, Queues) \/ Found(Works, b, Queues)
  BY PartFound, FoundInEither
<1>4. Found(Read, b, Queues') => Found(Read, b, Queues) \/ Found(Returns, b, Queues)
  BY PartFound, FoundInEither
<1> QED
  BY <1>1, <1>2, <1>3, <1>4 DEF MovesOn

(* What a client received stays.                                            *)
LEMMA ReadStays ==
  ASSUME TypeOK, NEW b,
         \A q \in ClientProc :
           \/ received'[q] = received[q]
           \/ \E y \in Body : received'[q] = Append(received[q], y),
         Found(Read, b, Queues)
  PROVE  Found(Read, b, Queues')
<1>1. PICK x \in Place : x[1] = "received" /\ ~NoneOf(Queues[x], Carrying(b)[x])
  BY DEF Found, Read
<1>2. PICK q \in ClientProc : x = <<"received", q>>
  BY <1>1, PlaceIs
<1>3. Queues[x] = received[q] /\ Queues'[x] = received'[q]
  BY <1>2 DEF Place, Packed, Queues
<1>4. received[q] \in Seq(Body)
  BY DEF TypeOK, ClientTypeOK
<1>5. PICK i \in Positions(received[q], Carrying(b)[x]) : TRUE
  BY <1>1, <1>3 DEF NoneOf
<1>6. ASSUME NEW y \in Body, received'[q] = Append(received[q], y)
      PROVE  i \in Positions(received'[q], Carrying(b)[x])
  <2>1. /\ Len(received[q]) \in Nat
        /\ Len(Append(received[q], y)) = Len(received[q]) + 1
        /\ \A j \in 1 .. Len(received[q]) : Append(received[q], y)[j] = received[q][j]
    BY <1>4, AppendProperties, LenProperties
  <2> QED
    BY <1>5, <1>6, <2>1 DEF Positions
<1>7. ~NoneOf(Queues'[x], Carrying(b)[x])
  BY <1>3, <1>5, <1>6 DEF NoneOf
<1> QED
  BY <1>1, <1>7 DEF Found, Read

-----------------------------------------------------------------------------
(* Every step moves every request on, or sends it.                          *)

LEMMA BrokerMovesOn ==
  ASSUME Inv, BrokerStep, NEW b
  PROVE  MovesOn(b)
<1>1. /\ BrokerFollows(Part(Waits, b))
      /\ BrokerFollows(Part(Waits \cup Works, b))
      /\ BrokerFollows(Part(Returns, b))
      /\ BrokerFollows(Part(Read, b))
  BY PartFollows DEF Waits, Works, Returns, Read
<1>2. /\ Carried(Part(Waits, b), Queues, Queues')
      /\ Carried(Part(Waits \cup Works, b), Queues, Queues')
      /\ Carried(Part(Returns, b), Queues, Queues')
      /\ Carried(Part(Read, b), Queues, Queues')
  BY <1>1, BrokerStepCarries
<1>3. UNCHANGED <<received, sent>>
  BY DEF BrokerStep, clientVars
<1>4. Found(Read, b, Queues) => Found(Read, b, Queues')
  BY <1>3, ReadStays DEF Inv
<1> QED
  BY <1>2, <1>3, <1>4, CarriedOnMoves

LEMMA WorkerMovesOn ==
  ASSUME Inv, NEW p \in WorkerProc, NEW b,
         \/ WorkerStep(p) \/ StartWorker(p)
         \/ WorkerFails(p) \/ WorkerLeaves(p)
  PROVE  MovesOn(b)
<1>1. /\ WorkerFollows(Part(Waits, b))
      /\ WorkerFollows(Part(Works, b))
      /\ WorkerFollows(Part(Works \cup Returns, b))
      /\ WorkerFollows(Part(Read, b))
  BY PartFollows DEF Waits, Works, Returns, Read
<1>2. /\ Carried(Part(Waits, b), Queues, Queues')
      /\ Carried(Part(Works, b), Queues, Queues')
      /\ Carried(Part(Works \cup Returns, b), Queues, Queues')
      /\ Carried(Part(Read, b), Queues, Queues')
  BY <1>1, WorkerStepCarries, WorkerEndsCarries
<1>3. UNCHANGED <<received, sent>>
  BY DEF WorkerStep, StartWorker, WorkerFails, WorkerLeaves, clientVars
<1>4. Found(Read, b, Queues) => Found(Read, b, Queues')
  BY <1>3, ReadStays DEF Inv
<1> QED
  BY <1>2, <1>3, <1>4, CarriedOnMoves

(* Whatever adds nothing anywhere.                                          *)
LEMMA NothingNewMovesOn ==
  ASSUME TypeOK, NEW b, \A N : Carried(Part(N, b), Queues, Queues'),
         UNCHANGED <<received, sent>>
  PROVE  MovesOn(b)
<1>1. Found(Read, b, Queues) => Found(Read, b, Queues')
  BY ReadStays
<1> QED
  BY <1>1, CarriedOnMoves

LEMMA ClientReceiveMovesOn ==
  ASSUME OnceInv, NEW q \in ClientProc, ClientReceive(q), UNCHANGED pending, NEW b
  PROVE  MovesOn(b)
<1>1. /\ ClientFollows(Part(Waits, b))
      /\ ClientFollows(Part(Works, b))
      /\ ClientFollows(Part(Returns, b))
      /\ ClientFollows(Part(Returns \cup Read, b))
  BY PartFollows DEF Waits, Works, Returns, Read
<1> DEFINE y == Head(frontDown[cId[q]]).body
<1>2. /\ y \in Body
      /\ \/ received'[q] = received[q]
         \/ received'[q] = Append(received[q], y)
      /\ \A r \in ClientProc \ {q} : received'[r] = received[r]
      /\ \A S : ClientFollows(S) => Carried(S, Queues, Queues')
  BY ClientReceiveCarries
<1> HIDE DEF y
<1>3. \A r \in ClientProc :
        \/ received'[r] = received[r]
        \/ \E z \in Body : received'[r] = Append(received[r], z)
  BY <1>2
<1>4. Found(Read, b, Queues) => Found(Read, b, Queues')
  BY <1>3, ReadStays DEF OnceInv, Inv
<1>5. /\ Carried(Part(Waits, b), Queues, Queues')
      /\ Carried(Part(Works, b), Queues, Queues')
      /\ Carried(Part(Returns, b), Queues, Queues')
      /\ Carried(Part(Returns \cup Read, b), Queues, Queues')
  BY <1>1, <1>2
<1>6. UNCHANGED sent
  BY DEF ClientReceive, HandleResponse
<1> QED
  BY <1>4, <1>5, <1>6, CarriedOnMoves

LEMMA ClientSendMovesOn ==
  ASSUME OnceInv, NEW q \in ClientProc, ClientSend(q), UNCHANGED pending,
         NEW b \in Body
  PROVE  MovesOn(b) \/ IsSent(b)
<1> DEFINE c == cId[q]
           new == <<q, sent[q] + 1>>
           x == ClientRequest(WantOf[q], new)
           d == <<"frontUp", c>>
<1>1. /\ c \in ClientId /\ sent[q] \in Nat /\ d \in Place
      /\ Queues[d] \in Seq(FrontUpMsg) /\ Queues'[d] = Append(Queues[d], x)
  BY ClientSendAdds
<1>2. /\ new \in Body /\ new[1] = q /\ new[2] = sent[q] + 1
      /\ x \in FrontUpMsg /\ x.type = "Request" /\ x.body = new
  BY ClientSendAdds
<1>3. /\ \A r \in ClientProc \ {q} : sent'[r] = sent[r]
      /\ sent'[q] = sent[q] + 1
  BY ClientSendAdds
<1>4. \A S : \A y \in Place \ {d} : NoMore(Queues'[y], Queues[y], S[y])
  BY ClientSendAdds
<1>5. \A S : x \notin S[d] => Carried(S, Queues, Queues')
  BY ClientSendAdds
<1>6. \A z : z \in Carrying(b)[<<"frontUp", c>>]
               <=> z \in FrontUpMsg /\ z.type = "Request" /\ z.body = b
  BY <1>1, CarryingAt
<1>7. UNCHANGED received
  BY DEF ClientSend
<1>8. new = <<q, sent[q] + 1>> /\ d = <<"frontUp", c>>
  OBVIOUS
<1>9. b[1] \in ClientProc /\ b[2] \in Nat /\ b = <<b[1], b[2]>>
  BY NetAssumption DEF Body
<1> HIDE DEF c, new, x, d
<1>10. ASSUME b # new  PROVE MovesOn(b)
  <2>1. x \notin Carrying(b)[d]
    BY <1>2, <1>6, <1>8, <1>10
  <2>2. \A N : x \notin Part(N, b)[d]
    BY <1>1, <2>1 DEF Part
  <2>3. \A N : Carried(Part(N, b), Queues, Queues')
    BY <1>5, <2>2
  <2>4. b[2] > sent[b[1]] <=> b[2] > sent'[b[1]]
    <3>1. CASE b[1] = q
      BY <1>1, <1>3, <1>8, <1>9, <1>10, <3>1
    <3>2. CASE b[1] # q
      BY <1>3, <1>9, <3>2
    <3> QED
      BY <3>1, <3>2
  <2>5. Found(Read, b, Queues) => Found(Read, b, Queues')
    BY <1>7, ReadStays DEF OnceInv, Inv
  <2> QED
    BY <2>3, <2>4, <2>5, CarriedOnMoves
<1>11. ASSUME b = new  PROVE IsSent(b)
  <2>1. b[2] > sent[b[1]]
    BY <1>1, <1>2, <1>11
  <2>2. NoneIn(Carrying(b), Queues)
    BY <2>1 DEF OnceInv, SentOnce
  <2>3. \A y \in Place \ {d} : NoneOf(Queues'[y], Carrying(b)[y])
    BY <1>4, <2>2 DEF NoneIn, NoMore
  <2>4. ~NoneOf(Queues'[d], Carrying(b)[d])
    <3>1. /\ Len(Queues[d]) \in Nat
          /\ Len(Append(Queues[d], x)) = Len(Queues[d]) + 1
          /\ Append(Queues[d], x)[Len(Queues[d]) + 1] = x
      BY <1>1, <1>2, AppendProperties, LenProperties
    <3>2. x \in Carrying(b)[d]
      BY <1>2, <1>6, <1>8, <1>11
    <3>3. Len(Queues[d]) + 1 \in Positions(Queues'[d], Carrying(b)[d])
      BY <1>1, <3>1, <3>2 DEF Positions
    <3> QED
      BY <3>3 DEF NoneOf
  <2>5. d[1] = "frontUp"
    BY <1>8
  <2>6. Found(Waits, b, Queues')
    BY <1>1, <2>4, <2>5 DEF Found, Waits
  <2>7. ~Found(Works, b, Queues') /\ ~Found(Returns, b, Queues')
        /\ ~Found(Read, b, Queues')
    BY <2>3, <2>5 DEF Found, Works, Returns, Read
  <2> QED
    BY <2>1, <2>6, <2>7 DEF IsSent
<1> QED
  BY <1>10, <1>11

(* A new socket of a client says at most a discovery.                       *)
LEMMA SocketMovesOn ==
  ASSUME TypeOK, NEW q \in ClientProc, NEW id, NEW first, NEW n \in Nat,
         ClientSocket(q, id, first, n), UNCHANGED <<pending, received, sent>>,
         first = <<>> \/ first = <<DiscoveryRequest(Echo)>>, NEW b
  PROVE  MovesOn(b)
<1> DEFINE x == DiscoveryRequest(Echo)
           one == <<x>>
<1>1. ASSUME NEW N, id \in ClientId  PROVE NoneOf(first, Part(N, b)[<<"frontUp", id>>])
  <2>1. \A z : z \in Carrying(b)[<<"frontUp", id>>]
                 <=> z \in FrontUpMsg /\ z.type = "Request" /\ z.body = b
    BY <1>1, CarryingAt
  <2>2. x.type = "Discovery"
    BY DEF DiscoveryRequest
  <2>3. x \notin Part(N, b)[<<"frontUp", id>>]
    <3> HIDE DEF x
    <3> QED
      BY <1>1, <2>1, <2>2 DEF Part, Place
  <2>4. NoneOf(one, Part(N, b)[<<"frontUp", id>>])
    <3> HIDE DEF x
    <3> QED
      BY <2>3, NoneOfOne
  <2> QED
    BY <2>4, NoMoreOfEmpty
<1>2. \A N : Carried(Part(N, b), Queues, Queues')
  BY <1>1, ClientSocketCarries
<1> QED
  BY <1>2, NothingNewMovesOn

LEMMA ClientMovesOn ==
  ASSUME OnceInv, NEW q \in ClientProc, NEW b \in Body,
         ClientStep(q) \/ StartClient(q) \/ ClientFails(q)
  PROVE  MovesOn(b) \/ IsSent(b)
<1>1. UNCHANGED pending /\ TypeOK
  BY DEF ClientStep, StartClient, ClientFails, brokerVars, OnceInv, Inv
<1>2. 0 \in Nat /\ \A n \in 0 .. FrontHwm : n \in Nat
  BY NetAssumption
<1>3. ASSUME NEW id, NEW n \in 0 .. FrontHwm,
             \/ ClientPingTimeout(q, id, n) \/ ClientRecvTimeout(q, id, n)
             \/ ClientEnds(q, n)
      PROVE  MovesOn(b)
  <2>1. PICK at : ClientSocket(q, at, <<>>, n) /\ UNCHANGED <<sent, received>>
    BY <1>3 DEF ClientPingTimeout, ClientRecvTimeout, ClientEnds
  <2> QED
    BY <1>1, <1>2, <2>1, SocketMovesOn
<1>4. ASSUME StartClient(q)  PROVE MovesOn(b)
  <2>1. PICK id \in FreshClientId : ClientStart(q, id)
    BY <1>4 DEF StartClient
  <2>2. /\ ClientSocket(q, id, <<DiscoveryRequest(Echo)>>, 0)
        /\ UNCHANGED <<sent, received>>
    BY <2>1 DEF ClientStart
  <2> QED
    BY <1>1, <1>2, <2>2, SocketMovesOn
<1>5. ASSUME ClientPong(q)  PROVE MovesOn(b)
  <2>1. cId[q] \in ClientId /\ HandleResponse(q) /\ UNCHANGED <<sent, received>>
    BY <1>5 DEF ClientPong, HandleResponse, OnceInv, Inv, PhasesAgree
  <2> DEFINE d == <<"received", q>>
  <2>2. /\ d \in Place /\ Queues[d] = received[q] /\ Queues'[d] = received'[q]
        /\ \A S : \A x \in Place \ {d} : NoMore(Queues'[x], Queues[x], S[x])
    BY <1>1, <2>1, HandleResponseTakes DEF OnceInv
  <2> HIDE DEF d
  <2>3. ASSUME NEW S  PROVE Carried(S, Queues, Queues')
    <3>1. NoMore(Queues'[d], Queues[d], S[d])
      BY <2>1, <2>2, NoMoreOfSame
    <3>2. \A x \in Place \ {} : NoMore(Queues'[x], Queues[x], S[x])
      BY <2>2, <3>1
    <3> QED
      BY <3>2, Kept
  <2> QED
    BY <1>1, <2>1, <2>3, NothingNewMovesOn
<1>6. ASSUME ClientResume(q)  PROVE MovesOn(b)
  <2>1. UNCHANGED <<sent, received>> /\ Queues' = Queues
    BY <1>1, <1>6 DEF ClientResume, netVars, Queues
  <2>2. \A S : Carried(S, Queues, Queues')
    BY <2>1 DEF Carried
  <2> QED
    BY <1>1, <2>1, <2>2, NothingNewMovesOn
<1>7. ASSUME ClientStep(q)  PROVE MovesOn(b) \/ IsSent(b)
  <2>1. CASE ClientSend(q)
    BY <1>1, <2>1, ClientSendMovesOn
  <2>2. CASE ClientReceive(q)
    BY <1>1, <2>2, ClientReceiveMovesOn
  <2>3. CASE \E n \in 0 .. FrontHwm : ClientExit(q, n)
    BY <1>3, <2>3 DEF ClientExit
  <2> QED
    BY <1>3, <1>5, <1>6, <1>7, <2>1, <2>2, <2>3 DEF ClientStep
<1>8. ASSUME ClientFails(q)  PROVE MovesOn(b)
  BY <1>3, <1>8 DEF ClientFails, ClientCrash
<1> QED
  BY <1>4, <1>7, <1>8

LEMMA StepMovesOn ==
  ASSUME OnceInv, [Next]_vars, NEW b \in Body
  PROVE  MovesOn(b) \/ IsSent(b)
<1>1. TypeOK /\ Inv
  BY DEF OnceInv, Inv
<1>2. ASSUME \/ BrokerFails
             \/ \E w \in WorkerId : BackLinkFails(w)
             \/ \E c \in ClientId : FrontLinkFails(c)
      PROVE  MovesOn(b)
  <2>1. UNCHANGED <<sent, received>>
    BY <1>2 DEF BrokerFails, BackLinkFails, FrontLinkFails, clientVars
  <2>2. \A S : Carried(S, Queues, Queues')
    BY <1>1, <1>2, BrokerFailsCarries, LinkFailsCarries
  <2> QED
    BY <1>1, <2>1, <2>2, NothingNewMovesOn
<1>3. ASSUME StartBroker \/ Tick \/ UNCHANGED vars  PROVE MovesOn(b)
  <2>1. UNCHANGED <<sent, received>> /\ Queues' = Queues
    BY <1>3 DEF StartBroker, BrokerStart, Tick, BrokerTick, ClientTick, vars,
       netVars, brokerVars, clientVars, Queues
  <2>2. \A S : Carried(S, Queues, Queues')
    BY <2>1 DEF Carried
  <2> QED
    BY <1>1, <2>1, <2>2, NothingNewMovesOn
<1> QED
  BY <1>1, <1>2, <1>3, BrokerMovesOn, WorkerMovesOn, ClientMovesOn
  DEF Next, Step, Fault

-----------------------------------------------------------------------------
(* The workers that hold requests.                                          *)

(* A worker identity with a connection, or with messages to read, belongs   *)
(* to a worker process.                                                     *)
Hosted(w) == \E p \in WorkerProc : wId[p] = w
Hosts ==
  \A w \in WorkerId : w \in peers \/ backDown[w] # <<>> => Hosted(w)

LEMMA HostsKept ==
  ASSUME Hosts, UNCHANGED wId,
         \A w \in WorkerId :
           w \in peers' \/ backDown'[w] # <<>> => w \in peers \/ backDown[w] # <<>>
  PROVE  Hosts'
BY DEF Hosts, Hosted

LEMMA BrokerKeepsHosts ==
  ASSUME Inv, Hosts, BrokerStep
  PROVE  Hosts'
<1>1. UNCHANGED <<wId, peers>>
  BY DEF BrokerStep, BrokerNext, BrokerWait, netVars, workerVars,
     HandleWorkerResponse, HandleClientRequest, Housekeeping
<1>2. backDown \in [WorkerId -> Seq(BackDownMsg)]
  BY QueueTypes
<1>3. ASSUME NEW w \in WorkerId, w \notin peers  PROVE backDown'[w] = backDown[w]
  <2>1. \A q, m, h : Routed(w, q, m, h) = q
    BY <1>3 DEF Routed
  <2>2. ASSUME NEW s \in Service, NEW idles, NEW reqs, SendPendingRequests(s, idles, reqs)
        PROVE  backDown'[w] = backDown[w]
    BY <2>1, <2>2 DEF SendPendingRequests
  <2>3. ASSUME Housekeeping  PROVE backDown'[w] = backDown[w]
    BY <2>1, <2>3 DEF Housekeeping, SendHeartbeat
  <2>4. ASSUME NEW c \in ClientId, HandleClientRequest(c)
        PROVE  backDown'[w] = backDown[w]
    <3>1. Head(frontUp[c]) \in FrontUpMsg
      <4>1. frontUp[c] \in Seq(FrontUpMsg) /\ frontUp[c] # <<>>
        BY <2>4, QueueTypes DEF HandleClientRequest
      <4> QED
        BY <4>1, HeadTailProperties
    <3>2. Head(frontUp[c]).service \in Service
      BY <3>1 DEF FrontUpMsg
    <3> QED
      BY <2>2, <2>4, <3>2
      DEF HandleClientRequest, HandleDiscovery, HandleUnknownService, HandleKnownService
  <2>5. ASSUME NEW v \in WorkerId, HandleWorkerResponse(v)
        PROVE  backDown'[w] = backDown[w]
    <3>1. Head(backUp[v]) \in BackUpMsg
      <4>1. backUp[v] \in Seq(BackUpMsg) /\ backUp[v] # <<>>
        BY <2>5, QueueTypes DEF HandleWorkerResponse
      <4> QED
        BY <4>1, HeadTailProperties
    <3>2. CASE HandleUnregistered(v)
      BY <1>2, <2>1, <3>2 DEF HandleUnregistered, SendDisconnect
    <3>3. CASE HandleHeartbeat(v) \/ HandleDisconnect(v)
      BY <3>3 DEF HandleHeartbeat, HandleDisconnect
    <3>4. ASSUME Head(backUp[v]).type = "Ready", HandleReady(v, Head(backUp[v]).service)
          PROVE  backDown'[w] = backDown[w]
      <4>1. Head(backUp[v]).service \in Service
        BY <3>1, <3>4 DEF BackUpMsg
      <4> QED
        BY <2>2, <3>4, <4>1 DEF HandleReady
    <3>5. ASSUME HandleReply(v, Head(backUp[v]).client, Head(backUp[v]).body)
          PROVE  backDown'[w] = backDown[w]
      <4>1. registered[v] \in Service
        BY <3>5 DEF HandleReply, Registered, Inv, TypeOK, BrokerTypeOK
      <4> QED
        BY <2>2, <3>5, <4>1 DEF HandleReply
    <3> QED
      BY <2>5, <3>2, <3>3, <3>4, <3>5 DEF HandleWorkerResponse
  <2> QED
    BY <2>3, <2>4, <2>5 DEF BrokerStep, BrokerNext, BrokerWait, netVars
<1> QED
  BY <1>1, <1>3, HostsKept

LEMMA ConnectKeepsHosts ==
  ASSUME Inv, Hosts, NEW p \in WorkerProc, NEW id \in WorkerId, NEW n,
         Connect(p, id, n)
  PROVE  Hosts'
<1>1. wId'[p] = id /\ \A r \in WorkerProc \ {p} : wId'[r] = wId[r]
  BY DEF Connect, Inv, TypeOK, WorkerTypeOK
<1>2. /\ peers' = (peers \ {wId[p]}) \cup {id}
      /\ \A w \in WorkerId :
           backDown'[w] = IF w \in {id, wId[p]} THEN <<>> ELSE backDown[w]
  BY DEF Connect
<1>3. ASSUME NEW w \in WorkerId, w \in peers' \/ backDown'[w] # <<>>
      PROVE  \E r \in WorkerProc : wId'[r] = w
  <2>1. CASE w = id
    BY <1>1, <2>1
  <2>2. CASE w # id
    <3>1. w # wId[p] /\ (w \in peers \/ backDown[w] # <<>>)
      BY <1>2, <1>3, <2>2
    <3>2. PICK r \in WorkerProc : wId[r] = w
      BY <3>1 DEF Hosts, Hosted
    <3> QED
      BY <1>1, <3>1, <3>2
  <2> QED
    BY <2>1, <2>2
<1> QED
  BY <1>3 DEF Hosts, Hosted

LEMMA WorkerEndsKeepsHosts ==
  ASSUME Inv, Hosts, NEW p \in WorkerProc, NEW left, WorkerEnds(p, left)
  PROVE  Hosts'
<1>1. \A r \in WorkerProc \ {p} : wId'[r] = wId[r]
  BY DEF WorkerEnds, Inv, TypeOK, WorkerTypeOK
<1>2. backDown \in [WorkerId -> Seq(BackDownMsg)]
  BY QueueTypes
<1>3. /\ peers' = peers \ {wId[p]}
      /\ backDown' = [backDown EXCEPT ![wId[p]] = <<>>]
  BY DEF WorkerEnds
<1>4. ASSUME NEW w \in WorkerId, w \in peers' \/ backDown'[w] # <<>>
      PROVE  \E r \in WorkerProc : wId'[r] = w
  <2>1. w # wId[p] /\ (w \in peers \/ backDown[w] # <<>>)
    BY <1>2, <1>3, <1>4
  <2>2. PICK r \in WorkerProc : wId[r] = w
    BY <2>1 DEF Hosts, Hosted
  <2> QED
    BY <1>1, <2>1, <2>2
<1> QED
  BY <1>4 DEF Hosts, Hosted

LEMMA WorkerKeepsHosts ==
  ASSUME Inv, Hosts, NEW p \in WorkerProc,
         \/ WorkerStep(p) \/ StartWorker(p)
         \/ WorkerFails(p) \/ WorkerLeaves(p)
  PROVE  Hosts'
<1>1. ASSUME NEW id \in FreshWorkerId, NEW n, Connect(p, id, n)  PROVE Hosts'
  <2>1. id \in WorkerId
    BY DEF FreshWorkerId
  <2> QED
    BY <1>1, <2>1, ConnectKeepsHosts
<1>2. ASSUME WorkerReceive(p)  PROVE Hosts'
  <2>1. /\ UNCHANGED <<wId, peers>> /\ backDown[wId[p]] # <<>>
        /\ backDown' = [backDown EXCEPT ![wId[p]] = Tail(@)]
    BY <1>2 DEF WorkerReceive
  <2>2. \A w \in WorkerId : backDown'[w] # <<>> => backDown[w] # <<>>
    BY <2>1, QueueTypes
  <2> QED
    BY <2>1, <2>2, HostsKept
<1>3. ASSUME WorkerMissed(p) \/ WorkerSleep(p)  PROVE Hosts'
  <2>1. UNCHANGED <<wId, peers, backDown>>
    BY <1>3 DEF WorkerMissed, WorkerSleep, netVars
  <2> QED
    BY <2>1, HostsKept
<1>4. ASSUME WorkerFails(p) \/ WorkerLeaves(p)  PROVE Hosts'
  BY <1>4, WorkerEndsKeepsHosts DEF WorkerFails, WorkerLeaves, WorkerCrash, WorkerLeave
<1> QED
  BY <1>1, <1>2, <1>3, <1>4
  DEF WorkerStep, StartWorker, WorkerStart, WorkerReconnect, WorkerWake

LEMMA ClientKeepsHosts ==
  ASSUME Inv, Hosts, NEW q \in ClientProc,
         ClientStep(q) \/ StartClient(q) \/ ClientFails(q)
  PROVE  Hosts'
<1>1. UNCHANGED wId
  BY DEF ClientStep, StartClient, ClientFails, workerVars
<1>2. ASSUME NEW id \in ClientId \cup {NoClientId}, NEW first, NEW n,
             ClientSocket(q, id, first, n)
      PROVE  Hosts'
  <2>1. UNCHANGED backDown /\ peers' \subseteq peers \cup ClientId
    BY <1>2 DEF ClientSocket
  <2>2. \A w \in WorkerId : w \in peers' => w \in peers
    BY <2>1, NetAssumption
  <2> QED
    BY <1>1, <2>1, <2>2, HostsKept
<1>3. ASSUME ClientPong(q) \/ ClientReceive(q) \/ ClientSend(q) \/ ClientResume(q)
      PROVE  Hosts'
  <2>1. UNCHANGED <<peers, backDown>>
    BY <1>3 DEF ClientPong, ClientReceive, HandleResponse, ClientSend,
       ClientResume, netVars
  <2> QED
    BY <1>1, <2>1, HostsKept
<1>4. \A id \in FreshClientId : id \in ClientId
  BY DEF FreshClientId
<1>5. ASSUME NEW n, ClientEnds(q, n)  PROVE Hosts'
  BY <1>2, <1>5 DEF ClientEnds
<1>6. ASSUME NEW id \in FreshClientId, NEW n,
             \/ ClientPingTimeout(q, id, n) \/ ClientRecvTimeout(q, id, n)
             \/ ClientStart(q, id)
      PROVE  Hosts'
  BY <1>2, <1>4, <1>6 DEF ClientPingTimeout, ClientRecvTimeout, ClientStart
<1> QED
  BY <1>3, <1>5, <1>6
  DEF ClientStep, StartClient, ClientFails, ClientExit, ClientCrash

LEMMA StepKeepsHosts ==
  ASSUME Inv, Hosts, [Next]_vars
  PROVE  Hosts'
<1>1. ASSUME StartBroker \/ Tick \/ UNCHANGED vars  PROVE Hosts'
  <2>1. UNCHANGED <<wId, peers, backDown>>
    BY <1>1 DEF StartBroker, BrokerStart, Tick, WorkerTick, vars, netVars, workerVars
  <2> QED
    BY <2>1, HostsKept
<1>2. ASSUME BrokerFails  PROVE Hosts'
  <2>1. PICK bu \in Cuts(backUp, BackHwm), bd \in Cuts(backDown, BackHwm),
             fu \in Cuts(frontUp, FrontHwm), fd \in Cuts(frontDown, FrontHwm) :
               BrokerCrash(bu, bd, fu, fd)
    BY <1>2 DEF BrokerFails
  <2>2. /\ UNCHANGED <<wId, peers>>
        /\ \A w \in WorkerId : backDown'[w] = Oldest(backDown[w], bd[w])
    BY <1>2, <2>1 DEF BrokerFails, BrokerCrash, workerVars
  <2>3. \A w \in WorkerId : bd[w] \in Nat /\ bd[w] <= Len(backDown[w])
    BY QueueTypes DEF Cuts
  <2>4. ASSUME NEW w \in WorkerId, backDown[w] = <<>>  PROVE backDown'[w] = <<>>
    <3>1. bd[w] = 0
      BY <2>3, <2>4, LenProperties, EmptySeq
    <3> QED
      BY <2>2, <2>4, <3>1, EmptySeq DEF Oldest
  <2> QED
    BY <2>2, <2>4, HostsKept
<1>3. ASSUME NEW w \in WorkerId, BackLinkFails(w)  PROVE Hosts'
  <2>1. PICK read \in 0 .. BackHwm, lost \in 0 .. BackHwm, kept \in 0 .. BackHwm :
          BackConnectionReset(w, read, lost, kept)
    BY <1>3 DEF BackLinkFails
  <2>2. /\ UNCHANGED <<wId, peers>> /\ w \in peers
        /\ backDown' = [backDown EXCEPT ![w] = Oldest(@, kept)]
    BY <1>3, <2>1 DEF BackLinkFails, BackConnectionReset, workerVars
  <2>3. \A x \in WorkerId \ {w} : backDown'[x] = backDown[x]
    BY <2>2, QueueTypes
  <2> QED
    BY <2>2, <2>3, HostsKept
<1>4. ASSUME NEW c \in ClientId, FrontLinkFails(c)  PROVE Hosts'
  <2>1. UNCHANGED <<wId, peers, backDown>>
    BY <1>4 DEF FrontLinkFails, FrontConnectionReset, workerVars
  <2> QED
    BY <2>1, HostsKept
<1> QED
  BY <1>1, <1>2, <1>3, <1>4, BrokerKeepsHosts, WorkerKeepsHosts, ClientKeepsHosts
  DEF Next, Step, Fault

-----------------------------------------------------------------------------
(* The stages.                                                              *)

LEMMA CarryingIsPlaces ==
  ASSUME TypeOK, NEW b, NEW x \in Place,
         NEW i \in Positions(Queues[x], Carrying(b)[x])
  PROVE  <<x, i>> \in Places(b)
<1> DEFINE S == Carrying(b)
           Bears(m) == m.type \in {"Request", "Reply"} /\ m.body = b
           In(name, qs) ==
             UNION {{<<name, y>>} \X {k \in 1 .. Len(qs[y]) : Bears(qs[y][k])} :
                      y \in DOMAIN qs}
           Pend == UNION {{<<"pending", s>>} \X {k \in 1 .. Len(pending[s]) :
                                                 pending[s][k].body = b} :
                            s \in Service}
           Rec == UNION {{<<"received", q>>} \X {k \in 1 .. Len(received[q]) :
                                                 received[q][k] = b} :
                           q \in ClientProc}
<1>1. Places(b) = In("frontUp", frontUp) \cup In("frontDown", frontDown)
                  \cup In("backUp", backUp) \cup In("backDown", backDown)
                  \cup Pend \cup Rec
  BY DEF Places
<1>2. ASSUME NEW name, NEW qs, NEW y \in DOMAIN qs, NEW k \in 1 .. Len(qs[y]),
             Bears(qs[y][k])
      PROVE  <<<<name, y>>, k>> \in In(name, qs)
  <2>1. <<<<name, y>>, k>>
          \in {<<name, y>>} \X {l \in 1 .. Len(qs[y]) : Bears(qs[y][l])}
    BY <1>2
  <2> QED
    BY <2>1
<1>3. ASSUME NEW s \in Service, NEW k \in 1 .. Len(pending[s]), pending[s][k].body = b
      PROVE  <<<<"pending", s>>, k>> \in Pend
  <2>1. <<<<"pending", s>>, k>>
          \in {<<"pending", s>>} \X {l \in 1 .. Len(pending[s]) :
                                      pending[s][l].body = b}
    BY <1>3
  <2> QED
    BY <2>1
<1>4. ASSUME NEW q \in ClientProc, NEW k \in 1 .. Len(received[q]), received[q][k] = b
      PROVE  <<<<"received", q>>, k>> \in Rec
  <2>1. <<<<"received", q>>, k>>
          \in {<<"received", q>>} \X {l \in 1 .. Len(received[q]) :
                                      received[q][l] = b}
    BY <1>4
  <2> QED
    BY <2>1
<1>5. /\ DOMAIN frontUp = ClientId /\ DOMAIN frontDown = ClientId
      /\ DOMAIN backUp = WorkerId /\ DOMAIN backDown = WorkerId
  BY DEF TypeOK, NetTypeOK
<1>6. /\ \A c \in ClientId :
           /\ \A z : z \in S[<<"frontUp", c>>]
                       <=> z \in FrontUpMsg /\ z.type = "Request" /\ z.body = b
           /\ \A z : z \in S[<<"frontDown", c>>]
                       <=> z \in FrontDownMsg /\ z.type = "Reply" /\ z.body = b
      /\ \A w \in WorkerId :
           /\ \A z : z \in S[<<"backUp", w>>]
                       <=> z \in BackUpMsg /\ z.type = "Reply" /\ z.body = b
           /\ \A z : z \in S[<<"backDown", w>>]
                       <=> z \in BackDownMsg /\ z.type = "Request" /\ z.body = b
      /\ \A s \in Service :
           \A z : z \in S[<<"pending", s>>] <=> z \in PendingRequest /\ z.body = b
      /\ \A q \in ClientProc : S[<<"received", q>>] = {b}
  BY CarryingAt
<1>7. /\ \A c \in ClientId : /\ Queues[<<"frontUp", c>>] = frontUp[c]
                             /\ Queues[<<"frontDown", c>>] = frontDown[c]
      /\ \A w \in WorkerId : /\ Queues[<<"backUp", w>>] = backUp[w]
                             /\ Queues[<<"backDown", w>>] = backDown[w]
      /\ \A s \in Service : Queues[<<"pending", s>>] = pending[s]
      /\ \A q \in ClientProc : Queues[<<"received", q>>] = received[q]
  BY PackedAt DEF Queues
<1>8. i \in 1 .. Len(Queues[x]) /\ Queues[x][i] \in S[x]
  BY DEF Positions
<1> HIDE DEF S, In, Pend, Rec
<1>9. CASE \E c \in ClientId : x = <<"frontUp", c>>
  <2>1. PICK c \in ClientId : x = <<"frontUp", c>>
    BY <1>9
  <2>2. i \in 1 .. Len(frontUp[c]) /\ Bears(frontUp[c][i])
    <3>1. \A z : z \in S[<<"frontUp", c>>]
                   <=> z \in FrontUpMsg /\ z.type = "Request" /\ z.body = b
      BY <1>6
    <3>2. Queues[x] = frontUp[c]
      BY <1>7, <2>1
    <3>3. i \in 1 .. Len(frontUp[c]) /\ frontUp[c][i] \in S[<<"frontUp", c>>]
      BY <1>8, <2>1, <3>2
    <3>4. LET m == frontUp[c][i]
          IN  m \in FrontUpMsg /\ m.type = "Request" /\ m.body = b
      BY <3>1, <3>3
    <3> QED
      BY <3>3, <3>4
  <2> QED
    BY <1>1, <1>2, <1>5, <2>1, <2>2
<1>10. CASE \E c \in ClientId : x = <<"frontDown", c>>
  <2>1. PICK c \in ClientId : x = <<"frontDown", c>>
    BY <1>10
  <2>2. i \in 1 .. Len(frontDown[c]) /\ Bears(frontDown[c][i])
    <3>1. \A z : z \in S[<<"frontDown", c>>]
                   <=> z \in FrontDownMsg /\ z.type = "Reply" /\ z.body = b
      BY <1>6
    <3>2. Queues[x] = frontDown[c]
      BY <1>7, <2>1
    <3>3. i \in 1 .. Len(frontDown[c]) /\ frontDown[c][i] \in S[<<"frontDown", c>>]
      BY <1>8, <2>1, <3>2
    <3>4. LET m == frontDown[c][i]
          IN  m \in FrontDownMsg /\ m.type = "Reply" /\ m.body = b
      BY <3>1, <3>3
    <3> QED
      BY <3>3, <3>4
  <2> QED
    BY <1>1, <1>2, <1>5, <2>1, <2>2
<1>11. CASE \E w \in WorkerId : x = <<"backUp", w>>
  <2>1. PICK w \in WorkerId : x = <<"backUp", w>>
    BY <1>11
  <2>2. i \in 1 .. Len(backUp[w]) /\ Bears(backUp[w][i])
    <3>1. \A z : z \in S[<<"backUp", w>>]
                   <=> z \in BackUpMsg /\ z.type = "Reply" /\ z.body = b
      BY <1>6
    <3>2. Queues[x] = backUp[w]
      BY <1>7, <2>1
    <3>3. i \in 1 .. Len(backUp[w]) /\ backUp[w][i] \in S[<<"backUp", w>>]
      BY <1>8, <2>1, <3>2
    <3>4. LET m == backUp[w][i]
          IN  m \in BackUpMsg /\ m.type = "Reply" /\ m.body = b
      BY <3>1, <3>3
    <3> QED
      BY <3>3, <3>4
  <2> QED
    BY <1>1, <1>2, <1>5, <2>1, <2>2
<1>12. CASE \E w \in WorkerId : x = <<"backDown", w>>
  <2>1. PICK w \in WorkerId : x = <<"backDown", w>>
    BY <1>12
  <2>2. i \in 1 .. Len(backDown[w]) /\ Bears(backDown[w][i])
    <3>1. \A z : z \in S[<<"backDown", w>>]
                   <=> z \in BackDownMsg /\ z.type = "Request" /\ z.body = b
      BY <1>6
    <3>2. Queues[x] = backDown[w]
      BY <1>7, <2>1
    <3>3. i \in 1 .. Len(backDown[w]) /\ backDown[w][i] \in S[<<"backDown", w>>]
      BY <1>8, <2>1, <3>2
    <3>4. LET m == backDown[w][i]
          IN  m \in BackDownMsg /\ m.type = "Request" /\ m.body = b
      BY <3>1, <3>3
    <3> QED
      BY <3>3, <3>4
  <2> QED
    BY <1>1, <1>2, <1>5, <2>1, <2>2
<1>13. CASE \E s \in Service : x = <<"pending", s>>
  <2>1. PICK s \in Service : x = <<"pending", s>>
    BY <1>13
  <2>2. \A z : z \in S[<<"pending", s>>] <=> z \in PendingRequest /\ z.body = b
    BY <1>6
  <2>3. Queues[x] = pending[s]
    BY <1>7, <2>1
  <2>4. i \in 1 .. Len(pending[s]) /\ pending[s][i] \in S[<<"pending", s>>]
    BY <1>8, <2>1, <2>3
  <2>5. pending[s][i].body = b
    BY <2>2, <2>4
  <2>6. <<x, i>> \in Pend
    BY <1>3, <2>1, <2>4, <2>5
  <2> QED
    BY <1>1, <2>6
<1>14. CASE \E q \in ClientProc : x = <<"received", q>>
  <2>1. PICK q \in ClientProc : x = <<"received", q>>
    BY <1>14
  <2>2. S[<<"received", q>>] = {b}
    BY <1>6
  <2>3. Queues[x] = received[q]
    BY <1>7, <2>1
  <2>4. i \in 1 .. Len(received[q]) /\ received[q][i] \in S[<<"received", q>>]
    BY <1>8, <2>1, <2>3
  <2>5. received[q][i] = b
    BY <2>2, <2>4
  <2>6. <<x, i>> \in Rec
    BY <1>4, <2>1, <2>4, <2>5
  <2> QED
    BY <1>1, <2>6
<1> QED
  BY <1>9, <1>10, <1>11, <1>12, <1>13, <1>14, PlaceIs

(* The stage of a request, told from where it is found.                     *)
StageAt(b) ==
  IF Found(Read, b, Queues) THEN "answered"
  ELSE IF Found(Returns, b, Queues) THEN "replied"
  ELSE IF Found(Works, b, Queues) THEN "working"
  ELSE IF Found(Waits, b, Queues) THEN "queued"
  ELSE IF b[2] <= sent[b[1]] THEN "lost" ELSE "unsent"

LEMMA StageIsAt == TypeOK => \A b \in Body : StageOf(b) = StageAt(b)
<1> SUFFICES ASSUME TypeOK, NEW b \in Body  PROVE StageOf(b) = StageAt(b)
  OBVIOUS
<1> DEFINE names == {pl[1][1] : pl \in Places(b)}
<1>1. ASSUME NEW n \in names
      PROVE  \E x \in Place : x[1] = n /\ ~NoneOf(Queues[x], Carrying(b)[x])
  <2>1. PICK pl \in Places(b) : n = pl[1][1]
    BY <1>1
  <2>2. PICK x \in Place : \E i \in Positions(Queues[x], Carrying(b)[x]) :
               pl = <<x, i>>
    BY PlacesAreCarrying
  <2> QED
    BY <2>1, <2>2 DEF NoneOf
<1>2. ASSUME NEW x \in Place, ~NoneOf(Queues[x], Carrying(b)[x])
      PROVE  x[1] \in names
  <2>1. PICK i \in Positions(Queues[x], Carrying(b)[x]) : TRUE
    BY <1>2 DEF NoneOf
  <2>2. <<x, i>> \in Places(b)
    BY CarryingIsPlaces
  <2> QED
    BY <2>2
<1>3. StageOf(b) = IF "received" \in names THEN "answered"
                   ELSE IF names \cap {"backUp", "frontDown"} # {} THEN "replied"
                   ELSE IF "backDown" \in names THEN "working"
                   ELSE IF names # {} THEN "queued"
                   ELSE IF b[2] <= sent[b[1]] THEN "lost" ELSE "unsent"
  BY DEF StageOf
<1>4. \A n \in names : n \in Waits \cup Works \cup Returns \cup Read
  BY <1>1, PlaceIs DEF Waits, Works, Returns, Read
<1> HIDE DEF names
<1>5. \A N : Found(N, b, Queues) <=> names \cap N # {}
  BY <1>1, <1>2 DEF Found
<1>6. /\ Found(Read, b, Queues) <=> "received" \in names
      /\ Found(Returns, b, Queues) <=> names \cap {"backUp", "frontDown"} # {}
      /\ Found(Works, b, Queues) <=> "backDown" \in names
  BY <1>5 DEF Works, Returns, Read
<1>7. \/ "received" \in names \/ names \cap {"backUp", "frontDown"} # {}
      \/ "backDown" \in names
      \/ Found(Waits, b, Queues) <=> names # {}
  BY <1>4, <1>5 DEF Waits, Works, Returns, Read
<1> QED
  BY <1>3, <1>6, <1>7 DEF StageAt

LEMMA StageIsAtNext == (TypeOK => \A b \in Body : StageOf(b) = StageAt(b))'
BY StageIsAt, PTL

(* A request that is at one stage is at no other.                           *)
LEMMA FoundOnce ==
  ASSUME NEW b, OneIn(Carrying(b), Queues), NEW N, NEW M, N \cap M = {},
         Found(N, b, Queues), Found(M, b, Queues)
  PROVE  FALSE
BY DEF Found, OneIn

LEMMA StagesMove ==
  ASSUME OnceInv, NEW b \in Body, MovesOn(b) \/ IsSent(b), sent'[b[1]] \in Nat,
         StageAt(b)' # StageAt(b)
  PROVE  <<StageAt(b), StageAt(b)'>> \in Lifecycle!Moves
<1>1. b[2] \in Nat /\ sent[b[1]] \in Nat
  BY NetAssumption DEF Body, OnceInv, Inv, TypeOK, ClientTypeOK
<1>2. /\ OneIn(Carrying(b), Queues)
      /\ b[2] > sent[b[1]] => NoneIn(Carrying(b), Queues)
  BY DEF OnceInv, SentOnce
<1>3. \A N : b[2] > sent[b[1]] => ~Found(N, b, Queues)
  BY <1>2 DEF NoneIn, Found
<1>4. /\ ~(Found(Waits, b, Queues) /\ Found(Works, b, Queues))
      /\ ~(Found(Waits, b, Queues) /\ Found(Returns, b, Queues))
      /\ ~(Found(Waits, b, Queues) /\ Found(Read, b, Queues))
      /\ ~(Found(Works, b, Queues) /\ Found(Returns, b, Queues))
      /\ ~(Found(Works, b, Queues) /\ Found(Read, b, Queues))
      /\ ~(Found(Returns, b, Queues) /\ Found(Read, b, Queues))
  <2>1. /\ Waits \cap Works = {} /\ Waits \cap Returns = {} /\ Waits \cap Read = {}
        /\ Works \cap Returns = {} /\ Works \cap Read = {}
        /\ Returns \cap Read = {}
    BY DEF Waits, Works, Returns, Read
  <2> QED
    BY <1>2, <2>1, FoundOnce
<1>5. b[2] <= sent[b[1]] <=> ~(b[2] > sent[b[1]])
  BY <1>1
<1>6. b[2] <= sent'[b[1]] <=> ~(b[2] > sent'[b[1]])
  BY <1>1
<1>7. StageAt(b)' = IF Found(Read, b, Queues') THEN "answered"
                    ELSE IF Found(Returns, b, Queues') THEN "replied"
                    ELSE IF Found(Works, b, Queues') THEN "working"
                    ELSE IF Found(Waits, b, Queues') THEN "queued"
                    ELSE IF b[2] <= sent'[b[1]] THEN "lost" ELSE "unsent"
  BY DEF StageAt, Found
<1>8. CASE IsSent(b)
  <2>1. StageAt(b) = "unsent"
    BY <1>3, <1>5, <1>8 DEF StageAt, IsSent
  <2>2. StageAt(b)' = "queued"
    BY <1>7, <1>8 DEF IsSent
  <2> QED
    BY <2>1, <2>2 DEF Lifecycle!Moves
<1>9. CASE MovesOn(b)
  <2>1. StageAt(b)' = "answered" => StageAt(b) \in {"replied", "answered"}
    BY <1>7, <1>9 DEF MovesOn, StageAt
  <2>2. StageAt(b)' = "replied" => StageAt(b) \in {"working", "replied"}
    BY <1>4, <1>7, <1>9 DEF MovesOn, StageAt
  <2>3. StageAt(b)' = "working" => StageAt(b) \in {"queued", "working"}
    BY <1>4, <1>7, <1>9 DEF MovesOn, StageAt
  <2>4. StageAt(b)' = "queued" => StageAt(b) = "queued"
    BY <1>4, <1>7, <1>9 DEF MovesOn, StageAt
  <2>5. StageAt(b)' = "lost"
          => StageAt(b) \in {"queued", "working", "replied", "lost"}
    BY <1>5, <1>6, <1>7, <1>9 DEF MovesOn, StageAt
  <2>6. StageAt(b)' = "unsent" => StageAt(b) = "unsent"
    BY <1>3, <1>5, <1>6, <1>7, <1>9 DEF MovesOn, StageAt
  <2>7. StageAt(b)' \in {"answered", "replied", "working", "queued", "lost", "unsent"}
    BY <1>7
  <2> QED
    BY <2>1, <2>2, <2>3, <2>4, <2>5, <2>6, <2>7 DEF Lifecycle!Moves
<1> QED
  BY <1>8, <1>9

(* The workers together hold at most one request each.                      *)
LEMMA WorkingAreHeld ==
  TypeOK /\ OnceIn(idle, backDown, backUp) /\ Hosts
    => Cardinality({b \in Body : StageAt(b) = "working"}) <= Cardinality(WorkerProc)
<1> SUFFICES ASSUME TypeOK, OnceIn(idle, backDown, backUp), Hosts
             PROVE  Cardinality({b \in Body : StageAt(b) = "working"})
                      <= Cardinality(WorkerProc)
  OBVIOUS
<1> DEFINE W == {b \in Body : StageAt(b) = "working"}
           Holds(p, b) == /\ wId[p] \in WorkerId
                          /\ \E i \in 1 .. Len(backDown[wId[p]]) :
                               LET m == backDown[wId[p]][i]
                               IN  m \in AskMsg /\ m.body = b
           f == [b \in W |-> CHOOSE p \in WorkerProc : Holds(p, b)]
<1>1. ASSUME NEW b \in W  PROVE \E p \in WorkerProc : Holds(p, b)
  <2>1. Found(Works, b, Queues)
    BY DEF StageAt
  <2>2. PICK x \in Place : x[1] = "backDown" /\ ~NoneOf(Queues[x], Carrying(b)[x])
    BY <2>1 DEF Found, Works
  <2>3. PICK w \in WorkerId : x = <<"backDown", w>>
    BY <2>2, PlaceIs
  <2>4. Queues[x] = backDown[w]
    BY <2>3 DEF Place, Packed, Queues
  <2>5. \A z : z \in Carrying(b)[<<"backDown", w>>]
                 <=> z \in BackDownMsg /\ z.type = "Request" /\ z.body = b
    BY CarryingAt
  <2>6. PICK i \in Positions(backDown[w], Carrying(b)[x]) : TRUE
    BY <2>2, <2>4 DEF NoneOf
  <2>7. /\ i \in 1 .. Len(backDown[w])
        /\ backDown[w][i] \in AskMsg /\ backDown[w][i].body = b
    BY <2>3, <2>5, <2>6 DEF Positions, AskMsg
  <2>8. backDown[w] # <<>>
    <3>1. Len(<<>>) = 0
      BY EmptySeq
    <3> QED
      BY <2>7, <3>1
  <2>9. PICK p \in WorkerProc : wId[p] = w
    BY <2>8 DEF Hosts, Hosted
  <2> QED
    BY <2>7, <2>9
<1>2. ASSUME NEW p \in WorkerProc, NEW a, NEW b, Holds(p, a), Holds(p, b)
      PROVE  a = b
  <2>1. OneOf(backDown[wId[p]], AskMsg)
    BY <1>2 DEF OnceIn, Once
  <2>2. PICK i \in 1 .. Len(backDown[wId[p]]) :
          backDown[wId[p]][i] \in AskMsg /\ backDown[wId[p]][i].body = a
    BY <1>2
  <2>3. PICK j \in 1 .. Len(backDown[wId[p]]) :
          backDown[wId[p]][j] \in AskMsg /\ backDown[wId[p]][j].body = b
    BY <1>2
  <2>4. i = j
    BY <2>1, <2>2, <2>3 DEF OneOf, Positions
  <2> QED
    BY <2>2, <2>3, <2>4
<1> HIDE DEF W, Holds
<1>3. \A b \in W : f[b] \in WorkerProc /\ Holds(f[b], b)
  BY <1>1
<1> HIDE DEF f
<1>4. f \in [W -> WorkerProc]
  BY <1>3 DEF f
<1>5. \A a, b \in W : f[a] = f[b] => a = b
  BY <1>2, <1>3
<1>6. f \in Injection(W, WorkerProc)
  BY <1>4, <1>5 DEF Injection, IsInjective
<1>7. IsFiniteSet(WorkerProc)
  BY WorkerAssumption
<1>8. Cardinality(W) <= Cardinality(WorkerProc)
  BY <1>6, <1>7, FS_Injection
<1> QED
  BY <1>8 DEF W

LEMMA WorkingAreHeldNext ==
  (TypeOK /\ OnceIn(idle, backDown, backUp) /\ Hosts
    => Cardinality({b \in Body : StageAt(b) = "working"}) <= Cardinality(WorkerProc))'
BY WorkingAreHeld, PTL

-----------------------------------------------------------------------------
(* The refinement.                                                          *)

LifecycleInv == OnceInv /\ TokenInv /\ Hosts

(* The asynchronous Majordomo implements RequestLifecycle: every request    *)
(* goes from the client's queue to one worker, back and to the client, one  *)
(* step at a time and once, may be lost on the way and is then lost for     *)
(* good, and the workers together never hold more requests than there are   *)
(* worker processes.                                                        *)
THEOREM RequestsAreRefined == Spec => LifecycleSpec
<1> DEFINE stages == [b \in Body |-> StageOf(b)]
<1>1. Init => LifecycleInv
  <2> SUFFICES ASSUME Init  PROVE LifecycleInv
    OBVIOUS
  <2>1. Hosts
    BY DEF Init, NetInit, Hosts
  <2>2. TokenInv
    BY InitInv, InitOnce DEF TokenInv
  <2> QED
    BY <2>1, <2>2, InitOnceInv DEF LifecycleInv
<1>2. LifecycleInv /\ [Next]_vars => LifecycleInv'
  BY StepKeepsOnce, StepKeepsTokens, StepKeepsHosts DEF LifecycleInv, OnceInv
<1>3. Init => Lifecycle!Init
  <2> SUFFICES ASSUME Init, NEW b \in Body  PROVE StageOf(b) = "unsent"
    BY DEF Lifecycle!Init
  <2>1. OnceInv
    BY InitOnceInv
  <2>2. sent[b[1]] = 0 /\ b[2] \in Nat /\ b[2] > 0
    BY NetAssumption DEF Init, ClientInit, Body
  <2>3. NoneIn(Carrying(b), Queues)
    BY <2>1, <2>2 DEF OnceInv, SentOnce
  <2>4. \A N : ~Found(N, b, Queues)
    BY <2>3 DEF NoneIn, Found
  <2>5. StageAt(b) = "unsent"
    BY <2>2, <2>4 DEF StageAt
  <2> QED
    BY <2>1, <2>5, StageIsAt DEF OnceInv, Inv
<1>4. LifecycleInv /\ LifecycleInv' /\ [Next]_vars
        => [Lifecycle!Next]_stages
  <2> SUFFICES ASSUME LifecycleInv, LifecycleInv', [Next]_vars
               PROVE  Lifecycle!Next
    OBVIOUS
  <2>1. /\ \A b \in Body : StageOf(b) = StageAt(b)
        /\ \A b \in Body : StageOf(b)' = StageAt(b)'
    BY StageIsAt, StageIsAtNext DEF LifecycleInv, OnceInv, Inv
  <2>2. ASSUME NEW b \in Body  PROVE StageAt(b)' \in Lifecycle!Stage
    BY DEF StageAt, Lifecycle!Stage
  <2>3. ASSUME NEW b \in Body, StageAt(b)' # StageAt(b)
        PROVE  <<StageAt(b), StageAt(b)'>> \in Lifecycle!Moves
    <3>1. sent'[b[1]] \in Nat
      BY NetAssumption
      DEF LifecycleInv, OnceInv, Inv, TypeOK, ClientTypeOK, Body
    <3> QED
      BY <2>3, <3>1, StepMovesOn, StagesMove DEF LifecycleInv
  <2>4. Cardinality({b \in Body : StageAt(b)' = "working"}) <= Cardinality(WorkerProc)
    BY WorkingAreHeldNext DEF LifecycleInv, TokenInv, Inv
  <2>5. {b \in Body : StageAt(b)' = "working"} = {b \in Body : StageOf(b)' = "working"}
    BY <2>1
  <2>6. stages' \in [Body -> Lifecycle!Stage]
    BY <2>1, <2>2
  <2>7. \A b \in Body : stages'[b] # stages[b]
                          => <<stages[b], stages'[b]>> \in Lifecycle!Moves
    BY <2>1, <2>3
  <2>8. Cardinality({b \in Body : stages'[b] = "working"}) <= Cardinality(WorkerProc)
    <3>1. {b \in Body : stages'[b] = "working"}
            = {b \in Body : StageOf(b)' = "working"}
      OBVIOUS
    <3> QED
      BY <2>4, <2>5, <3>1
  <2> QED
    BY <2>6, <2>7, <2>8, Zenon DEF Lifecycle!Next, Lifecycle!Cardinality, Cardinality
<1> QED
  BY <1>1, <1>2, <1>3, <1>4, PTL DEF Spec, LifecycleSpec, Lifecycle!Spec
-----------------------------------------------------------------------------
(* The order of a client's requests.                                        *)

(* The places of a request that a worker has been given, or of its reply.   *)
Handed == Works \cup Returns \cup Read

(* The requests a and b while they wait.                                    *)
Both(a, b) == [x \in Place |-> Carrying(a)[x] \cup Carrying(b)[x]]

(* Wherever a and b wait, b does so behind a: further back in the same      *)
(* queue, or in its client's queue when a is in that of the service.        *)
WaitsBehind(a, b, Q) ==
  \A x, y \in Place :
    x[1] \in Waits /\ y[1] \in Waits
      => \A i \in Positions(Q[x], Carrying(a)[x]) :
           \A j \in Positions(Q[y], Carrying(b)[y]) :
             (x = y /\ i < j) \/ (x[1] = "pending" /\ y[1] = "frontUp")

(* The request b does not overtake a.                                       *)
Behind(a, b, Q) ==
  /\ WaitsBehind(a, b, Q)
  /\ Found(Handed, b, Q) => ~Found(Waits, a, Q)

InOrder == \A a, b \in Body : a[1] = b[1] /\ a[2] < b[2] => Behind(a, b, Queues)

(* While a client sends, all of its requests to the broker are from the     *)
(* socket it has.                                                           *)
SendsFromOne ==
  \A b \in Body : \A c \in ClientId :
    /\ cPhase[b[1]] = "sending"
    /\ ~NoneOf(frontUp[c], Carrying(b)[<<"frontUp", c>>])
    => c = cId[b[1]]

OrderInv == OnceInv /\ ServiceInv /\ InOrder /\ SendsFromOne
(* What S selects in r was selected in q before, and in the same order.     *)
Shorter(r, q, S) ==
  \E f : /\ \A i \in Positions(r, S) : f[i] \in Positions(q, S) /\ q[f[i]] = r[i]
         /\ \A i, j \in Positions(r, S) : i < j => f[i] < f[j]

LEMMA ShorterIfNone ==
  ASSUME NEW r, NEW q, NEW S, NoneOf(r, S)
  PROVE  Shorter(r, q, S)
BY DEF Shorter, NoneOf

LEMMA ShorterSame ==
  ASSUME NEW q, NEW S
  PROVE  Shorter(q, q, S)
<1> DEFINE f == [i \in Positions(q, S) |-> i]
<1>1. /\ \A i \in Positions(q, S) : f[i] \in Positions(q, S) /\ q[f[i]] = q[i]
      /\ \A i, j \in Positions(q, S) : i < j => f[i] < f[j]
  OBVIOUS
<1> HIDE DEF f
<1> QED
  BY <1>1 DEF Shorter

LEMMA ShorterOfAllButOldest ==
  ASSUME NEW T, NEW q \in Seq(T), NEW k \in Nat, k <= Len(q), NEW S
  PROVE  Shorter(AllButOldest(q, k), q, S)
<1> DEFINE r == AllButOldest(q, k)
           f == [i \in Positions(r, S) |-> i + k]
<1>1. /\ Len(r) = Len(q) - k /\ Len(q) \in Nat
      /\ \A i \in 1 .. Len(q) - k : r[i] = q[i + k]
  BY AllButOldestProperties, LenProperties
<1> HIDE DEF r
<1>2. /\ \A i \in Positions(r, S) : f[i] \in Positions(q, S) /\ q[f[i]] = r[i]
      /\ \A i, j \in Positions(r, S) : i < j => f[i] < f[j]
  BY <1>1 DEF Positions
<1> HIDE DEF f
<1> QED
  BY <1>2 DEF Shorter, r

LEMMA ShorterOfTail ==
  ASSUME NEW T, NEW q \in Seq(T), q # <<>>, NEW S
  PROVE  Shorter(Tail(q), q, S)
<1> DEFINE r == Tail(q)
           f == [i \in Positions(r, S) |-> i + 1]
<1>1. /\ Len(r) = Len(q) - 1 /\ Len(q) \in Nat
      /\ \A i \in 1 .. Len(r) : r[i] = q[i + 1]
  BY HeadTailProperties, LenProperties, EmptySeq
<1> HIDE DEF r
<1>2. /\ \A i \in Positions(r, S) : f[i] \in Positions(q, S) /\ q[f[i]] = r[i]
      /\ \A i, j \in Positions(r, S) : i < j => f[i] < f[j]
  BY <1>1 DEF Positions
<1> HIDE DEF f
<1> QED
  BY <1>2 DEF Shorter, r

LEMMA ShorterOfOldest ==
  ASSUME NEW T, NEW q \in Seq(T), NEW k \in Nat, k <= Len(q), NEW S
  PROVE  Shorter(Oldest(q, k), q, S)
<1> DEFINE r == Oldest(q, k)
           f == [i \in Positions(r, S) |-> i]
<1>1. /\ Len(r) = k /\ Len(q) \in Nat
      /\ \A i \in 1 .. k : r[i] = q[i]
  BY OldestProperties, LenProperties
<1> HIDE DEF r
<1>2. /\ \A i \in Positions(r, S) : f[i] \in Positions(q, S) /\ q[f[i]] = r[i]
      /\ \A i, j \in Positions(r, S) : i < j => f[i] < f[j]
  BY <1>1 DEF Positions
<1> HIDE DEF f
<1> QED
  BY <1>2 DEF Shorter, r

LEMMA ShorterWithLoss ==
  ASSUME NEW T, NEW q \in Seq(T), NEW read \in Nat, NEW lost \in Nat,
         read + lost <= Len(q), NEW S
  PROVE  Shorter(WithLoss(q, read, lost), q, S)
<1> DEFINE r == WithLoss(q, read, lost)
           f == [i \in Positions(r, S) |-> IF i <= read THEN i ELSE i + lost]
<1>1. /\ Len(q) \in Nat /\ read <= Len(q) /\ read + lost \in Nat
  BY LenProperties
<1>2. /\ Oldest(q, read) \in Seq(T) /\ Len(Oldest(q, read)) = read
      /\ \A i \in 1 .. read : Oldest(q, read)[i] = q[i]
  BY <1>1, OldestProperties
<1>3. /\ AllButOldest(q, read + lost) \in Seq(T)
      /\ Len(AllButOldest(q, read + lost)) = Len(q) - (read + lost)
      /\ \A i \in 1 .. Len(q) - (read + lost) :
           AllButOldest(q, read + lost)[i] = q[i + (read + lost)]
  BY <1>1, AllButOldestProperties
<1>4. /\ Len(r) = read + (Len(q) - (read + lost))
      /\ \A i \in 1 .. Len(r) :
           r[i] = IF i <= read THEN Oldest(q, read)[i]
                               ELSE AllButOldest(q, read + lost)[i - read]
  BY <1>2, <1>3, ConcatProperties DEF WithLoss
<1>5. ASSUME NEW i \in 1 .. Len(r)
      PROVE  /\ r[i] = q[IF i <= read THEN i ELSE i + lost]
             /\ (IF i <= read THEN i ELSE i + lost) \in 1 .. Len(q)
  <2>1. CASE i <= read
    BY <1>1, <1>2, <1>4, <2>1
  <2>2. CASE ~(i <= read)
    <3>1. /\ i - read \in 1 .. Len(q) - (read + lost)
          /\ i - read + (read + lost) = i + lost
      BY <1>1, <1>4, <2>2
    <3> QED
      BY <1>1, <1>3, <1>4, <2>2, <3>1
  <2> QED
    BY <2>1, <2>2
<1>6. Len(r) \in Nat
  BY <1>1, <1>4
<1> HIDE DEF r
<1>7. \A i \in Positions(r, S) : f[i] \in Positions(q, S) /\ q[f[i]] = r[i]
  BY <1>5 DEF Positions
<1>8. \A i, j \in Positions(r, S) : i < j => f[i] < f[j]
  BY <1>6 DEF Positions
<1> HIDE DEF f
<1> QED
  BY <1>7, <1>8 DEF Shorter, r

(* A step that leaves of what waits no more than there was, in the same     *)
(* order, and gives no worker the request b while a waits.                  *)
LEMMA BehindKept ==
  ASSUME NEW a, NEW b, NEW Q, NEW R, Behind(a, b, Q),
         \A x \in Place : x[1] \in Waits => Shorter(R[x], Q[x], Both(a, b)[x]),
         Found(Handed, b, R) /\ Found(Waits, a, R) => Found(Handed, b, Q)
  PROVE  Behind(a, b, R)
<1>1. ASSUME NEW x \in Place, x[1] \in Waits
      PROVE  \E f : /\ \A i \in Positions(R[x], Carrying(a)[x]) :
                         f[i] \in Positions(Q[x], Carrying(a)[x])
                    /\ \A i \in Positions(R[x], Carrying(b)[x]) :
                         f[i] \in Positions(Q[x], Carrying(b)[x])
                    /\ \A i, j \in Positions(R[x], Both(a, b)[x]) :
                         i < j => f[i] < f[j]
  <2>1. PICK f :
          /\ \A i \in Positions(R[x], Both(a, b)[x]) :
               f[i] \in Positions(Q[x], Both(a, b)[x]) /\ Q[x][f[i]] = R[x][i]
          /\ \A i, j \in Positions(R[x], Both(a, b)[x]) : i < j => f[i] < f[j]
    BY <1>1 DEF Shorter
  <2>2. \A q : /\ Positions(q, Carrying(a)[x]) \subseteq Positions(q, Both(a, b)[x])
               /\ Positions(q, Carrying(b)[x]) \subseteq Positions(q, Both(a, b)[x])
    BY DEF Positions, Both
  <2>3. \A i \in Positions(R[x], Carrying(a)[x]) :
          f[i] \in Positions(Q[x], Carrying(a)[x])
    BY <2>1, <2>2 DEF Positions
  <2>4. \A i \in Positions(R[x], Carrying(b)[x]) :
          f[i] \in Positions(Q[x], Carrying(b)[x])
    BY <2>1, <2>2 DEF Positions
  <2> QED
    BY <2>1, <2>3, <2>4
<1>2. WaitsBehind(a, b, R)
  <2> SUFFICES ASSUME NEW x \in Place, NEW y \in Place, x[1] \in Waits, y[1] \in Waits,
                      NEW i \in Positions(R[x], Carrying(a)[x]),
                      NEW j \in Positions(R[y], Carrying(b)[y]),
                      ~(x[1] = "pending" /\ y[1] = "frontUp")
               PROVE  x = y /\ i < j
    BY DEF WaitsBehind
  <2>1. PICK f : /\ \A k \in Positions(R[x], Carrying(a)[x]) :
                      f[k] \in Positions(Q[x], Carrying(a)[x])
                 /\ \A k \in Positions(R[x], Carrying(b)[x]) :
                      f[k] \in Positions(Q[x], Carrying(b)[x])
                 /\ \A k, l \in Positions(R[x], Both(a, b)[x]) :
                      k < l => f[k] < f[l]
    BY <1>1
  <2>2. PICK g : \A k \in Positions(R[y], Carrying(b)[y]) :
                   g[k] \in Positions(Q[y], Carrying(b)[y])
    BY <1>1
  <2>3. x = y
    BY <2>1, <2>2 DEF Behind, WaitsBehind
  <2>4. f[i] < f[j]
    BY <2>1, <2>3 DEF Behind, WaitsBehind
  <2>5. /\ i \in Positions(R[x], Both(a, b)[x]) /\ i \in Nat
        /\ j \in Positions(R[x], Both(a, b)[x]) /\ j \in Nat
    BY <2>3 DEF Positions, Both
  <2>6. f[i] \in Nat /\ f[j] \in Nat
    BY <2>1, <2>3 DEF Positions
  <2>7. j < i => f[j] < f[i]
    BY <2>1, <2>5
  <2>8. ~(j < i) /\ j # i
    BY <2>4, <2>6, <2>7
  <2> QED
    BY <2>3, <2>5, <2>8
<1>3. ASSUME Found(Waits, a, R)  PROVE Found(Waits, a, Q)
  <2>1. PICK x \in Place : x[1] \in Waits /\ ~NoneOf(R[x], Carrying(a)[x])
    BY <1>3 DEF Found
  <2>2. ~NoneOf(Q[x], Carrying(a)[x])
    BY <1>1, <2>1 DEF NoneOf
  <2> QED
    BY <2>1, <2>2 DEF Found
<1> QED
  BY <1>2, <1>3 DEF Behind
-----------------------------------------------------------------------------
(* Steps that add nothing to what waits.                                    *)

(* What waits is what waited, or less, in the same order.                   *)
Spares ==
  \A a, b \in Body : \A x \in Place :
    x[1] \in Waits => Shorter(Queues'[x], Queues[x], Both(a, b)[x])

LEMMA SparesQueues ==
  ASSUME \A a, b \in Body :
           /\ \A c \in ClientId :
                Shorter(frontUp'[c], frontUp[c], Both(a, b)[<<"frontUp", c>>])
           /\ \A s \in Service :
                Shorter(pending'[s], pending[s], Both(a, b)[<<"pending", s>>])
  PROVE  Spares
<1> SUFFICES ASSUME NEW a \in Body, NEW b \in Body, NEW x \in Place, x[1] \in Waits
             PROVE  Shorter(Queues'[x], Queues[x], Both(a, b)[x])
  BY DEF Spares
<1>1. /\ \A c \in ClientId : /\ Queues[<<"frontUp", c>>] = frontUp[c]
                             /\ Queues'[<<"frontUp", c>>] = frontUp'[c]
      /\ \A s \in Service : /\ Queues[<<"pending", s>>] = pending[s]
                            /\ Queues'[<<"pending", s>>] = pending'[s]
  BY DEF Queues, Packed, Place
<1>2. \/ \E c \in ClientId : x = <<"frontUp", c>>
      \/ \E s \in Service : x = <<"pending", s>>
  BY PlaceIs DEF Waits
<1>3. CASE \E c \in ClientId : x = <<"frontUp", c>>
  <2>1. PICK c \in ClientId : x = <<"frontUp", c>>
    BY <1>3
  <2>2. Shorter(frontUp'[c], frontUp[c], Both(a, b)[<<"frontUp", c>>])
    OBVIOUS
  <2> QED
    BY <1>1, <2>1, <2>2
<1>4. CASE \E s \in Service : x = <<"pending", s>>
  <2>1. PICK s \in Service : x = <<"pending", s>>
    BY <1>4
  <2>2. Shorter(pending'[s], pending[s], Both(a, b)[<<"pending", s>>])
    OBVIOUS
  <2> QED
    BY <1>1, <2>1, <2>2
<1> QED
  BY <1>2, <1>3, <1>4

(* A request that a worker has been given had been given before, or waited. *)
LEMMA HandedBefore ==
  ASSUME OnceInv, [Next]_vars, NEW b \in Body, Found(Handed, b, Queues')
  PROVE  /\ Found(Handed, b, Queues) \/ Found(Waits, b, Queues)
         /\ (Found(Works, b, Queues') => Found(Works, b, Queues))
              => Found(Handed, b, Queues)
<1>1. \A Q : Found(Handed, b, Q)
               <=> Found(Works, b, Q) \/ Found(Returns, b, Q) \/ Found(Read, b, Q)
  BY DEF Found, Handed
<1>2. MovesOn(b) \/ IsSent(b)
  BY StepMovesOn
<1> QED
  BY <1>1, <1>2 DEF MovesOn, IsSent

(* It does not wait at the same time.                                       *)
LEMMA HandedWaitsNot ==
  ASSUME NEW b, NEW Q, OneIn(Carrying(b), Q), Found(Handed, b, Q)
  PROVE  ~Found(Waits, b, Q)
<1> SUFFICES ASSUME Found(Waits, b, Q)  PROVE FALSE
  OBVIOUS
<1>1. PICK x \in Place : x[1] \in Handed /\ ~NoneOf(Q[x], Carrying(b)[x])
  BY DEF Found
<1>2. PICK y \in Place : y[1] \in Waits /\ ~NoneOf(Q[y], Carrying(b)[y])
  BY DEF Found
<1>3. x = y
  BY <1>1, <1>2 DEF OneIn
<1> QED
  BY <1>1, <1>2, <1>3 DEF Handed, Works, Returns, Read, Waits

LEMMA SparingInOrder ==
  ASSUME OnceInv', InOrder, Spares,
         \A a, b \in Body :
           /\ a[1] = b[1] /\ a[2] < b[2]
           /\ Found(Handed, b, Queues') /\ Found(Waits, a, Queues')
           => Found(Handed, b, Queues) \/ Found(Waits, b, Queues')
  PROVE  InOrder'
<1> SUFFICES ASSUME NEW a \in Body, NEW b \in Body, a[1] = b[1], a[2] < b[2]
             PROVE  Behind(a, b, Queues')
  BY DEF InOrder
<1>1. Behind(a, b, Queues)
  BY DEF InOrder
<1>2. \A x \in Place :
        x[1] \in Waits => Shorter(Queues'[x], Queues[x], Both(a, b)[x])
  BY DEF Spares
<1>3. OneIn(Carrying(b), Queues')
  BY DEF OnceInv, SentOnce
<1>4. Found(Handed, b, Queues') /\ Found(Waits, a, Queues')
        => Found(Handed, b, Queues)
  BY <1>3, HandedWaitsNot
<1> QED
  BY <1>1, <1>2, <1>4, BehindKept

(* A client goes on sending from the socket it has.                         *)
SendsOn ==
  \A q \in ClientProc :
    cPhase'[q] = "sending" => cPhase[q] = "sending" /\ cId'[q] = cId[q]

LEMMA SparingFromOne ==
  ASSUME SendsFromOne, Spares, SendsOn
  PROVE  SendsFromOne'
<1> SUFFICES ASSUME NEW b \in Body, NEW c \in ClientId, cPhase'[b[1]] = "sending",
                    ~NoneOf(frontUp'[c], Carrying(b)[<<"frontUp", c>>])
             PROVE  c = cId'[b[1]]
  BY DEF SendsFromOne
<1> DEFINE x == <<"frontUp", c>>
<1>1. b[1] \in ClientProc
  BY DEF Body
<1>2. x \in Place /\ Queues[x] = frontUp[c] /\ Queues'[x] = frontUp'[c]
  BY DEF Queues, Packed, Place
<1>3. Both(b, b)[x] = Carrying(b)[x]
  BY <1>2 DEF Both
<1>4. Shorter(frontUp'[c], frontUp[c], Carrying(b)[x])
  BY <1>2, <1>3 DEF Spares, Waits
<1>5. ~NoneOf(frontUp[c], Carrying(b)[x])
  BY <1>4 DEF Shorter, NoneOf
<1> QED
  BY <1>1, <1>5 DEF SendsFromOne, SendsOn

(* A step that leaves alone what waits.                                     *)
LEMMA UntouchedInOrder ==
  ASSUME OrderInv, OnceInv', [Next]_vars, UNCHANGED <<pending, frontUp>>, SendsOn
  PROVE  InOrder' /\ SendsFromOne'
<1>1. Spares
  BY ShorterSame, SparesQueues
<1>2. ASSUME NEW b \in Body, Found(Waits, b, Queues)
      PROVE  Found(Waits, b, Queues')
  <2>1. PICK x \in Place : x[1] \in Waits /\ ~NoneOf(Queues[x], Carrying(b)[x])
    BY <1>2 DEF Found
  <2>2. Queues'[x] = Queues[x]
    BY <2>1 DEF Queues, Packed, Waits
  <2> QED
    BY <2>1, <2>2 DEF Found
<1>3. \A b \in Body : Found(Handed, b, Queues')
                        => Found(Handed, b, Queues) \/ Found(Waits, b, Queues')
  BY <1>2, HandedBefore DEF OrderInv
<1> QED
  BY <1>1, <1>3, SparingInOrder, SparingFromOne DEF OrderInv

(* A step that gives nothing to a worker.                                   *)
LEMMA GivingNothingInOrder ==
  ASSUME OrderInv, OnceInv', [Next]_vars, Spares, SendsOn,
         \A w \in WorkerId : \A S : NoMore(backDown'[w], backDown[w], S)
  PROVE  InOrder' /\ SendsFromOne'
<1>1. ASSUME NEW b \in Body, Found(Works, b, Queues')  PROVE Found(Works, b, Queues)
  <2>1. PICK x \in Place : x[1] = "backDown" /\ ~NoneOf(Queues'[x], Carrying(b)[x])
    BY <1>1 DEF Found, Works
  <2>2. PICK w \in WorkerId : x = <<"backDown", w>>
    BY <2>1, PlaceIs
  <2>3. Queues[x] = backDown[w] /\ Queues'[x] = backDown'[w]
    BY <2>2 DEF Queues, Packed, Place
  <2>4. ~NoneOf(Queues[x], Carrying(b)[x])
    BY <2>1, <2>3 DEF NoMore
  <2> QED
    BY <2>1, <2>4 DEF Found, Works
<1>2. \A b \in Body : Found(Handed, b, Queues') => Found(Handed, b, Queues)
  BY <1>1, HandedBefore DEF OrderInv
<1> QED
  BY <1>2, SparingInOrder, SparingFromOne DEF OrderInv
LEMMA WorkersInOrder ==
  ASSUME OrderInv, OnceInv', [Next]_vars, NEW p \in WorkerProc,
         \/ WorkerStep(p) \/ StartWorker(p)
         \/ WorkerFails(p) \/ WorkerLeaves(p)
  PROVE  InOrder' /\ SendsFromOne'
<1>1. UNCHANGED <<pending, cPhase, cId>>
  BY DEF WorkerStep, StartWorker, WorkerFails, WorkerLeaves, clientVars, brokerVars
<1>2. ASSUME WorkerStep(p)  PROVE UNCHANGED frontUp
  BY <1>2 DEF WorkerStep, WorkerReceive, WorkerReconnect, WorkerMissed,
     WorkerSleep, WorkerWake, netVars
<1>3. ASSUME StartWorker(p) \/ WorkerFails(p) \/ WorkerLeaves(p)
      PROVE  UNCHANGED frontUp
  BY <1>3 DEF StartWorker, WorkerStart, WorkerFails, WorkerLeaves,
     WorkerCrash, WorkerLeave, WorkerEnds
<1>4. SendsOn
  BY <1>1 DEF SendsOn
<1> QED
  BY <1>1, <1>2, <1>3, <1>4, UntouchedInOrder

LEMMA FailuresInOrder ==
  ASSUME OrderInv, OnceInv', [Next]_vars,
         \/ BrokerFails
         \/ \E w \in WorkerId : BackLinkFails(w)
         \/ \E c \in ClientId : FrontLinkFails(c)
  PROVE  InOrder' /\ SendsFromOne'
<1>1. UNCHANGED <<cPhase, cId>>
  BY DEF BrokerFails, BackLinkFails, FrontLinkFails, clientVars
<1>2. SendsOn
  BY <1>1 DEF SendsOn
<1>3. /\ \A w \in WorkerId : backDown[w] \in Seq(BackDownMsg)
      /\ \A c \in ClientId : frontUp[c] \in Seq(FrontUpMsg)
      /\ frontUp \in [ClientId -> Seq(FrontUpMsg)]
      /\ FrontHwm \in Nat /\ BackHwm \in Nat
  BY NetAssumption DEF OrderInv, OnceInv, Inv, TypeOK, NetTypeOK
<1>4. ASSUME BrokerFails  PROVE InOrder' /\ SendsFromOne'
  <2>1. PICK bu \in Cuts(backUp, BackHwm), bd \in Cuts(backDown, BackHwm),
             fu \in Cuts(frontUp, FrontHwm), fd \in Cuts(frontDown, FrontHwm) :
               BrokerCrash(bu, bd, fu, fd)
    BY <1>4 DEF BrokerFails
  <2>2. /\ \A w \in WorkerId : backDown'[w] = Oldest(backDown[w], bd[w])
        /\ \A c \in ClientId : frontUp'[c] = AllButOldest(frontUp[c], fu[c])
        /\ \A s \in Service : pending'[s] = <<>>
    BY <2>1 DEF BrokerCrash, EmptyBroker
  <2>3. \A w \in WorkerId : bd[w] \in Nat /\ bd[w] <= Len(backDown[w])
    BY <1>3 DEF Cuts, OrderInv, OnceInv, Inv, TypeOK, NetTypeOK
  <2>4. \A c \in ClientId : fu[c] \in Nat /\ fu[c] <= Len(frontUp[c])
    BY <1>3 DEF Cuts
  <2>5. \A w \in WorkerId : \A S : NoMore(backDown'[w], backDown[w], S)
    BY <1>3, <2>2, <2>3, NoMoreOfOldest
  <2>6. \A c \in ClientId : \A S : Shorter(frontUp'[c], frontUp[c], S)
    BY <1>3, <2>2, <2>4, ShorterOfAllButOldest
  <2>7. \A s \in Service : \A S : Shorter(pending'[s], pending[s], S)
    BY <2>2, NoMoreOfEmpty, ShorterIfNone
  <2>8. Spares
    BY <2>6, <2>7, SparesQueues
  <2> QED
    BY <1>2, <2>5, <2>8, GivingNothingInOrder
<1>5. ASSUME NEW w \in WorkerId, BackLinkFails(w)  PROVE InOrder' /\ SendsFromOne'
  <2>1. UNCHANGED <<pending, frontUp>>
    BY <1>5 DEF BackLinkFails, BackConnectionReset, brokerVars
  <2> QED
    BY <1>2, <2>1, UntouchedInOrder
<1>6. ASSUME NEW c \in ClientId, FrontLinkFails(c)  PROVE InOrder' /\ SendsFromOne'
  <2>1. PICK read \in 0 .. FrontHwm, lost \in 0 .. FrontHwm, kept \in 0 .. FrontHwm :
          FrontConnectionReset(c, read, lost, kept)
    BY <1>6 DEF FrontLinkFails
  <2>2. /\ read \in Nat /\ lost \in Nat /\ read + lost <= Len(frontUp[c])
        /\ frontUp' = [frontUp EXCEPT ![c] = WithLoss(@, read, lost)]
        /\ UNCHANGED <<pending, backDown>>
    BY <1>3, <1>6, <2>1 DEF FrontConnectionReset, FrontLinkFails, brokerVars
  <2>3. /\ frontUp'[c] = WithLoss(frontUp[c], read, lost)
        /\ \A d \in ClientId \ {c} : frontUp'[d] = frontUp[d]
    BY <1>3, <2>2
  <2>4. \A d \in ClientId : \A S : Shorter(frontUp'[d], frontUp[d], S)
    BY <1>3, <2>2, <2>3, ShorterSame, ShorterWithLoss
  <2>5. Spares
    BY <2>2, <2>4, ShorterSame, SparesQueues
  <2>6. \A w \in WorkerId : \A S : NoMore(backDown'[w], backDown[w], S)
    BY <2>2, NoMoreOfSame
  <2> QED
    BY <1>2, <2>5, <2>6, GivingNothingInOrder
<1> QED
  BY <1>4, <1>5, <1>6

(* connect(): a new socket has no request in it, the old one what it had.   *)
LEMMA SocketInOrder ==
  ASSUME OrderInv, OnceInv', [Next]_vars, NEW q \in ClientProc, NEW id,
         NEW first, NEW n \in Nat, ClientSocket(q, id, first, n), UNCHANGED pending,
         id \in ClientId
           => \A b : NoneOf(first, Carrying(b)[<<"frontUp", id>>]),
         NEW ph, cPhase' = [cPhase EXCEPT ![q] = ph], ph # "sending"
  PROVE  InOrder' /\ SendsFromOne'
<1> DEFINE old == cId[q]
<1>1. /\ \A c \in ClientId : frontUp[c] \in Seq(FrontUpMsg)
      /\ old \in ClientId \cup {NoClientId} /\ NoClientId \notin ClientId
      /\ cPhase \in [ClientProc -> ClientPhase]
      /\ cId \in [ClientProc -> ClientId \cup {NoClientId}]
  BY ClientAssumption DEF OrderInv, OnceInv, Inv, TypeOK, NetTypeOK, ClientTypeOK
<1>2. /\ old # NoClientId => n <= Len(frontUp[old])
      /\ \A c \in ClientId :
           frontUp'[c] = IF c = id THEN first
                         ELSE IF c = old THEN Oldest(frontUp[c], n)
                         ELSE frontUp[c]
      /\ UNCHANGED backDown
      /\ cId' = [cId EXCEPT ![q] = id]
  BY DEF ClientSocket
<1>3. SendsOn
  BY <1>1, <1>2 DEF SendsOn
<1> HIDE DEF old
<1>4. ASSUME NEW a, NEW b, NEW c \in ClientId
      PROVE  Shorter(frontUp'[c], frontUp[c], Both(a, b)[<<"frontUp", c>>])
  <2>1. CASE c = id
    <3>1. /\ NoneOf(first, Carrying(a)[<<"frontUp", c>>])
          /\ NoneOf(first, Carrying(b)[<<"frontUp", c>>])
      BY <2>1
    <3>2. <<"frontUp", c>> \in Place
      BY DEF Place
    <3>3. NoneOf(first, Both(a, b)[<<"frontUp", c>>])
      BY <3>1, <3>2 DEF Both, NoneOf, Positions
    <3> QED
      BY <1>2, <2>1, <3>3, ShorterIfNone
  <2>2. CASE c # id /\ c = old
    BY <1>1, <1>2, <2>2, ShorterOfOldest
  <2>3. CASE c # id /\ c # old
    BY <1>2, <2>3, ShorterSame
  <2> QED
    BY <2>1, <2>2, <2>3
<1>5. Spares
  BY <1>4, ShorterSame, SparesQueues
<1>6. \A w \in WorkerId : \A S : NoMore(backDown'[w], backDown[w], S)
  BY <1>2, NoMoreOfSame
<1> QED
  BY <1>3, <1>5, <1>6, GivingNothingInOrder
(* send(): the new request is the last of the socket that all of its        *)
(* client's requests to the broker are in.                                  *)
LEMMA ClientSendInOrder ==
  ASSUME OrderInv, OnceInv', [Next]_vars, NEW q \in ClientProc,
         ClientSend(q), UNCHANGED pending
  PROVE  InOrder' /\ SendsFromOne'
<1> DEFINE c == cId[q]
           new == <<q, sent[q] + 1>>
           m == ClientRequest(WantOf[q], new)
           d == <<"frontUp", c>>
<1>1. /\ c \in ClientId /\ sent[q] \in Nat /\ d \in Place
      /\ new \in Body /\ new[1] = q /\ new[2] = sent[q] + 1
      /\ m \in FrontUpMsg /\ m.body = new
      /\ Queues[d] \in Seq(FrontUpMsg) /\ Queues'[d] = Append(Queues[d], m)
      /\ sent'[q] = sent[q] + 1
      /\ d = <<"frontUp", cId[q]>> /\ new = <<q, sent[q] + 1>>
  BY ClientSendAdds DEF OrderInv
<1>2. /\ cPhase[q] = "sending" /\ UNCHANGED <<cId, backUp, backDown, frontDown, received>>
      /\ \A r \in ClientProc : cPhase'[r] = "sending" => cPhase[r] = "sending"
      /\ \A e \in ClientId \ {c} : frontUp'[e] = frontUp[e]
  BY DEF ClientSend, Goto, OrderInv, OnceInv, Inv, TypeOK, ClientTypeOK, NetTypeOK
<1>3. \A x \in Place \ {d} : Queues'[x] = Queues[x]
  <2> TAKE x \in Place \ {d}
  <2>1. ASSUME NEW e \in ClientId, x = <<"frontUp", e>>  PROVE Queues'[x] = Queues[x]
    BY <1>2, <2>1 DEF Queues, Packed, Place
  <2>2. ASSUME NEW e \in ClientId, x = <<"frontDown", e>>  PROVE Queues'[x] = Queues[x]
    BY <1>2, <2>2 DEF Queues, Packed, Place
  <2>3. ASSUME NEW w \in WorkerId, x = <<"backUp", w>> \/ x = <<"backDown", w>>
        PROVE  Queues'[x] = Queues[x]
    BY <1>2, <2>3 DEF Queues, Packed, Place
  <2>4. ASSUME NEW s \in Service, x = <<"pending", s>>  PROVE Queues'[x] = Queues[x]
    BY <2>4 DEF Queues, Packed, Place
  <2>5. ASSUME NEW r \in ClientProc, x = <<"received", r>>  PROVE Queues'[x] = Queues[x]
    BY <1>2, <2>5 DEF Queues, Packed, Place
  <2> QED
    BY <2>1, <2>2, <2>3, <2>4, <2>5, PlaceIs
<1>4. /\ Len(Queues[d]) \in Nat /\ Len(Queues'[d]) = Len(Queues[d]) + 1
      /\ \A i \in 1 .. Len(Queues[d]) : Queues'[d][i] = Queues[d][i]
      /\ Queues'[d][Len(Queues[d]) + 1] = m
  BY <1>1, AppendProperties, LenProperties
<1>5. \A b : \A z : z \in Carrying(b)[d]
                      <=> z \in FrontUpMsg /\ z.type = "Request" /\ z.body = b
  BY <1>1, CarryingAt
<1> HIDE DEF c, new, m, d
<1>6. ASSUME NEW b \in Body, b # new, NEW x \in Place
      PROVE  Positions(Queues'[x], Carrying(b)[x]) = Positions(Queues[x], Carrying(b)[x])
  <2>1. CASE x = d
    <3>1. m \notin Carrying(b)[d]
      BY <1>1, <1>5, <1>6
    <3> QED
      BY <1>4, <2>1, <3>1 DEF Positions
  <2>2. CASE x # d
    BY <1>3, <2>2
  <2> QED
    BY <2>1, <2>2
<1>7. NoneIn(Carrying(new), Queues)
  BY <1>1 DEF OrderInv, OnceInv, SentOnce
<1>8. /\ \A x \in Place \ {d} : Positions(Queues'[x], Carrying(new)[x]) = {}
      /\ Positions(Queues'[d], Carrying(new)[d]) \subseteq {Len(Queues[d]) + 1}
  <2>1. \A x \in Place : Positions(Queues[x], Carrying(new)[x]) = {}
    BY <1>7 DEF NoneIn, NoneOf
  <2>2. ASSUME NEW i \in Positions(Queues'[d], Carrying(new)[d])
        PROVE  i = Len(Queues[d]) + 1
    <3>1. i \in 1 .. Len(Queues[d]) => i \in Positions(Queues[d], Carrying(new)[d])
      BY <1>4 DEF Positions
    <3>2. i \in 1 .. Len(Queues[d]) + 1
      BY <1>4 DEF Positions
    <3>3. ~(i \in 1 .. Len(Queues[d]))
      BY <1>1, <2>1, <3>1
    <3> QED
      BY <1>4, <3>2, <3>3
  <2> QED
    BY <1>3, <2>1, <2>2
<1>9. ASSUME NEW b \in Body, b # new, NEW N  PROVE Found(N, b, Queues') <=> Found(N, b, Queues)
  BY <1>6, <1>9 DEF Found, NoneOf
<1>10. InOrder'
  <2> SUFFICES ASSUME NEW a \in Body, NEW b \in Body, a[1] = b[1], a[2] < b[2]
               PROVE  Behind(a, b, Queues')
    BY DEF InOrder
  <2>1. Behind(a, b, Queues)
    BY DEF OrderInv, InOrder
  <2>2. CASE a # new /\ b # new
    <3>1. WaitsBehind(a, b, Queues')
      BY <1>6, <2>1, <2>2 DEF Behind, WaitsBehind
    <3> QED
      BY <1>9, <2>1, <2>2, <3>1 DEF Behind
  <2>3. CASE a = new
    <3>1. b[2] \in Nat /\ b[1] = q /\ b[2] > sent'[b[1]]
      BY <1>1, <2>3 DEF Body
    <3>2. NoneIn(Carrying(b), Queues')
      BY <3>1 DEF OnceInv, SentOnce
    <3> QED
      BY <3>2 DEF NoneIn, NoneOf, Behind, WaitsBehind, Found
  <2>4. CASE b = new
    <3>1. a # new
      BY <1>1, <2>4
    <3>2. ~Found(Handed, b, Queues')
      <4>1. \A x \in Place : x[1] \in Handed => x # d
        BY <1>1 DEF Handed, Works, Returns, Read
      <4>2. \A x \in Place \ {d} : NoneOf(Queues'[x], Carrying(b)[x])
        BY <1>8, <2>4 DEF NoneOf
      <4> QED
        BY <4>1, <4>2 DEF Found
    <3>3. ASSUME NEW x \in Place, x[1] \in Waits,
                 NEW i \in Positions(Queues'[x], Carrying(a)[x]), x[1] # "pending"
          PROVE  x = d /\ i \in 1 .. Len(Queues[d])
      <4>1. PICK e \in ClientId : x = <<"frontUp", e>>
        BY <3>3, PlaceIs DEF Waits
      <4>2. i \in Positions(Queues[x], Carrying(a)[x])
        BY <1>6, <3>1, <3>3
      <4>3. Queues[x] = frontUp[e]
        BY <4>1 DEF Queues, Packed, Place
      <4>4. e = cId[a[1]]
        BY <1>1, <1>2, <2>4, <4>1, <4>2, <4>3 DEF OrderInv, SendsFromOne, NoneOf
      <4> QED
        BY <1>1, <2>4, <4>1, <4>2, <4>4 DEF Positions
    <3>4. WaitsBehind(a, b, Queues')
      <4> SUFFICES ASSUME NEW x \in Place, NEW y \in Place,
                          x[1] \in Waits, y[1] \in Waits,
                          NEW i \in Positions(Queues'[x], Carrying(a)[x]),
                          NEW j \in Positions(Queues'[y], Carrying(b)[y])
                   PROVE  (x = y /\ i < j) \/ (x[1] = "pending" /\ y[1] = "frontUp")
        BY DEF WaitsBehind
      <4>1. y = d /\ j = Len(Queues[d]) + 1
        BY <1>8, <2>4
      <4>2. y[1] = "frontUp"
        BY <1>1, <4>1
      <4>3. x[1] # "pending" => x = d /\ i \in 1 .. Len(Queues[d])
        BY <3>3
      <4> QED
        BY <1>4, <4>1, <4>2, <4>3
    <3> QED
      BY <3>2, <3>4 DEF Behind
  <2> QED
    BY <2>2, <2>3, <2>4
<1>11. SendsFromOne'
  <2> SUFFICES ASSUME NEW b \in Body, NEW e \in ClientId, cPhase'[b[1]] = "sending",
                      ~NoneOf(frontUp'[e], Carrying(b)[<<"frontUp", e>>])
               PROVE  e = cId'[b[1]]
    BY DEF SendsFromOne
  <2> DEFINE x == <<"frontUp", e>>
  <2>1. x \in Place /\ Queues'[x] = frontUp'[e] /\ Queues[x] = frontUp[e]
    BY DEF Queues, Packed, Place
  <2>2. CASE b = new
    <3>1. x = d
      BY <1>8, <2>1, <2>2 DEF NoneOf
    <3> QED
      BY <1>1, <1>2, <2>2, <3>1
  <2>3. CASE b # new
    <3>1. ~NoneOf(frontUp[e], Carrying(b)[x])
      BY <1>6, <2>1, <2>3 DEF NoneOf
    <3>2. cPhase[b[1]] = "sending"
      BY <1>2 DEF Body
    <3> QED
      BY <1>2, <3>1, <3>2 DEF OrderInv, SendsFromOne
  <2> QED
    BY <2>2, <2>3
<1> QED
  BY <1>10, <1>11

(* A client that starts to send has no request under way.                   *)
LEMMA ClientResumeInOrder ==
  ASSUME OrderInv, OnceInv', [Next]_vars, NEW q \in ClientProc,
         ClientResume(q), UNCHANGED pending
  PROVE  InOrder' /\ SendsFromOne'
<1>1. /\ cPhase[q] = "pausing" /\ UNCHANGED <<cId, sent>> /\ Queues' = Queues
      /\ UNCHANGED frontUp
      /\ \A r \in ClientProc \ {q} : cPhase'[r] = cPhase[r]
  BY DEF ClientResume, Goto, netVars, Queues, OrderInv, OnceInv, Inv, TypeOK, ClientTypeOK
<1>2. InOrder'
  BY <1>1 DEF OrderInv, InOrder
<1>3. sent[q] = 0
  BY <1>1 DEF OrderInv, OnceInv, Inv, PhasesAgree
<1>4. SendsFromOne'
  <2> SUFFICES ASSUME NEW b \in Body, NEW c \in ClientId, cPhase'[b[1]] = "sending",
                      ~NoneOf(frontUp[c], Carrying(b)[<<"frontUp", c>>])
               PROVE  c = cId[b[1]]
    BY <1>1 DEF SendsFromOne
  <2>1. b[1] # q
    <3> SUFFICES ASSUME b[1] = q  PROVE FALSE
      OBVIOUS
    <3>1. b[2] > sent[b[1]]
      BY <1>3, NetAssumption DEF Body
    <3>2. NoneIn(Carrying(b), Queues)
      BY <3>1 DEF OrderInv, OnceInv, SentOnce
    <3>3. <<"frontUp", c>> \in Place /\ Queues[<<"frontUp", c>>] = frontUp[c]
      BY DEF Queues, Packed, Place
    <3> QED
      BY <3>2, <3>3 DEF NoneIn
  <2>2. cPhase[b[1]] = "sending"
    BY <1>1, <2>1 DEF Body
  <2> QED
    BY <2>2 DEF OrderInv, SendsFromOne
<1> QED
  BY <1>2, <1>4

LEMMA ClientsInOrder ==
  ASSUME OrderInv, OnceInv', [Next]_vars, NEW q \in ClientProc,
         ClientStep(q) \/ StartClient(q) \/ ClientFails(q)
  PROVE  InOrder' /\ SendsFromOne'
<1>1. UNCHANGED pending
  BY DEF ClientStep, StartClient, ClientFails, brokerVars
<1>2. (\A n \in 0 .. FrontHwm : n \in Nat) /\ 0 \in Nat
  BY NetAssumption
<1>3. ASSUME NEW id \in FreshClientId, NEW n \in 0 .. FrontHwm,
             ClientPingTimeout(q, id, n) \/ ClientRecvTimeout(q, id, n)
      PROVE  InOrder' /\ SendsFromOne'
  <2>1. PICK ph \in {"pausing", "stopping"} :
          /\ ClientSocket(q, id, <<>>, n)
          /\ cPhase' = [cPhase EXCEPT ![q] = ph]
    BY <1>3 DEF ClientPingTimeout, ClientRecvTimeout, Goto
  <2>2. ph # "sending"
    OBVIOUS
  <2>3. \A b : NoneOf(<<>>, Carrying(b)[<<"frontUp", id>>])
    BY NoMoreOfEmpty
  <2> QED
    BY <1>1, <1>2, <2>1, <2>2, <2>3, SocketInOrder
<1>4. ASSUME NEW n \in 0 .. FrontHwm, ClientEnds(q, n)
      PROVE  InOrder' /\ SendsFromOne'
  <2>1. /\ ClientSocket(q, NoClientId, <<>>, n)
        /\ cPhase' = [cPhase EXCEPT ![q] = "done"]
    BY <1>4 DEF ClientEnds, Goto
  <2>2. \A b : NoneOf(<<>>, Carrying(b)[<<"frontUp", NoClientId>>])
    BY NoMoreOfEmpty
  <2> QED
    BY <1>1, <1>2, <2>1, <2>2, SocketInOrder
<1>5. ASSUME StartClient(q)  PROVE InOrder' /\ SendsFromOne'
  <2>1. PICK id \in FreshClientId : ClientStart(q, id)
    BY <1>5 DEF StartClient
  <2>2. /\ ClientSocket(q, id, <<DiscoveryRequest(Echo)>>, 0)
        /\ cPhase' = [cPhase EXCEPT ![q] = "pinging"]
    BY <2>1 DEF ClientStart, Goto
  <2>3. ASSUME id \in ClientId, NEW b
        PROVE  NoneOf(<<DiscoveryRequest(Echo)>>, Carrying(b)[<<"frontUp", id>>])
    <3>1. DiscoveryRequest(Echo).type = "Discovery"
      BY DEF DiscoveryRequest
    <3>2. DiscoveryRequest(Echo) \notin Carrying(b)[<<"frontUp", id>>]
      BY <2>3, <3>1, CarryingAt
    <3> QED
      BY <3>2, NoneOfOne
  <2> QED
    BY <1>1, <1>2, <2>2, <2>3, SocketInOrder
<1>6. ASSUME ClientPong(q) \/ ClientReceive(q)  PROVE InOrder' /\ SendsFromOne'
  <2>1. /\ UNCHANGED <<frontUp, cId>>
        /\ \A r \in ClientProc : cPhase'[r] = "sending" => cPhase[r] = "sending"
    BY <1>6 DEF ClientPong, ClientReceive, HandleResponse, Goto,
       OrderInv, OnceInv, Inv, TypeOK, ClientTypeOK
  <2>2. SendsOn
    BY <2>1 DEF SendsOn
  <2> QED
    BY <1>1, <2>1, <2>2, UntouchedInOrder
<1>7. ASSUME ClientStep(q)  PROVE InOrder' /\ SendsFromOne'
  <2>1. CASE \E n \in 0 .. FrontHwm : ClientExit(q, n)
    BY <1>4, <2>1 DEF ClientExit
  <2>2. CASE ClientSend(q)
    BY <1>1, <2>2, ClientSendInOrder
  <2>3. CASE ClientResume(q)
    BY <1>1, <2>3, ClientResumeInOrder
  <2> QED
    BY <1>3, <1>6, <1>7, <2>1, <2>2, <2>3 DEF ClientStep
<1>8. ASSUME ClientFails(q)  PROVE InOrder' /\ SendsFromOne'
  BY <1>4, <1>8 DEF ClientFails, ClientCrash
<1> QED
  BY <1>5, <1>7, <1>8
-----------------------------------------------------------------------------
(* The handlers of the broker.                                              *)

(* The oldest requests of a service go to workers: none of them passes one  *)
(* that goes on waiting.                                                    *)
LEMMA PopKeepsBehind ==
  ASSUME NEW a, NEW b, NEW Q, NEW R, Behind(a, b, Q), NEW p \in Place,
         p[1] = "pending", NEW T, Q[p] \in Seq(T),
         NEW n \in Nat, n <= Len(Q[p]), R[p] = AllButOldest(Q[p], n),
         \A x \in Place \ {p} : x[1] \in Waits => R[x] = Q[x],
         Found(Handed, b, R) => Found(Handed, b, Q) \/ Found(Waits, b, Q),
         OneIn(Carrying(b), R)
  PROVE  Behind(a, b, R)
<1>1. /\ Len(Q[p]) \in Nat /\ Len(R[p]) = Len(Q[p]) - n
      /\ \A i \in 1 .. Len(Q[p]) - n : R[p][i] = Q[p][i + n]
  <2> DEFINE q == Q[p]
  <2>1. q \in Seq(T) /\ n <= Len(q) /\ R[p] = AllButOldest(q, n)
    OBVIOUS
  <2> HIDE DEF q
  <2>2. Len(q) \in Nat
    BY <2>1, LenProperties
  <2>3. /\ Len(AllButOldest(q, n)) = Len(q) - n
        /\ \A i \in 1 .. Len(q) - n : AllButOldest(q, n)[i] = q[i + n]
    BY <2>1, AllButOldestProperties
  <2> QED
    BY <2>1, <2>2, <2>3 DEF q
<1>2. ASSUME NEW x \in Place, x[1] \in Waits
      PROVE  Shorter(R[x], Q[x], Both(a, b)[x])
  <2>1. CASE x = p
    BY <2>1, ShorterOfAllButOldest
  <2>2. CASE x # p
    BY <1>2, <2>2, ShorterSame
  <2> QED
    BY <2>1, <2>2
<1>3. ASSUME Found(Handed, b, R), Found(Waits, a, R), ~Found(Handed, b, Q)  PROVE FALSE
  <2>1. PICK y \in Place : y[1] \in Waits /\ ~NoneOf(Q[y], Carrying(b)[y])
    BY <1>3 DEF Found
  <2>2. PICK j \in Positions(Q[y], Carrying(b)[y]) : TRUE
    BY <2>1 DEF NoneOf
  <2>3. \A x \in Place : x[1] \in Waits => NoneOf(R[x], Carrying(b)[x])
    BY <1>3, HandedWaitsNot DEF Found
  <2>4. y = p
    BY <2>1, <2>3
  <2>5. j \in 1 .. Len(Q[p]) /\ Q[p][j] \in Carrying(b)[p]
    BY <2>2, <2>4 DEF Positions
  <2>6. j <= n
    <3> SUFFICES ASSUME ~(j <= n)  PROVE FALSE
      OBVIOUS
    <3>1. j - n \in 1 .. Len(Q[p]) - n /\ j - n + n = j
      BY <1>1, <2>5
    <3>2. j - n \in Positions(R[p], Carrying(b)[p])
      BY <1>1, <2>5, <3>1 DEF Positions
    <3> QED
      BY <2>1, <2>3, <2>4, <3>2 DEF NoneOf
  <2>7. PICK x \in Place : x[1] \in Waits /\ ~NoneOf(R[x], Carrying(a)[x])
    BY <1>3 DEF Found
  <2>8. PICK i \in Positions(R[x], Carrying(a)[x]) : TRUE
    BY <2>7 DEF NoneOf
  <2>9. CASE x # p
    <3>1. i \in Positions(Q[x], Carrying(a)[x])
      BY <2>7, <2>8, <2>9
    <3> QED
      BY <2>1, <2>2, <2>4, <2>7, <2>9, <3>1 DEF Behind, WaitsBehind
  <2>10. CASE x = p
    <3>1. i \in 1 .. Len(Q[p]) - n /\ R[p][i] \in Carrying(a)[p]
      BY <1>1, <2>8, <2>10 DEF Positions
    <3>2. i + n \in Positions(Q[p], Carrying(a)[p])
      BY <1>1, <3>1 DEF Positions
    <3>3. i + n < j
      BY <2>1, <2>2, <2>4, <3>2 DEF Behind, WaitsBehind
    <3> QED
      BY <1>1, <2>5, <2>6, <3>1, <3>3
  <2> QED
    BY <2>9, <2>10
<1> QED
  BY <1>2, <1>3, BehindKept

(* What sendPendingRequests leaves.                                         *)
LEMMA SendPendingLeaves ==
  ASSUME TypeOK, NEW s \in Service, NEW idles \in Seq(WorkerId),
         NEW reqs \in Seq(PendingRequest), SendPendingRequests(s, idles, reqs)
  PROVE  /\ \E n \in Nat : n <= Len(reqs) /\ pending'[s] = AllButOldest(reqs, n)
         /\ \A t \in Service \ {s} : pending'[t] = pending[t]
<1> DEFINE n == MinOf(Len(idles), Len(reqs))
<1>1. n \in Nat /\ n <= Len(reqs)
  BY LenProperties DEF MinOf
<1>2. pending' = [pending EXCEPT ![s] = AllButOldest(reqs, n)]
  BY DEF SendPendingRequests, AllButOldest
<1> HIDE DEF n
<1> QED
  BY <1>1, <1>2 DEF TypeOK, BrokerTypeOK

LEMMA WorkerResponseInOrder ==
  ASSUME OrderInv, OnceInv', [Next]_vars, NEW w \in WorkerId,
         HandleWorkerResponse(w), UNCHANGED clientVars
  PROVE  InOrder' /\ SendsFromOne'
<1> DEFINE m == Head(backUp[w])
<1>1. SendsOn /\ UNCHANGED frontUp
  BY DEF SendsOn, HandleWorkerResponse, clientVars
<1>2. TypeOK
  BY DEF OrderInv, OnceInv, Inv
<1>3. m \in BackUpMsg
  BY <1>2, HeadTailProperties DEF TypeOK, NetTypeOK, HandleWorkerResponse
<1>4. ASSUME NEW s \in Service, SendPendingRequests(s, Append(idle[s], w), pending[s])
      PROVE  InOrder' /\ SendsFromOne'
  <2> DEFINE p == <<"pending", s>>
  <2>1. idle[s] \in Seq(WorkerId) /\ pending[s] \in Seq(PendingRequest)
    BY <1>2 DEF TypeOK, BrokerTypeOK
  <2>2. Append(idle[s], w) \in Seq(WorkerId)
    BY <2>1, AppendProperties
  <2>3. PICK n \in Nat : n <= Len(pending[s]) /\ pending'[s] = AllButOldest(pending[s], n)
    BY <1>2, <1>4, <2>1, <2>2, SendPendingLeaves
  <2>4. \A t \in Service \ {s} : pending'[t] = pending[t]
    BY <1>2, <1>4, <2>1, <2>2, SendPendingLeaves
  <2>5. /\ p \in Place /\ p[1] = "pending"
        /\ Queues[p] = pending[s] /\ Queues'[p] = pending'[s]
    BY DEF Queues, Packed, Place
  <2>6. ASSUME NEW x \in Place \ {p}, x[1] \in Waits  PROVE Queues'[x] = Queues[x]
    <3>1. ASSUME NEW c \in ClientId, x = <<"frontUp", c>>  PROVE Queues'[x] = Queues[x]
      BY <1>1, <3>1 DEF Queues, Packed, Place
    <3>2. ASSUME NEW t \in Service, x = <<"pending", t>>  PROVE Queues'[x] = Queues[x]
      BY <2>4, <2>6, <3>2 DEF Queues, Packed, Place
    <3> QED
      BY <2>6, <3>1, <3>2, PlaceIs DEF Waits
  <2> HIDE DEF p
  <2>7. InOrder'
    <3> SUFFICES ASSUME NEW a \in Body, NEW b \in Body, a[1] = b[1], a[2] < b[2]
                 PROVE  Behind(a, b, Queues')
      BY DEF InOrder
    <3>1. Behind(a, b, Queues)
      BY DEF OrderInv, InOrder
    <3>2. OneIn(Carrying(b), Queues')
      BY DEF OnceInv, SentOnce
    <3>3. Found(Handed, b, Queues') => Found(Handed, b, Queues) \/ Found(Waits, b, Queues)
      BY HandedBefore DEF OrderInv
    <3> QED
      BY <2>1, <2>3, <2>5, <2>6, <3>1, <3>2, <3>3, PopKeepsBehind
  <2>8. /\ \A c \in ClientId : \A S : Shorter(frontUp'[c], frontUp[c], S)
        /\ \A t \in Service : \A S : Shorter(pending'[t], pending[t], S)
    BY <1>1, <2>1, <2>3, <2>4, ShorterSame, ShorterOfAllButOldest
  <2>9. Spares
    BY <2>8, SparesQueues
  <2> QED
    BY <1>1, <2>7, <2>9, SparingFromOne DEF OrderInv
<1>5. CASE m.type = "Ready" /\ HandleReady(w, m.service)
  <2>1. m.service \in Service
    BY <1>3, <1>5 DEF BackUpMsg
  <2> QED
    BY <1>4, <1>5, <2>1 DEF HandleReady
<1>6. CASE m.type = "Reply" /\ HandleReply(w, m.client, m.body)
  <2>1. registered[w] \in Service
    BY <1>2, <1>6 DEF HandleReply, Registered, TypeOK, BrokerTypeOK
  <2> QED
    BY <1>4, <1>6, <2>1 DEF HandleReply
<1>7. CASE \/ HandleHeartbeat(w) \/ HandleUnregistered(w) \/ HandleDisconnect(w)
  <2>1. UNCHANGED pending
    BY <1>7 DEF HandleHeartbeat, HandleUnregistered, HandleDisconnect
  <2> QED
    BY <1>1, <2>1, UntouchedInOrder
<1> QED
  BY <1>5, <1>6, <1>7 DEF HandleWorkerResponse
(* The request m of the client identity c goes from the front socket to the *)
(* end of the pending requests of its service; p and f are the two places.  *)
LEMMA ArrivesInOrder ==
  ASSUME OrderInv, NEW c \in ClientId, frontUp[c] # <<>>,
         NEW m \in FrontUpMsg, m = Head(frontUp[c]), m.type = "Request",
         NEW r \in PendingRequest, r.body = m.body,
         NEW a \in Body, NEW b \in Body, a[1] = b[1], a[2] < b[2]
  PROVE  LET Q == Packed([frontUp EXCEPT ![c] = Tail(@)], frontDown, backUp, backDown,
                         [pending EXCEPT ![m.service] = Append(@, r)], received)
         IN  /\ Behind(a, b, Q)
             /\ Found(Waits, b, Queues) => Found(Waits, b, Q)
             /\ Found(Handed, b, Queues) => Found(Handed, b, Q)
<1> DEFINE fu == [frontUp EXCEPT ![c] = Tail(@)]
           pe == [pending EXCEPT ![m.service] = Append(@, r)]
           Q == Packed(fu, frontDown, backUp, backDown, pe, received)
           s == m.service
           f == <<"frontUp", c>>
           p == <<"pending", s>>
           L == Len(pending[s])
           Comes(x, i) == x = p /\ i = L + 1
           old(x, i) == IF x = f THEN i + 1 ELSE i
<1>1. s \in Service /\ m.body \in Body
  BY DEF FrontUpMsg
<1>2. /\ frontUp \in [ClientId -> Seq(FrontUpMsg)] /\ frontUp[c] \in Seq(FrontUpMsg)
      /\ pending \in [Service -> Seq(PendingRequest)]
      /\ pending[s] \in Seq(PendingRequest)
  BY <1>1 DEF OrderInv, OnceInv, Inv, TypeOK, NetTypeOK, BrokerTypeOK
<1>3. /\ f \in Place /\ Queues[f] = frontUp[c] /\ Q[f] = Tail(frontUp[c])
      /\ p \in Place /\ Queues[p] = pending[s] /\ Q[p] = Append(pending[s], r)
      /\ f[1] = "frontUp" /\ p[1] = "pending" /\ f # p
  BY <1>1, <1>2 DEF Queues, Packed, Place
<1>4. ASSUME NEW x \in Place, x # f, x # p  PROVE Q[x] = Queues[x]
  <2>1. ASSUME NEW e \in ClientId, x = <<"frontUp", e>>  PROVE Q[x] = Queues[x]
    BY <1>2, <1>4, <2>1 DEF Queues, Packed, Place
  <2>2. ASSUME NEW e \in ClientId, x = <<"frontDown", e>>  PROVE Q[x] = Queues[x]
    BY <2>2 DEF Queues, Packed, Place
  <2>3. ASSUME NEW w \in WorkerId, x = <<"backUp", w>> \/ x = <<"backDown", w>>
        PROVE  Q[x] = Queues[x]
    BY <2>3 DEF Queues, Packed, Place
  <2>4. ASSUME NEW t \in Service, x = <<"pending", t>>  PROVE Q[x] = Queues[x]
    BY <1>2, <1>4, <2>4 DEF Queues, Packed, Place
  <2>5. ASSUME NEW k \in ClientProc, x = <<"received", k>>  PROVE Q[x] = Queues[x]
    BY <2>5 DEF Queues, Packed, Place
  <2> QED
    BY <2>1, <2>2, <2>3, <2>4, <2>5, PlaceIs
<1> HIDE DEF Q, fu, pe
<1>5. /\ Len(frontUp[c]) \in Nat /\ Len(frontUp[c]) >= 1 /\ frontUp[c][1] = m
      /\ Len(Tail(frontUp[c])) = Len(frontUp[c]) - 1
      /\ \A i \in 1 .. Len(frontUp[c]) - 1 : Tail(frontUp[c])[i] = frontUp[c][i + 1]
  BY <1>2, HeadTailProperties, LenProperties, EmptySeq
<1>6. /\ L \in Nat /\ Len(Append(pending[s], r)) = L + 1
      /\ \A i \in 1 .. L : Append(pending[s], r)[i] = pending[s][i]
      /\ Append(pending[s], r)[L + 1] = r
  BY <1>2, AppendProperties, LenProperties
<1>7. ASSUME NEW e
      PROVE  /\ m \in Carrying(e)[f] <=> e = m.body
             /\ r \in Carrying(e)[p] <=> e = m.body
  <2>1. \A z : z \in Carrying(e)[f]
                 <=> z \in FrontUpMsg /\ z.type = "Request" /\ z.body = e
    BY CarryingAt
  <2>2. \A z : z \in Carrying(e)[p] <=> z \in PendingRequest /\ z.body = e
    BY <1>1, CarryingAt
  <2> QED
    BY <2>1, <2>2
<1>8. WantOf[m.body[1]] = s
  <2>1. NoneOf(frontUp[c], Misaddressed)
    BY DEF OrderInv, ServiceInv, Sorted
  <2>2. m \notin Misaddressed
    BY <1>5, <2>1 DEF NoneOf, Positions
  <2> QED
    BY <2>2 DEF Misaddressed
<1>9. ASSUME NEW t \in Service, NEW e, ~NoneOf(pending[t], Carrying(e)[<<"pending", t>>])
      PROVE  WantOf[e[1]] = t
  <2>1. NoneOf(pending[t], Mislaid(t))
    BY DEF OrderInv, ServiceInv, Sorted
  <2>2. PICK i \in Positions(pending[t], Carrying(e)[<<"pending", t>>]) : TRUE
    BY <1>9 DEF NoneOf
  <2>3. pending[t][i] \in PendingRequest /\ pending[t][i].body = e
    BY <2>2, CarryingAt DEF Positions
  <2> QED
    BY <2>1, <2>2, <2>3 DEF Mislaid, NoneOf, Positions
<1> HIDE DEF s, f, p, L
<1>10. ASSUME NEW e, NEW x \in Place, x[1] \in Waits,
              NEW i \in Positions(Q[x], Carrying(e)[x])
       PROVE  /\ i \in Nat \ {0}
              /\ ~Comes(x, i) => old(x, i) \in Positions(Queues[x], Carrying(e)[x])
              /\ Comes(x, i) => e = m.body /\ 1 \in Positions(Queues[f], Carrying(e)[f])
  <2>1. CASE x = f
    <3>1. i \in 1 .. Len(frontUp[c]) - 1 /\ Tail(frontUp[c])[i] \in Carrying(e)[f]
      BY <1>3, <1>5, <1>10, <2>1 DEF Positions
    <3>2. i + 1 \in 1 .. Len(frontUp[c]) /\ frontUp[c][i + 1] \in Carrying(e)[f]
      BY <1>5, <3>1
    <3>3. i + 1 \in Positions(Queues[x], Carrying(e)[x])
      BY <1>3, <2>1, <3>2 DEF Positions
    <3>4. ~Comes(x, i) /\ old(x, i) = i + 1 /\ i \in Nat \ {0}
      BY <1>3, <2>1, <3>1
    <3> QED
      BY <3>3, <3>4
  <2>2. CASE x = p
    <3>1. i \in 1 .. L + 1 /\ Append(pending[s], r)[i] \in Carrying(e)[p]
      BY <1>3, <1>6, <1>10, <2>2 DEF Positions
    <3>2. CASE i = L + 1
      <4>1. e = m.body
        BY <1>6, <1>7, <3>1, <3>2
      <4>2. 1 \in Positions(Queues[f], Carrying(e)[f])
        <5>1. 1 \in 1 .. Len(frontUp[c]) /\ frontUp[c][1] \in Carrying(e)[f]
          BY <1>5, <1>7, <4>1
        <5> QED
          BY <1>3, <5>1 DEF Positions
      <4> QED
        BY <1>6, <2>2, <3>2, <4>1, <4>2
    <3>3. CASE i # L + 1
      <4>1. i \in 1 .. L /\ pending[s][i] \in Carrying(e)[p]
        BY <1>6, <3>1, <3>3
      <4>2. i \in Positions(Queues[x], Carrying(e)[x])
        BY <1>3, <2>2, <4>1 DEF Positions, L
      <4>3. ~Comes(x, i) /\ old(x, i) = i /\ i \in Nat \ {0}
        BY <1>3, <2>2, <3>3, <4>1
      <4> QED
        BY <4>2, <4>3
    <3> QED
      BY <3>2, <3>3
  <2>3. CASE x # f /\ x # p
    <3>1. i \in Positions(Queues[x], Carrying(e)[x])
      BY <1>4, <1>10, <2>3
    <3>2. i \in Nat \ {0}
      BY <3>1 DEF Positions
    <3> QED
      BY <2>3, <3>1, <3>2
  <2> QED
    BY <2>1, <2>2, <2>3
<1>11. Behind(a, b, Queues)
  BY DEF OrderInv, InOrder
<1>12. ASSUME NEW x \in Place, NEW y \in Place, x[1] \in Waits, y[1] \in Waits,
              NEW i \in Positions(Q[x], Carrying(a)[x]),
              NEW j \in Positions(Q[y], Carrying(b)[y])
       PROVE  (x = y /\ i < j) \/ (x[1] = "pending" /\ y[1] = "frontUp")
  <2>1. /\ i \in Nat \ {0}
        /\ ~Comes(x, i) => old(x, i) \in Positions(Queues[x], Carrying(a)[x])
        /\ Comes(x, i) => a = m.body /\ 1 \in Positions(Queues[f], Carrying(a)[f])
    BY <1>10, <1>12
  <2>2. /\ j \in Nat \ {0}
        /\ ~Comes(y, j) => old(y, j) \in Positions(Queues[y], Carrying(b)[y])
        /\ Comes(y, j) => b = m.body /\ 1 \in Positions(Queues[f], Carrying(b)[f])
    BY <1>10, <1>12
  <2>3. f[1] \in Waits
    BY <1>3 DEF Waits
  <2>4. CASE ~Comes(x, i) /\ ~Comes(y, j)
    <3>1. \/ x = y /\ old(x, i) < old(y, j)
          \/ x[1] = "pending" /\ y[1] = "frontUp"
      BY <1>11, <1>12, <2>1, <2>2, <2>4 DEF Behind, WaitsBehind
    <3> QED
      BY <2>1, <2>2, <3>1
  <2>5. CASE ~Comes(x, i) /\ Comes(y, j)
    <3>1. \/ x = f /\ old(x, i) < 1
          \/ x[1] = "pending"
      <4> DEFINE k == old(x, i)
      <4>1. /\ k \in Positions(Queues[x], Carrying(a)[x])
            /\ 1 \in Positions(Queues[f], Carrying(b)[f])
        BY <2>1, <2>2, <2>5
      <4> HIDE DEF k
      <4>2. (x = f /\ k < 1) \/ x[1] = "pending"
        BY <1>3, <1>11, <1>12, <2>3, <4>1 DEF Behind, WaitsBehind
      <4> QED
        BY <4>2 DEF k
    <3>2. x[1] = "pending"
      BY <2>1, <3>1
    <3>3. PICK t \in Service : x = <<"pending", t>>
      BY <3>2, PlaceIs
    <3>4. old(x, i) \in Positions(pending[t], Carrying(a)[<<"pending", t>>])
      <4>1. Queues[x] = pending[t]
        BY <3>3 DEF Queues, Packed, Place
      <4> QED
        BY <2>1, <2>5, <3>3, <4>1
    <3>5. WantOf[a[1]] = t
      BY <1>9, <3>4 DEF NoneOf
    <3>6. x = p
      BY <1>8, <2>2, <2>5, <3>3, <3>5 DEF p
    <3>7. i \in 1 .. L + 1
      BY <1>3, <1>6, <3>6 DEF Positions
    <3> QED
      BY <1>6, <2>5, <3>6, <3>7
  <2>6. CASE Comes(x, i) /\ ~Comes(y, j)
    <3>1. f = y
      BY <1>3, <1>11, <1>12, <2>1, <2>2, <2>3, <2>6 DEF Behind, WaitsBehind
    <3> QED
      BY <1>3, <2>6, <3>1
  <2>7. CASE Comes(x, i) /\ Comes(y, j)
    <3>1. a = b /\ a[2] \in Nat
      BY <2>1, <2>2, <2>7 DEF Body
    <3> QED
      BY <3>1
  <2> QED
    BY <2>4, <2>5, <2>6, <2>7
<1>13. ASSUME NEW x \in Place, x[1] \in Handed  PROVE Q[x] = Queues[x]
  <2>1. x # f /\ x # p
    BY <1>3, <1>13 DEF Handed, Works, Returns, Read
  <2> QED
    BY <1>4, <2>1
<1>14. Found(Handed, b, Q) <=> Found(Handed, b, Queues)
  BY <1>13 DEF Found
<1>15. ASSUME Found(Waits, a, Q)  PROVE Found(Waits, a, Queues)
  <2>1. PICK x \in Place : x[1] \in Waits /\ ~NoneOf(Q[x], Carrying(a)[x])
    BY <1>15 DEF Found
  <2>2. PICK i \in Positions(Q[x], Carrying(a)[x]) : TRUE
    BY <2>1 DEF NoneOf
  <2>3. \/ ~NoneOf(Queues[x], Carrying(a)[x])
        \/ ~NoneOf(Queues[f], Carrying(a)[f])
    BY <1>10, <2>1, <2>2 DEF NoneOf
  <2>4. f[1] \in Waits
    BY <1>3 DEF Waits
  <2> QED
    BY <1>3, <2>1, <2>3, <2>4 DEF Found
<1>16. ASSUME Found(Waits, b, Queues)  PROVE Found(Waits, b, Q)
  <2>1. PICK x \in Place : x[1] \in Waits /\ ~NoneOf(Queues[x], Carrying(b)[x])
    BY <1>16 DEF Found
  <2>2. PICK i \in Positions(Queues[x], Carrying(b)[x]) : TRUE
    BY <2>1 DEF NoneOf
  <2>3. CASE x = f
    <3>1. i \in 1 .. Len(frontUp[c]) /\ frontUp[c][i] \in Carrying(b)[f]
      BY <1>3, <2>2, <2>3 DEF Positions
    <3>2. CASE i = 1
      <4>1. r \in Carrying(b)[p]
        BY <1>5, <1>7, <3>1, <3>2
      <4>2. L + 1 \in 1 .. L + 1 /\ Q[p][L + 1] = r /\ Len(Q[p]) = L + 1
        BY <1>3, <1>6
      <4>3. L + 1 \in Positions(Q[p], Carrying(b)[p])
        BY <4>1, <4>2 DEF Positions
      <4> QED
        BY <1>3, <4>3 DEF Found, NoneOf, Waits
    <3>3. CASE i # 1
      <4>1. i - 1 \in 1 .. Len(frontUp[c]) - 1 /\ i - 1 + 1 = i
        BY <1>5, <3>1, <3>3
      <4>2. i - 1 \in Positions(Q[f], Carrying(b)[f])
        BY <1>3, <1>5, <3>1, <4>1 DEF Positions
      <4> QED
        BY <1>3, <4>2 DEF Found, NoneOf, Waits
    <3> QED
      BY <3>2, <3>3
  <2>4. CASE x = p
    <3>1. i \in 1 .. L /\ pending[s][i] \in Carrying(b)[p]
      BY <1>3, <2>2, <2>4 DEF Positions, L
    <3>2. i \in 1 .. L + 1 /\ Append(pending[s], r)[i] \in Carrying(b)[p]
      BY <1>6, <3>1
    <3>3. i \in Positions(Q[p], Carrying(b)[p])
      BY <1>3, <1>6, <3>2 DEF Positions
    <3> QED
      BY <2>1, <2>4, <3>3 DEF Found, NoneOf
  <2>5. CASE x # f /\ x # p
    BY <1>4, <2>1, <2>5 DEF Found
  <2> QED
    BY <2>3, <2>4, <2>5
<1> HIDE DEF Comes, old
<1>17. WaitsBehind(a, b, Q)
  BY <1>12 DEF WaitsBehind
<1> QED
  BY <1>11, <1>14, <1>15, <1>16, <1>17 DEF Behind, Q, fu, pe
LEMMA ClientRequestInOrder ==
  ASSUME OrderInv, OnceInv', [Next]_vars, NEW c \in ClientId,
         HandleClientRequest(c), UNCHANGED clientVars
  PROVE  InOrder' /\ SendsFromOne'
<1> DEFINE m == Head(frontUp[c])
           s == m.service
<1>1. /\ frontUp[c] # <<>> /\ frontUp' = [frontUp EXCEPT ![c] = Tail(@)]
      /\ UNCHANGED <<backUp, received>>
  BY DEF HandleClientRequest, clientVars
<1>2. SendsOn
  BY DEF SendsOn, clientVars
<1>3. /\ TypeOK
      /\ frontUp \in [ClientId -> Seq(FrontUpMsg)]
      /\ backDown \in [WorkerId -> Seq(BackDownMsg)]
      /\ pending \in [Service -> Seq(PendingRequest)]
  BY DEF OrderInv, OnceInv, Inv, TypeOK, NetTypeOK, BrokerTypeOK
<1>4. m \in FrontUpMsg
  BY <1>1, <1>3, HeadTailProperties
<1>5. \A d \in ClientId : \A S : Shorter(frontUp'[d], frontUp[d], S)
  <2> TAKE d \in ClientId
  <2> TAKE S
  <2>1. frontUp[d] \in Seq(FrontUpMsg)
    BY <1>3
  <2>2. CASE d = c
    <3>1. frontUp'[c] = Tail(frontUp[c])
      BY <1>1, <1>3
    <3> QED
      BY <1>1, <2>1, <2>2, <3>1, ShorterOfTail
  <2>3. CASE d # c
    <3>1. frontUp'[d] = frontUp[d]
      BY <1>1, <1>3, <2>3
    <3> QED
      BY <3>1, ShorterSame
  <2> QED
    BY <2>2, <2>3
<1>6. ASSUME UNCHANGED <<pending, backDown>>  PROVE InOrder' /\ SendsFromOne'
  <2>1. Spares
    BY <1>5, <1>6, ShorterSame, SparesQueues
  <2>2. \A w \in WorkerId : \A S : NoMore(backDown'[w], backDown[w], S)
    BY <1>6, NoMoreOfSame
  <2> QED
    BY <1>2, <2>1, <2>2, GivingNothingInOrder
<1>7. ASSUME m.type = "Request", HandleKnownService(c, s, m.body)
      PROVE  InOrder' /\ SendsFromOne'
  <2> DEFINE r == [client |-> c, body |-> m.body]
             reqs == Append(pending[s], r)
             fu == [frontUp EXCEPT ![c] = Tail(@)]
             pe == [pending EXCEPT ![s] = Append(@, r)]
             Q == Packed(fu, frontDown, backUp, backDown, pe, received)
             p == <<"pending", s>>
  <2>1. s \in Service /\ m.body \in Body
    BY <1>4, <1>7 DEF FrontUpMsg
  <2>2. r \in PendingRequest /\ r.body = m.body
    BY <2>1 DEF PendingRequest
  <2>3. idle[s] \in Seq(WorkerId) /\ pending[s] \in Seq(PendingRequest)
    BY <1>3, <2>1 DEF TypeOK, BrokerTypeOK
  <2>4. SendPendingRequests(s, idle[s], reqs)
    BY <1>7 DEF HandleKnownService
  <2> HIDE DEF s, m, r
  <2>5. reqs \in Seq(PendingRequest)
    BY <2>2, <2>3, AppendProperties
  <2>6. PICK n \in Nat : n <= Len(reqs) /\ pending'[s] = AllButOldest(reqs, n)
    BY <1>3, <2>1, <2>3, <2>4, <2>5, SendPendingLeaves
  <2>7. \A t \in Service \ {s} : pending'[t] = pending[t]
    BY <1>3, <2>1, <2>3, <2>4, <2>5, SendPendingLeaves
  <2>8. pe[s] = reqs /\ \A t \in Service \ {s} : pe[t] = pending[t]
    BY <1>3, <2>1
  <2> HIDE DEF pe, reqs
  <2>9. /\ p \in Place /\ p[1] = "pending"
        /\ Q[p] = reqs /\ Queues'[p] = pending'[s]
    BY <2>1, <2>8 DEF Queues, Packed, Place
  <2>10. ASSUME NEW x \in Place \ {p}, x[1] \in Waits  PROVE Queues'[x] = Q[x]
    <3>1. ASSUME NEW d \in ClientId, x = <<"frontUp", d>>  PROVE Queues'[x] = Q[x]
      BY <1>1, <3>1 DEF Queues, Packed, Place
    <3>2. ASSUME NEW t \in Service, x = <<"pending", t>>  PROVE Queues'[x] = Q[x]
      BY <2>7, <2>8, <2>10, <3>2 DEF Queues, Packed, Place
    <3> HIDE DEF Q
    <3>3. \/ \E d \in ClientId : x = <<"frontUp", d>>
          \/ \E t \in Service : x = <<"pending", t>>
      <4> HIDE DEF p, fu
      <4> QED
        BY <2>10, PlaceIs DEF Waits
    <3> QED
      BY <3>1, <3>2, <3>3
  <2>11. InOrder'
    <3> SUFFICES ASSUME NEW a \in Body, NEW b \in Body, a[1] = b[1], a[2] < b[2]
                 PROVE  Behind(a, b, Queues')
      BY DEF InOrder
    <3>1. /\ Behind(a, b, Q)
          /\ Found(Waits, b, Queues) => Found(Waits, b, Q)
          /\ Found(Handed, b, Queues) => Found(Handed, b, Q)
      BY <1>1, <1>4, <1>7, <2>2, ArrivesInOrder DEF pe, s, m
    <3>2. OneIn(Carrying(b), Queues')
      BY DEF OnceInv, SentOnce
    <3>3. Found(Handed, b, Queues') => Found(Handed, b, Queues) \/ Found(Waits, b, Queues)
      BY HandedBefore DEF OrderInv
    <3> HIDE DEF Q, p
    <3> QED
      BY <2>5, <2>6, <2>9, <2>10, <3>1, <3>2, <3>3, PopKeepsBehind
  <2>12. SendsFromOne'
    <3> SUFFICES ASSUME NEW b \in Body, NEW e \in ClientId, cPhase'[b[1]] = "sending",
                        ~NoneOf(frontUp'[e], Carrying(b)[<<"frontUp", e>>])
                 PROVE  e = cId'[b[1]]
      BY DEF SendsFromOne
    <3>1. ~NoneOf(frontUp[e], Carrying(b)[<<"frontUp", e>>])
      BY <1>5 DEF Shorter, NoneOf
    <3> QED
      BY <3>1 DEF OrderInv, SendsFromOne, clientVars
  <2> QED
    BY <2>11, <2>12
<1>8. CASE m.type = "Discovery" /\ HandleDiscovery(c, s)
  BY <1>6, <1>8 DEF HandleDiscovery
<1>9. CASE m.type = "Request" /\ HandleUnknownService(s)
  BY <1>6, <1>9 DEF HandleUnknownService
<1> QED
  BY <1>7, <1>8, <1>9 DEF HandleClientRequest

LEMMA BrokerInOrder ==
  ASSUME OrderInv, OnceInv', [Next]_vars, BrokerStep
  PROVE  InOrder' /\ SendsFromOne'
<1>1. UNCHANGED clientVars
  BY DEF BrokerStep
<1>2. CASE BrokerWait \/ Housekeeping
  <2>1. SendsOn /\ UNCHANGED <<pending, frontUp>>
    BY <1>1, <1>2 DEF SendsOn, clientVars, BrokerWait, Housekeeping, netVars
  <2> QED
    BY <2>1, UntouchedInOrder
<1> QED
  BY <1>1, <1>2, WorkerResponseInOrder, ClientRequestInOrder DEF BrokerStep, BrokerNext

LEMMA StepKeepsOrder == OrderInv /\ [Next]_vars => OrderInv'
<1> SUFFICES ASSUME OrderInv, [Next]_vars  PROVE OrderInv'
  OBVIOUS
<1>1. OnceInv' /\ ServiceInv'
  BY StepKeepsOnce, StepKeepsServices DEF OrderInv
<1>2. ASSUME StartBroker \/ Tick \/ UNCHANGED vars  PROVE InOrder' /\ SendsFromOne'
  <2>1. UNCHANGED <<pending, frontUp, cPhase, cId>>
    BY <1>2 DEF StartBroker, BrokerStart, Tick, BrokerTick, ClientTick, vars,
       netVars, brokerVars, clientVars
  <2>2. SendsOn
    BY <2>1 DEF SendsOn
  <2> QED
    BY <1>1, <2>1, <2>2, UntouchedInOrder
<1>3. InOrder' /\ SendsFromOne'
  BY <1>1, <1>2, BrokerInOrder, WorkersInOrder, ClientsInOrder, FailuresInOrder
  DEF Next, Step, Fault
<1> QED
  BY <1>1, <1>3 DEF OrderInv

(* The requests of a client are given to workers in the order in which it   *)
(* sent them: what waits of them is in one socket and in one queue of the   *)
(* broker, both first in, first out, and no failure, no reconnection of a   *)
(* worker and no purge puts a request back.                                 *)
THEOREM GivenAsSent == Spec => []GivenInOrder
<1>1. Init => OrderInv
  <2> SUFFICES ASSUME Init  PROVE OrderInv
    OBVIOUS
  <2>1. OnceInv /\ ServiceInv
    BY InitOnceInv, InitServices
  <2>2. \A b \in Body : NoneIn(Carrying(b), Queues)
    <3> TAKE b \in Body
    <3>1. b[2] > sent[b[1]]
      BY NetAssumption DEF Init, ClientInit, Body
    <3> QED
      BY <2>1, <3>1 DEF OnceInv, SentOnce
  <2>3. InOrder
    BY <2>2 DEF InOrder, Behind, WaitsBehind, Found, NoneIn, NoneOf
  <2>4. SendsFromOne
    BY DEF SendsFromOne, Init, ClientInit, Body
  <2> QED
    BY <2>1, <2>3, <2>4 DEF OrderInv
<1>2. OrderInv => GivenInOrder
  <2> SUFFICES ASSUME OrderInv, NEW q \in ClientProc, NEW n \in Waiting(q),
                      NEW k \in Given(q), ~(k < n)
               PROVE  FALSE
    BY DEF GivenInOrder
  <2> DEFINE a == <<q, n>>
             b == <<q, k>>
  <2>1. /\ n \in 1 .. Requests /\ k \in 1 .. Requests /\ n \in Nat /\ k \in Nat
        /\ a \in Body /\ b \in Body /\ a[1] = b[1] /\ a[2] = n /\ b[2] = k
    BY NetAssumption DEF Waiting, Given, Body
  <2>2. /\ \A c \in ClientId : /\ frontUp[c] \in Seq(FrontUpMsg)
                               /\ frontDown[c] \in Seq(FrontDownMsg)
        /\ \A w \in WorkerId : /\ backUp[w] \in Seq(BackUpMsg)
                               /\ backDown[w] \in Seq(BackDownMsg)
        /\ \A s \in Service : pending[s] \in Seq(PendingRequest)
    BY DEF OrderInv, OnceInv, Inv, TypeOK, NetTypeOK, BrokerTypeOK
  <2> HIDE DEF a, b
  <2>3. Found(Waits, a, Queues)
    <3>1. ASSUME NEW c \in ClientId, NEW i \in 1 .. Len(frontUp[c]),
                 frontUp[c][i].type = "Request", frontUp[c][i].body = a
          PROVE  Found(Waits, a, Queues)
      <4> DEFINE x == <<"frontUp", c>>
      <4>1. x \in Place /\ x[1] \in Waits /\ Queues[x] = frontUp[c]
        BY DEF Queues, Packed, Place, Waits
      <4>2. frontUp[c][i] \in FrontUpMsg
        BY <2>2, LenProperties
      <4>3. \A z : z \in Carrying(a)[x]
                     <=> z \in FrontUpMsg /\ z.type = "Request" /\ z.body = a
        BY CarryingAt
      <4>4. frontUp[c][i] \in Carrying(a)[x]
        BY <3>1, <4>2, <4>3
      <4> QED
        BY <4>1, <4>4 DEF Found, NoneOf, Positions
    <3>2. ASSUME NEW s \in Service, NEW i \in 1 .. Len(pending[s]),
                 pending[s][i].body = a
          PROVE  Found(Waits, a, Queues)
      <4> DEFINE x == <<"pending", s>>
      <4>1. x \in Place /\ x[1] \in Waits /\ Queues[x] = pending[s]
        BY DEF Queues, Packed, Place, Waits
      <4>2. pending[s][i] \in PendingRequest
        BY <2>2, LenProperties
      <4>3. pending[s][i] \in Carrying(a)[x]
        BY <3>2, <4>2, CarryingAt
      <4> QED
        BY <4>1, <4>3 DEF Found, NoneOf, Positions
    <3> QED
      BY <3>1, <3>2 DEF Waiting, a
  <2>4. Found(Handed, b, Queues)
    <3>1. ASSUME NEW w \in WorkerId, NEW i \in 1 .. Len(backDown[w]),
                 backDown[w][i].type = "Request", backDown[w][i].body = b
          PROVE  Found(Handed, b, Queues)
      <4> DEFINE x == <<"backDown", w>>
      <4>1. x \in Place /\ x[1] \in Handed /\ Queues[x] = backDown[w]
        BY DEF Queues, Packed, Place, Handed, Works
      <4>2. backDown[w][i] \in BackDownMsg
        BY <2>2, LenProperties
      <4>3. \A z : z \in Carrying(b)[x]
                     <=> z \in BackDownMsg /\ z.type = "Request" /\ z.body = b
        BY CarryingAt
      <4>4. backDown[w][i] \in Carrying(b)[x]
        BY <3>1, <4>2, <4>3
      <4> QED
        BY <4>1, <4>4 DEF Found, NoneOf, Positions
    <3>2. ASSUME NEW w \in WorkerId, NEW i \in 1 .. Len(backUp[w]),
                 backUp[w][i].type = "Reply", backUp[w][i].body = b
          PROVE  Found(Handed, b, Queues)
      <4> DEFINE x == <<"backUp", w>>
      <4>1. x \in Place /\ x[1] \in Handed /\ Queues[x] = backUp[w]
        BY DEF Queues, Packed, Place, Handed, Returns
      <4>2. backUp[w][i] \in BackUpMsg
        BY <2>2, LenProperties
      <4>3. \A z : z \in Carrying(b)[x]
                     <=> z \in BackUpMsg /\ z.type = "Reply" /\ z.body = b
        BY CarryingAt
      <4>4. backUp[w][i] \in Carrying(b)[x]
        BY <3>2, <4>2, <4>3
      <4> QED
        BY <4>1, <4>4 DEF Found, NoneOf, Positions
    <3>3. ASSUME NEW c \in ClientId, NEW i \in 1 .. Len(frontDown[c]),
                 frontDown[c][i].type = "Reply", frontDown[c][i].body = b
          PROVE  Found(Handed, b, Queues)
      <4> DEFINE x == <<"frontDown", c>>
      <4>1. x \in Place /\ x[1] \in Handed /\ Queues[x] = frontDown[c]
        BY DEF Queues, Packed, Place, Handed, Returns
      <4>2. frontDown[c][i] \in FrontDownMsg
        BY <2>2, LenProperties
      <4>3. \A z : z \in Carrying(b)[x]
                     <=> z \in FrontDownMsg /\ z.type = "Reply" /\ z.body = b
        BY CarryingAt
      <4>4. frontDown[c][i] \in Carrying(b)[x]
        BY <3>3, <4>2, <4>3
      <4> QED
        BY <4>1, <4>4 DEF Found, NoneOf, Positions
    <3>4. ASSUME NEW i \in 1 .. Len(received[q]), received[q][i] = b
          PROVE  Found(Handed, b, Queues)
      <4> DEFINE x == <<"received", q>>
      <4>1. x \in Place /\ x[1] \in Handed /\ Queues[x] = received[q]
        BY DEF Queues, Packed, Place, Handed, Read
      <4>2. received[q][i] \in Carrying(b)[x]
        BY <3>4, CarryingAt
      <4> QED
        BY <4>1, <4>2 DEF Found, NoneOf, Positions
    <3> QED
      BY <3>1, <3>2, <3>3, <3>4 DEF Given, b
  <2>5. CASE n < k
    BY <2>1, <2>3, <2>4, <2>5 DEF OrderInv, InOrder, Behind
  <2>6. CASE n = k
    <3>1. a = b
      BY <2>6 DEF a, b
    <3>2. OneIn(Carrying(b), Queues)
      BY <2>1 DEF OrderInv, OnceInv, SentOnce
    <3> QED
      BY <2>3, <2>4, <3>1, <3>2, HandedWaitsNot
  <2> QED
    BY <2>1, <2>5, <2>6
<1> QED
  BY <1>1, <1>2, StepKeepsOrder, PTL DEF Spec
=============================================================================
