--------------------------- MODULE MajordomoProofs ---------------------------
(***************************************************************************)
(* The synchronous Majordomo, for any numbers of workers, clients,         *)
(* services, requests and crashes.                                         *)
(*                                                                         *)
(* Two things move through its queues: the worker that the broker counts   *)
(* on, as a Ready or a Reply, an entry of a pool and a Request; and a      *)
(* request, through the front socket, pendingRequests, a worker and back.  *)
(* A selection says what to look for at each place, Found what there is of *)
(* it.  Every handler takes it from one place to the next, and crashes     *)
(* only leave less of it.  So a worker is in one place at most             *)
(* (OneRequestPerWorker); and since a request is, too, no second reply     *)
(* waits for a client when its socket asks for the next one (AnswerFits).  *)
(***************************************************************************)
EXTENDS Majordomo, QueueProofs

Place ==
  ({"asked", "answers"} \X {"front"}) \cup ({"pending", "idle"} \X Service)
  \cup ({"down", "up"} \X WorkerId)

Held(S, front, replies, reqs, pool, downs, ups) ==
  [p \in Place |-> CASE p[1] = "asked" -> front \cap S[p]
                     [] p[1] = "answers" -> replies \cap S[p]
                     [] p[1] = "pending" -> Positions(reqs[p[2]], S[p])
                     [] p[1] = "idle" -> Positions(pool[p[2]], S[p])
                     [] p[1] = "down" -> Positions(downs[p[2]], S[p])
                     [] p[1] = "up" -> Positions(ups[p[2]], S[p])]

Found(S) == Held(S, asked, answers, pending, idle, backDown, backUp)

(* The selections: what stands for the worker w, what for the requests A.   *)
Work == {m \in DownMsg : m.type = "Request"}
Claims == {m \in UpMsg : m.type \in {"Ready", "Reply"}}

RequestsFor(A) == {Request(a) : a \in A}
RepliesTo(A) == {Reply(a) : a \in A}

TokensOf(w) ==
  [p \in Place |-> CASE p[1] = "idle" -> {w}
                     [] p = <<"down", w>> -> Work
                     [] p = <<"up", w>> -> Claims
                     [] OTHER -> {}]

Bearing(A) ==
  [p \in Place |-> CASE p[1] \in {"asked", "answers", "pending"} -> A
                     [] p[1] = "down" -> RequestsFor(A)
                     [] p[1] = "up" -> RepliesTo(A)
                     [] p[1] = "idle" -> {}]

Selection(S) ==
  \/ \E w \in WorkerId : S = TokensOf(w)
  \/ \E A \in SUBSET Ask : S = Bearing(A)

AsksOf(x) == {a \in Ask : a.addr = x}

(* What no socket of a client may find: a request of a socket that it has   *)
(* not opened yet, or of the present one but not what it waits for.         *)
Wrong ==
  {a \in Ask :
     LET c == a.addr[1]
     IN  \/ a.addr[2] > conn[c]
         \/ a.addr = At(c) /\ ~(cPhase[c] = "waiting" /\ a.n = n[c])}

Readies == {Ready(s) : s \in Service}

(* An identity is not registered while its Ready waits.                     *)
ReadyIsNew ==
  \A w \in WorkerId :
    registered[w] # NoService => NoneOf(backUp[w], Readies)

(* Each request costs at most Retries sockets.                              *)
SocketsUsed ==
  \A c \in Client :
    IF cPhase[c] = "waiting"
      THEN n[c] >= 1 /\ conn[c] <= (n[c] - 1) * Retries + retries[c]
      ELSE retries[c] = 0 /\ conn[c] <= n[c] * Retries

SleepersAreOpen == \A p \in WorkerProc : nap[p] # -1 => wId[p] # NoId

TokensAreAlone == \A w \in WorkerId : OneAmong(Place, Found(TokensOf(w)))

AsksAreAlone ==
  /\ \A x \in Address : OneAmong(Place, Found(Bearing(AsksOf(x))))
  /\ NoneAmong(Place, Found(Bearing(Wrong)))

MajordomoInv ==
  /\ Inv /\ ReadyIsNew /\ SocketsUsed /\ SleepersAreOpen
  /\ TokensAreAlone /\ AsksAreAlone

-----------------------------------------------------------------------------
(* Messages.                                                                *)

LEMMA Messages ==
  /\ \A m \in UpMsg :
       \/ m.type = "Ready" /\ m.service \in Service /\ m = Ready(m.service)
       \/ m.type = "Reply" /\ m.ask \in Ask /\ m = Reply(m.ask)
       \/ m.type = "Heartbeat" /\ m = Heartbeat
  /\ \A m \in DownMsg :
       \/ m.type = "Request" /\ m.ask \in Ask /\ m = Request(m.ask)
       \/ m.type = "Heartbeat" /\ m = Heartbeat
  /\ \A s \in Service : Ready(s) \in UpMsg /\ Ready(s).type = "Ready"
  /\ \A a \in Ask : /\ Reply(a) \in UpMsg /\ Reply(a).type = "Reply"
                    /\ Request(a) \in DownMsg /\ Request(a).type = "Request"
  /\ \A a : Reply(a).ask = a /\ Request(a).ask = a
            /\ Reply(a).type = "Reply" /\ Request(a).type = "Request"
  /\ Heartbeat \in UpMsg /\ Heartbeat \in DownMsg /\ Heartbeat.type = "Heartbeat"
<1>1. /\ \A s : Ready(s).type = "Ready" /\ Ready(s).service = s
      /\ \A a : Reply(a).type = "Reply" /\ Reply(a).ask = a
      /\ \A a : Request(a).type = "Request" /\ Request(a).ask = a
      /\ Heartbeat.type = "Heartbeat"
  BY DEF Ready, Reply, Request, Heartbeat
<1>2. ASSUME NEW m \in UpMsg
      PROVE  \/ m.type = "Ready" /\ m.service \in Service /\ m = Ready(m.service)
             \/ m.type = "Reply" /\ m.ask \in Ask /\ m = Reply(m.ask)
             \/ m.type = "Heartbeat" /\ m = Heartbeat
  <2>1. \/ \E s \in Service : m = Ready(s)
        \/ \E a \in Ask : m = Reply(a)
        \/ m = Heartbeat
    BY DEF UpMsg
  <2> QED
    BY <1>1, <2>1
<1>3. ASSUME NEW m \in DownMsg
      PROVE  \/ m.type = "Request" /\ m.ask \in Ask /\ m = Request(m.ask)
             \/ m.type = "Heartbeat" /\ m = Heartbeat
  <2>1. (\E a \in Ask : m = Request(a)) \/ m = Heartbeat
    BY DEF DownMsg
  <2> QED
    BY <1>1, <2>1
<1>4. /\ \A s \in Service : Ready(s) \in UpMsg
      /\ \A a \in Ask : Reply(a) \in UpMsg /\ Request(a) \in DownMsg
      /\ Heartbeat \in UpMsg /\ Heartbeat \in DownMsg
  BY DEF UpMsg, DownMsg
<1> QED
  BY <1>1, <1>2, <1>3, <1>4

LEMMA MessagesAbout ==
  ASSUME NEW A
  PROVE  /\ \A a : Request(a) \in RequestsFor(A) <=> a \in A
         /\ \A a : Reply(a) \in RepliesTo(A) <=> a \in A
         /\ Heartbeat \notin RequestsFor(A) /\ Heartbeat \notin RepliesTo(A)
         /\ \A s : Ready(s) \notin RepliesTo(A)
<1>1. /\ \A a, b : Reply(a) = Reply(b) => a = b
      /\ \A a, b : Request(a) = Request(b) => a = b
      /\ \A a : Heartbeat # Reply(a) /\ Heartbeat # Request(a)
  BY Messages
<1>2. \A a, s : Ready(s) # Reply(a)
  <2>1. \A s : Ready(s).type = "Ready"
    BY DEF Ready
  <2> QED
    BY <2>1, Messages
<1> QED
  BY <1>1, <1>2 DEF RequestsFor, RepliesTo

LEMMA OneSaid ==
  ASSUME NEW m \in UpMsg
  PROVE  <<m>> \in Seq(UpMsg) /\ <<>> \in Seq(UpMsg)
OBVIOUS

LEMMA AskParts ==
  ASSUME NEW a \in Ask
  PROVE  /\ a.addr \in Address /\ a.n \in 1 .. Requests
         /\ a.addr[1] \in Client /\ a.addr[2] \in 0 .. Requests * Retries
         /\ a.addr = <<a.addr[1], a.addr[2]>>
BY DEF Ask, Address

LEMMA Typed ==
  ASSUME TypeOK
  PROVE  /\ \A s \in Service : idle[s] \in Seq(WorkerId) /\ pending[s] \in Seq(Ask)
         /\ \A w \in WorkerId : /\ backUp[w] \in Seq(UpMsg)
                                /\ backDown[w] \in Seq(DownMsg)
         /\ idle \in [Service -> Seq(WorkerId)] /\ pending \in [Service -> Seq(Ask)]
         /\ backUp \in [WorkerId -> Seq(UpMsg)]
         /\ backDown \in [WorkerId -> Seq(DownMsg)]
BY DEF TypeOK, BrokerTypeOK

-----------------------------------------------------------------------------
(* Places.                                                                  *)

LEMMA Places ==
  /\ <<"asked", "front">> \in Place /\ <<"answers", "front">> \in Place
  /\ \A s \in Service : <<"pending", s>> \in Place /\ <<"idle", s>> \in Place
  /\ \A w \in WorkerId : <<"down", w>> \in Place /\ <<"up", w>> \in Place
  /\ \A p \in Place :
       \/ p = <<"asked", "front">> \/ p = <<"answers", "front">>
       \/ \E s \in Service : p = <<"pending", s>> \/ p = <<"idle", s>>
       \/ \E w \in WorkerId : p = <<"down", w>> \/ p = <<"up", w>>
BY DEF Place

LEMMA HeldAt ==
  ASSUME NEW S, NEW front, NEW replies, NEW reqs, NEW pool,
         NEW downs, NEW ups, NEW H,
         H = Held(S, front, replies, reqs, pool, downs, ups)
  PROVE  /\ H[<<"asked", "front">>] = front \cap S[<<"asked", "front">>]
         /\ H[<<"answers", "front">>] = replies \cap S[<<"answers", "front">>]
         /\ \A s \in Service :
              /\ H[<<"pending", s>>] = Positions(reqs[s], S[<<"pending", s>>])
              /\ H[<<"idle", s>>] = Positions(pool[s], S[<<"idle", s>>])
         /\ \A w \in WorkerId :
              /\ H[<<"down", w>>] = Positions(downs[w], S[<<"down", w>>])
              /\ H[<<"up", w>>] = Positions(ups[w], S[<<"up", w>>])
BY Places DEF Held

(* Place by place, but for the places D.                                    *)
LEMMA HeldFewer ==
  ASSUME NEW S, NEW D, NEW fr, NEW an, NEW pe, NEW id, NEW dn, NEW us,
         NEW fr2, NEW an2, NEW pe2, NEW id2, NEW dn2, NEW us2,
         <<"asked", "front">> \in D \/ fr2 \cap S[<<"asked", "front">>] \subseteq fr,
         \/ <<"answers", "front">> \in D
         \/ an2 \cap S[<<"answers", "front">>] \subseteq an,
         \A s \in Service :
           /\ <<"pending", s>> \in D \/ NoMore(pe2[s], pe[s], S[<<"pending", s>>])
           /\ <<"idle", s>> \in D \/ NoMore(id2[s], id[s], S[<<"idle", s>>]),
         \A w \in WorkerId :
           /\ <<"down", w>> \in D \/ NoMore(dn2[w], dn[w], S[<<"down", w>>])
           /\ <<"up", w>> \in D \/ NoMore(us2[w], us[w], S[<<"up", w>>])
  PROVE  \A p \in Place \ D : Fewer(Held(S, fr2, an2, pe2, id2, dn2, us2)[p],
                                    Held(S, fr, an, pe, id, dn, us)[p])
<1>f. PICK F : F = Held(S, fr, an, pe, id, dn, us)
  OBVIOUS
<1>g. PICK G : G = Held(S, fr2, an2, pe2, id2, dn2, us2)
  OBVIOUS
<1>1. \A X, Y : Y \subseteq X => Fewer(Y, X)
  BY DEF Fewer, AtMostOne
<1>2. /\ F[<<"asked", "front">>] = fr \cap S[<<"asked", "front">>]
      /\ F[<<"answers", "front">>] = an \cap S[<<"answers", "front">>]
      /\ \A s \in Service :
           /\ F[<<"pending", s>>] = Positions(pe[s], S[<<"pending", s>>])
           /\ F[<<"idle", s>>] = Positions(id[s], S[<<"idle", s>>])
      /\ \A w \in WorkerId :
           /\ F[<<"down", w>>] = Positions(dn[w], S[<<"down", w>>])
           /\ F[<<"up", w>>] = Positions(us[w], S[<<"up", w>>])
  BY <1>f, HeldAt, SMTT(60)
<1>3. /\ G[<<"asked", "front">>] = fr2 \cap S[<<"asked", "front">>]
      /\ G[<<"answers", "front">>] = an2 \cap S[<<"answers", "front">>]
      /\ \A s \in Service :
           /\ G[<<"pending", s>>] = Positions(pe2[s], S[<<"pending", s>>])
           /\ G[<<"idle", s>>] = Positions(id2[s], S[<<"idle", s>>])
      /\ \A w \in WorkerId :
           /\ G[<<"down", w>>] = Positions(dn2[w], S[<<"down", w>>])
           /\ G[<<"up", w>>] = Positions(us2[w], S[<<"up", w>>])
  BY <1>g, HeldAt
<1> SUFFICES ASSUME NEW p \in Place \ D
             PROVE  Fewer(G[p], F[p])
  BY <1>f, <1>g
<1>4. CASE p = <<"asked", "front">> \/ p = <<"answers", "front">>
  <2>1. G[p] \subseteq F[p]
    BY <1>2, <1>3, <1>4
  <2> QED
    BY <1>1, <2>1
<1>5. ASSUME NEW s \in Service, p = <<"pending", s>> \/ p = <<"idle", s>>
      PROVE  Fewer(G[p], F[p])
  <2>1. CASE p = <<"pending", s>>
    BY <1>2, <1>3, <2>1, FewerIsNoMore
  <2>2. CASE p = <<"idle", s>>
    BY <1>2, <1>3, <2>2, FewerIsNoMore
  <2> QED
    BY <1>5, <2>1, <2>2
<1>6. ASSUME NEW w \in WorkerId, p = <<"down", w>> \/ p = <<"up", w>>
      PROVE  Fewer(G[p], F[p])
  <2>1. CASE p = <<"down", w>>
    BY <1>2, <1>3, <2>1, FewerIsNoMore
  <2>2. CASE p = <<"up", w>>
    BY <1>2, <1>3, <2>2, FewerIsNoMore
  <2> QED
    BY <1>6, <2>1, <2>2
<1> QED
  BY <1>4, <1>5, <1>6, Places

-----------------------------------------------------------------------------
(* Selections.                                                              *)

LEMMA TokensAt ==
  ASSUME NEW w \in WorkerId, NEW S, S = TokensOf(w)
  PROVE  /\ S[<<"asked", "front">>] = {} /\ S[<<"answers", "front">>] = {}
         /\ \A s \in Service : S[<<"pending", s>>] = {} /\ S[<<"idle", s>>] = {w}
         /\ \A x \in WorkerId :
              /\ S[<<"down", x>>] = IF x = w THEN Work ELSE {}
              /\ S[<<"up", x>>] = IF x = w THEN Claims ELSE {}
BY Places, SMTT(30) DEF TokensOf

LEMMA BearingAt ==
  ASSUME NEW A
  PROVE  /\ Bearing(A)[<<"asked", "front">>] = A
         /\ Bearing(A)[<<"answers", "front">>] = A
         /\ \A s \in Service : /\ Bearing(A)[<<"pending", s>>] = A
                               /\ Bearing(A)[<<"idle", s>>] = {}
         /\ \A w \in WorkerId : /\ Bearing(A)[<<"down", w>>] = RequestsFor(A)
                                /\ Bearing(A)[<<"up", w>>] = RepliesTo(A)
BY Places, SMTT(30) DEF Bearing

(* A worker makes a reply of interest only out of a request of interest,    *)
(* and heartbeats are of none.                                              *)
LEMMA Follows ==
  ASSUME NEW S, Selection(S), NEW w \in WorkerId
  PROVE  /\ Heartbeat \notin S[<<"up", w>>] /\ Heartbeat \notin S[<<"down", w>>]
         /\ \A a \in Ask : Reply(a) \in S[<<"up", w>>] <=> Request(a) \in S[<<"down", w>>]
<1>1. ASSUME NEW v \in WorkerId, S = TokensOf(v)
      PROVE  /\ Heartbeat \notin S[<<"up", w>>] /\ Heartbeat \notin S[<<"down", w>>]
             /\ \A a \in Ask :
                  Reply(a) \in S[<<"up", w>>] <=> Request(a) \in S[<<"down", w>>]
  <2>1. /\ S[<<"down", w>>] = IF w = v THEN Work ELSE {}
        /\ S[<<"up", w>>] = IF w = v THEN Claims ELSE {}
    BY <1>1, TokensAt
  <2>2. /\ Heartbeat \notin Work /\ Heartbeat \notin Claims
        /\ \A a \in Ask : Reply(a) \in Claims /\ Request(a) \in Work
    BY Messages DEF Work, Claims
  <2> QED
    BY <2>1, <2>2
<1>2. ASSUME NEW A, S = Bearing(A)
      PROVE  /\ Heartbeat \notin S[<<"up", w>>] /\ Heartbeat \notin S[<<"down", w>>]
             /\ \A a \in Ask :
                  Reply(a) \in S[<<"up", w>>] <=> Request(a) \in S[<<"down", w>>]
  <2>1. /\ S[<<"down", w>>] = RequestsFor(A)
        /\ S[<<"up", w>>] = RepliesTo(A)
    BY <1>2, BearingAt
  <2> QED
    BY <2>1, MessagesAbout
<1> QED
  BY <1>1, <1>2 DEF Selection

-----------------------------------------------------------------------------
(* What the steps do to what is found of a selection.                       *)

LEMMA FoundAt ==
  ASSUME NEW S
  PROVE  /\ Found(S)[<<"asked", "front">>] = asked \cap S[<<"asked", "front">>]
         /\ Found(S)[<<"answers", "front">>] = answers \cap S[<<"answers", "front">>]
         /\ \A s \in Service :
              /\ Found(S)[<<"pending", s>>] = Positions(pending[s], S[<<"pending", s>>])
              /\ Found(S)[<<"idle", s>>] = Positions(idle[s], S[<<"idle", s>>])
         /\ \A w \in WorkerId :
              /\ Found(S)[<<"down", w>>] = Positions(backDown[w], S[<<"down", w>>])
              /\ Found(S)[<<"up", w>>] = Positions(backUp[w], S[<<"up", w>>])
BY HeldAt DEF Found

LEMMA FoundAtThen ==
  ASSUME NEW S
  PROVE  /\ Found(S)'[<<"asked", "front">>] = asked' \cap S[<<"asked", "front">>]
         /\ Found(S)'[<<"answers", "front">>] = answers' \cap S[<<"answers", "front">>]
         /\ \A s \in Service :
              /\ Found(S)'[<<"pending", s>>] = Positions(pending'[s], S[<<"pending", s>>])
              /\ Found(S)'[<<"idle", s>>] = Positions(idle'[s], S[<<"idle", s>>])
         /\ \A w \in WorkerId :
              /\ Found(S)'[<<"down", w>>] = Positions(backDown'[w], S[<<"down", w>>])
              /\ Found(S)'[<<"up", w>>] = Positions(backUp'[w], S[<<"up", w>>])
BY HeldAt DEF Found

LEMMA FoundUntouched ==
  ASSUME UNCHANGED <<asked, answers, pending, idle, backDown, backUp>>, NEW S
  PROVE  Found(S)' = Found(S)
BY DEF Found

(* Whatever is only lost, at any of the places.                             *)
LEMMA FoundFewer ==
  ASSUME NEW S,
         asked' \cap S[<<"asked", "front">>] \subseteq asked,
         answers' \cap S[<<"answers", "front">>] \subseteq answers,
         \A s \in Service :
           /\ NoMore(pending'[s], pending[s], S[<<"pending", s>>])
           /\ NoMore(idle'[s], idle[s], S[<<"idle", s>>]),
         \A w \in WorkerId :
           /\ NoMore(backDown'[w], backDown[w], S[<<"down", w>>])
           /\ NoMore(backUp'[w], backUp[w], S[<<"up", w>>])
  PROVE  NotMore(Place, Found(S)', Found(S))
<1>1. \A p \in Place \ {} : Fewer(Found(S)'[p], Found(S)[p])
  BY HeldFewer DEF Found
<1> QED
  BY <1>1, FewerEach

LEMMA NoMoreOfNothing ==
  ASSUME NEW q, NEW r
  PROVE  NoMore(r, q, {})
BY DEF NoMore, NoneOf, OneOf, Positions

(* A message for no place where it is of interest.                          *)
LEMMA NoMoreWithoutInterest ==
  ASSUME NEW T, NEW q \in Seq(T), NEW m \in T, NEW S, m \notin S
  PROVE  NoMore(Append(q, m), q, S)
BY NoMoreOfAppend

LEMMA HousekeepingCarries ==
  ASSUME TypeOK, NEW S, Selection(S), Housekeeping
  PROVE  NotMore(Place, Found(S)', Found(S))
<1>1. ASSUME NEW s \in Service
      PROVE  NoMore(idle'[s], idle[s], S[<<"idle", s>>])
  <2> DEFINE I == {i \in DOMAIN idle[s] : ~(idle[s][i] \in Expired
                                           /\ registered[idle[s][i]] = s)}
  <2>1. idle'[s] = Pick(idle[s], I) /\ idle[s] \in Seq(WorkerId)
    BY Typed DEF Housekeeping
  <2>2. I \in SUBSET (1 .. Len(idle[s]))
    BY <2>1, LenProperties
  <2> HIDE DEF I
  <2> QED
    BY <2>1, <2>2, NoMoreOfPick
<1>2. ASSUME NEW w \in WorkerId
      PROVE  NoMore(backDown'[w], backDown[w], S[<<"down", w>>])
  <2>1. backDown[w] \in Seq(DownMsg) /\ Heartbeat \in DownMsg
    BY Typed, Messages
  <2>2. \/ backDown'[w] = backDown[w]
        \/ backDown'[w] = Append(backDown[w], Heartbeat)
    BY DEF Housekeeping
  <2> QED
    BY <2>1, <2>2, Follows, NoMoreOfAppend, NoMoreOfSame
<1>3. UNCHANGED <<asked, answers, pending, backUp>>
  BY DEF Housekeeping, frontVars
<1> QED
  BY <1>1, <1>2, <1>3, FoundFewer, NoMoreOfSame

LEMMA BrokerCrashCarries ==
  ASSUME TypeOK, NEW S, Selection(S), BrokerCrash
  PROVE  NotMore(Place, Found(S)', Found(S))
<1>1. asked' \subseteq asked /\ answers' \subseteq answers
  BY DEF BrokerCrash
<1>2. \A s \in Service : idle'[s] = <<>> /\ pending'[s] = <<>>
  BY DEF BrokerCrash, EmptyMaps
<1>3. PICK cut \in [WorkerId -> 0 .. MaxCut], left \in [WorkerId -> 0 .. MaxCut] :
        /\ \A w \in WorkerId :
             cut[w] <= Len(backUp[w]) /\ left[w] <= Len(backDown[w])
        /\ backUp' = [w \in WorkerId |->
                        SubSeq(backUp[w], cut[w] + 1, Len(backUp[w]))]
        /\ backDown' = [w \in WorkerId |-> SubSeq(backDown[w], 1, left[w])]
  BY DEF BrokerCrash
<1>4. ASSUME NEW w \in WorkerId
      PROVE  /\ NoMore(backDown'[w], backDown[w], S[<<"down", w>>])
             /\ NoMore(backUp'[w], backUp[w], S[<<"up", w>>])
  <2>1. /\ backDown[w] \in Seq(DownMsg) /\ backUp[w] \in Seq(UpMsg)
        /\ Len(backUp[w]) \in Nat
    BY Typed, LenProperties
  <2>2. /\ cut[w] \in Nat /\ left[w] \in Nat
        /\ left[w] <= Len(backDown[w])
    BY <1>3
  <2>3. /\ backUp'[w] = SubSeq(backUp[w], cut[w] + 1, Len(backUp[w]))
        /\ backDown'[w] = SubSeq(backDown[w], 1, left[w])
    BY <1>3
  <2>4. NoMore(backUp'[w], backUp[w], S[<<"up", w>>])
    <3>1. cut[w] + 1 \in Nat \ {0} /\ Len(backUp[w]) <= Len(backUp[w])
      BY <2>1, <2>2
    <3> QED
      BY <2>1, <2>3, <3>1, NoMoreOfSubSeq
  <2>5. NoMore(backDown'[w], backDown[w], S[<<"down", w>>])
    BY <2>1, <2>2, <2>3, NoMoreOfSubSeq
  <2> QED
    BY <2>4, <2>5
<1> QED
  BY <1>1, <1>2, <1>4, FoundFewer, NoMoreOfEmpty

(* An entry that is added where there was none.                             *)
LEMMA OneAdded ==
  ASSUME NEW T, NEW q \in Seq(T), NEW x \in T, NEW S, Positions(q, S) = {}
  PROVE  AtMostOne(Positions(Append(q, x), S))
BY NoMoreOfAppend DEF NoneOf, OneOf, AtMostOne

LEMMA HandleReadyCarries ==
  ASSUME TypeOK, NEW S, Selection(S), NEW w \in WorkerId, HandleWorkerResponse(w),
         NEW s \in Service, Head(backUp[w]) = Ready(s), HandleReady(w, s)
  PROVE  NotMore(Place, Found(S)', Found(S))
<1> DEFINE a == <<"up", w>>
           d == <<"idle", s>>
<1>1. /\ backUp[w] # <<>> /\ backUp' = [backUp EXCEPT ![w] = Tail(@)]
      /\ idle' = [idle EXCEPT ![s] = Append(@, w)]
      /\ UNCHANGED <<asked, answers, pending, backDown>>
  BY DEF HandleWorkerResponse, HandleReady
<1>2. /\ backUp \in [WorkerId -> Seq(UpMsg)] /\ idle \in [Service -> Seq(WorkerId)]
      /\ backUp[w] \in Seq(UpMsg) /\ idle[s] \in Seq(WorkerId)
  BY Typed
<1>3. /\ \A x \in WorkerId : NoMore(backUp'[x], backUp[x], S[<<"up", x>>])
      /\ \A t \in Service : t # s => NoMore(idle'[t], idle[t], S[<<"idle", t>>])
      /\ idle'[s] = Append(idle[s], w) /\ backUp'[w] = Tail(backUp[w])
  BY <1>1, <1>2, HeadFound, NoMoreOfSame
<1>4. CASE w \notin S[d]
  <2>1. NoMore(idle'[s], idle[s], S[<<"idle", s>>])
    BY <1>2, <1>3, <1>4, NoMoreOfAppend
  <2>2. \A t \in Service : NoMore(idle'[t], idle[t], S[<<"idle", t>>])
    BY <1>3, <2>1
  <2> QED
    BY <1>1, <1>3, <2>2, FoundFewer, NoMoreOfSame
<1>5. CASE w \in S[d]
  <2>1. S = TokensOf(w)
    <3>1. ASSUME NEW v \in WorkerId, S = TokensOf(v)
          PROVE  v = w
      <4>1. S[<<"idle", s>>] = {v}
        BY <3>1, TokensAt, ZenonT(40)
      <4> QED
        BY <1>5, <4>1
    <3>2. ASSUME NEW A, S = Bearing(A)
          PROVE  FALSE
      BY <1>5, <3>2, BearingAt
    <3> QED
      BY <3>1, <3>2 DEF Selection
  <2>2. S[a] = Claims
    BY <2>1, TokensAt
  <2>3. Ready(s) \in Claims
    BY Messages DEF Claims
  <2>4. a \in Place /\ d \in Place /\ a # d
    BY Places
  <2>5. /\ Positions(backUp[w], S[a]) # {}
        /\ AtMostOne(Positions(backUp[w], S[a])) => Positions(backUp'[w], S[a]) = {}
    BY <1>1, <1>2, <1>3, <2>2, <2>3, HeadFound
  <2>6. Positions(idle[s], S[d]) = {} => AtMostOne(Positions(idle'[s], S[d]))
    BY <1>2, <1>3, OneAdded
  <2>7. \A p \in Place \ {d} : Fewer(Found(S)'[p], Found(S)[p])
    BY <1>1, <1>3, HeldFewer, NoMoreOfSame DEF Found
  <2>8. /\ Found(S)[a] = Positions(backUp[w], S[a])
        /\ Found(S)[d] = Positions(idle[s], S[d])
    BY FoundAt
  <2>9. /\ Found(S)'[a] = Positions(backUp'[w], S[a])
        /\ Found(S)'[d] = Positions(idle'[s], S[d])
    BY FoundAtThen
  <2> HIDE DEF a, d
  <2> QED
    BY <2>4, <2>5, <2>6, <2>7, <2>8, <2>9, OneMoved
<1> QED
  BY <1>4, <1>5

LEMMA HandleReplyCarries ==
  ASSUME TypeOK, NEW S, Selection(S), NEW w \in WorkerId, HandleWorkerResponse(w),
         NEW a \in Ask, Head(backUp[w]) = Reply(a), HandleReply(w, a)
  PROVE  NotMore(Place, Found(S)', Found(S))
<1> DEFINE o == <<"up", w>>
<1>1. /\ backUp[w] # <<>> /\ backUp' = [backUp EXCEPT ![w] = Tail(@)]
      /\ UNCHANGED <<asked, pending, backDown>>
  BY DEF HandleWorkerResponse
<1>2. /\ backUp \in [WorkerId -> Seq(UpMsg)] /\ idle \in [Service -> Seq(WorkerId)]
      /\ backUp[w] \in Seq(UpMsg)
      /\ registered[w] \in Service \cup {NoService}
  BY Typed DEF TypeOK, BrokerTypeOK
<1>3. /\ \A x \in WorkerId : NoMore(backUp'[x], backUp[x], S[<<"up", x>>])
      /\ \A x \in WorkerId : NoMore(backDown'[x], backDown[x], S[<<"down", x>>])
      /\ \A t \in Service : NoMore(pending'[t], pending[t], S[<<"pending", t>>])
      /\ backUp'[w] = Tail(backUp[w])
  BY <1>1, <1>2, HeadFound, NoMoreOfSame
<1>4. CASE w \notin Registered
  <2>1. UNCHANGED <<idle, answers>>
    BY <1>4 DEF HandleReply
  <2> QED
    BY <1>1, <1>3, <2>1, FoundFewer, NoMoreOfSame
<1>5. CASE w \in Registered
  <2>1. PICK s \in Service : s = registered[w]
    BY <1>2, <1>5 DEF Registered
  <2>2. /\ idle' = [idle EXCEPT ![s] = Append(@, w)]
        /\ answers' \subseteq answers \cup {a} /\ idle[s] \in Seq(WorkerId)
    BY <1>2, <1>5, <2>1 DEF HandleReply
  <2>3. \A t \in Service : t # s => NoMore(idle'[t], idle[t], S[<<"idle", t>>])
    BY <1>2, <2>2, NoMoreOfSame
  <2>4. idle'[s] = Append(idle[s], w)
    BY <1>2, <2>2
  <2>5. o \in Place /\ <<"idle", s>> \in Place /\ <<"answers", "front">> \in Place
        /\ o # <<"idle", s>> /\ o # <<"answers", "front">>
    BY Places
  <2>6. ASSUME Reply(a) \in S[o]
        PROVE  /\ Found(S)[o] # {}
               /\ AtMostOne(Found(S)[o]) => Found(S)'[o] = {}
    <3>e. PICK q : q = backUp[w]
      OBVIOUS
    <3>1. /\ Positions(q, S[o]) # {}
          /\ AtMostOne(Positions(q, S[o])) => Positions(backUp'[w], S[o]) = {}
      <4>1. q \in Seq(UpMsg) /\ q # <<>> /\ Head(q) \in S[o] /\ backUp'[w] = Tail(q)
        BY <1>1, <1>2, <1>3, <2>6, <3>e
      <4> HIDE DEF o
      <4> QED
        BY <4>1, HeadFound
    <3>2. Found(S)[o] = Positions(backUp[w], S[o])
      BY FoundAt
    <3>3. Found(S)'[o] = Positions(backUp'[w], S[o])
      BY FoundAtThen
    <3> QED
      BY <3>e, <3>1, <3>2, <3>3
  <2>7. ASSUME NEW v \in WorkerId, S = TokensOf(v)
        PROVE  NotMore(Place, Found(S)', Found(S))
    <3>0. /\ S[<<"answers", "front">>] = {}
          /\ \A t \in Service : S[<<"idle", t>>] = {v}
          /\ \A x \in WorkerId : S[<<"up", x>>] = IF x = v THEN Claims ELSE {}
      <4> HIDE DEF o
      <4> QED
        BY <2>7, TokensAt, ZenonT(40)
    <3>1. /\ S[<<"answers", "front">>] = {} /\ S[<<"idle", s>>] = {v}
          /\ S[o] = IF w = v THEN Claims ELSE {}
      BY <3>0
    <3>2. \A p \in Place \ {<<"idle", s>>} : Fewer(Found(S)'[p], Found(S)[p])
      BY <1>1, <1>3, <2>3, <3>1, HeldFewer DEF Found
    <3>3. CASE v = w
      <4>1. Reply(a) \in S[o]
        BY <3>1, <3>3, Messages DEF Claims
      <4>2. Positions(idle[s], {v}) = {} => AtMostOne(Positions(idle'[s], {v}))
        BY <2>2, <2>4, OneAdded
      <4>3. Found(S)[<<"idle", s>>] = Positions(idle[s], {v})
        BY <3>1, FoundAt
      <4>4. Found(S)'[<<"idle", s>>] = Positions(idle'[s], {v})
        BY <3>1, FoundAtThen
      <4> HIDE DEF o
      <4> QED
        BY <2>5, <2>6, <3>2, <4>1, <4>2, <4>3, <4>4, OneMoved
    <3>4. CASE v # w
      <4>1. NoMore(idle'[s], idle[s], S[<<"idle", s>>])
        BY <2>2, <2>4, <3>1, <3>4, NoMoreOfAppend
      <4>2. \A t \in Service : NoMore(idle'[t], idle[t], S[<<"idle", t>>])
        BY <2>3, <4>1
      <4> QED
        BY <1>1, <1>3, <3>1, <4>2, FoundFewer
    <3> QED
      BY <3>3, <3>4
  <2>8. ASSUME NEW A, S = Bearing(A)
        PROVE  NotMore(Place, Found(S)', Found(S))
    <3>1. /\ S[<<"answers", "front">>] = A
          /\ \A t \in Service : S[<<"idle", t>>] = {}
          /\ \A x \in WorkerId : S[<<"up", x>>] = RepliesTo(A)
      <4>1. S = Bearing(A)
        BY <2>8
      <4> QED
        BY <4>1, BearingAt
    <3>2. \A t \in Service : NoMore(idle'[t], idle[t], S[<<"idle", t>>])
      BY <3>1, NoMoreOfNothing
    <3>3. CASE a \in A
      <4>1. Reply(a) \in S[o]
        BY <3>1, <3>3, MessagesAbout
      <4>2. \A p \in Place \ {<<"answers", "front">>} :
              Fewer(Found(S)'[p], Found(S)[p])
        BY <1>1, <1>3, <3>2, HeldFewer DEF Found
      <4>3. Found(S)[<<"answers", "front">>] = answers \cap A
        BY <3>1, FoundAt
      <4>4. Found(S)'[<<"answers", "front">>] = answers' \cap A
        BY <3>1, FoundAtThen
      <4>5. Found(S)[<<"answers", "front">>] = {}
              => AtMostOne(Found(S)'[<<"answers", "front">>])
        BY <2>2, <4>3, <4>4 DEF AtMostOne
      <4> HIDE DEF o
      <4> QED
        BY <2>5, <2>6, <4>1, <4>2, <4>5, OneMoved
    <3>4. CASE a \notin A
      <4>1. answers' \cap S[<<"answers", "front">>] \subseteq answers
        BY <2>2, <3>1, <3>4
      <4> QED
        BY <1>1, <1>3, <3>2, <4>1, FoundFewer
    <3> QED
      BY <3>3, <3>4
  <2> QED
    BY <2>7, <2>8 DEF Selection
<1> QED
  BY <1>4, <1>5

LEMMA WorkerResponseCarries ==
  ASSUME TypeOK, NEW S, Selection(S), NEW w \in WorkerId, HandleWorkerResponse(w)
  PROVE  NotMore(Place, Found(S)', Found(S))
<1>1. PICK m : m = Head(backUp[w])
  OBVIOUS
<1>2. /\ backUp[w] # <<>> /\ backUp[w] \in Seq(UpMsg)
      /\ backUp \in [WorkerId -> Seq(UpMsg)]
      /\ backUp' = [backUp EXCEPT ![w] = Tail(@)]
      /\ UNCHANGED <<asked, pending, backDown>>
  BY Typed DEF HandleWorkerResponse
<1>3. m \in UpMsg
  BY <1>1, <1>2, HeadFound
<1>4. CASE m.type = "Ready" /\ HandleReady(w, m.service)
  <2>1. m.service \in Service /\ m = Ready(m.service)
    BY <1>3, <1>4, Messages
  <2> QED
    BY <1>1, <1>4, <2>1, HandleReadyCarries
<1>5. CASE m.type = "Reply" /\ HandleReply(w, m.ask)
  <2>1. m.ask \in Ask /\ m = Reply(m.ask)
    BY <1>3, <1>5, Messages
  <2> QED
    BY <1>1, <1>5, <2>1, HandleReplyCarries
<1>6. CASE m.type = "Heartbeat" /\ HandleHeartbeat(w)
  <2>1. UNCHANGED <<idle, answers>>
    BY <1>6 DEF HandleHeartbeat
  <2>2. \A x \in WorkerId : NoMore(backUp'[x], backUp[x], S[<<"up", x>>])
    BY <1>2, HeadFound, NoMoreOfSame
  <2> QED
    BY <1>2, <2>1, <2>2, FoundFewer, NoMoreOfSame
<1> QED
  BY <1>1, <1>4, <1>5, <1>6 DEF HandleWorkerResponse

-----------------------------------------------------------------------------
(* handleClientRequest.                                                     *)

(* What a worker is given comes from as many places among the first m.      *)
Origins(f, g, w, workers, reqs, m) ==
  /\ \A k \in 1 .. Len(g) :
       f[k] \in 1 .. m /\ workers[f[k]] = w /\ g[k] = Request(reqs[f[k]])
  /\ \A k, l \in 1 .. Len(g) : f[k] = f[l] => k = l

LEMMA GivenElements ==
  ASSUME NEW w \in WorkerId, NEW workers, NEW reqs \in Seq(Ask),
         NEW m \in Nat, m <= Len(reqs), NEW g, g = Given(w, workers, reqs, m)
  PROVE  g \in Seq(DownMsg) /\ \E f : Origins(f, g, w, workers, reqs, m)
<1>1. CASE w \notin peers
  <2>1. g = <<>>
    BY <1>1 DEF Given
  <2>2. g \in Seq(DownMsg) /\ Len(g) = 0
    BY <2>1
  <2>3. \A k \in 1 .. Len(g) : FALSE
    BY <2>2
  <2> QED
    BY <2>2, <2>3 DEF Origins
<1>2. CASE w \in peers
  <2> DEFINE q == [k \in 1 .. m |-> Request(reqs[k])]
             I == {k \in 1 .. m : workers[k] = w}
             f == [k \in 1 .. Cardinality(I) |-> Nth(I, k)]
  <2>1. g = Pick(q, I)
    BY <1>2 DEF Given
  <2>2. \A k \in 1 .. m : reqs[k] \in Ask
    BY ElementOfSeq, LenProperties
  <2>3. \A k \in 1 .. m : q[k] \in DownMsg
    BY <2>2, Messages
  <2>4. q \in Seq(DownMsg) /\ Len(q) = m
    BY <2>3
  <2>5. I \in SUBSET (1 .. m) /\ I \in SUBSET (1 .. Len(q))
    BY <2>4
  <2>6. /\ \A k \in I : workers[k] = w
        /\ \A k \in 1 .. m : q[k] = Request(reqs[k])
        /\ \A k \in 1 .. Cardinality(I) : f[k] = Nth(I, k)
    OBVIOUS
  <2> HIDE DEF q, I, f
  <2>7. /\ g \in Seq(DownMsg) /\ Len(g) = Cardinality(I)
        /\ \A k \in 1 .. Cardinality(I) : Nth(I, k) \in I /\ g[k] = q[Nth(I, k)]
    BY <2>1, <2>4, <2>5, PickPositions, SMTT(30)
  <2>8. \A k, l \in 1 .. Cardinality(I) : Nth(I, k) = Nth(I, l) => k = l
    BY <2>5, NthProperties
  <2>9. \A k \in 1 .. Len(g) :
          f[k] \in 1 .. m /\ workers[f[k]] = w /\ g[k] = Request(reqs[f[k]])
    BY <2>5, <2>6, <2>7
  <2>h. \A k, l \in 1 .. Len(g) : f[k] = f[l] => k = l
    BY <2>6, <2>7, <2>8
  <2> QED
    BY <2>7, <2>9, <2>h DEF Origins
<1> QED
  BY <1>1, <1>2

(* Nobody is given anything who is not among them, or more than there are.  *)
LEMMA GivenOnce ==
  ASSUME NEW w \in WorkerId, NEW workers \in Seq(WorkerId), NEW reqs \in Seq(Ask),
         NEW m \in Nat, m <= Len(reqs), m <= Len(workers), NEW V, w \in V, NEW X,
         NEW b \in Seq(DownMsg), NEW g, g = Given(w, workers, reqs, m)
  PROVE  /\ (\A k \in 1 .. m : workers[k] # w) => NoMore(b \o g, b, X)
         /\ AtMostOne(Positions(workers, V)) /\ NoneOf(b, X) => OneOf(b \o g, X)
<1>1. g \in Seq(DownMsg)
  BY GivenElements
<1>2. PICK f : Origins(f, g, w, workers, reqs, m)
  BY GivenElements
<1>3. \A k \in 1 .. m : k \in 1 .. Len(workers)
  BY LenProperties
<1>4. \A k \in Positions(g, X) : k \in 1 .. Len(g)
  BY DEF Positions
<1>5. \A k \in Positions(g, X) : f[k] \in 1 .. m /\ workers[f[k]] = w
  BY <1>2, <1>4 DEF Origins
<1>6. \A k \in Positions(g, X) : f[k] \in Positions(workers, V)
  BY <1>3, <1>5 DEF Positions
<1>7. \A k, l \in Positions(g, X) : f[k] = f[l] => k = l
  BY <1>2, <1>4 DEF Origins
<1>8. AtMostOne(Positions(workers, V)) => OneOf(g, X)
  BY <1>6, <1>7, OneByMap
<1>9. (\A k \in 1 .. m : workers[k] # w) => NoneOf(g, X)
  BY <1>5 DEF NoneOf
<1> QED
  BY <1>1, <1>8, <1>9, NoMoreOfConcat

(* A request that is there once is given once, to the worker at its place.  *)
LEMMA GivenWhatIsThere ==
  ASSUME NEW w \in WorkerId, NEW workers \in Seq(WorkerId), NEW reqs \in Seq(Ask),
         NEW m \in Nat, m <= Len(reqs), m <= Len(workers), NEW A,
         AtMostOne(Positions(reqs, A)), NEW X, X = RequestsFor(A),
         NEW b \in Seq(DownMsg), NEW g, g = Given(w, workers, reqs, m)
  PROVE  /\ NoneOf(b, X) => OneOf(b \o g, X)
         /\ \A k \in 1 .. m : reqs[k] \in A /\ workers[k] # w => NoMore(b \o g, b, X)
         /\ (\A k \in 1 .. m : reqs[k] \notin A) => NoMore(b \o g, b, X)
<1>1. g \in Seq(DownMsg)
  BY GivenElements
<1>2. PICK f : Origins(f, g, w, workers, reqs, m)
  BY GivenElements
<1>3. \A k \in 1 .. m : k \in 1 .. Len(reqs)
  BY LenProperties
<1>4. \A a : Request(a) \in X => a \in A
  BY MessagesAbout
<1>5. \A k \in Positions(g, X) : k \in 1 .. Len(g) /\ g[k] \in X
  BY DEF Positions
<1>6. \A k \in Positions(g, X) :
        f[k] \in 1 .. m /\ workers[f[k]] = w /\ reqs[f[k]] \in A
  BY <1>2, <1>4, <1>5 DEF Origins
<1>7. /\ \A k \in Positions(g, X) : f[k] \in Positions(reqs, A)
      /\ \A k \in 1 .. m : reqs[k] \in A => k \in Positions(reqs, A)
  BY <1>3, <1>6 DEF Positions
<1>8. \A k, l \in Positions(g, X) : f[k] = f[l] => k = l
  BY <1>2, <1>5 DEF Origins
<1>9. OneOf(g, X)
  BY <1>7, <1>8, OneByMap
<1>h. ASSUME NEW k \in 1 .. m, reqs[k] \in A, workers[k] # w
      PROVE  NoneOf(g, X)
  BY <1>6, <1>7, <1>h DEF AtMostOne, NoneOf
<1>i. (\A k \in 1 .. m : reqs[k] \notin A) => NoneOf(g, X)
  BY <1>6 DEF NoneOf
<1> QED
  BY <1>1, <1>9, <1>h, <1>i, NoMoreOfConcat

LEMMA HandOutQueues ==
  ASSUME TypeOK, NEW s \in Service, NEW reqs \in Seq(Ask), HandOut(s, reqs),
         NEW m, m = MinOf(Len(idle[s]), Len(reqs))
  PROVE  /\ m \in Nat /\ m <= Len(idle[s]) /\ m <= Len(reqs)
         /\ idle[s] \in Seq(WorkerId)
         /\ idle'[s] = SubSeq(idle[s], m + 1, Len(idle[s]))
         /\ pending'[s] = SubSeq(reqs, m + 1, Len(reqs))
         /\ \A t \in Service : t # s => idle'[t] = idle[t] /\ pending'[t] = pending[t]
         /\ \A w \in WorkerId :
              /\ backDown[w] \in Seq(DownMsg)
              /\ backDown'[w] = backDown[w] \o Given(w, idle[s], reqs, m)
<1>1. /\ \A w \in WorkerId : backDown[w] \in Seq(DownMsg)
      /\ idle \in [Service -> Seq(WorkerId)] /\ pending \in [Service -> Seq(Ask)]
      /\ idle[s] \in Seq(WorkerId)
  BY Typed
<1>2. Len(idle[s]) \in Nat /\ Len(reqs) \in Nat
  BY <1>1, LenProperties
<1>3. m \in Nat /\ m <= Len(idle[s]) /\ m <= Len(reqs)
  BY <1>2 DEF MinOf
<1>4. /\ idle' = [idle EXCEPT ![s] = SubSeq(@, m + 1, Len(@))]
      /\ pending' = [pending EXCEPT ![s] = SubSeq(reqs, m + 1, Len(reqs))]
      /\ backDown' = [w \in WorkerId |->
                        backDown[w] \o Given(w, idle[s], reqs, m)]
  BY DEF HandOut
<1> QED
  BY <1>1, <1>3, <1>4

LEMMA HandOutTokens ==
  ASSUME TypeOK, NEW v \in WorkerId, NEW S, S = TokensOf(v),
         NEW s \in Service, NEW reqs \in Seq(Ask), HandOut(s, reqs),
         UNCHANGED <<answers, backUp>>
  PROVE  NotMore(Place, Found(S)', Found(S))
<1>m. PICK m : m = MinOf(Len(idle[s]), Len(reqs))
  OBVIOUS
<1>q. PICK q : q = idle[s]
  OBVIOUS
<1>a. PICK a : a = <<"idle", s>>
  OBVIOUS
<1>d. PICK d : d = <<"down", v>>
  OBVIOUS
<1>0. a \in Place /\ d \in Place /\ a # d
  BY <1>a, <1>d, Places
<1>1. /\ m \in Nat /\ m <= Len(q) /\ m <= Len(reqs) /\ q \in Seq(WorkerId)
      /\ idle'[s] = SubSeq(q, m + 1, Len(q))
      /\ \A t \in Service : t # s => idle'[t] = idle[t]
      /\ \A w \in WorkerId : /\ backDown[w] \in Seq(DownMsg)
                             /\ backDown'[w] = backDown[w] \o Given(w, q, reqs, m)
  BY <1>m, <1>q, HandOutQueues, ZenonT(40)
<1>2. /\ S[<<"asked", "front">>] = {} /\ S[<<"answers", "front">>] = {}
      /\ \A t \in Service : S[<<"pending", t>>] = {} /\ S[<<"idle", t>>] = {v}
      /\ \A x \in WorkerId : S[<<"down", x>>] = IF x = v THEN Work ELSE {}
  BY TokensAt, ZenonT(40)
<1>v. PICK V : V = {v}
  OBVIOUS
<1>w. S[<<"down", v>>] = Work /\ \A t \in Service : S[<<"idle", t>>] = V
  BY <1>2, <1>v
<1>3. /\ (\A k \in 1 .. m : q[k] # v) => NoMore(backDown'[v], backDown[v], Work)
      /\ AtMostOne(Positions(q, V)) /\ NoneOf(backDown[v], Work)
           => OneOf(backDown'[v], Work)
  <2>g. PICK g : g = Given(v, q, reqs, m)
    OBVIOUS
  <2>b. PICK b \in Seq(DownMsg) : b = backDown[v]
    BY <1>1
  <2>1. backDown'[v] = b \o g
    BY <1>1, <2>b, <2>g
  <2>3. v \in V /\ m \in Nat /\ m <= Len(reqs) /\ m <= Len(q) /\ q \in Seq(WorkerId)
    BY <1>1, <1>v
  <2>2. /\ (\A k \in 1 .. m : q[k] # v) => NoMore(b \o g, b, Work)
        /\ AtMostOne(Positions(q, V)) /\ NoneOf(b, Work) => OneOf(b \o g, Work)
    BY <1>1, <2>g, <2>3, GivenOnce
  <2> QED
    BY <2>b, <2>1, <2>2
<1>p. \A t \in Service : NoMore(pending'[t], pending[t], S[<<"pending", t>>])
  <2>1. \A t \in Service : S[<<"pending", t>>] = {}
    BY <1>2
  <2> QED
    BY <2>1, NoMoreOfNothing
<1>4. \A t \in Service : NoMore(idle'[t], idle[t], S[<<"idle", t>>])
  <2>1. m + 1 \in Nat \ {0} /\ Len(q) \in Nat /\ Len(q) <= Len(q)
    BY <1>1, LenProperties
  <2>2. NoMore(idle'[s], q, S[<<"idle", s>>])
    BY <1>1, <2>1, NoMoreOfSubSeq
  <2> QED
    BY <1>q, <1>1, <2>2, NoMoreOfSame
<1>5. \A x \in WorkerId : x # v => NoMore(backDown'[x], backDown[x], S[<<"down", x>>])
  BY <1>2, NoMoreOfNothing
<1>6. CASE \A k \in 1 .. m : q[k] # v
  <2>1. NoMore(backDown'[v], backDown[v], S[<<"down", v>>])
    BY <1>w, <1>3, <1>6
  <2>2. \A x \in WorkerId : NoMore(backDown'[x], backDown[x], S[<<"down", x>>])
    BY <1>5, <2>1
  <2> QED
    BY <1>2, <1>4, <1>p, <2>2, FoundFewer, NoMoreOfSame
<1>7. ASSUME NEW k \in 1 .. m, q[k] = v
      PROVE  NotMore(Place, Found(S)', Found(S))
  <2>1. \A p \in Place \ {d} : Fewer(Found(S)'[p], Found(S)[p])
    BY <1>d, <1>2, <1>4, <1>p, <1>5, HeldFewer, NoMoreOfSame DEF Found
  <2>2. /\ Found(S)[a] = Positions(q, V)
        /\ Found(S)[d] = Positions(backDown[v], Work)
    <3>1. /\ Found(S)[<<"idle", s>>] = Positions(idle[s], S[<<"idle", s>>])
          /\ Found(S)[<<"down", v>>] = Positions(backDown[v], S[<<"down", v>>])
      BY FoundAt
    <3> QED
      BY <1>a, <1>d, <1>q, <1>w, <3>1
  <2>3. /\ Found(S)'[a] = Positions(idle'[s], V)
        /\ Found(S)'[d] = Positions(backDown'[v], Work)
    <3>1. /\ Found(S)'[<<"idle", s>>] = Positions(idle'[s], S[<<"idle", s>>])
          /\ Found(S)'[<<"down", v>>] = Positions(backDown'[v], S[<<"down", v>>])
      BY FoundAtThen
    <3> QED
      BY <1>a, <1>d, <1>w, <3>1
  <2>4. Found(S)[a] # {}
    <3>1. k \in 1 .. Len(q)
      BY <1>1, LenProperties
    <3> QED
      BY <1>7, <1>v, <2>2, <3>1 DEF Positions
  <2>5. AtMostOne(Found(S)[a]) => Found(S)'[a] = {}
    <3>1. q[k] \in V
      BY <1>7, <1>v
    <3>2. AtMostOne(Positions(q, V)) => Positions(SubSeq(q, m + 1, Len(q)), V) = {}
      BY <1>1, <3>1, NoneBehind
    <3> QED
      BY <1>1, <2>2, <2>3, <3>2
  <2>6. SUFFICES ASSUME OneAmong(Place, Found(S))
                 PROVE  NotMore(Place, Found(S)', Found(S))
    BY EnoughForOne
  <2>7. AtMostOne(Positions(q, V))
    BY <1>0, <2>2, <2>6 DEF OneAmong, AtMostOne
  <2>9. Found(S)[d] = {} => AtMostOne(Found(S)'[d])
    BY <1>3, <2>2, <2>3, <2>7 DEF NoneOf, OneOf, AtMostOne
  <2> QED
    BY <1>0, <2>1, <2>4, <2>5, <2>9, OneMoved
<1> QED
  BY <1>6, <1>7

LEMMA HandOutAsks ==
  ASSUME TypeOK, NEW A \in SUBSET Ask, NEW S, S = Bearing(A),
         NEW s \in Service, NEW a \in asked, a \in Ask, asked' = asked \ {a},
         HandOut(s, Append(pending[s], a)), UNCHANGED <<answers, backUp>>
  PROVE  NotMore(Place, Found(S)', Found(S))
<1>r. PICK r : r = Append(pending[s], a)
  OBVIOUS
<1>m. PICK m : m = MinOf(Len(idle[s]), Len(r))
  OBVIOUS
<1>q. PICK q : q = idle[s]
  OBVIOUS
<1>x. PICK X : X = RequestsFor(A)
  OBVIOUS
<1>f. PICK fr : fr = <<"asked", "front">>
  OBVIOUS
<1>p. PICK pe : pe = <<"pending", s>>
  OBVIOUS
<1>0. fr \in Place /\ pe \in Place /\ fr # pe
  BY <1>f, <1>p, Places
<1>1. pending[s] \in Seq(Ask) /\ pending \in [Service -> Seq(Ask)] /\ r \in Seq(Ask)
  BY <1>r, Typed, AppendProperties
<1>2. /\ m \in Nat /\ m <= Len(q) /\ m <= Len(r) /\ q \in Seq(WorkerId)
      /\ \A t \in Service : t # s => pending'[t] = pending[t]
      /\ pending'[s] = SubSeq(r, m + 1, Len(r))
      /\ \A w \in WorkerId : /\ backDown[w] \in Seq(DownMsg)
                             /\ backDown'[w] = backDown[w] \o Given(w, q, r, m)
  <2>1. HandOut(s, r) /\ m = MinOf(Len(idle[s]), Len(r))
    BY <1>m, <1>r
  <2> QED
    BY <1>q, <1>1, <2>1, HandOutQueues, ZenonT(40)
<1>3. /\ S[<<"asked", "front">>] = A /\ S[<<"answers", "front">>] = A
      /\ \A t \in Service : S[<<"pending", t>>] = A
      /\ \A t \in Service : S[<<"idle", t>>] = {}
      /\ \A x \in WorkerId : S[<<"down", x>>] = X
  BY <1>x, BearingAt
<1>y. PICK z : z = [pending EXCEPT ![s] = r]
  OBVIOUS
<1>z. z[s] = r /\ \A t \in Service : t # s => z[t] = pending[t]
  BY <1>1, <1>y
<1>4. PICK M : M = Held(S, asked', answers, z, idle, backDown, backUp)
  OBVIOUS
<1>7. /\ M[fr] = asked' \cap A /\ M[pe] = Positions(r, A)
      /\ \A v \in WorkerId : M[<<"down", v>>] = Positions(backDown[v], X)
  <2>2. /\ M[<<"asked", "front">>] = asked' \cap S[<<"asked", "front">>]
        /\ M[<<"pending", s>>] = Positions(z[s], S[<<"pending", s>>])
        /\ \A v \in WorkerId :
             M[<<"down", v>>] = Positions(backDown[v], S[<<"down", v>>])
    <3>h. PICK h : h = asked'
      OBVIOUS
    <3>1. M = Held(S, h, answers, z, idle, backDown, backUp)
      BY <1>4, <3>h
    <3>2. /\ M[<<"asked", "front">>] = h \cap S[<<"asked", "front">>]
          /\ M[<<"answers", "front">>] = answers \cap S[<<"answers", "front">>]
          /\ \A t \in Service :
               /\ M[<<"pending", t>>] = Positions(z[t], S[<<"pending", t>>])
               /\ M[<<"idle", t>>] = Positions(idle[t], S[<<"idle", t>>])
          /\ \A v \in WorkerId :
               /\ M[<<"down", v>>] = Positions(backDown[v], S[<<"down", v>>])
               /\ M[<<"up", v>>] = Positions(backUp[v], S[<<"up", v>>])
      BY <3>1, HeldAt
    <3> QED
      BY <3>h, <3>2
  <2> QED
    BY <1>f, <1>p, <1>3, <1>z, <2>2
<1>5. NotMore(Place, M, Found(S))
  <2>1. \A t \in Service :
          t # s => NoMore(z[t], pending[t], S[<<"pending", t>>])
    BY <1>z, NoMoreOfSame
  <2>3. \A w \in WorkerId : /\ NoMore(backDown[w], backDown[w], S[<<"down", w>>])
                            /\ NoMore(backUp[w], backUp[w], S[<<"up", w>>])
    BY NoMoreOfSame
  <2>4. \A t \in Service : NoMore(idle[t], idle[t], S[<<"idle", t>>])
    BY NoMoreOfSame
  <2>5. \A p \in Place \ {pe} : Fewer(M[p], Found(S)[p])
    BY <1>4, <1>p, <2>1, <2>3, <2>4, HeldFewer DEF Found
  <2>6. CASE a \notin A
    <3>1. NoMore(r, pending[s], S[pe])
      BY <1>r, <1>p, <1>1, <1>3, <2>6, NoMoreOfAppend
    <3>2. \A t \in Service : NoMore(z[t], pending[t], S[<<"pending", t>>])
      BY <1>p, <1>z, <2>1, <3>1
    <3>3. \A p \in Place \ {} : Fewer(M[p], Found(S)[p])
      BY <1>4, <2>3, <2>4, <3>2, HeldFewer DEF Found
    <3> QED
      BY <3>3, FewerEach
  <2>7. CASE a \in A
    <3>1. /\ Found(S)[fr] = asked \cap A
          /\ Found(S)[pe] = Positions(pending[s], A)
      <4>1. /\ Found(S)[<<"asked", "front">>] = asked \cap S[<<"asked", "front">>]
            /\ Found(S)[<<"pending", s>>] = Positions(pending[s], S[<<"pending", s>>])
        BY FoundAt
      <4> QED
        BY <1>f, <1>p, <1>3, <4>1
    <3>2. /\ M[fr] = asked' \cap A /\ M[pe] = Positions(r, A)
      BY <1>7
    <3>3. Found(S)[fr] # {} /\ (AtMostOne(Found(S)[fr]) => M[fr] = {})
      BY <2>7, <3>1, <3>2 DEF AtMostOne
    <3>4. Found(S)[pe] = {} => AtMostOne(M[pe])
      <4>1. Positions(pending[s], A) = {} => AtMostOne(Positions(r, A))
        BY <1>r, <1>1, OneAdded
      <4> QED
        BY <3>1, <3>2, <4>1
    <3> QED
      BY <1>0, <2>5, <3>3, <3>4, OneMoved
  <2> QED
    BY <2>6, <2>7
<1>6. NotMore(Place, Found(S)', M)
  <2>1. SUFFICES ASSUME OneAmong(Place, M)
                 PROVE  NotMore(Place, Found(S)', M)
    BY EnoughForOne
  <2>2. M[pe] = Positions(r, A)
    BY <1>7
  <2>3. AtMostOne(Positions(r, A))
    BY <1>0, <2>1, <2>2 DEF OneAmong, AtMostOne
  <2>4. ASSUME NEW w \in WorkerId
        PROVE  /\ NoneOf(backDown[w], X) => OneOf(backDown'[w], X)
               /\ \A k \in 1 .. m : r[k] \in A /\ q[k] # w
                    => NoMore(backDown'[w], backDown[w], X)
               /\ (\A k \in 1 .. m : r[k] \notin A)
                    => NoMore(backDown'[w], backDown[w], X)
    <3>g. PICK g : g = Given(w, q, r, m)
      OBVIOUS
    <3>b. PICK b \in Seq(DownMsg) : b = backDown[w]
      BY <1>2
    <3>1. backDown'[w] = b \o g
      BY <1>2, <3>b, <3>g
    <3>2. /\ NoneOf(b, X) => OneOf(b \o g, X)
          /\ \A k \in 1 .. m : r[k] \in A /\ q[k] # w => NoMore(b \o g, b, X)
          /\ (\A k \in 1 .. m : r[k] \notin A) => NoMore(b \o g, b, X)
      BY <1>x, <1>1, <1>2, <2>3, <3>g, GivenWhatIsThere
    <3> QED
      BY <3>b, <3>1, <3>2
  <2>5. /\ \A t \in Service : NoMore(pending'[t], z[t], S[<<"pending", t>>])
        /\ \A t \in Service : NoMore(idle'[t], idle[t], S[<<"idle", t>>])
        /\ \A w \in WorkerId : NoMore(backUp'[w], backUp[w], S[<<"up", w>>])
    <3>1. m + 1 \in Nat \ {0} /\ Len(r) \in Nat /\ Len(r) <= Len(r)
      BY <1>1, <1>2, LenProperties
    <3>2. NoMore(pending'[s], r, S[pe])
      BY <1>1, <1>2, <3>1, NoMoreOfSubSeq
    <3>3. \A t \in Service : NoMore(idle'[t], idle[t], S[<<"idle", t>>])
      BY <1>3, NoMoreOfNothing
    <3>4. \A t \in Service : NoMore(pending'[t], z[t], S[<<"pending", t>>])
      BY <1>p, <1>z, <1>2, <3>2, NoMoreOfSame
    <3> QED
      BY <3>3, <3>4, NoMoreOfSame
  <2>6. CASE \A k \in 1 .. m : r[k] \notin A
    <3>1. \A w \in WorkerId : NoMore(backDown'[w], backDown[w], S[<<"down", w>>])
      BY <1>3, <2>4, <2>6
    <3>2. \A p \in Place \ {} : Fewer(Found(S)'[p], M[p])
      BY <1>4, <2>5, <3>1, HeldFewer DEF Found
    <3> QED
      BY <3>2, FewerEach
  <2>7. ASSUME NEW k \in 1 .. m, r[k] \in A
        PROVE  NotMore(Place, Found(S)', M)
    <3>1. k \in 1 .. Len(q) /\ k \in 1 .. Len(r) /\ q[k] \in WorkerId
      BY <1>1, <1>2, LenProperties, ElementOfSeq
    <3>2. PICK v \in WorkerId : v = q[k]
      BY <3>1
    <3>d. PICK d : d = <<"down", v>>
      OBVIOUS
    <3>3. d \in Place /\ d # pe
      BY <1>p, <3>d, Places
    <3>4. \A w \in WorkerId :
            w # v => NoMore(backDown'[w], backDown[w], S[<<"down", w>>])
      BY <1>3, <2>4, <2>7, <3>2
    <3>5. \A p \in Place \ {d} : Fewer(Found(S)'[p], M[p])
      BY <1>4, <2>5, <3>4, <3>d, HeldFewer DEF Found
    <3>6. M[pe] # {}
      BY <2>2, <2>7, <3>1 DEF Positions
    <3>7. M[d] = Positions(backDown[v], X)
      BY <1>7, <3>d
    <3>8. /\ Found(S)'[d] = Positions(backDown'[v], X)
          /\ Found(S)'[pe] = Positions(pending'[s], A)
      <4>1. /\ Found(S)'[<<"down", v>>] = Positions(backDown'[v], S[<<"down", v>>])
            /\ Found(S)'[<<"pending", s>>]
                 = Positions(pending'[s], S[<<"pending", s>>])
        BY FoundAtThen
      <4> QED
        BY <1>3, <1>p, <3>d, <4>1
    <3>9. Found(S)'[pe] = {}
      BY <1>1, <1>2, <2>3, <2>7, <3>8, NoneBehind
    <3>h. M[d] = {} => AtMostOne(Found(S)'[d])
      <4>1. NoneOf(backDown[v], X) => OneOf(backDown'[v], X)
        BY <2>4
      <4> QED
        BY <3>7, <3>8, <4>1 DEF NoneOf, OneOf, AtMostOne
    <3> QED
      BY <1>0, <3>3, <3>5, <3>6, <3>9, <3>h, OneMoved
  <2> QED
    BY <2>6, <2>7
<1> QED
  BY <1>5, <1>6, NotMoreTwice

LEMMA ClientRequestCarries ==
  ASSUME TypeOK, NEW S, Selection(S), NEW a \in asked, HandleClientRequest(a)
  PROVE  NotMore(Place, Found(S)', Found(S))
<1>1. a \in Ask
  BY DEF TypeOK, BrokerTypeOK
<1>2. PICK s \in Service : s = WantOf[a.addr[1]]
  BY <1>1, AskParts, BrokerAssumption
<1>3. /\ asked' = asked \ {a} /\ UNCHANGED <<answers, backUp>>
      /\ IF s \in services THEN HandOut(s, Append(pending[s], a))
                           ELSE UNCHANGED <<idle, pending, backDown>>
  BY <1>2 DEF HandleClientRequest
<1>4. CASE s \notin services
  BY <1>3, <1>4, FoundFewer, NoMoreOfSame
<1>5. CASE s \in services
  <2>1. HandOut(s, Append(pending[s], a)) /\ Append(pending[s], a) \in Seq(Ask)
    BY <1>1, <1>3, <1>5, Typed, AppendProperties
  <2> QED
    BY <1>1, <1>3, <2>1, HandOutTokens, HandOutAsks DEF Selection
<1> QED
  BY <1>4, <1>5

-----------------------------------------------------------------------------
(* The workers.                                                             *)

LEMMA Running ==
  ASSUME TypeOK, NEW p \in WorkerProc
  PROVE  /\ wId[p] # NoId => wId[p] \in WorkerId
         /\ wId[p] = NoId => wId[p] \notin WorkerId
BY WorkerAssumption DEF TypeOK, WorkerTypeOK

(* What a closed socket leaves behind is the beginning of what it said.     *)
LEMMA LeftOnly ==
  ASSUME TypeOK, NEW p \in WorkerProc, wId[p] \in WorkerId, NEW left \in LeftBy(p)
  PROVE  left \in Seq(UpMsg) /\ \A X : NoMore(left, backUp[wId[p]], X)
<1>q. PICK q : q = backUp[wId[p]]
  OBVIOUS
<1>1. q \in Seq(UpMsg) /\ Len(q) \in Nat
  BY <1>q, Typed, LenProperties
<1>2. left = <<>> \/ \E k \in 0 .. Len(q) : left = SubSeq(q, 1, k)
  BY <1>q DEF LeftBy
<1>3. CASE left = <<>>
  BY <1>q, <1>3, NoMoreOfEmpty
<1>4. ASSUME NEW k \in 0 .. Len(q), left = SubSeq(q, 1, k)
      PROVE  left \in Seq(UpMsg) /\ \A X : NoMore(left, q, X)
  <2>1. k \in Nat /\ k <= Len(q) /\ 1 \in Nat \ {0}
    BY <1>1
  <2> QED
    BY <1>1, <1>4, <2>1, SubSeqElements, NoMoreOfSubSeq
<1> QED
  BY <1>q, <1>2, <1>3, <1>4

(* What an iteration adds, and the heartbeat after it.                      *)
LEMMA SaidAndBeat ==
  ASSUME NEW q \in Seq(UpMsg), NEW said \in Seq(UpMsg), NEW r,
         NEW beats, beats = <<>> \/ beats = <<Heartbeat>>, r = q \o said \o beats,
         NEW X, Heartbeat \notin X
  PROVE  /\ r \in Seq(UpMsg)
         /\ NoneOf(said, X) => NoMore(r, q, X)
         /\ NoneOf(q, X) /\ OneOf(said, X) => OneOf(r, X)
<1>1. NoneOf(beats, X) /\ beats \in Seq(UpMsg)
  <2>1. <<Heartbeat>> \in Seq(UpMsg) /\ <<>> \in Seq(UpMsg)
    BY Messages, OneSaid
  <2> QED
    BY <2>1, NoneOfOne, NoMoreOfEmpty
<1>2. PICK t : t = q \o said
  OBVIOUS
<1>3. /\ t \in Seq(UpMsg)
      /\ NoneOf(said, X) => NoMore(t, q, X)
      /\ NoneOf(q, X) /\ OneOf(said, X) => OneOf(t, X)
  BY <1>2, ConcatProperties, NoMoreOfConcat
<1>4. r = t \o beats
  BY <1>2
<1>5. r \in Seq(UpMsg) /\ NoMore(r, t, X)
  BY <1>1, <1>3, <1>4, ConcatProperties, NoMoreOfConcat
<1> QED
  BY <1>3, <1>5 DEF NoMore

LEMMA WorkerReceiveCarries ==
  ASSUME TypeOK, NEW S, Selection(S), NEW p \in WorkerProc, WorkerReceive(p),
         UNCHANGED <<asked, answers, pending, idle>>
  PROVE  NotMore(Place, Found(S)', Found(S))
<1>w. PICK w \in WorkerId : w = wId[p]
  BY Running DEF WorkerReceive, Polls
<1>d. PICK dn \in Seq(DownMsg) : dn = backDown[w]
  BY Typed
<1>u. PICK q \in Seq(UpMsg) : q = backUp[w]
  BY Typed
<1>m. PICK m : m = Head(dn)
  OBVIOUS
<1>s. PICK said : said = IF m.type = "Request" THEN <<Reply(m.ask)>> ELSE <<>>
  OBVIOUS
<1>b. PICK beats : beats = IF elapsed[p] THEN <<Heartbeat>> ELSE <<>>
  OBVIOUS
<1>1. /\ dn # <<>>
      /\ backUp' = [backUp EXCEPT ![w] = @ \o said \o beats]
      /\ backDown' = [backDown EXCEPT ![w] = Tail(@)]
  BY <1>w, <1>d, <1>m, <1>s, <1>b DEF WorkerReceive, Finish
<1>2. /\ backUp'[w] = q \o said \o beats /\ backDown'[w] = Tail(dn)
      /\ \A x \in WorkerId : x # w => backUp'[x] = backUp[x] /\ backDown'[x] = backDown[x]
  BY <1>1, <1>d, <1>u, Typed
<1>3. m \in DownMsg /\ Tail(dn) \in Seq(DownMsg) /\ \A X : NoMore(Tail(dn), dn, X)
  BY <1>1, <1>m, HeadFound
<1>4. \/ m.ask \in Ask /\ m = Request(m.ask) /\ said = <<Reply(m.ask)>>
      \/ m = Heartbeat /\ said = <<>>
  <2>1. \/ m.type = "Request" /\ m.ask \in Ask /\ m = Request(m.ask)
        \/ m.type = "Heartbeat" /\ m = Heartbeat
    BY <1>3, Messages
  <2> QED
    BY <1>s, <2>1
<1>5. said \in Seq(UpMsg)
  <2>1. CASE m.ask \in Ask /\ said = <<Reply(m.ask)>>
    <3>1. Reply(m.ask) \in UpMsg
      BY <2>1, Messages
    <3> QED
      BY <2>1, <3>1, OneSaid
  <2>2. CASE said = <<>>
    BY <2>2
  <2> QED
    BY <1>4, <2>1, <2>2
<1>6. /\ Heartbeat \notin S[<<"up", w>>]
      /\ \A a \in Ask : Reply(a) \in S[<<"up", w>>] <=> Request(a) \in S[<<"down", w>>]
  BY Follows
<1>7. /\ NoneOf(said, S[<<"up", w>>]) => NoMore(backUp'[w], q, S[<<"up", w>>])
      /\ NoneOf(q, S[<<"up", w>>]) /\ OneOf(said, S[<<"up", w>>])
           => OneOf(backUp'[w], S[<<"up", w>>])
  <2>1. beats = <<>> \/ beats = <<Heartbeat>>
    BY <1>b
  <2> QED
    BY <1>2, <1>5, <1>6, <2>1, SaidAndBeat
<1>8. OneOf(said, S[<<"up", w>>])
  BY <1>4, NoneOfOne, NoMoreOfEmpty
<1>9. \A x \in WorkerId : NoMore(backDown'[x], backDown[x], S[<<"down", x>>])
  BY <1>2, <1>3, <1>d, NoMoreOfSame
<1>e. CASE NoneOf(said, S[<<"up", w>>])
  <2>1. \A x \in WorkerId : NoMore(backUp'[x], backUp[x], S[<<"up", x>>])
    BY <1>2, <1>7, <1>e, <1>u, NoMoreOfSame
  <2> QED
    BY <1>9, <2>1, FoundFewer, NoMoreOfSame
<1>f. CASE ~NoneOf(said, S[<<"up", w>>])
  <2>o. PICK o : o = <<"down", w>>
    OBVIOUS
  <2>d. PICK d : d = <<"up", w>>
    OBVIOUS
  <2>1. m.ask \in Ask /\ m = Request(m.ask) /\ Reply(m.ask) \in S[d]
    BY <1>4, <1>f, <2>d, NoneOfOne, NoMoreOfEmpty
  <2>2. Head(dn) \in S[o]
    BY <1>6, <1>m, <2>1, <2>o, <2>d
  <2>3. /\ Positions(dn, S[o]) # {}
        /\ AtMostOne(Positions(dn, S[o])) => Positions(Tail(dn), S[o]) = {}
    BY <1>1, <2>2, HeadFound
  <2>4. Found(S)[o] = Positions(dn, S[o]) /\ Found(S)[d] = Positions(q, S[d])
    <3>1. /\ Found(S)[<<"down", w>>] = Positions(backDown[w], S[<<"down", w>>])
          /\ Found(S)[<<"up", w>>] = Positions(backUp[w], S[<<"up", w>>])
      BY FoundAt
    <3> QED
      BY <1>d, <1>u, <2>o, <2>d, <3>1
  <2>5. /\ Found(S)'[o] = Positions(Tail(dn), S[o])
        /\ Found(S)'[d] = Positions(backUp'[w], S[d])
    <3>1. /\ Found(S)'[<<"down", w>>] = Positions(backDown'[w], S[<<"down", w>>])
          /\ Found(S)'[<<"up", w>>] = Positions(backUp'[w], S[<<"up", w>>])
      BY FoundAtThen
    <3> QED
      BY <1>2, <2>o, <2>d, <3>1
  <2>6. Found(S)[d] = {} => AtMostOne(Found(S)'[d])
    BY <1>7, <1>8, <2>d, <2>4, <2>5 DEF NoneOf, OneOf, AtMostOne
  <2>7. \A x \in WorkerId : x # w => NoMore(backUp'[x], backUp[x], S[<<"up", x>>])
    BY <1>2, NoMoreOfSame
  <2>8. \A z \in Place \ {d} : Fewer(Found(S)'[z], Found(S)[z])
    BY <1>9, <2>d, <2>7, HeldFewer, NoMoreOfSame DEF Found
  <2>9. o \in Place /\ d \in Place /\ o # d
    BY <2>o, <2>d, Places
  <2> QED
    BY <2>3, <2>4, <2>5, <2>6, <2>8, <2>9, OneMoved
<1> QED
  BY <1>e, <1>f

LEMMA WorkerMissedCarries ==
  ASSUME TypeOK, NEW S, Selection(S), NEW p \in WorkerProc, WorkerMissed(p),
         UNCHANGED <<asked, answers, pending, idle>>
  PROVE  NotMore(Place, Found(S)', Found(S))
<1>w. PICK w \in WorkerId : w = wId[p]
  BY Running DEF WorkerMissed, PollTimedOut, Polls
<1>u. PICK q \in Seq(UpMsg) : q = backUp[w]
  BY Typed
<1>b. PICK beats : beats = IF elapsed[p] THEN <<Heartbeat>> ELSE <<>>
  OBVIOUS
<1>n. PICK said \in Seq(UpMsg) : said = <<>>
  BY Messages, OneSaid
<1>1. /\ backUp' = [backUp EXCEPT ![w] = @ \o said \o beats]
      /\ UNCHANGED backDown
  BY <1>w, <1>b, <1>n DEF WorkerMissed, Finish
<1>2. /\ backUp'[w] = q \o said \o beats
      /\ \A x \in WorkerId : x # w => backUp'[x] = backUp[x]
  BY <1>1, <1>u, Typed
<1>3. NoMore(backUp'[w], q, S[<<"up", w>>])
  <2>1. Heartbeat \notin S[<<"up", w>>] /\ NoneOf(said, S[<<"up", w>>])
    BY <1>n, Follows, NoMoreOfEmpty
  <2>2. beats = <<>> \/ beats = <<Heartbeat>>
    BY <1>b
  <2> QED
    BY <1>2, <2>1, <2>2, SaidAndBeat
<1>4. \A x \in WorkerId : NoMore(backUp'[x], backUp[x], S[<<"up", x>>])
  BY <1>2, <1>3, <1>u, NoMoreOfSame
<1> QED
  BY <1>1, <1>4, FoundFewer, NoMoreOfSame

LEMMA WorkerCrashCarries ==
  ASSUME TypeOK, NEW S, Selection(S), NEW p \in WorkerProc, WorkerCrash(p),
         UNCHANGED <<asked, answers, pending, idle>>
  PROVE  NotMore(Place, Found(S)', Found(S))
<1>w. PICK w \in WorkerId : w = wId[p]
  BY Running DEF WorkerCrash
<1>1. PICK left \in LeftBy(p) : backUp' = [backUp EXCEPT ![w] = left]
  BY <1>w DEF WorkerCrash
<1>2. backDown' = [backDown EXCEPT ![w] = <<>>]
  BY <1>w DEF WorkerCrash
<1>3. \A X : NoMore(left, backUp[w], X)
  BY <1>w, LeftOnly
<1>4. /\ backUp'[w] = left /\ backDown'[w] = <<>>
      /\ \A x \in WorkerId : x # w => backUp'[x] = backUp[x] /\ backDown'[x] = backDown[x]
  BY <1>1, <1>2, Typed
<1>5. \A x \in WorkerId : NoMore(backUp'[x], backUp[x], S[<<"up", x>>])
  BY <1>3, <1>4, NoMoreOfSame
<1>6. \A x \in WorkerId : NoMore(backDown'[x], backDown[x], S[<<"down", x>>])
  BY <1>4, NoMoreOfSame, NoMoreOfEmpty
<1> QED
  BY <1>5, <1>6, FoundFewer, NoMoreOfSame

(* A new socket says Ready, which stands for its worker alone.              *)
LEMMA ConnectCarries ==
  ASSUME TypeOK, IdleAreRegistered, NEW S, Selection(S), NEW p \in WorkerProc,
         NEW id \in FreshId, NEW left, Connect(p, id, left),
         wId[p] \in WorkerId => left \in LeftBy(p),
         UNCHANGED <<asked, answers, pending, idle>>
  PROVE  \/ NotMore(Place, Found(S)', Found(S))
         \/ (\A A : S # Bearing(A)) /\ OneAmong(Place, Found(S)')
<1>1. /\ id \in WorkerId /\ id \notin Registered
      /\ backUp[id] = <<>> /\ backDown[id] = <<>>
  BY DEF FreshId
<1>2. ASSUME NEW x \in WorkerId
      PROVE  /\ x # id => NoMore(backUp'[x], backUp[x], S[<<"up", x>>])
             /\ NoMore(backDown'[x], backDown[x], S[<<"down", x>>])
  <2>1. /\ backUp'[x] = IF x = id THEN <<Ready(ServiceOf[p])>>
                        ELSE IF x = wId[p] THEN left ELSE backUp[x]
        /\ backDown'[x] = IF x \in {id, wId[p]} THEN <<>> ELSE backDown[x]
    BY DEF Connect
  <2>2. x = wId[p] => \A X : NoMore(left, backUp[x], X)
    BY LeftOnly
  <2>3. NoMore(backDown'[x], backDown[x], S[<<"down", x>>])
    BY <2>1, NoMoreOfSame, NoMoreOfEmpty
  <2>4. x # id => NoMore(backUp'[x], backUp[x], S[<<"up", x>>])
    BY <2>1, <2>2, NoMoreOfSame
  <2> QED
    BY <2>3, <2>4
<1>3. backUp'[id] = <<Ready(ServiceOf[p])>>
  BY <1>1 DEF Connect
<1>4. CASE Ready(ServiceOf[p]) \notin S[<<"up", id>>]
  <2>1. NoMore(backUp'[id], backUp[id], S[<<"up", id>>])
    BY <1>3, <1>4, NoneOfOne DEF NoMore
  <2>2. \A x \in WorkerId : NoMore(backUp'[x], backUp[x], S[<<"up", x>>])
    BY <1>2, <2>1
  <2>3. \A x \in WorkerId : NoMore(backDown'[x], backDown[x], S[<<"down", x>>])
    BY <1>2
  <2> QED
    BY <2>2, <2>3, FoundFewer, NoMoreOfSame
<1>5. CASE Ready(ServiceOf[p]) \in S[<<"up", id>>]
  <2>1. S = TokensOf(id) /\ \A A : S # Bearing(A)
    <3>1. ASSUME NEW v \in WorkerId, S = TokensOf(v)
          PROVE  v = id
      <4>1. S[<<"up", id>>] = IF id = v THEN Claims ELSE {}
        BY <1>1, <3>1, TokensAt
      <4> QED
        BY <1>5, <4>1
    <3>2. ASSUME NEW A, S = Bearing(A)
          PROVE  FALSE
      <4>1. S[<<"up", id>>] = RepliesTo(A)
        BY <1>1, <3>2, BearingAt
      <4> QED
        BY <1>5, <4>1, MessagesAbout
    <3> QED
      BY <3>1, <3>2 DEF Selection
  <2>2. NoneAmong(Place, Found(S))
    <3>1. ASSUME NEW s \in Service
          PROVE  Found(S)[<<"idle", s>>] = {}
      <4>1. Found(S)[<<"idle", s>>] = Positions(idle[s], S[<<"idle", s>>])
        BY FoundAt
      <4>2. \A i \in 1 .. Len(idle[s]) : idle[s][i] # id
        <5>1. idle[s] \in Seq(WorkerId) /\ DOMAIN idle[s] = 1 .. Len(idle[s])
          BY Typed, LenProperties
        <5>2. \A i \in DOMAIN idle[s] : registered[idle[s][i]] = s
          BY DEF IdleAreRegistered
        <5>3. registered[id] = NoService /\ s # NoService
          BY <1>1, BrokerAssumption DEF Registered
        <5> QED
          BY <5>1, <5>2, <5>3
      <4>3. \A x \in S[<<"idle", s>>] : x = id
        <5>1. S[<<"idle", s>>] = {id}
          BY <1>1, <2>1, TokensAt
        <5> QED
          BY <5>1
      <4> QED
        BY <4>1, <4>2, <4>3 DEF Positions
    <3>2. ASSUME NEW s \in Service
          PROVE  Found(S)[<<"pending", s>>] = {}
      <4>1. Found(S)[<<"pending", s>>] = Positions(pending[s], S[<<"pending", s>>])
        BY FoundAt
      <4>2. S[<<"pending", s>>] = {}
        BY <1>1, <2>1, TokensAt
      <4> QED
        BY <4>1, <4>2 DEF Positions
    <3>3. /\ Found(S)[<<"asked", "front">>] = {}
          /\ Found(S)[<<"answers", "front">>] = {}
      <4>1. /\ Found(S)[<<"asked", "front">>] = asked \cap S[<<"asked", "front">>]
            /\ Found(S)[<<"answers", "front">>] = answers \cap S[<<"answers", "front">>]
        BY FoundAt
      <4>2. S[<<"asked", "front">>] = {} /\ S[<<"answers", "front">>] = {}
        BY <1>1, <2>1, TokensAt
      <4> QED
        BY <4>1, <4>2
    <3>4. ASSUME NEW x \in WorkerId
          PROVE  Found(S)[<<"down", x>>] = {} /\ Found(S)[<<"up", x>>] = {}
      <4>1. /\ Found(S)[<<"down", x>>] = Positions(backDown[x], S[<<"down", x>>])
            /\ Found(S)[<<"up", x>>] = Positions(backUp[x], S[<<"up", x>>])
        BY FoundAt
      <4>2. /\ S[<<"down", x>>] = IF x = id THEN Work ELSE {}
            /\ S[<<"up", x>>] = IF x = id THEN Claims ELSE {}
        BY <1>1, <2>1, TokensAt
      <4>3. \A X : Positions(<<>>, X) = {}
        BY NoMoreOfEmpty DEF NoneOf
      <4>4. \A z : Positions(z, {}) = {}
        BY DEF Positions
      <4> QED
        BY <1>1, <4>1, <4>2, <4>3, <4>4
    <3> QED
      BY <3>1, <3>2, <3>3, <3>4, Places DEF NoneAmong
  <2>d. PICK d : d = <<"up", id>>
    OBVIOUS
  <2>3. d \in Place
    BY <1>1, <2>d, Places
  <2>4. AtMostOne(Found(S)'[d])
    <3>1. Found(S)'[<<"up", id>>] = Positions(backUp'[id], S[<<"up", id>>])
      BY <1>1, FoundAtThen
    <3>2. OneOf(backUp'[id], S[<<"up", id>>])
      BY <1>3, NoneOfOne
    <3> QED
      BY <2>d, <3>1, <3>2 DEF OneOf, AtMostOne
  <2>5. \A z \in Place \ {d} : Fewer(Found(S)'[z], Found(S)[z])
    <3>1. \A x \in WorkerId :
            /\ <<"down", x>> \in {d} \/ NoMore(backDown'[x], backDown[x], S[<<"down", x>>])
            /\ <<"up", x>> \in {d} \/ NoMore(backUp'[x], backUp[x], S[<<"up", x>>])
      BY <1>2, <2>d
    <3> QED
      BY <3>1, HeldFewer, NoMoreOfSame DEF Found
  <2> QED
    BY <2>1, <2>2, <2>3, <2>4, <2>5, OneAppears
<1> QED
  BY <1>4, <1>5

(* Whoever acts but the clients, each selection is carried, or it is the    *)
(* token of a worker with a new identity.                                   *)
LEMMA ServersCarry ==
  ASSUME TypeOK, IdleAreRegistered, NEW S, Selection(S),
         \/ BrokerStep \/ StartBroker \/ BrokerFails \/ Tick
         \/ \E p \in WorkerProc : WorkerStep(p) \/ StartWorker(p) \/ WorkerFails(p)
  PROVE  \/ NotMore(Place, Found(S)', Found(S))
         \/ (\A A : S # Bearing(A)) /\ OneAmong(Place, Found(S)')
<1>1. CASE BrokerStep
  <2>1. CASE BrokerWait
    <3>1. UNCHANGED <<asked, answers, pending, idle, backDown, backUp>>
      BY <2>1 DEF BrokerWait, frontVars, backVars
    <3> QED
      BY <3>1, FoundUntouched, SameIsNotMore
  <2> QED
    BY <1>1, <2>1, HousekeepingCarries, WorkerResponseCarries, ClientRequestCarries
       DEF BrokerStep, BrokerNext
<1>2. CASE StartBroker
  <2>1. UNCHANGED <<asked, answers, pending, idle, backDown, backUp>>
    BY <1>2 DEF StartBroker, BrokerStart, frontVars, backVars
  <2> QED
    BY <2>1, FoundUntouched, SameIsNotMore
<1>3. CASE BrokerFails
  BY <1>3, BrokerCrashCarries DEF BrokerFails
<1>4. CASE Tick
  <2>1. UNCHANGED <<asked, answers, pending, idle, backDown, backUp>>
    BY <1>4 DEF Tick, BrokerTick, frontVars, backVars
  <2> QED
    BY <2>1, FoundUntouched, SameIsNotMore
<1>5. ASSUME NEW p \in WorkerProc, WorkerStep(p)
      PROVE  \/ NotMore(Place, Found(S)', Found(S))
             \/ (\A A : S # Bearing(A)) /\ OneAmong(Place, Found(S)')
  <2>1. UNCHANGED <<asked, answers, pending, idle>>
    BY <1>5 DEF WorkerStep, brokerVars, frontVars
  <2>2. CASE WorkerSleep(p)
    <3>1. UNCHANGED <<asked, answers, pending, idle, backDown, backUp>>
      BY <2>1, <2>2 DEF WorkerSleep, backVars
    <3> QED
      BY <3>1, FoundUntouched, SameIsNotMore
  <2>3. CASE WorkerWake(p)
    <3>1. PICK id \in FreshId, left \in LeftBy(p) : Connect(p, id, left)
      BY <2>3 DEF WorkerWake
    <3>2. id \in WorkerId
      BY DEF FreshId
    <3> QED
      BY <2>1, <3>1, <3>2, ConnectCarries
  <2>4. CASE WorkerReceive(p)
    BY <2>1, <2>4, WorkerReceiveCarries
  <2>5. CASE WorkerMissed(p)
    BY <2>1, <2>5, WorkerMissedCarries
  <2> QED
    BY <1>5, <2>2, <2>3, <2>4, <2>5 DEF WorkerStep, WorkerNext
<1>6. ASSUME NEW p \in WorkerProc, StartWorker(p)
      PROVE  \/ NotMore(Place, Found(S)', Found(S))
             \/ (\A A : S # Bearing(A)) /\ OneAmong(Place, Found(S)')
  <2>1. UNCHANGED <<asked, answers, pending, idle>>
    BY <1>6 DEF StartWorker, brokerVars, frontVars
  <2>2. PICK id \in FreshId : Connect(p, id, <<>>)
    BY <1>6 DEF StartWorker, WorkerStart
  <2>3. id \in WorkerId
    BY DEF FreshId
  <2>4. wId[p] \notin WorkerId
    BY <1>6, Running DEF StartWorker, WorkerStart
  <2> QED
    BY <2>1, <2>2, <2>3, <2>4, ConnectCarries
<1>7. ASSUME NEW p \in WorkerProc, WorkerFails(p)
      PROVE  NotMore(Place, Found(S)', Found(S))
  <2>1. UNCHANGED <<asked, answers, pending, idle>> /\ WorkerCrash(p)
    BY <1>7 DEF WorkerFails, brokerVars, frontVars
  <2> QED
    BY <2>1, WorkerCrashCarries
<1> QED
  BY <1>1, <1>2, <1>3, <1>4, <1>5, <1>6, <1>7

-----------------------------------------------------------------------------
(* The clients.                                                             *)

LEMMA LosingCarries ==
  ASSUME asked' \subseteq asked, answers' \subseteq answers,
         UNCHANGED <<pending, idle, backDown, backUp>>, NEW S
  PROVE  NotMore(Place, Found(S)', Found(S))
BY FoundFewer, NoMoreOfSame

LEMMA AskingCarries ==
  ASSUME NEW a, asked' \subseteq asked \cup {a}, answers' \subseteq answers,
         UNCHANGED <<pending, idle, backDown, backUp>>, NEW A
  PROVE  /\ a \notin A => NotMore(Place, Found(Bearing(A))', Found(Bearing(A)))
         /\ NoneAmong(Place, Found(Bearing(A)))
              => OneAmong(Place, Found(Bearing(A))')
<1>s. PICK S : S = Bearing(A)
  OBVIOUS
<1>1. S[<<"asked", "front">>] = A
  BY <1>s, BearingAt
<1>2. ASSUME a \notin A
      PROVE  NotMore(Place, Found(S)', Found(S))
  <2>1. asked' \cap S[<<"asked", "front">>] \subseteq asked
    BY <1>1, <1>2
  <2> QED
    BY <2>1, FoundFewer, NoMoreOfSame
<1>3. ASSUME NoneAmong(Place, Found(S))
      PROVE  OneAmong(Place, Found(S)')
  <2>d. PICK d : d = <<"asked", "front">>
    OBVIOUS
  <2>1. d \in Place
    BY <2>d, Places
  <2>2. \A z \in Place \ {d} : Fewer(Found(S)'[z], Found(S)[z])
    BY <2>d, HeldFewer, NoMoreOfSame DEF Found
  <2>3. AtMostOne(Found(S)'[d])
    <3>1. Found(S)[<<"asked", "front">>] = asked \cap A
      BY <1>1, FoundAt
    <3>2. Found(S)'[<<"asked", "front">>] = asked' \cap A
      BY <1>1, FoundAtThen
    <3>3. asked \cap A = {}
      BY <1>3, <2>1, <2>d, <3>1 DEF NoneAmong
    <3> QED
      BY <2>d, <3>2, <3>3 DEF AtMostOne
  <2> QED
    BY <1>3, <2>1, <2>2, <2>3, OneAppears
<1> QED
  BY <1>s, <1>2, <1>3

(* Where neither these nor those are, none of either are.                   *)
LEMMA NoneOfEither ==
  ASSUME NEW A, NEW B, NEW C, C \subseteq A \cup B,
         NEW fr, NEW an, NEW pe, NEW id, NEW dn, NEW us,
         NoneAmong(Place, Held(Bearing(A), fr, an, pe, id, dn, us)),
         NoneAmong(Place, Held(Bearing(B), fr, an, pe, id, dn, us))
  PROVE  NoneAmong(Place, Held(Bearing(C), fr, an, pe, id, dn, us))
<1> DEFINE Absent(X) ==
             /\ fr \cap X = {} /\ an \cap X = {}
             /\ \A s \in Service : Positions(pe[s], X) = {}
             /\ \A w \in WorkerId : /\ Positions(dn[w], RequestsFor(X)) = {}
                                    /\ Positions(us[w], RepliesTo(X)) = {}
<1>1. ASSUME NEW X
      PROVE  NoneAmong(Place, Held(Bearing(X), fr, an, pe, id, dn, us)) <=> Absent(X)
  <2>s. PICK S : S = Bearing(X)
    OBVIOUS
  <2>h. PICK H : H = Held(S, fr, an, pe, id, dn, us)
    OBVIOUS
  <2>1. /\ H[<<"asked", "front">>] = fr \cap S[<<"asked", "front">>]
        /\ H[<<"answers", "front">>] = an \cap S[<<"answers", "front">>]
        /\ \A s \in Service :
             /\ H[<<"pending", s>>] = Positions(pe[s], S[<<"pending", s>>])
             /\ H[<<"idle", s>>] = Positions(id[s], S[<<"idle", s>>])
        /\ \A w \in WorkerId :
             /\ H[<<"down", w>>] = Positions(dn[w], S[<<"down", w>>])
             /\ H[<<"up", w>>] = Positions(us[w], S[<<"up", w>>])
    BY <2>h, HeldAt
  <2>2. /\ S[<<"asked", "front">>] = X /\ S[<<"answers", "front">>] = X
        /\ \A s \in Service : /\ S[<<"pending", s>>] = X
                              /\ S[<<"idle", s>>] = {}
        /\ \A w \in WorkerId : /\ S[<<"down", w>>] = RequestsFor(X)
                               /\ S[<<"up", w>>] = RepliesTo(X)
    BY <2>s, BearingAt
  <2>3. \A q : Positions(q, {}) = {}
    BY DEF Positions
  <2>4. NoneAmong(Place, H) => Absent(X)
    BY <2>1, <2>2, Places DEF NoneAmong
  <2>5. ASSUME Absent(X)
        PROVE  NoneAmong(Place, H)
    <3>1. /\ H[<<"asked", "front">>] = {} /\ H[<<"answers", "front">>] = {}
          /\ \A s \in Service : H[<<"pending", s>>] = {} /\ H[<<"idle", s>>] = {}
          /\ \A w \in WorkerId : H[<<"down", w>>] = {} /\ H[<<"up", w>>] = {}
      BY <2>1, <2>2, <2>3, <2>5, ZenonT(40)
    <3> QED
      BY <3>1, Places DEF NoneAmong
  <2> QED
    BY <2>s, <2>h, <2>4, <2>5
<1>2. Absent(A) /\ Absent(B)
  BY <1>1
<1>3. /\ RequestsFor(C) \subseteq RequestsFor(A) \cup RequestsFor(B)
      /\ RepliesTo(C) \subseteq RepliesTo(A) \cup RepliesTo(B)
  BY DEF RequestsFor, RepliesTo
<1>4. \A q, X, Y, Z : Z \subseteq X \cup Y /\ Positions(q, X) = {} /\ Positions(q, Y) = {}
                        => Positions(q, Z) = {}
  BY DEF Positions
<1>5. /\ fr \cap C = {} /\ an \cap C = {}
      /\ \A s \in Service : Positions(pe[s], C) = {}
      /\ \A w \in WorkerId : /\ Positions(dn[w], RequestsFor(C)) = {}
                             /\ Positions(us[w], RepliesTo(C)) = {}
  BY <1>2, <1>3, <1>4
<1>6. Absent(C)
  BY <1>5
<1> HIDE DEF Absent
<1> QED
  BY <1>1, <1>6

LEMMA Losing ==
  ASSUME AsksAreAlone, asked' \subseteq asked, answers' \subseteq answers,
         UNCHANGED <<pending, idle, backDown, backUp>>, Wrong' \subseteq Wrong
  PROVE  AsksAreAlone'
<1>v. PICK V : V = Wrong'
  OBVIOUS
<1>1. ASSUME NEW x \in Address
      PROVE  OneAmong(Place, Found(Bearing(AsksOf(x)))')
  <2>1. OneAmong(Place, Found(Bearing(AsksOf(x))))
    BY DEF AsksAreAlone
  <2>2. NotMore(Place, Found(Bearing(AsksOf(x)))', Found(Bearing(AsksOf(x))))
    BY LosingCarries
  <2> QED
    BY <2>1, <2>2 DEF NotMore
<1>2. NoneAmong(Place, Found(Bearing(V))')
  <2>1. NoneAmong(Place, Found(Bearing(V)))
    BY <1>v, NoneOfEither DEF AsksAreAlone, Found
  <2>2. NotMore(Place, Found(Bearing(V))', Found(Bearing(V)))
    BY LosingCarries
  <2> QED
    BY <2>1, <2>2 DEF NotMore
<1> QED
  BY <1>v, <1>1, <1>2 DEF AsksAreAlone, Found

LEMMA Asking ==
  ASSUME AsksAreAlone, NEW a \in Ask, asked' \subseteq asked \cup {a},
         answers' \subseteq answers,
         UNCHANGED <<pending, idle, backDown, backUp>>,
         AsksOf(a.addr) \subseteq Wrong, Wrong' \subseteq Wrong, a \notin Wrong'
  PROVE  AsksAreAlone'
<1>v. PICK V : V = Wrong'
  OBVIOUS
<1>1. ASSUME NEW x \in Address
      PROVE  OneAmong(Place, Found(Bearing(AsksOf(x)))')
  <2>1. CASE x = a.addr
    <3>1. NoneAmong(Place, Found(Bearing(AsksOf(x))))
      <4>1. AsksOf(x) \subseteq Wrong \cup Wrong
        BY <2>1
      <4> QED
        BY <4>1, NoneOfEither DEF AsksAreAlone, Found
    <3> QED
      BY <3>1, AskingCarries
  <2>2. CASE x # a.addr
    <3>1. a \notin AsksOf(x)
      BY <2>2 DEF AsksOf
    <3>2. NotMore(Place, Found(Bearing(AsksOf(x)))', Found(Bearing(AsksOf(x))))
      BY <3>1, AskingCarries
    <3>3. OneAmong(Place, Found(Bearing(AsksOf(x))))
      BY DEF AsksAreAlone
    <3> QED
      BY <3>2, <3>3 DEF NotMore
  <2> QED
    BY <2>1, <2>2
<1>2. NoneAmong(Place, Found(Bearing(V))')
  <2>1. NoneAmong(Place, Found(Bearing(V)))
    BY <1>v, NoneOfEither DEF AsksAreAlone, Found
  <2>2. NotMore(Place, Found(Bearing(V))', Found(Bearing(V)))
    BY <1>v, AskingCarries
  <2> QED
    BY <2>1, <2>2 DEF NotMore
<1> QED
  BY <1>v, <1>1, <1>2 DEF AsksAreAlone, Found

(* The reply that ends a wait was all there was of its request.             *)
LEMMA Answering ==
  ASSUME AsksAreAlone, NEW a \in answers, a \in Ask, answers' = answers \ {a},
         UNCHANGED <<asked, pending, idle, backDown, backUp>>,
         Wrong' \subseteq Wrong \cup AsksOf(a.addr)
  PROVE  AsksAreAlone'
<1>x. PICK y \in Address : y = a.addr
  BY AskParts
<1>v. PICK V : V = Wrong'
  OBVIOUS
<1>w. PICK W : W = Wrong
  OBVIOUS
<1>c. \A S : NotMore(Place, Found(S)', Found(S))
  BY LosingCarries
<1>1. ASSUME NEW x \in Address
      PROVE  OneAmong(Place, Found(Bearing(AsksOf(x)))')
  <2>1. OneAmong(Place, Found(Bearing(AsksOf(x))))
    BY DEF AsksAreAlone
  <2> QED
    BY <1>c, <2>1 DEF NotMore
<1>2. NoneAmong(Place, Found(Bearing(AsksOf(y)))')
  <2>s. PICK S : S = Bearing(AsksOf(y))
    OBVIOUS
  <2>d. PICK d : d = <<"answers", "front">>
    OBVIOUS
  <2>1. OneAmong(Place, Found(S)) /\ S[<<"answers", "front">>] = AsksOf(y)
    BY <2>s, BearingAt DEF AsksAreAlone
  <2>2. Found(S)[d] = answers \cap AsksOf(y)
    BY <2>d, <2>1, FoundAt
  <2>3. Found(S)'[d] = answers' \cap AsksOf(y)
    BY <2>d, <2>1, FoundAtThen
  <2>4. d \in Place
    BY <2>d, Places
  <2>5. a \in Found(S)[d]
    BY <1>x, <2>2 DEF AsksOf
  <2>6. \A z \in Place \ {d} : Found(S)[z] = {}
    BY <2>1, <2>4, <2>5 DEF OneAmong
  <2>7. \A z \in Place \ {d} : Fewer(Found(S)'[z], Found(S)[z])
    <3>1. \A z \in Place \ {} : Fewer(Found(S)'[z], Found(S)[z])
      BY HeldFewer, NoMoreOfSame DEF Found
    <3> QED
      BY <3>1
  <2>8. \A b \in Found(S)[d] : b = a
    BY <2>1, <2>4, <2>5 DEF OneAmong
  <2>9. Found(S)'[d] = {}
    BY <2>2, <2>3, <2>8
  <2> QED
    BY <2>s, <2>6, <2>7, <2>9 DEF NoneAmong, Fewer
<1>3. NoneAmong(Place, Found(Bearing(W))')
  BY <1>c, <1>w DEF AsksAreAlone, NotMore
<1>4. V \subseteq W \cup AsksOf(y)
  BY <1>v, <1>w, <1>x
<1>5. NoneAmong(Place, Found(Bearing(V))')
  BY <1>2, <1>3, <1>4, NoneOfEither DEF Found
<1> QED
  BY <1>v, <1>1, <1>5 DEF AsksAreAlone, Found

-----------------------------------------------------------------------------
(* How many sockets there can be.                                           *)

LEMMA Multiples ==
  ASSUME NEW k \in Nat, NEW m \in Nat, k >= 1, k <= m, NEW R \in Nat
  PROVE  (k - 1) * R + R = k * R /\ k * R <= m * R /\ (k - 1) * R \in Nat
<1>1. (k - 1) * R + R = k * R
  OBVIOUS
<1>2. PICK d \in Nat : m = k + d
  <2>1. m - k \in Nat /\ m = k + (m - k)
    OBVIOUS
  <2> QED
    BY <2>1
<1>3. \A x, y \in Nat : x * y \in Nat
  OBVIOUS
<1>4. m * R = k * R + d * R
  BY <1>2
<1>5. d * R \in Nat /\ k * R \in Nat
  BY <1>3
<1>6. k - 1 \in Nat
  OBVIOUS
<1>7. (k - 1) * R \in Nat
  BY <1>3, <1>6
<1>8. \A x, y \in Nat : x <= x + y
  OBVIOUS
<1> QED
  BY <1>1, <1>4, <1>5, <1>7, <1>8

(* A client that waits may make a new socket.                               *)
LEMMA RoomForSockets ==
  ASSUME TypeOK, SocketsUsed, NEW c \in Client, cPhase[c] = "waiting"
  PROVE  /\ n[c] \in 1 .. Requests
         /\ conn[c] + 1 \in 0 .. Requests * Retries
         /\ conn[c] + 1 <= (n[c] - 1) * Retries + (retries[c] + 1)
         /\ conn[c] <= n[c] * Retries
         /\ retries[c] = Retries - 1 => conn[c] + 1 <= n[c] * Retries
<1>1. /\ n[c] \in 0 .. Requests /\ conn[c] \in 0 .. Requests * Retries
      /\ retries[c] \in 0 .. Retries - 1
      /\ Requests \in Nat /\ Retries \in Nat /\ Retries >= 1
  BY BrokerAssumption DEF TypeOK, ClientTypeOK
<1>2. n[c] >= 1 /\ conn[c] <= (n[c] - 1) * Retries + retries[c]
  BY DEF SocketsUsed
<1>3. n[c] \in Nat /\ n[c] <= Requests /\ n[c] \in 1 .. Requests
  BY <1>1, <1>2
<1>a. PICK base : base = (n[c] - 1) * Retries
  OBVIOUS
<1>b. PICK top : top = n[c] * Retries
  OBVIOUS
<1>d. PICK all : all = Requests * Retries
  OBVIOUS
<1>4. base + Retries = top /\ top <= all /\ base \in Nat
  BY <1>a, <1>b, <1>d, <1>1, <1>2, <1>3, Multiples
<1>5. all \in Int /\ top \in Int
  <2>1. \A x, y \in Nat : x * y \in Int
    OBVIOUS
  <2> QED
    BY <1>b, <1>d, <1>1, <1>3, <2>1
<1>6. conn[c] <= base + retries[c] /\ conn[c] \in Nat
  BY <1>a, <1>1, <1>2, <1>d
<1>7. /\ conn[c] + 1 \in 0 .. all /\ conn[c] + 1 <= base + (retries[c] + 1)
      /\ conn[c] <= top /\ (retries[c] = Retries - 1 => conn[c] + 1 <= top)
  BY <1>1, <1>4, <1>5, <1>6
<1> QED
  BY <1>a, <1>b, <1>d, <1>3, <1>7

-----------------------------------------------------------------------------
(* The steps of a client.                                                   *)

IsWrong(a, k, phase, m) ==
  a.addr[2] > k \/ (a.addr[2] = k /\ ~(phase = "waiting" /\ a.n = m))

LEMMA WrongMeans ==
  /\ \A a : a \in Wrong <=>
       a \in Ask /\ IsWrong(a, conn[a.addr[1]], cPhase[a.addr[1]], n[a.addr[1]])
  /\ \A a : a \in Wrong' <=>
       a \in Ask /\ IsWrong(a, conn'[a.addr[1]], cPhase'[a.addr[1]], n'[a.addr[1]])
<1>1. \A a \in Ask : \A k : a.addr = <<a.addr[1], k>> <=> a.addr[2] = k
  BY AskParts
<1> QED
  BY <1>1 DEF Wrong, At, IsWrong

(* What a step of c alone makes right or wrong is about the socket of c.    *)
LEMMA WrongElsewhere ==
  ASSUME NEW c \in Client,
         \A x \in Client : x # c => /\ conn'[x] = conn[x] /\ n'[x] = n[x]
                                    /\ cPhase'[x] = cPhase[x],
         NEW B,
         \A a \in Ask : /\ a.addr[1] = c /\ a \notin B
                        /\ IsWrong(a, conn'[c], cPhase'[c], n'[c])
                        => IsWrong(a, conn[c], cPhase[c], n[c])
  PROVE  Wrong' \subseteq Wrong \cup B
<1> SUFFICES ASSUME NEW a \in Wrong', a \notin B
             PROVE  a \in Wrong
  OBVIOUS
<1>1. a \in Ask /\ IsWrong(a, conn'[a.addr[1]], cPhase'[a.addr[1]], n'[a.addr[1]])
  BY WrongMeans
<1>2. PICK x \in Client : x = a.addr[1]
  BY <1>1, AskParts
<1>3. IsWrong(a, conn[x], cPhase[x], n[x])
  BY <1>1, <1>2
<1> QED
  BY <1>1, <1>2, <1>3, WrongMeans

LEMMA SameWrong ==
  ASSUME NEW c \in Client, UNCHANGED <<conn, n>>,
         \A x \in Client : x # c => cPhase'[x] = cPhase[x],
         cPhase[c] # "waiting" \/ cPhase'[c] = "waiting"
  PROVE  Wrong' \subseteq Wrong
<1>1. Wrong' \subseteq Wrong \cup {}
  BY WrongElsewhere DEF IsWrong
<1> QED
  BY <1>1

(* What of the invariant a client's step may touch.                         *)
ClientPart ==
  /\ ClientTypeOK /\ SocketsUsed /\ AsksAreAlone
  /\ sockets \subseteq Address /\ asked \subseteq Ask /\ answers \subseteq Ask

LEMMA ClientTypes ==
  ASSUME TypeOK, NEW c \in Client
  PROVE  /\ cPhase \in [Client -> {"off", "ready", "waiting", "done"}]
         /\ conn \in [Client -> 0 .. Requests * Retries]
         /\ n \in [Client -> 0 .. Requests]
         /\ retries \in [Client -> 0 .. Retries - 1]
         /\ timer \in [Client -> 0 .. Patience]
         /\ mReply \in [Client -> 0 .. Requests]
         /\ sockets \subseteq Address /\ asked \subseteq Ask /\ answers \subseteq Ask
         /\ At(c) \in Address
         /\ Requests \in Nat /\ Retries \in Nat /\ Retries >= 1
         /\ Patience \in Nat /\ 0 \in 0 .. Requests /\ 0 \in 0 .. Patience
         /\ Patience \in 0 .. Patience /\ 0 \in 0 .. Retries - 1
<1>1. /\ cPhase \in [Client -> {"off", "ready", "waiting", "done"}]
      /\ conn \in [Client -> 0 .. Requests * Retries]
      /\ n \in [Client -> 0 .. Requests]
      /\ retries \in [Client -> 0 .. Retries - 1]
      /\ timer \in [Client -> 0 .. Patience]
      /\ mReply \in [Client -> 0 .. Requests]
      /\ sockets \subseteq Address /\ asked \subseteq Ask /\ answers \subseteq Ask
  BY DEF TypeOK, BrokerTypeOK, ClientTypeOK
<1>2. At(c) \in Address
  BY <1>1 DEF At, Address
<1>3. /\ Requests \in Nat /\ Retries \in Nat /\ Retries >= 1 /\ Patience \in Nat
  BY BrokerAssumption, ClientAssumption
<1>4. /\ 0 \in 0 .. Requests /\ 0 \in 0 .. Patience
      /\ Patience \in 0 .. Patience /\ 0 \in 0 .. Retries - 1
  BY <1>3
<1> QED
  BY <1>1, <1>2, <1>3, <1>4

LEMMA ClientStartKeeps ==
  ASSUME MajordomoInv, NEW c \in Client, ClientStart(c),
         UNCHANGED <<pending, idle, backDown, backUp>>
  PROVE  ClientPart'
<1>0. TypeOK /\ SocketsUsed /\ AsksAreAlone
  BY DEF MajordomoInv, Inv
<1>1. /\ cPhase[c] = "off" /\ cPhase' = [cPhase EXCEPT ![c] = "ready"]
      /\ sockets' = sockets \cup {At(c)}
      /\ UNCHANGED <<conn, n, retries, timer, mReply, asked, answers>>
  BY DEF ClientStart
<1>2. ClientTypeOK' /\ sockets' \subseteq Address /\ asked' \subseteq Ask
      /\ answers' \subseteq Ask
  BY <1>0, <1>1, ClientTypes DEF ClientTypeOK
<1>3. SocketsUsed'
  BY <1>0, <1>1, ClientTypes DEF SocketsUsed
<1>4. Wrong' \subseteq Wrong
  BY <1>0, <1>1, ClientTypes, SameWrong
<1>5. AsksAreAlone'
  BY <1>0, <1>1, <1>4, Losing
<1> QED
  BY <1>2, <1>3, <1>5 DEF ClientPart

LEMMA ClientEndKeeps ==
  ASSUME MajordomoInv, NEW c \in Client, ClientEnd(c),
         UNCHANGED <<pending, idle, backDown, backUp>>
  PROVE  ClientPart'
<1>0. TypeOK /\ SocketsUsed /\ AsksAreAlone
  BY DEF MajordomoInv, Inv
<1>1. /\ cPhase[c] = "ready" /\ cPhase' = [cPhase EXCEPT ![c] = "done"]
      /\ sockets' = sockets \ {At(c)} /\ answers' \subseteq answers
      /\ mReply' = [mReply EXCEPT ![c] = 0]
      /\ UNCHANGED <<conn, n, retries, timer, asked>>
  BY DEF ClientEnd
<1>2. ClientTypeOK' /\ sockets' \subseteq Address /\ asked' \subseteq Ask
      /\ answers' \subseteq Ask
  BY <1>0, <1>1, ClientTypes DEF ClientTypeOK
<1>3. SocketsUsed'
  BY <1>0, <1>1, ClientTypes DEF SocketsUsed
<1>4. Wrong' \subseteq Wrong
  BY <1>0, <1>1, ClientTypes, SameWrong
<1>5. AsksAreAlone'
  BY <1>0, <1>1, <1>4, Losing
<1> QED
  BY <1>2, <1>3, <1>5 DEF ClientPart

LEMMA SendKeeps ==
  ASSUME MajordomoInv, NEW c \in Client, Send(c),
         UNCHANGED <<pending, idle, backDown, backUp>>
  PROVE  ClientPart'
<1>0. TypeOK /\ SocketsUsed /\ AsksAreAlone
  BY DEF MajordomoInv, Inv
<1>1. /\ cPhase[c] = "ready" /\ n[c] # Requests
      /\ cPhase' = [cPhase EXCEPT ![c] = "waiting"]
      /\ n' = [n EXCEPT ![c] = @ + 1]
      /\ timer' = [timer EXCEPT ![c] = Patience]
      /\ asked' = asked \cup {[addr |-> At(c), n |-> n[c] + 1]}
      /\ UNCHANGED <<conn, retries, mReply, sockets, answers>>
  BY DEF Send, Ended
<1>m. PICK m \in 1 .. Requests : m = n[c] + 1
  BY <1>0, <1>1, ClientTypes
<1>2. ClientTypeOK'
  BY <1>0, <1>1, <1>m, ClientTypes DEF ClientTypeOK
<1>3. SocketsUsed'
  <2>1. ASSUME NEW x \in Client, x # c
        PROVE  /\ cPhase'[x] = cPhase[x] /\ n'[x] = n[x] /\ conn'[x] = conn[x]
               /\ retries'[x] = retries[x]
    BY <1>0, <1>1, <2>1, ClientTypes
  <2>2. /\ cPhase'[c] = "waiting" /\ n'[c] = n[c] + 1 /\ conn'[c] = conn[c]
        /\ retries'[c] = retries[c] /\ n[c] \in Nat
    BY <1>0, <1>1, ClientTypes
  <2>3. retries[c] = 0 /\ conn[c] <= n[c] * Retries
    BY <1>0, <1>1 DEF SocketsUsed
  <2>4. n[c] + 1 - 1 = n[c] /\ n[c] + 1 >= 1
    BY <2>2
  <2>5. conn'[c] <= (n'[c] - 1) * Retries + retries'[c]
    <3>1. n[c] * Retries + 0 = n[c] * Retries
      <4>1. \A x, y \in Nat : x * y + 0 = x * y
        OBVIOUS
      <4> QED
        BY <4>1, <2>2, <1>0, ClientTypes
    <3> QED
      BY <2>2, <2>3, <2>4, <3>1
  <2> QED
    BY <1>0, <2>1, <2>2, <2>4, <2>5 DEF SocketsUsed
<1>a. PICK a \in Ask : a = [addr |-> At(c), n |-> m]
  BY <1>0, ClientTypes DEF Ask
<1>4. a.addr = At(c) /\ a.addr[1] = c /\ a.addr[2] = conn[c] /\ a.n = m
  BY <1>a DEF At
<1>5. asked' = asked \cup {a}
  BY <1>1, <1>m, <1>a
<1>6. Wrong' \subseteq Wrong
  <2>1. \A x \in Client : x # c => /\ conn'[x] = conn[x] /\ n'[x] = n[x]
                                   /\ cPhase'[x] = cPhase[x]
    BY <1>0, <1>1, ClientTypes
  <2>2. conn'[c] = conn[c] /\ cPhase[c] # "waiting"
    BY <1>1
  <2>3. Wrong' \subseteq Wrong \cup {}
    BY <2>1, <2>2, WrongElsewhere DEF IsWrong
  <2> QED
    BY <2>3
<1>7. a \notin Wrong'
  <2>1. /\ conn'[c] = conn[c] /\ cPhase'[c] = "waiting" /\ n'[c] = m
        /\ conn[c] \in Nat
    BY <1>0, <1>1, <1>m, ClientTypes
  <2>2. ~IsWrong(a, conn'[c], cPhase'[c], n'[c])
    BY <1>4, <2>1 DEF IsWrong
  <2> QED
    BY <1>4, <2>2, WrongMeans
<1>8. AsksOf(a.addr) \subseteq Wrong
  <2>1. ASSUME NEW b \in AsksOf(a.addr)
        PROVE  b \in Wrong
    <3>1. b \in Ask /\ b.addr[1] = c /\ b.addr[2] = conn[c]
      BY <1>4, <2>1 DEF AsksOf
    <3>2. IsWrong(b, conn[c], cPhase[c], n[c])
      BY <1>1, <3>1 DEF IsWrong
    <3> QED
      BY <3>1, <3>2, WrongMeans
  <2> QED
    BY <2>1
<1>9. AsksAreAlone'
  BY <1>0, <1>1, <1>5, <1>6, <1>7, <1>8, Asking
<1>b. sockets' \subseteq Address /\ asked' \subseteq Ask /\ answers' \subseteq Ask
  BY <1>0, <1>1, <1>5, ClientTypes
<1> QED
  BY <1>2, <1>3, <1>9, <1>b DEF ClientPart

LEMMA HandleResponseKeeps ==
  ASSUME MajordomoInv, NEW c \in Client, HandleResponse(c),
         UNCHANGED <<pending, idle, backDown, backUp>>
  PROVE  ClientPart'
<1>0. TypeOK /\ SocketsUsed /\ AsksAreAlone
  BY DEF MajordomoInv, Inv
<1>1. /\ cPhase[c] = "waiting" /\ cPhase' = [cPhase EXCEPT ![c] = "ready"]
      /\ retries' = [retries EXCEPT ![c] = 0] /\ timer' = [timer EXCEPT ![c] = 0]
      /\ UNCHANGED <<conn, n, sockets, asked>>
  BY DEF HandleResponse, Returns
<1>a. PICK a \in answers : /\ a.addr = At(c)
                           /\ mReply' = [mReply EXCEPT ![c] = a.n]
                           /\ answers' = answers \ {a}
  BY DEF HandleResponse
<1>2. a \in Ask /\ a.n \in 0 .. Requests
  <2>1. a \in Ask
    BY <1>0, ClientTypes
  <2>2. \A x : x \in 1 .. Requests => x \in 0 .. Requests
    BY <1>0, ClientTypes
  <2> QED
    BY <2>1, <2>2, AskParts
<1>3. ClientTypeOK'
  BY <1>0, <1>1, <1>2, <1>a, ClientTypes DEF ClientTypeOK
<1>4. SocketsUsed'
  <2>1. conn[c] <= n[c] * Retries
    BY <1>0, <1>1, RoomForSockets
  <2>2. /\ \A x \in Client : x # c => cPhase'[x] = cPhase[x] /\ retries'[x] = retries[x]
        /\ cPhase'[c] = "ready" /\ retries'[c] = 0
    BY <1>0, <1>1, ClientTypes
  <2> QED
    BY <1>0, <1>1, <2>1, <2>2 DEF SocketsUsed
<1>5. Wrong' \subseteq Wrong \cup AsksOf(a.addr)
  <2>1. \A x \in Client : x # c => /\ conn'[x] = conn[x] /\ n'[x] = n[x]
                                   /\ cPhase'[x] = cPhase[x]
    BY <1>0, <1>1, ClientTypes
  <2>2. ASSUME NEW b \in Ask, b.addr[1] = c, b \notin AsksOf(a.addr),
               IsWrong(b, conn'[c], cPhase'[c], n'[c])
        PROVE  IsWrong(b, conn[c], cPhase[c], n[c])
    <3>1. b.addr # <<c, conn[c]>>
      BY <1>a, <2>2 DEF AsksOf, At
    <3>2. b.addr[2] # conn[c]
      BY <2>2, <3>1, AskParts
    <3> QED
      BY <1>1, <2>2, <3>2 DEF IsWrong
  <2> QED
    BY <2>1, <2>2, WrongElsewhere
<1>6. AsksAreAlone'
  BY <1>0, <1>1, <1>a, <1>2, <1>5, Answering
<1>7. sockets' \subseteq Address /\ asked' \subseteq Ask /\ answers' \subseteq Ask
  BY <1>0, <1>1, <1>a, ClientTypes
<1> QED
  BY <1>3, <1>4, <1>6, <1>7 DEF ClientPart

(* What Retry and GiveUp share: one socket more, and what the old one leaves *)
(* of what it asked.                                                        *)
LEMMA ReconnectMoves ==
  ASSUME TypeOK, NEW c \in Client, Reconnect(c), conn[c] + 1 \in 0 .. Requests * Retries
  PROVE  /\ conn' = [conn EXCEPT ![c] = @ + 1] /\ conn'[c] = conn[c] + 1
         /\ \A x \in Client : x # c => conn'[x] = conn[x]
         /\ conn' \in [Client -> 0 .. Requests * Retries]
         /\ sockets' \subseteq Address /\ answers' \subseteq answers
         /\ <<c, conn[c] + 1>> \in Address
         /\ \A kept \in AskedLeft(c) : kept \subseteq asked
<1>1. /\ conn' = [conn EXCEPT ![c] = @ + 1]
      /\ sockets' = (sockets \ {At(c)}) \cup {<<c, conn[c] + 1>>}
      /\ answers' \subseteq answers
  BY DEF Reconnect
<1>2. <<c, conn[c] + 1>> \in Address
  BY DEF Address
<1>3. \A kept \in AskedLeft(c) : kept \subseteq asked
  BY DEF AskedLeft
<1>4. /\ conn'[c] = conn[c] + 1
      /\ \A x \in Client : x # c => conn'[x] = conn[x]
      /\ conn' \in [Client -> 0 .. Requests * Retries]
  BY <1>1, ClientTypes
<1>5. sockets' \subseteq Address
  BY <1>1, <1>2, ClientTypes
<1> QED
  BY <1>1, <1>2, <1>3, <1>4, <1>5

LEMMA RetryKeeps ==
  ASSUME MajordomoInv, NEW c \in Client, Retry(c),
         UNCHANGED <<pending, idle, backDown, backUp>>
  PROVE  ClientPart'
<1>0. TypeOK /\ SocketsUsed /\ AsksAreAlone
  BY DEF MajordomoInv, Inv
<1>1. /\ cPhase[c] = "waiting" /\ retries[c] < Retries - 1 /\ Reconnect(c)
      /\ retries' = [retries EXCEPT ![c] = @ + 1]
      /\ timer' = [timer EXCEPT ![c] = Patience]
      /\ UNCHANGED <<cPhase, n, mReply>>
  BY DEF Retry, TimedOut
<1>2. /\ n[c] \in 1 .. Requests /\ conn[c] + 1 \in 0 .. Requests * Retries
      /\ conn[c] + 1 <= (n[c] - 1) * Retries + (retries[c] + 1)
  BY <1>0, <1>1, RoomForSockets
<1>3. /\ conn'[c] = conn[c] + 1 /\ \A x \in Client : x # c => conn'[x] = conn[x]
      /\ conn' \in [Client -> 0 .. Requests * Retries]
      /\ sockets' \subseteq Address /\ answers' \subseteq answers
      /\ <<c, conn[c] + 1>> \in Address
      /\ \A kept \in AskedLeft(c) : kept \subseteq asked
  BY <1>0, <1>1, <1>2, ReconnectMoves
<1>a. PICK a \in Ask : a = [addr |-> <<c, conn'[c]>>, n |-> n[c]]
  BY <1>2, <1>3 DEF Ask
<1>4. asked' \subseteq asked \cup {a}
  BY <1>3, <1>a DEF Retry
<1>5. ClientTypeOK'
  <2>1. retries[c] + 1 \in 0 .. Retries - 1
    BY <1>0, <1>1, ClientTypes
  <2>2. retries' \in [Client -> 0 .. Retries - 1]
    BY <1>0, <1>1, <2>1, ClientTypes
  <2>3. timer' \in [Client -> 0 .. Patience]
    BY <1>0, <1>1, ClientTypes
  <2>4. /\ cPhase' \in [Client -> {"off", "ready", "waiting", "done"}]
        /\ n' \in [Client -> 0 .. Requests] /\ mReply' \in [Client -> 0 .. Requests]
    BY <1>0, <1>1, ClientTypes
  <2> QED
    BY <1>3, <2>2, <2>3, <2>4 DEF ClientTypeOK
<1>6. SocketsUsed'
  <2>1. /\ retries'[c] = retries[c] + 1
        /\ \A x \in Client : x # c => retries'[x] = retries[x]
    BY <1>0, <1>1, ClientTypes
  <2>2. n[c] >= 1
    BY <1>2
  <2> QED
    BY <1>0, <1>1, <1>2, <1>3, <2>1, <2>2 DEF SocketsUsed
<1>7. a.addr = <<c, conn[c] + 1>> /\ a.addr[1] = c /\ a.addr[2] = conn[c] + 1 /\ a.n = n[c]
  BY <1>3, <1>a
<1>c. conn[c] \in Int /\ conn[c] < conn[c] + 1
  BY <1>0, ClientTypes
<1>8. Wrong' \subseteq Wrong
  <2>1. \A x \in Client : x # c => /\ conn'[x] = conn[x] /\ n'[x] = n[x]
                                   /\ cPhase'[x] = cPhase[x]
    BY <1>1, <1>3
  <2>2. ASSUME NEW b \in Ask, IsWrong(b, conn'[c], cPhase'[c], n'[c])
        PROVE  IsWrong(b, conn[c], cPhase[c], n[c])
    <3>1. b.addr[2] >= conn[c] + 1 /\ b.addr[2] \in Int
      <4>1. b.addr[2] \in 0 .. Requests * Retries
        BY AskParts
      <4>2. b.addr[2] \in Int
        BY <4>1
      <4> QED
        BY <1>3, <1>c, <2>2, <4>2 DEF IsWrong
    <3>2. b.addr[2] > conn[c]
      BY <1>c, <3>1
    <3> QED
      BY <3>2 DEF IsWrong
  <2>3. Wrong' \subseteq Wrong \cup {}
    BY <2>1, <2>2, WrongElsewhere
  <2> QED
    BY <2>3
<1>9. a \notin Wrong'
  <2>1. ~IsWrong(a, conn'[c], cPhase'[c], n'[c])
    BY <1>1, <1>3, <1>7, <1>c DEF IsWrong
  <2> QED
    BY <1>7, <2>1, WrongMeans
<1>b. AsksOf(a.addr) \subseteq Wrong
  <2>1. ASSUME NEW b \in AsksOf(a.addr)
        PROVE  b \in Wrong
    <3>1. b \in Ask /\ b.addr[1] = c /\ b.addr[2] = conn[c] + 1
      BY <1>7, <2>1 DEF AsksOf
    <3>2. IsWrong(b, conn[c], cPhase[c], n[c])
      BY <1>c, <3>1 DEF IsWrong
    <3> QED
      BY <3>1, <3>2, WrongMeans
  <2> QED
    BY <2>1
<1>d. AsksAreAlone'
  BY <1>0, <1>3, <1>4, <1>8, <1>9, <1>b, Asking
<1>e. asked' \subseteq Ask /\ answers' \subseteq Ask
  BY <1>0, <1>3, <1>4, ClientTypes
<1> QED
  BY <1>3, <1>5, <1>6, <1>d, <1>e DEF ClientPart

LEMMA GiveUpKeeps ==
  ASSUME MajordomoInv, NEW c \in Client, GiveUp(c),
         UNCHANGED <<pending, idle, backDown, backUp>>
  PROVE  ClientPart'
<1>0. TypeOK /\ SocketsUsed /\ AsksAreAlone
  BY DEF MajordomoInv, Inv
<1>1. /\ cPhase[c] = "waiting" /\ retries[c] = Retries - 1 /\ Reconnect(c)
      /\ cPhase' = [cPhase EXCEPT ![c] = "ready"]
      /\ asked' \in AskedLeft(c)
      /\ retries' = [retries EXCEPT ![c] = 0] /\ timer' = [timer EXCEPT ![c] = 0]
      /\ UNCHANGED <<n, mReply>>
  BY DEF GiveUp, TimedOut, Returns
<1>2. conn[c] + 1 \in 0 .. Requests * Retries /\ conn[c] + 1 <= n[c] * Retries
  BY <1>0, <1>1, RoomForSockets
<1>3. /\ conn'[c] = conn[c] + 1 /\ \A x \in Client : x # c => conn'[x] = conn[x]
      /\ conn' \in [Client -> 0 .. Requests * Retries]
      /\ sockets' \subseteq Address /\ answers' \subseteq answers
      /\ asked' \subseteq asked
  BY <1>0, <1>1, <1>2, ReconnectMoves
<1>4. ClientTypeOK'
  BY <1>0, <1>1, <1>3, ClientTypes DEF ClientTypeOK
<1>5. SocketsUsed'
  <2>1. /\ retries'[c] = 0 /\ cPhase'[c] = "ready"
        /\ \A x \in Client : x # c => retries'[x] = retries[x] /\ cPhase'[x] = cPhase[x]
    BY <1>0, <1>1, ClientTypes
  <2> QED
    BY <1>0, <1>1, <1>2, <1>3, <2>1 DEF SocketsUsed
<1>c. conn[c] \in Int /\ conn[c] < conn[c] + 1
  BY <1>0, ClientTypes
<1>6. Wrong' \subseteq Wrong
  <2>1. \A x \in Client : x # c => /\ conn'[x] = conn[x] /\ n'[x] = n[x]
                                   /\ cPhase'[x] = cPhase[x]
    BY <1>0, <1>1, <1>3, ClientTypes
  <2>2. ASSUME NEW b \in Ask, IsWrong(b, conn'[c], cPhase'[c], n'[c])
        PROVE  IsWrong(b, conn[c], cPhase[c], n[c])
    <3>1. b.addr[2] \in 0 .. Requests * Retries
      BY AskParts
    <3>2. b.addr[2] \in Int
      BY <3>1
    <3>3. b.addr[2] > conn[c]
      BY <1>3, <1>c, <2>2, <3>2 DEF IsWrong
    <3> QED
      BY <3>3 DEF IsWrong
  <2>3. Wrong' \subseteq Wrong \cup {}
    BY <2>1, <2>2, WrongElsewhere
  <2> QED
    BY <2>3
<1>7. AsksAreAlone'
  BY <1>0, <1>3, <1>6, Losing
<1>8. asked' \subseteq Ask /\ answers' \subseteq Ask
  BY <1>0, <1>3, ClientTypes
<1> QED
  BY <1>3, <1>4, <1>5, <1>7, <1>8 DEF ClientPart

-----------------------------------------------------------------------------
(* Registration.                                                            *)

LEMMA ReadiesOnly ==
  /\ \A s \in Service : Ready(s) \in Readies
  /\ \A a : Reply(a) \notin Readies
  /\ Heartbeat \notin Readies
<1>1. \A s : Ready(s).type = "Ready"
  BY DEF Ready
<1> QED
  BY <1>1, Messages DEF Readies

(* What of the invariant a broker's step may touch, but for the queues.     *)
BrokerPart == BrokerTypeOK /\ IdleAreRegistered /\ ReadyIsNew

LEMMA BrokerTypes ==
  ASSUME TypeOK
  PROVE  /\ up \in BOOLEAN /\ todo \subseteq {"back", "front", "house"}
         /\ registered \in [WorkerId -> Service \cup {NoService}]
         /\ ttl \in [WorkerId -> 0 .. Expiry]
         /\ services \subseteq Service
         /\ idle \in [Service -> Seq(WorkerId)]
         /\ pending \in [Service -> Seq(Ask)]
         /\ beatDue \in BOOLEAN
         /\ sockets \subseteq Address /\ asked \subseteq Ask /\ answers \subseteq Ask
         /\ peers \subseteq WorkerId
         /\ backUp \in [WorkerId -> Seq(UpMsg)]
         /\ backDown \in [WorkerId -> Seq(DownMsg)]
BY DEF TypeOK, BrokerTypeOK

LEMMA StillNew ==
  ASSUME ReadyIsNew,
         \A w \in WorkerId :
           registered'[w] # NoService
             => \/ NoneOf(backUp'[w], Readies)
                \/ /\ registered[w] # NoService
                   /\ NoMore(backUp'[w], backUp[w], Readies)
  PROVE  ReadyIsNew'
BY DEF ReadyIsNew, NoMore

LEMMA BrokerWaitKeeps ==
  ASSUME TypeOK, IdleAreRegistered, ReadyIsNew, BrokerWait
  PROVE  BrokerPart'
<1>1. UNCHANGED <<up, registered, ttl, services, idle, pending, beatDue, sockets,
                  asked, answers, peers, backUp, backDown>>
  BY DEF BrokerWait, frontVars, backVars
<1>2. todo' \subseteq {"back", "front", "house"}
  BY DEF BrokerWait, Readable
<1>3. BrokerTypeOK'
  BY <1>1, <1>2, BrokerTypes DEF BrokerTypeOK
<1>4. IdleAreRegistered' /\ ReadyIsNew'
  BY <1>1 DEF IdleAreRegistered, ReadyIsNew
<1> QED
  BY <1>3, <1>4 DEF BrokerPart

LEMMA HousekeepingKeeps ==
  ASSUME TypeOK, IdleAreRegistered, ReadyIsNew, Housekeeping
  PROVE  BrokerPart'
<1>1. /\ UNCHANGED <<up, ttl, services, pending, sockets, asked, answers, peers, backUp>>
      /\ todo' = {} /\ beatDue' = FALSE
      /\ registered' = [w \in WorkerId |->
                          IF w \in Expired THEN NoService ELSE registered[w]]
  BY DEF Housekeeping, frontVars
<1>2. registered' \in [WorkerId -> Service \cup {NoService}]
  BY <1>1, BrokerTypes
<1>3. ASSUME NEW s \in Service
      PROVE  /\ idle'[s] \in Seq(WorkerId)
             /\ \A k \in DOMAIN idle'[s] : registered'[idle'[s][k]] = s
  <2> DEFINE I == {i \in DOMAIN idle[s] : ~(idle[s][i] \in Expired
                                           /\ registered[idle[s][i]] = s)}
  <2>1. idle'[s] = Pick(idle[s], I) /\ idle[s] \in Seq(WorkerId)
    BY BrokerTypes DEF Housekeeping
  <2>2. I \in SUBSET (1 .. Len(idle[s])) /\ DOMAIN idle[s] = 1 .. Len(idle[s])
    BY <2>1, LenProperties
  <2>3. \A i \in I : i \in DOMAIN idle[s] /\ ~(idle[s][i] \in Expired
                                               /\ registered[idle[s][i]] = s)
    OBVIOUS
  <2> HIDE DEF I
  <2>4. /\ idle'[s] \in Seq(WorkerId) /\ Len(idle'[s]) = Cardinality(I)
        /\ \A k \in 1 .. Cardinality(I) : Nth(I, k) \in I /\ idle'[s][k] = idle[s][Nth(I, k)]
    BY <2>1, <2>2, PickPositions
  <2>5. DOMAIN idle'[s] = 1 .. Cardinality(I)
    BY <2>4, LenProperties
  <2>6. ASSUME NEW k \in DOMAIN idle'[s]
        PROVE  registered'[idle'[s][k]] = s
    <3>1. PICK i \in I : idle'[s][k] = idle[s][i]
      BY <2>4, <2>5
    <3>2. registered[idle[s][i]] = s /\ idle[s][i] \in WorkerId
      BY <2>1, <2>2, <2>3, ElementOfSeq DEF IdleAreRegistered
    <3>3. idle[s][i] \notin Expired
      BY <2>3, <3>2
    <3> QED
      BY <1>1, <3>1, <3>2, <3>3
  <2> QED
    BY <2>4, <2>6
<1>4. idle' \in [Service -> Seq(WorkerId)]
  BY <1>3 DEF Housekeeping
<1>5. backDown' \in [WorkerId -> Seq(DownMsg)]
  <2>1. ASSUME NEW w \in WorkerId
        PROVE  backDown'[w] \in Seq(DownMsg)
    <3>1. \/ backDown'[w] = backDown[w]
          \/ backDown'[w] = Append(backDown[w], Heartbeat)
      BY DEF Housekeeping
    <3>2. backDown[w] \in Seq(DownMsg) /\ Heartbeat \in DownMsg
      BY BrokerTypes, Messages
    <3> QED
      BY <3>1, <3>2, AppendProperties, SMTT(30)
  <2> QED
    BY <2>1 DEF Housekeeping
<1>6. BrokerTypeOK'
  BY <1>1, <1>2, <1>4, <1>5, BrokerTypes DEF BrokerTypeOK
<1>7. ReadyIsNew'
  BY <1>1, StillNew, NoMoreOfSame
<1> QED
  BY <1>3, <1>6, <1>7 DEF BrokerPart, IdleAreRegistered

LEMMA WorkerResponseKeeps ==
  ASSUME TypeOK, IdleAreRegistered, ReadyIsNew, TokensAreAlone,
         NEW w \in WorkerId, HandleWorkerResponse(w)
  PROVE  BrokerPart'
<1>q. PICK q \in Seq(UpMsg) : q = backUp[w]
  BY BrokerTypes
<1>m. PICK m : m = Head(q)
  OBVIOUS
<1>1. /\ q # <<>> /\ backUp' = [backUp EXCEPT ![w] = Tail(q)]
      /\ todo' = todo \ {"back"}
      /\ UNCHANGED <<up, pending, beatDue, sockets, asked, peers, backDown>>
      /\ \/ m.type = "Ready" /\ HandleReady(w, m.service)
         \/ m.type = "Reply" /\ HandleReply(w, m.ask)
         \/ m.type = "Heartbeat" /\ HandleHeartbeat(w)
  BY <1>q, <1>m DEF HandleWorkerResponse
<1>2. m \in UpMsg /\ Tail(q) \in Seq(UpMsg) /\ \A X : NoMore(Tail(q), q, X)
  BY <1>1, <1>m, HeadFound
<1>3. /\ backUp' \in [WorkerId -> Seq(UpMsg)]
      /\ \A x \in WorkerId : NoMore(backUp'[x], backUp[x], Readies)
      /\ backUp'[w] = Tail(q)
  <2>1. /\ backUp'[w] = Tail(q)
        /\ \A x \in WorkerId : x # w => backUp'[x] = backUp[x]
    BY <1>1, BrokerTypes
  <2>2. backUp' \in [WorkerId -> Seq(UpMsg)]
    BY <1>1, <1>2, BrokerTypes
  <2>3. \A x \in WorkerId : NoMore(backUp'[x], backUp[x], Readies)
    BY <1>q, <1>2, <2>1, NoMoreOfSame
  <2> QED
    BY <2>1, <2>2, <2>3
<1>4. todo' \subseteq {"back", "front", "house"}
  BY <1>1, BrokerTypes
<1>5. CASE m.type = "Ready" /\ HandleReady(w, m.service)
  <2>1. m.service \in Service /\ m = Ready(m.service)
    BY <1>2, <1>5, Messages
  <2>s. PICK s \in Service : s = m.service
    BY <2>1
  <2>2. /\ registered' = [registered EXCEPT ![w] = s]
        /\ ttl' = [ttl EXCEPT ![w] = Expiry]
        /\ services' = services \cup {s}
        /\ idle' = [idle EXCEPT ![s] = Append(@, w)]
        /\ UNCHANGED answers
    BY <1>5, <2>s DEF HandleReady
  <2>3. Expiry \in 0 .. Expiry
    BY BrokerAssumption
  <2>4. /\ idle[s] \in Seq(WorkerId) /\ Append(idle[s], w) \in Seq(WorkerId)
        /\ idle'[s] = Append(idle[s], w)
        /\ \A t \in Service : t # s => idle'[t] = idle[t]
    BY <2>2, BrokerTypes, AppendProperties
  <2>5. BrokerTypeOK'
    <3>1. registered' \in [WorkerId -> Service \cup {NoService}]
      BY <2>2, BrokerTypes
    <3>2. ttl' \in [WorkerId -> 0 .. Expiry]
      BY <2>2, <2>3, BrokerTypes
    <3>3. idle' \in [Service -> Seq(WorkerId)]
      BY <2>2, <2>4, BrokerTypes
    <3> QED
      BY <1>1, <1>3, <1>4, <2>2, <3>1, <3>2, <3>3, BrokerTypes DEF BrokerTypeOK
  <2>6. Head(q) \in Readies /\ Head(q) \in Claims
    <3>1. Ready(s) \in UpMsg /\ Ready(s).type = "Ready"
      BY Messages
    <3> QED
      BY <1>m, <2>1, <2>s, <3>1, ReadiesOnly DEF Claims
  <2>7. registered[w] = NoService
    <3>1. Positions(q, Readies) # {}
      BY <1>1, <2>6, HeadFound
    <3> QED
      BY <1>q, <3>1 DEF ReadyIsNew, NoneOf
  <2>8. ReadyIsNew'
    <3>1. NoneOf(Tail(q), Readies)
      <4>s. PICK S : S = TokensOf(w)
        OBVIOUS
      <4>1. S[<<"up", w>>] = Claims
        BY <4>s, TokensAt
      <4>2. Found(S)[<<"up", w>>] = Positions(q, Claims)
        BY <1>q, <4>1, FoundAt
      <4>3. OneAmong(Place, Found(S)) /\ <<"up", w>> \in Place
        BY <4>s, Places DEF TokensAreAlone
      <4>4. AtMostOne(Positions(q, Claims))
        BY <4>2, <4>3 DEF OneAmong, AtMostOne
      <4>5. Positions(Tail(q), Claims) = {}
        BY <1>1, <2>6, <4>4, HeadFound
      <4>6. Readies \subseteq Claims
        BY Messages DEF Readies, Claims
      <4> QED
        BY <4>5, <4>6 DEF NoneOf, Positions
    <3>2. \A x \in WorkerId : x # w => registered'[x] = registered[x]
      BY <2>2, BrokerTypes
    <3> QED
      BY <1>3, <3>1, <3>2, StillNew
  <2>9. IdleAreRegistered'
    <3>1. ASSUME NEW t \in Service, NEW i \in DOMAIN idle'[t]
          PROVE  registered'[idle'[t][i]] = t
      <4>1. \A k \in DOMAIN idle[t] : idle[t][k] # w /\ registered'[idle[t][k]] = t
        <5>1. ASSUME NEW k \in DOMAIN idle[t]
              PROVE  idle[t][k] # w /\ registered'[idle[t][k]] = t
          <6>1. registered[idle[t][k]] = t /\ t # NoService
            BY BrokerAssumption DEF IdleAreRegistered
          <6>2. idle[t][k] # w
            BY <2>7, <6>1
          <6>3. idle[t][k] \in WorkerId
            BY BrokerTypes, ElementOfSeq, LenProperties
          <6> QED
            BY <2>2, <6>1, <6>2, <6>3, BrokerTypes
        <5> QED
          BY <5>1
      <4>2. CASE t # s
        BY <2>4, <4>1, <4>2
      <4>3. CASE t = s
        <5>1. /\ DOMAIN idle[s] = 1 .. Len(idle[s]) /\ Len(idle[s]) \in Nat
              /\ DOMAIN idle'[s] = 1 .. Len(idle[s]) + 1
              /\ \A k \in 1 .. Len(idle[s]) : idle'[s][k] = idle[s][k]
              /\ idle'[s][Len(idle[s]) + 1] = w
          BY <2>4, AppendProperties, LenProperties
        <5>2. i \in DOMAIN idle[s] \/ i = Len(idle[s]) + 1
          BY <4>3, <5>1
        <5>3. registered'[w] = s
          BY <2>2, BrokerTypes
        <5> QED
          BY <4>1, <4>3, <5>1, <5>2, <5>3
      <4> QED
        BY <4>2, <4>3
    <3> QED
      BY <3>1 DEF IdleAreRegistered
  <2> QED
    BY <2>5, <2>8, <2>9 DEF BrokerPart
<1>6. CASE m.type = "Reply" /\ HandleReply(w, m.ask)
  <2>a. PICK a \in Ask : a = m.ask
    BY <1>2, <1>6, Messages
  <2>1. UNCHANGED <<registered, ttl, services>> /\ answers' \subseteq Ask
    BY <1>6, <2>a, BrokerTypes DEF HandleReply
  <2>2. idle' \in [Service -> Seq(WorkerId)] /\ IdleAreRegistered'
    <3>1. CASE w \notin Registered
      <4>1. UNCHANGED idle
        BY <1>6, <3>1 DEF HandleReply
      <4> QED
        BY <2>1, <4>1, BrokerTypes DEF IdleAreRegistered
    <3>2. CASE w \in Registered
      <4>s. PICK s \in Service : s = registered[w]
        BY <3>2, BrokerTypes DEF Registered
      <4>1. idle' = [idle EXCEPT ![s] = Append(@, w)]
        BY <1>6, <3>2, <4>s DEF HandleReply
      <4>2. /\ idle[s] \in Seq(WorkerId) /\ Append(idle[s], w) \in Seq(WorkerId)
            /\ idle'[s] = Append(idle[s], w)
            /\ \A t \in Service : t # s => idle'[t] = idle[t]
        BY <4>1, BrokerTypes, AppendProperties
      <4>3. idle' \in [Service -> Seq(WorkerId)]
        BY <4>1, <4>2, BrokerTypes
      <4>4. /\ DOMAIN idle[s] = 1 .. Len(idle[s]) /\ Len(idle[s]) \in Nat
            /\ DOMAIN idle'[s] = 1 .. Len(idle[s]) + 1
            /\ \A k \in 1 .. Len(idle[s]) : idle'[s][k] = idle[s][k]
            /\ idle'[s][Len(idle[s]) + 1] = w
        BY <4>2, AppendProperties, LenProperties
      <4>5. ASSUME NEW i \in DOMAIN idle'[s]
            PROVE  registered'[idle'[s][i]] = s
        <5>1. i \in DOMAIN idle[s] \/ i = Len(idle[s]) + 1
          BY <4>4
        <5> QED
          BY <2>1, <4>s, <4>4, <5>1 DEF IdleAreRegistered
      <4> QED
        BY <2>1, <4>2, <4>3, <4>5 DEF IdleAreRegistered
    <3> QED
      BY <3>1, <3>2
  <2>3. BrokerTypeOK'
    BY <1>1, <1>3, <1>4, <2>1, <2>2, BrokerTypes DEF BrokerTypeOK
  <2>4. ReadyIsNew'
    BY <1>3, <2>1, StillNew
  <2> QED
    BY <2>2, <2>3, <2>4 DEF BrokerPart
<1>7. CASE m.type = "Heartbeat" /\ HandleHeartbeat(w)
  <2>1. /\ ttl' = [ttl EXCEPT ![w] = IF w \in Registered THEN Expiry ELSE @]
        /\ UNCHANGED <<registered, services, idle, answers>>
    BY <1>7 DEF HandleHeartbeat
  <2>2. ttl' \in [WorkerId -> 0 .. Expiry]
    <3>1. Expiry \in 0 .. Expiry
      BY BrokerAssumption
    <3> QED
      BY <2>1, <3>1, BrokerTypes
  <2>3. BrokerTypeOK'
    BY <1>1, <1>3, <1>4, <2>1, <2>2, BrokerTypes DEF BrokerTypeOK
  <2>4. ReadyIsNew'
    BY <1>3, <2>1, StillNew
  <2>5. IdleAreRegistered'
    BY <2>1 DEF IdleAreRegistered
  <2> QED
    BY <2>3, <2>4, <2>5 DEF BrokerPart
<1> QED
  BY <1>1, <1>5, <1>6, <1>7

LEMMA ClientRequestKeeps ==
  ASSUME TypeOK, IdleAreRegistered, ReadyIsNew, NEW a \in asked, HandleClientRequest(a)
  PROVE  BrokerPart'
<1>0. a \in Ask
  BY BrokerTypes
<1>s. PICK s \in Service : s = WantOf[a.addr[1]]
  BY <1>0, AskParts, BrokerAssumption
<1>1. /\ asked' = asked \ {a} /\ todo' = todo \ {"front"}
      /\ IF s \in services THEN HandOut(s, Append(pending[s], a))
                           ELSE UNCHANGED <<idle, pending, backDown>>
      /\ UNCHANGED <<up, registered, ttl, services, beatDue, sockets, answers,
                     peers, backUp>>
  BY <1>s DEF HandleClientRequest
<1>2. /\ idle' \in [Service -> Seq(WorkerId)] /\ pending' \in [Service -> Seq(Ask)]
      /\ backDown' \in [WorkerId -> Seq(DownMsg)] /\ IdleAreRegistered'
  <2>1. CASE s \notin services
    BY <1>1, <2>1, BrokerTypes DEF IdleAreRegistered
  <2>2. CASE s \in services
    <3>r. PICK r \in Seq(Ask) : r = Append(pending[s], a)
      BY <1>0, BrokerTypes, AppendProperties
    <3>m. PICK m : m = MinOf(Len(idle[s]), Len(r))
      OBVIOUS
    <3>q. PICK q : q = idle[s]
      OBVIOUS
    <3>1. /\ m \in Nat /\ m <= Len(q) /\ m <= Len(r) /\ q \in Seq(WorkerId)
          /\ idle'[s] = SubSeq(q, m + 1, Len(q))
          /\ pending'[s] = SubSeq(r, m + 1, Len(r))
          /\ \A t \in Service : t # s => idle'[t] = idle[t] /\ pending'[t] = pending[t]
          /\ \A w \in WorkerId :
               /\ backDown[w] \in Seq(DownMsg)
               /\ backDown'[w] = backDown[w] \o Given(w, q, r, m)
      <4>1. HandOut(s, r) /\ m = MinOf(Len(idle[s]), Len(r))
        BY <1>1, <2>2, <3>r, <3>m
      <4> QED
        BY <3>q, <4>1, HandOutQueues, ZenonT(40)
    <3>2. m + 1 \in Nat \ {0} /\ Len(q) \in Nat /\ Len(r) \in Nat
          /\ Len(q) <= Len(q) /\ Len(r) <= Len(r)
      BY <3>1, LenProperties
    <3>3. /\ idle'[s] \in Seq(WorkerId)
          /\ \A i \in 1 .. Len(idle'[s]) :
               m + 1 + i - 1 \in 1 .. Len(q) /\ idle'[s][i] = q[m + 1 + i - 1]
      BY <3>1, <3>2, SubSeqElements
    <3>4. pending'[s] \in Seq(Ask)
      BY <3>1, <3>2, SubSeqElements
    <3>5. ASSUME NEW w \in WorkerId
          PROVE  backDown'[w] \in Seq(DownMsg)
      <4>g. PICK g : g = Given(w, q, r, m)
        OBVIOUS
      <4>1. g \in Seq(DownMsg)
        BY <3>1, <4>g, GivenElements
      <4> QED
        BY <3>1, <4>g, <4>1, ConcatProperties, ZenonT(40)
    <3>6. /\ idle' = [idle EXCEPT ![s] = idle'[s]]
          /\ pending' = [pending EXCEPT ![s] = pending'[s]]
          /\ backDown' = [w \in WorkerId |-> backDown'[w]]
      <4>1. HandOut(s, r)
        BY <1>1, <2>2, <3>r
      <4> QED
        BY <4>1, BrokerTypes DEF HandOut
    <3>7. /\ idle' \in [Service -> Seq(WorkerId)]
          /\ pending' \in [Service -> Seq(Ask)]
          /\ backDown' \in [WorkerId -> Seq(DownMsg)]
      BY <3>3, <3>4, <3>5, <3>6, BrokerTypes
    <3>8. ASSUME NEW i \in DOMAIN idle'[s]
          PROVE  registered[idle'[s][i]] = s
      <4>1. DOMAIN idle'[s] = 1 .. Len(idle'[s]) /\ DOMAIN q = 1 .. Len(q)
        BY <3>1, <3>3, LenProperties
      <4>2. \A k \in 1 .. Len(q) : registered[q[k]] = s
        BY <3>q, <4>1 DEF IdleAreRegistered
      <4> QED
        BY <3>3, <4>1, <4>2
    <3> QED
      BY <1>1, <3>1, <3>7, <3>8 DEF IdleAreRegistered
  <2> QED
    BY <2>1, <2>2
<1>3. BrokerTypeOK'
  BY <1>1, <1>2, BrokerTypes DEF BrokerTypeOK
<1>4. ReadyIsNew'
  BY <1>1 DEF ReadyIsNew
<1> QED
  BY <1>2, <1>3, <1>4 DEF BrokerPart

LEMMA BrokerCrashKeeps ==
  ASSUME TypeOK, BrokerCrash
  PROVE  BrokerPart'
<1>1. /\ up' = FALSE /\ todo' = {} /\ asked' \subseteq asked /\ answers' \subseteq answers
      /\ UNCHANGED <<sockets, peers>>
  BY DEF BrokerCrash
<1>2. /\ registered' = [w \in WorkerId |-> NoService]
      /\ ttl' = [w \in WorkerId |-> 0] /\ services' = {}
      /\ idle' = [s \in Service |-> <<>>] /\ pending' = [s \in Service |-> <<>>]
      /\ beatDue' = TRUE
  BY DEF BrokerCrash, EmptyMaps
<1>3. backUp' \in [WorkerId -> Seq(UpMsg)] /\ backDown' \in [WorkerId -> Seq(DownMsg)]
  <2>1. PICK cut \in [WorkerId -> 0 .. MaxCut], left \in [WorkerId -> 0 .. MaxCut] :
          /\ \A w \in WorkerId :
               cut[w] <= Len(backUp[w]) /\ left[w] <= Len(backDown[w])
          /\ backUp' = [w \in WorkerId |->
                          SubSeq(backUp[w], cut[w] + 1, Len(backUp[w]))]
          /\ backDown' = [w \in WorkerId |-> SubSeq(backDown[w], 1, left[w])]
    BY DEF BrokerCrash
  <2>2. ASSUME NEW w \in WorkerId
        PROVE  /\ SubSeq(backUp[w], cut[w] + 1, Len(backUp[w])) \in Seq(UpMsg)
               /\ SubSeq(backDown[w], 1, left[w]) \in Seq(DownMsg)
    <3>1. /\ backUp[w] \in Seq(UpMsg) /\ backDown[w] \in Seq(DownMsg)
          /\ Len(backUp[w]) \in Nat
      BY BrokerTypes, LenProperties
    <3>2. cut[w] \in Nat /\ left[w] \in Nat /\ left[w] <= Len(backDown[w])
      BY <2>1
    <3>3. cut[w] + 1 \in Nat \ {0} /\ Len(backUp[w]) <= Len(backUp[w])
      BY <3>1, <3>2
    <3>4. SubSeq(backUp[w], cut[w] + 1, Len(backUp[w])) \in Seq(UpMsg)
      BY <3>1, <3>3, SubSeqElements
    <3>5. SubSeq(backDown[w], 1, left[w]) \in Seq(DownMsg)
      BY <3>1, <3>2, SubSeqElements
    <3> QED
      BY <3>4, <3>5
  <2> QED
    BY <2>1, <2>2
<1>4. ttl' \in [WorkerId -> 0 .. Expiry]
  <2>1. 0 \in 0 .. Expiry
    BY BrokerAssumption
  <2> QED
    BY <1>2, <2>1
<1>5. idle' \in [Service -> Seq(WorkerId)] /\ pending' \in [Service -> Seq(Ask)]
  BY <1>2
<1>6. BrokerTypeOK'
  BY <1>1, <1>2, <1>3, <1>4, <1>5, BrokerTypes DEF BrokerTypeOK
<1>7. IdleAreRegistered' /\ ReadyIsNew'
  <2>1. \A s \in Service : DOMAIN idle'[s] = {}
    BY <1>2
  <2> QED
    BY <1>2, <2>1 DEF IdleAreRegistered, ReadyIsNew
<1> QED
  BY <1>6, <1>7 DEF BrokerPart

LEMMA BrokerStartAndTickKeep ==
  ASSUME TypeOK, IdleAreRegistered, ReadyIsNew,
         \/ BrokerStart
         \/ BrokerTick /\ UNCHANGED <<frontVars, backVars>>
  PROVE  BrokerPart'
<1>1. /\ up' \in BOOLEAN /\ beatDue' \in BOOLEAN
      /\ UNCHANGED <<todo, registered, services, idle, pending, sockets, asked,
                     answers, peers, backUp, backDown>>
  BY BrokerTypes DEF BrokerStart, BrokerTick, frontVars, backVars
<1>2. ttl' \in [WorkerId -> 0 .. Expiry]
  <2>1. \A x \in 0 .. Expiry : (IF x = 0 THEN 0 ELSE x - 1) \in 0 .. Expiry
    BY BrokerAssumption
  <2>2. CASE BrokerStart
    BY <2>2, BrokerTypes DEF BrokerStart
  <2>3. CASE BrokerTick
    BY <2>1, <2>3, BrokerTypes DEF BrokerTick
  <2> QED
    BY <2>2, <2>3
<1>3. BrokerTypeOK'
  BY <1>1, <1>2, BrokerTypes DEF BrokerTypeOK
<1>4. IdleAreRegistered' /\ ReadyIsNew'
  BY <1>1 DEF IdleAreRegistered, ReadyIsNew
<1> QED
  BY <1>3, <1>4 DEF BrokerPart

-----------------------------------------------------------------------------
(* The steps of a worker.                                                   *)

WorkerPart == WorkerTypeOK /\ SleepersAreOpen /\ BrokerPart

LEMMA WorkerTypes ==
  ASSUME TypeOK
  PROVE  /\ wId \in [WorkerProc -> WorkerId \cup {NoId}]
         /\ missing \in [WorkerProc -> 0 .. MaxMissing]
         /\ elapsed \in [WorkerProc -> BOOLEAN]
         /\ nap \in [WorkerProc -> -1 .. NapTicks]
         /\ 0 \in 0 .. MaxMissing /\ -1 \in -1 .. NapTicks /\ NapTicks \in -1 .. NapTicks
<1>1. 0 \in 0 .. MaxMissing /\ -1 \in -1 .. NapTicks /\ NapTicks \in -1 .. NapTicks
  BY WorkerAssumption
<1> QED
  BY <1>1 DEF TypeOK, WorkerTypeOK

(* A worker's step leaves the broker's maps alone.                          *)
LEMMA BrokerPartOfWorkers ==
  ASSUME TypeOK, IdleAreRegistered, ReadyIsNew, UNCHANGED <<brokerVars, frontVars>>,
         peers' \subseteq WorkerId, backUp' \in [WorkerId -> Seq(UpMsg)],
         backDown' \in [WorkerId -> Seq(DownMsg)],
         \A w \in Registered : NoMore(backUp'[w], backUp[w], Readies)
  PROVE  BrokerPart'
<1>1. UNCHANGED <<up, todo, registered, ttl, services, idle, pending, beatDue,
                  sockets, asked, answers>>
  BY DEF brokerVars, frontVars
<1>2. BrokerTypeOK'
  BY <1>1, BrokerTypes DEF BrokerTypeOK
<1>3. IdleAreRegistered' /\ ReadyIsNew'
  BY <1>1, StillNew DEF IdleAreRegistered, Registered
<1> QED
  BY <1>2, <1>3 DEF BrokerPart

LEMMA ConnectKeeps ==
  ASSUME TypeOK, IdleAreRegistered, ReadyIsNew, SleepersAreOpen,
         UNCHANGED <<brokerVars, frontVars>>, NEW p \in WorkerProc,
         NEW id \in FreshId, NEW left, Connect(p, id, left),
         wId[p] \in WorkerId => left \in LeftBy(p)
  PROVE  WorkerPart'
<1>1. id \in WorkerId /\ id \notin Registered
  BY DEF FreshId
<1>2. /\ peers' = (peers \ {wId[p]}) \cup {id}
      /\ wId' = [wId EXCEPT ![p] = id] /\ missing' = [missing EXCEPT ![p] = 0]
      /\ elapsed' = [elapsed EXCEPT ![p] = FALSE] /\ nap' = [nap EXCEPT ![p] = -1]
      /\ backUp' = [w \in WorkerId |->
                      IF w = id THEN <<Ready(ServiceOf[p])>>
                      ELSE IF w = wId[p] THEN left ELSE backUp[w]]
      /\ backDown' = [w \in WorkerId |->
                        IF w \in {id, wId[p]} THEN <<>> ELSE backDown[w]]
  BY DEF Connect
<1>3. WorkerTypeOK'
  BY <1>1, <1>2, WorkerTypes DEF WorkerTypeOK
<1>4. SleepersAreOpen'
  <2>1. id # NoId
    BY <1>1, WorkerAssumption
  <2> QED
    BY <1>2, <2>1, WorkerTypes DEF SleepersAreOpen
<1>5. peers' \subseteq WorkerId
  BY <1>1, <1>2, BrokerTypes
<1>6. ASSUME NEW w \in WorkerId
      PROVE  /\ backUp'[w] \in Seq(UpMsg) /\ backDown'[w] \in Seq(DownMsg)
             /\ w # id => NoMore(backUp'[w], backUp[w], Readies)
  <2>1. CASE w = id
    <3>1. Ready(ServiceOf[p]) \in UpMsg
      BY Messages, WorkerAssumption
    <3>2. backUp'[w] = <<Ready(ServiceOf[p])>> /\ backDown'[w] = <<>>
      BY <1>2, <2>1
    <3> QED
      BY <2>1, <3>1, <3>2, OneSaid
  <2>2. CASE w # id /\ w = wId[p]
    <3>1. backUp'[w] = left /\ backDown'[w] = <<>>
      BY <1>2, <2>2
    <3>2. wId[p] \in WorkerId /\ left \in LeftBy(p)
      BY <2>2
    <3>3. left \in Seq(UpMsg) /\ \A X : NoMore(left, backUp[wId[p]], X)
      BY <3>2, LeftOnly
    <3>4. NoMore(left, backUp[w], Readies)
      BY <2>2, <3>3
    <3> QED
      BY <3>1, <3>3, <3>4
  <2>3. CASE w # id /\ w # wId[p]
    <3>1. backUp'[w] = backUp[w] /\ backDown'[w] = backDown[w]
      BY <1>2, <2>3
    <3> QED
      BY <3>1, BrokerTypes, NoMoreOfSame
  <2> QED
    BY <2>1, <2>2, <2>3
<1>7. backUp' \in [WorkerId -> Seq(UpMsg)] /\ backDown' \in [WorkerId -> Seq(DownMsg)]
  <2>1. /\ backUp' = [w \in WorkerId |-> backUp'[w]]
        /\ backDown' = [w \in WorkerId |-> backDown'[w]]
    BY <1>2
  <2> QED
    BY <1>6, <2>1
<1>8. \A w \in Registered : NoMore(backUp'[w], backUp[w], Readies)
  BY <1>1, <1>6 DEF Registered
<1>9. BrokerPart'
  BY <1>5, <1>7, <1>8, BrokerPartOfWorkers
<1> QED
  BY <1>3, <1>4, <1>9 DEF WorkerPart

LEMMA WorkerIterationKeeps ==
  ASSUME TypeOK, IdleAreRegistered, ReadyIsNew, SleepersAreOpen,
         UNCHANGED <<brokerVars, frontVars>>, NEW p \in WorkerProc,
         WorkerReceive(p) \/ WorkerMissed(p)
  PROVE  WorkerPart'
<1>w. PICK w \in WorkerId : w = wId[p]
  BY Running DEF WorkerReceive, WorkerMissed, PollTimedOut, Polls
<1>u. PICK q \in Seq(UpMsg) : q = backUp[w]
  BY BrokerTypes
<1>d. PICK dn \in Seq(DownMsg) : dn = backDown[w]
  BY BrokerTypes
<1>b. PICK beats : beats = IF elapsed[p] THEN <<Heartbeat>> ELSE <<>>
  OBVIOUS
<1>1. /\ UNCHANGED <<wId, nap, peers>>
      /\ elapsed' = [elapsed EXCEPT ![p] = FALSE]
  BY DEF WorkerReceive, WorkerMissed, Finish
<1>2. missing' \in [WorkerProc -> 0 .. MaxMissing]
  <2>1. CASE WorkerReceive(p)
    BY <2>1, WorkerTypes DEF WorkerReceive
  <2>2. CASE WorkerMissed(p)
    <3>1. missing[p] + 1 \in 0 .. MaxMissing
      BY <2>2, WorkerTypes, WorkerAssumption DEF WorkerMissed
    <3>2. missing' = [missing EXCEPT ![p] = missing[p] + 1]
      BY <2>2 DEF WorkerMissed
    <3> QED
      BY <3>1, <3>2, WorkerTypes
  <2> QED
    BY <2>1, <2>2
<1>3. WorkerTypeOK' /\ SleepersAreOpen'
  BY <1>1, <1>2, WorkerTypes DEF WorkerTypeOK, SleepersAreOpen
<1>4. PICK said \in Seq(UpMsg) :
        /\ NoneOf(said, Readies)
        /\ backUp' = [backUp EXCEPT ![w] = q \o said \o beats]
  <2>1. CASE WorkerReceive(p)
    <3>m. PICK m : m = Head(dn)
      OBVIOUS
    <3>1. backUp' = [backUp EXCEPT
            ![w] = q \o (IF m.type = "Request" THEN <<Reply(m.ask)>> ELSE <<>>) \o beats]
      BY <1>w, <1>u, <1>d, <1>b, <2>1, <3>m DEF WorkerReceive, Finish
    <3>2. m \in DownMsg
      <4>1. dn # <<>>
        BY <1>w, <1>d, <2>1 DEF WorkerReceive
      <4> QED
        BY <3>m, <4>1, HeadFound
    <3>3. CASE m.type = "Request"
      <4>1. m.ask \in Ask
        BY <3>2, <3>3, Messages
      <4>2. Reply(m.ask) \in UpMsg /\ Reply(m.ask) \notin Readies
        BY <4>1, Messages, ReadiesOnly
      <4>3. <<Reply(m.ask)>> \in Seq(UpMsg) /\ NoneOf(<<Reply(m.ask)>>, Readies)
        BY <4>2, OneSaid, NoneOfOne
      <4> QED
        BY <3>1, <3>3, <4>3
    <3>4. CASE m.type # "Request"
      <4>1. <<>> \in Seq(UpMsg) /\ NoneOf(<<>>, Readies)
        BY Messages, OneSaid, NoMoreOfEmpty
      <4> QED
        BY <3>1, <3>4, <4>1
    <3> QED
      BY <3>3, <3>4
  <2>2. CASE WorkerMissed(p)
    <3>1. <<>> \in Seq(UpMsg) /\ NoneOf(<<>>, Readies)
      BY Messages, OneSaid, NoMoreOfEmpty
    <3>2. backUp' = [backUp EXCEPT ![w] = q \o <<>> \o beats]
      BY <1>w, <1>u, <1>b, <2>2 DEF WorkerMissed, Finish
    <3> QED
      BY <3>1, <3>2
  <2> QED
    BY <2>1, <2>2
<1>5. PICK r : r = q \o said \o beats
  OBVIOUS
<1>6. r \in Seq(UpMsg) /\ NoMore(r, q, Readies)
  <2>1. beats = <<>> \/ beats = <<Heartbeat>>
    BY <1>b
  <2> QED
    BY <1>4, <1>5, <2>1, ReadiesOnly, SaidAndBeat
<1>7. /\ backUp' \in [WorkerId -> Seq(UpMsg)]
      /\ \A x \in WorkerId : NoMore(backUp'[x], backUp[x], Readies)
  <2>1. backUp' = [backUp EXCEPT ![w] = r]
    BY <1>4, <1>5
  <2> QED
    BY <1>u, <1>6, <2>1, BrokerTypes, NoMoreOfSame
<1>8. backDown' \in [WorkerId -> Seq(DownMsg)]
  <2>1. CASE WorkerReceive(p)
    <3>1. backDown' = [backDown EXCEPT ![w] = Tail(dn)] /\ dn # <<>>
      BY <1>w, <1>d, <2>1 DEF WorkerReceive
    <3>2. Tail(dn) \in Seq(DownMsg)
      BY <3>1, HeadFound
    <3> QED
      BY <3>1, <3>2, BrokerTypes
  <2>2. CASE WorkerMissed(p)
    BY <2>2, BrokerTypes DEF WorkerMissed
  <2> QED
    BY <2>1, <2>2
<1>9. BrokerPart'
  <2>1. peers' \subseteq WorkerId /\ Registered \subseteq WorkerId
    BY <1>1, BrokerTypes DEF Registered
  <2> QED
    BY <1>7, <1>8, <2>1, BrokerPartOfWorkers
<1> QED
  BY <1>3, <1>9 DEF WorkerPart

LEMMA WorkerSleepKeeps ==
  ASSUME TypeOK, IdleAreRegistered, ReadyIsNew, SleepersAreOpen,
         UNCHANGED <<brokerVars, frontVars>>, NEW p \in WorkerProc, WorkerSleep(p)
  PROVE  WorkerPart'
<1>1. /\ nap' = [nap EXCEPT ![p] = NapTicks] /\ wId[p] # NoId
      /\ UNCHANGED <<wId, missing, elapsed, peers, backUp, backDown>>
  BY DEF WorkerSleep, PollTimedOut, Polls, backVars
<1>2. WorkerTypeOK' /\ SleepersAreOpen'
  BY <1>1, WorkerTypes DEF WorkerTypeOK, SleepersAreOpen
<1>3. BrokerPart'
  BY <1>1, BrokerTypes, BrokerPartOfWorkers, NoMoreOfSame
<1> QED
  BY <1>2, <1>3 DEF WorkerPart

LEMMA WorkerCrashKeeps ==
  ASSUME TypeOK, IdleAreRegistered, ReadyIsNew, SleepersAreOpen,
         UNCHANGED <<brokerVars, frontVars>>, NEW p \in WorkerProc, WorkerCrash(p)
  PROVE  WorkerPart'
<1>w. PICK w \in WorkerId : w = wId[p]
  BY Running DEF WorkerCrash
<1>1. /\ peers' = peers \ {wId[p]}
      /\ backDown' = [backDown EXCEPT ![w] = <<>>]
      /\ wId' = [wId EXCEPT ![p] = NoId] /\ missing' = [missing EXCEPT ![p] = 0]
      /\ elapsed' = [elapsed EXCEPT ![p] = FALSE] /\ nap' = [nap EXCEPT ![p] = -1]
  BY <1>w DEF WorkerCrash
<1>2. PICK left \in LeftBy(p) : backUp' = [backUp EXCEPT ![w] = left]
  BY <1>w DEF WorkerCrash
<1>3. left \in Seq(UpMsg) /\ \A X : NoMore(left, backUp[w], X)
  BY <1>w, LeftOnly
<1>4. WorkerTypeOK' /\ SleepersAreOpen'
  BY <1>1, WorkerTypes DEF WorkerTypeOK, SleepersAreOpen
<1>5. /\ backUp' \in [WorkerId -> Seq(UpMsg)]
      /\ \A x \in WorkerId : NoMore(backUp'[x], backUp[x], Readies)
  BY <1>2, <1>3, BrokerTypes, NoMoreOfSame
<1>6. peers' \subseteq WorkerId /\ backDown' \in [WorkerId -> Seq(DownMsg)]
  BY <1>1, BrokerTypes
<1>7. BrokerPart'
  BY <1>5, <1>6, BrokerPartOfWorkers DEF Registered
<1> QED
  BY <1>4, <1>7 DEF WorkerPart

-----------------------------------------------------------------------------
(* The invariant, step by step.                                             *)

LEMMA ClientsKeep ==
  ASSUME MajordomoInv, NEW c \in Client, ClientStep(c) \/ StartClient(c)
  PROVE  MajordomoInv'
<1>0. /\ TypeOK /\ IdleAreRegistered /\ ReadyIsNew /\ SleepersAreOpen
      /\ TokensAreAlone
  BY DEF MajordomoInv, Inv
<1>1. /\ UNCHANGED <<up, todo, registered, ttl, services, idle, pending, beatDue>>
      /\ UNCHANGED <<peers, backUp, backDown>>
      /\ UNCHANGED <<wId, missing, elapsed, nap, faults>>
  BY DEF ClientStep, StartClient, brokerVars, backVars, workerVars
<1>2. ClientPart'
  BY <1>1, ClientStartKeeps, ClientEndKeeps, SendKeeps, HandleResponseKeeps,
     RetryKeeps, GiveUpKeeps DEF ClientStep, StartClient, ClientNext
<1>3. ClientTypeOK' /\ SocketsUsed' /\ AsksAreAlone'
  BY <1>2 DEF ClientPart
<1>4. BrokerTypeOK'
  BY <1>0, <1>1, <1>2, BrokerTypes DEF BrokerTypeOK, ClientPart
<1>5. TypeOK'
  BY <1>0, <1>1, <1>3, <1>4 DEF TypeOK, WorkerTypeOK
<1>6. IdleAreRegistered' /\ ReadyIsNew' /\ SleepersAreOpen'
  BY <1>0, <1>1 DEF IdleAreRegistered, ReadyIsNew, SleepersAreOpen
<1>7. TokensAreAlone'
  <2>1. ASSUME NEW w \in WorkerId
        PROVE  OneAmong(Place, Found(TokensOf(w))')
    <3>s. PICK S : S = TokensOf(w)
      OBVIOUS
    <3>1. S[<<"asked", "front">>] = {} /\ S[<<"answers", "front">>] = {}
      BY <3>s, TokensAt
    <3>2. NotMore(Place, Found(S)', Found(S))
      BY <1>1, <3>1, FoundFewer, NoMoreOfSame
    <3> QED
      BY <1>0, <3>s, <3>2 DEF TokensAreAlone, NotMore
  <2> QED
    BY <2>1 DEF TokensAreAlone
<1> QED
  BY <1>3, <1>5, <1>6, <1>7 DEF MajordomoInv, Inv

LEMMA ServersKeep ==
  ASSUME MajordomoInv,
         \/ BrokerStep \/ StartBroker \/ BrokerFails \/ Tick
         \/ \E p \in WorkerProc : WorkerStep(p) \/ StartWorker(p) \/ WorkerFails(p)
  PROVE  MajordomoInv'
<1>0. /\ TypeOK /\ IdleAreRegistered /\ ReadyIsNew /\ SleepersAreOpen
      /\ TokensAreAlone /\ AsksAreAlone /\ SocketsUsed
  BY DEF MajordomoInv, Inv
<1>1. /\ UNCHANGED <<cPhase, conn, n, retries, mReply>>
      /\ timer' = timer \/ timer' = [c \in Client |-> IF timer[c] = 0 THEN 0 ELSE timer[c] - 1]
  BY DEF BrokerStep, StartBroker, BrokerFails, Tick, WorkerStep, StartWorker,
         WorkerFails, clientVars, ClientTick
<1>2. ClientTypeOK'
  <2>1. timer' \in [Client -> 0 .. Patience]
    <3>1. timer \in [Client -> 0 .. Patience]
      BY <1>0 DEF TypeOK, ClientTypeOK
    <3>2. \A x \in 0 .. Patience : (IF x = 0 THEN 0 ELSE x - 1) \in 0 .. Patience
      BY ClientAssumption
    <3> QED
      BY <1>1, <3>1, <3>2
  <2> QED
    BY <1>0, <1>1, <2>1 DEF TypeOK, ClientTypeOK
<1>3. SocketsUsed'
  BY <1>0, <1>1 DEF SocketsUsed
<1>4. faults' \in 0 .. MaxFaults
  <2>1. faults \in 0 .. MaxFaults /\ MaxFaults \in Nat
    BY <1>0, FaultAssumption DEF TypeOK
  <2>2. faults' = faults \/ (faults < MaxFaults /\ faults' = faults + 1)
    BY DEF BrokerStep, StartBroker, BrokerFails, Tick, WorkerStep, StartWorker,
           WorkerFails, Fails
  <2> QED
    BY <2>1, <2>2
<1>5. WorkerTypeOK' /\ SleepersAreOpen' /\ BrokerPart'
  <2>1. ASSUME UNCHANGED workerVars
        PROVE  WorkerTypeOK' /\ SleepersAreOpen'
    BY <1>0, <2>1 DEF workerVars, TypeOK, WorkerTypeOK, SleepersAreOpen
  <2>2. CASE BrokerStep
    <3>1. BrokerPart'
      BY <1>0, <2>2, BrokerWaitKeeps, HousekeepingKeeps, WorkerResponseKeeps,
         ClientRequestKeeps DEF BrokerStep, BrokerNext
    <3>2. UNCHANGED workerVars
      BY <2>2 DEF BrokerStep
    <3> QED
      BY <2>1, <3>1, <3>2
  <2>3. CASE StartBroker
    BY <1>0, <2>1, <2>3, BrokerStartAndTickKeep DEF StartBroker
  <2>4. CASE BrokerFails
    BY <1>0, <2>1, <2>4, BrokerCrashKeeps DEF BrokerFails
  <2>5. CASE Tick
    <3>1. BrokerPart'
      BY <1>0, <2>5, BrokerStartAndTickKeep DEF Tick
    <3>2. WorkerTypeOK' /\ SleepersAreOpen'
      <4>1. /\ elapsed' = [p \in WorkerProc |-> elapsed[p] \/ Polls(p)]
            /\ nap' = [p \in WorkerProc |-> IF nap[p] > 0 THEN nap[p] - 1 ELSE nap[p]]
            /\ UNCHANGED <<wId, missing>>
        BY <2>5 DEF Tick, WorkerTick
      <4>2. \A x \in -1 .. NapTicks :
              /\ (IF x > 0 THEN x - 1 ELSE x) \in -1 .. NapTicks
              /\ (IF x > 0 THEN x - 1 ELSE x) # -1 => x # -1
        BY WorkerAssumption
      <4>3. nap' \in [WorkerProc -> -1 .. NapTicks]
        BY <1>0, <4>1, <4>2, WorkerTypes
      <4>4. elapsed' \in [WorkerProc -> BOOLEAN]
        <5>1. \A p \in WorkerProc : (elapsed[p] \/ Polls(p)) \in BOOLEAN
          OBVIOUS
        <5> QED
          BY <4>1, <5>1
      <4>5. SleepersAreOpen'
        BY <1>0, <4>1, <4>2, WorkerTypes DEF SleepersAreOpen
      <4> QED
        BY <1>0, <4>1, <4>3, <4>4, <4>5, WorkerTypes DEF WorkerTypeOK
    <3> QED
      BY <3>1, <3>2
  <2>6. ASSUME NEW p \in WorkerProc, WorkerStep(p) \/ StartWorker(p) \/ WorkerFails(p)
        PROVE  WorkerPart'
    <3>1. UNCHANGED <<brokerVars, frontVars>>
      BY <2>6 DEF WorkerStep, StartWorker, WorkerFails
    <3>2. CASE WorkerReceive(p) \/ WorkerMissed(p)
      BY <1>0, <3>1, <3>2, WorkerIterationKeeps
    <3>3. CASE WorkerSleep(p)
      BY <1>0, <3>1, <3>3, WorkerSleepKeeps
    <3>4. CASE WorkerWake(p)
      BY <1>0, <3>1, <3>4, ConnectKeeps DEF WorkerWake
    <3>5. CASE WorkerStart(p)
      <4>1. wId[p] \notin WorkerId
        BY <1>0, <3>5, Running DEF WorkerStart
      <4>2. PICK id \in FreshId : Connect(p, id, <<>>)
        BY <3>5 DEF WorkerStart
      <4> QED
        BY <1>0, <3>1, <4>1, <4>2, ConnectKeeps
    <3>6. CASE WorkerCrash(p)
      BY <1>0, <3>1, <3>6, WorkerCrashKeeps
    <3> QED
      BY <2>6, <3>2, <3>3, <3>4, <3>5, <3>6
         DEF WorkerStep, StartWorker, WorkerFails, WorkerNext
  <2> QED
    BY <2>2, <2>3, <2>4, <2>5, <2>6 DEF WorkerPart
<1>6. TypeOK' /\ IdleAreRegistered' /\ ReadyIsNew'
  BY <1>2, <1>4, <1>5 DEF TypeOK, BrokerPart
<1>7. TokensAreAlone'
  <2>1. ASSUME NEW w \in WorkerId
        PROVE  OneAmong(Place, Found(TokensOf(w))')
    <3>s. PICK S : S = TokensOf(w)
      OBVIOUS
    <3>1. Selection(S)
      BY <3>s DEF Selection
    <3>2. \/ NotMore(Place, Found(S)', Found(S))
          \/ (\A B : S # Bearing(B)) /\ OneAmong(Place, Found(S)')
      BY <1>0, <3>1, ServersCarry
    <3>3. OneAmong(Place, Found(S))
      BY <1>0, <3>s DEF TokensAreAlone
    <3> QED
      BY <3>s, <3>2, <3>3 DEF NotMore
  <2> QED
    BY <2>1 DEF TokensAreAlone
<1>8. AsksAreAlone'
  <2>1. ASSUME NEW A \in SUBSET Ask
        PROVE  NotMore(Place, Found(Bearing(A))', Found(Bearing(A)))
    <3>s. PICK S : S = Bearing(A)
      OBVIOUS
    <3>1. Selection(S)
      BY <3>s DEF Selection
    <3>2. \/ NotMore(Place, Found(S)', Found(S))
          \/ (\A B : S # Bearing(B)) /\ OneAmong(Place, Found(S)')
      BY <1>0, <3>1, ServersCarry
    <3> QED
      BY <3>s, <3>2
  <2>v. PICK V \in SUBSET Ask : V = Wrong
    BY DEF Wrong
  <2>2. V = Wrong'
    BY <1>1, <2>v DEF Wrong, At
  <2>3. ASSUME NEW x \in Address
        PROVE  OneAmong(Place, Found(Bearing(AsksOf(x)))')
    <3>1. AsksOf(x) \in SUBSET Ask
      BY DEF AsksOf
    <3> QED
      BY <1>0, <2>1, <3>1 DEF AsksAreAlone, NotMore
  <2>4. NoneAmong(Place, Found(Bearing(V))')
    BY <1>0, <2>1, <2>v DEF AsksAreAlone, NotMore
  <2> QED
    BY <2>2, <2>3, <2>4 DEF AsksAreAlone, Found
<1> QED
  BY <1>3, <1>5, <1>6, <1>7, <1>8 DEF MajordomoInv, Inv

LEMMA MajordomoInit ==
  ASSUME Init
  PROVE  MajordomoInv
<1>1. /\ up = TRUE /\ todo = {} /\ sockets = {} /\ asked = {} /\ answers = {}
      /\ registered = [w \in WorkerId |-> NoService]
      /\ ttl = [w \in WorkerId |-> 0] /\ services = {} /\ beatDue = TRUE
      /\ idle = [s \in Service |-> <<>>] /\ pending = [s \in Service |-> <<>>]
      /\ peers = {} /\ backUp = [w \in WorkerId |-> <<>>]
      /\ backDown = [w \in WorkerId |-> <<>>]
  BY DEF Init, BrokerInit, EmptyMaps
<1>2. BrokerTypeOK
  <2>1. 0 \in 0 .. Expiry
    BY BrokerAssumption
  <2>2. ttl \in [WorkerId -> 0 .. Expiry]
    BY <1>1, <2>1
  <2>3. /\ idle \in [Service -> Seq(WorkerId)] /\ pending \in [Service -> Seq(Ask)]
        /\ backUp \in [WorkerId -> Seq(UpMsg)] /\ backDown \in [WorkerId -> Seq(DownMsg)]
    BY <1>1
  <2> QED
    BY <1>1, <2>2, <2>3 DEF BrokerTypeOK
<1>3. WorkerTypeOK /\ SleepersAreOpen
  <2>1. /\ wId = [p \in WorkerProc |-> NoId] /\ missing = [p \in WorkerProc |-> 0]
        /\ elapsed = [p \in WorkerProc |-> FALSE] /\ nap = [p \in WorkerProc |-> -1]
    BY DEF Init, WorkerInit
  <2>2. 0 \in 0 .. MaxMissing /\ -1 \in -1 .. NapTicks
    BY WorkerAssumption
  <2> QED
    BY <2>1, <2>2 DEF WorkerTypeOK, SleepersAreOpen
<1>4. ClientTypeOK /\ SocketsUsed
  <2>1. /\ cPhase = [c \in Client |-> "off"] /\ conn = [c \in Client |-> 0]
        /\ n = [c \in Client |-> 0] /\ retries = [c \in Client |-> 0]
        /\ timer = [c \in Client |-> 0] /\ mReply = [c \in Client |-> 0]
    BY DEF Init, ClientInit
  <2>2. /\ Requests \in Nat /\ Retries \in Nat /\ Retries >= 1 /\ Patience \in Nat
    BY BrokerAssumption, ClientAssumption
  <2>3. \A x, y \in Nat : x * y \in Nat
    OBVIOUS
  <2>a. PICK all : all = Requests * Retries
    OBVIOUS
  <2>4. 0 \in 0 .. all
    BY <2>2, <2>3, <2>a
  <2>5. 0 \in 0 .. Requests /\ 0 \in 0 .. Retries - 1 /\ 0 \in 0 .. Patience
    BY <2>2
  <2>6. ClientTypeOK
    BY <2>1, <2>4, <2>5, <2>a DEF ClientTypeOK
  <2>7. 0 <= 0 * Retries
    BY <2>2
  <2> QED
    BY <2>1, <2>6, <2>7 DEF SocketsUsed
<1>5. faults \in 0 .. MaxFaults
  BY FaultAssumption DEF Init
<1>6. IdleAreRegistered /\ ReadyIsNew
  <2>1. \A s \in Service : DOMAIN idle[s] = {}
    BY <1>1
  <2> QED
    BY <1>1, <2>1, NoMoreOfEmpty DEF IdleAreRegistered, ReadyIsNew
<1>7. ASSUME NEW S
      PROVE  NoneAmong(Place, Found(S)) /\ OneAmong(Place, Found(S))
  <2>1. \A X : Positions(<<>>, X) = {}
    BY NoMoreOfEmpty DEF NoneOf
  <2>2. /\ Found(S)[<<"asked", "front">>] = asked \cap S[<<"asked", "front">>]
        /\ Found(S)[<<"answers", "front">>] = answers \cap S[<<"answers", "front">>]
        /\ \A s \in Service :
             /\ Found(S)[<<"pending", s>>] = Positions(pending[s], S[<<"pending", s>>])
             /\ Found(S)[<<"idle", s>>] = Positions(idle[s], S[<<"idle", s>>])
        /\ \A w \in WorkerId :
             /\ Found(S)[<<"down", w>>] = Positions(backDown[w], S[<<"down", w>>])
             /\ Found(S)[<<"up", w>>] = Positions(backUp[w], S[<<"up", w>>])
    BY FoundAt
  <2>3. /\ Found(S)[<<"asked", "front">>] = {} /\ Found(S)[<<"answers", "front">>] = {}
        /\ \A s \in Service : Found(S)[<<"pending", s>>] = {} /\ Found(S)[<<"idle", s>>] = {}
        /\ \A w \in WorkerId : Found(S)[<<"down", w>>] = {} /\ Found(S)[<<"up", w>>] = {}
    BY <1>1, <2>1, <2>2
  <2>4. NoneAmong(Place, Found(S))
    BY <2>3, Places DEF NoneAmong
  <2> QED
    BY <2>4 DEF NoneAmong, OneAmong
<1>8. TokensAreAlone /\ AsksAreAlone
  BY <1>7 DEF TokensAreAlone, AsksAreAlone
<1> QED
  BY <1>2, <1>3, <1>4, <1>5, <1>6, <1>8 DEF MajordomoInv, Inv, TypeOK

LEMMA MajordomoStep ==
  ASSUME MajordomoInv, [Next]_vars
  PROVE  MajordomoInv'
<1>1. CASE UNCHANGED vars
  <2>1. /\ UNCHANGED <<up, todo, registered, ttl, services, idle, pending, beatDue>>
        /\ UNCHANGED <<sockets, asked, answers, peers, backUp, backDown>>
        /\ UNCHANGED <<wId, missing, elapsed, nap>>
        /\ UNCHANGED <<cPhase, conn, n, retries, timer, mReply, faults>>
    BY <1>1 DEF vars, brokerVars, frontVars, backVars, workerVars, clientVars
  <2>2. TypeOK' /\ IdleAreRegistered' /\ ReadyIsNew' /\ SocketsUsed' /\ SleepersAreOpen'
    BY <2>1 DEF MajordomoInv, Inv, TypeOK, BrokerTypeOK, WorkerTypeOK, ClientTypeOK,
                IdleAreRegistered, ReadyIsNew, SocketsUsed, SleepersAreOpen
  <2>3. Wrong' = Wrong
    BY <2>1 DEF Wrong, At
  <2>4. TokensAreAlone' /\ AsksAreAlone'
    BY <2>1, <2>3 DEF MajordomoInv, TokensAreAlone, AsksAreAlone, Found
  <2> QED
    BY <2>2, <2>4 DEF MajordomoInv, Inv
<1>2. CASE Next
  BY <1>2, ClientsKeep, ServersKeep DEF Next
<1> QED
  BY <1>1, <1>2

LEMMA MajordomoInvariant == Spec => []MajordomoInv
<1> QED
  BY MajordomoInit, MajordomoStep, PTL DEF Spec

-----------------------------------------------------------------------------
(* The theorems.                                                            *)

(* A pool holds only workers that are registered for its service, so that   *)
(* the purge of an expired worker finds it wherever handleReply has put it. *)
THEOREM PoolsAreRegistered == Spec => []Inv
<1>1. MajordomoInv => Inv
  BY DEF MajordomoInv
<1> QED
  BY <1>1, MajordomoInvariant, PTL

(* The place of a token, as Tokens names it.                                *)
NameOf(p) == IF p[1] = "idle" THEN p[2] ELSE p[1]

LEMMA AtMostOneToken ==
  ASSUME MajordomoInv
  PROVE  OneRequestPerWorker
<1> SUFFICES ASSUME NEW w \in WorkerId
             PROVE  Cardinality(Tokens(w)) <= 1
  BY DEF OneRequestPerWorker
<1>s. PICK S : S = TokensOf(w)
  OBVIOUS
<1>1. OneAmong(Place, Found(S)) /\ TypeOK
  BY <1>s DEF MajordomoInv, TokensAreAlone, Inv
<1>2. /\ \A s \in Service : Found(S)[<<"idle", s>>] = Positions(idle[s], S[<<"idle", s>>])
      /\ Found(S)[<<"up", w>>] = Positions(backUp[w], S[<<"up", w>>])
      /\ Found(S)[<<"down", w>>] = Positions(backDown[w], S[<<"down", w>>])
  BY FoundAt
<1>3. /\ \A s \in Service : S[<<"idle", s>>] = {w}
      /\ S[<<"up", w>>] = Claims /\ S[<<"down", w>>] = Work
  BY <1>s, TokensAt, ZenonT(40)
<1>4. /\ \A s \in Service : <<"idle", s>> \in Place /\ NameOf(<<"idle", s>>) = s
      /\ <<"up", w>> \in Place /\ NameOf(<<"up", w>>) = "up"
      /\ <<"down", w>> \in Place /\ NameOf(<<"down", w>>) = "down"
  BY Places DEF NameOf
<1>5. ASSUME NEW x \in Tokens(w)
      PROVE  \E p \in Place : \E i \in Found(S)[p] : x = <<NameOf(p), i>>
  <2>1. \/ \E s \in Service : \E i \in DOMAIN idle[s] :
             idle[s][i] = w /\ x = <<s, i>>
        \/ \E i \in DOMAIN backUp[w] :
             backUp[w][i].type \in {"Ready", "Reply"} /\ x = <<"up", i>>
        \/ \E i \in DOMAIN backDown[w] :
             backDown[w][i].type = "Request" /\ x = <<"down", i>>
    BY DEF Tokens
  <2>2. ASSUME NEW s \in Service, NEW i \in DOMAIN idle[s],
               idle[s][i] = w, x = <<s, i>>
        PROVE  \E p \in Place : \E j \in Found(S)[p] : x = <<NameOf(p), j>>
    <3>1. i \in 1 .. Len(idle[s])
      BY <1>1, BrokerTypes, LenProperties
    <3>2. i \in Found(S)[<<"idle", s>>]
      BY <1>2, <1>3, <2>2, <3>1 DEF Positions
    <3> QED
      BY <1>4, <2>2, <3>2
  <2>3. ASSUME NEW i \in DOMAIN backUp[w],
               backUp[w][i].type \in {"Ready", "Reply"}, x = <<"up", i>>
        PROVE  \E p \in Place : \E j \in Found(S)[p] : x = <<NameOf(p), j>>
    <3>1. i \in 1 .. Len(backUp[w]) /\ backUp[w][i] \in UpMsg
      BY <1>1, BrokerTypes, LenProperties, ElementOfSeq
    <3>2. i \in Found(S)[<<"up", w>>]
      BY <1>2, <1>3, <2>3, <3>1 DEF Positions, Claims
    <3> QED
      BY <1>4, <2>3, <3>2
  <2>4. ASSUME NEW i \in DOMAIN backDown[w],
               backDown[w][i].type = "Request", x = <<"down", i>>
        PROVE  \E p \in Place : \E j \in Found(S)[p] : x = <<NameOf(p), j>>
    <3>1. i \in 1 .. Len(backDown[w]) /\ backDown[w][i] \in DownMsg
      BY <1>1, BrokerTypes, LenProperties, ElementOfSeq
    <3>2. i \in Found(S)[<<"down", w>>]
      BY <1>2, <1>3, <2>4, <3>1 DEF Positions, Work
    <3> QED
      BY <1>4, <2>4, <3>2
  <2> QED
    BY <2>1, <2>2, <2>3, <2>4
<1>6. AtMostOne(Tokens(w))
  <2>1. ASSUME NEW x \in Tokens(w), NEW y \in Tokens(w)
        PROVE  x = y
    <3>1. PICK p \in Place : \E i \in Found(S)[p] : x = <<NameOf(p), i>>
      BY <1>5
    <3>2. PICK i \in Found(S)[p] : x = <<NameOf(p), i>>
      BY <3>1
    <3>3. PICK q \in Place : \E j \in Found(S)[q] : y = <<NameOf(q), j>>
      BY <1>5
    <3>4. PICK j \in Found(S)[q] : y = <<NameOf(q), j>>
      BY <3>3
    <3>5. p = q /\ i = j
      BY <1>1 DEF OneAmong
    <3> QED
      BY <3>2, <3>4, <3>5
  <2> QED
    BY <2>1 DEF AtMostOne
<1> QED
  BY <1>6, OneAmongSize

(* A worker is in the pools at most once and holds at most one request,     *)
(* across purges, late replies, crashes and new identities.                 *)
THEOREM NoSecondRequest == Spec => []OneRequestPerWorker
<1> QED
  BY AtMostOneToken, MajordomoInvariant, PTL

LEMMA AnswerFitsStep ==
  ASSUME MajordomoInv, Next, NEW c \in Client,
         cPhase[c] = "waiting", cPhase'[c] = "ready", conn'[c] = conn[c]
  PROVE  mReply'[c] = n[c]
<1>0. TypeOK /\ AsksAreAlone
  BY DEF MajordomoInv, Inv
<1>1. PICK d \in Client : ClientStep(d) \/ StartClient(d)
  BY DEF Next, BrokerStep, StartBroker, BrokerFails, Tick, WorkerStep, StartWorker,
         WorkerFails, clientVars, ClientTick
<1>2. ASSUME NEW phase, cPhase' = [cPhase EXCEPT ![d] = phase]
      PROVE  c = d /\ phase = "ready"
  BY <1>0, <1>2, ClientTypes
<1>3. CASE HandleResponse(d)
  <2>1. c = d
    BY <1>2, <1>3 DEF HandleResponse
  <2>2. PICK a \in answers : a.addr = At(c) /\ mReply' = [mReply EXCEPT ![c] = a.n]
    BY <1>3, <2>1 DEF HandleResponse
  <2>3. a \notin Wrong
    <3>w. PICK W : W = Wrong
      OBVIOUS
    <3>1. Found(Bearing(W))[<<"answers", "front">>]
            = answers \cap Bearing(W)[<<"answers", "front">>]
      BY FoundAt
    <3>2. Bearing(W)[<<"answers", "front">>] = W
      BY BearingAt
    <3>3. Found(Bearing(W))[<<"answers", "front">>] = {}
      BY <1>0, <3>w, Places DEF AsksAreAlone, NoneAmong
    <3> QED
      BY <3>w, <3>1, <3>2, <3>3
  <2>4. a \in Ask /\ a.addr[1] = c /\ a.addr[2] = conn[c]
    <3>1. a \in Ask
      BY <1>0, <2>2, ClientTypes
    <3>2. a.addr = <<c, conn[c]>>
      BY <2>2 DEF At
    <3> QED
      BY <3>1, <3>2
  <2>5. a.n = n[c]
    BY <2>3, <2>4, WrongMeans DEF IsWrong
  <2> QED
    BY <1>0, <2>2, <2>5, ClientTypes
<1>4. CASE GiveUp(d)
  <2>1. c = d
    BY <1>2, <1>4 DEF GiveUp
  <2>2. conn' = [conn EXCEPT ![c] = @ + 1]
    BY <1>4, <2>1 DEF GiveUp, Reconnect
  <2> QED
    BY <1>0, <2>2, ClientTypes
<1>5. CASE Send(d)
  BY <1>2, <1>5 DEF Send
<1>6. CASE Retry(d)
  BY <1>6 DEF Retry
<1>7. CASE ClientEnd(d)
  BY <1>2, <1>7 DEF ClientEnd
<1>8. CASE ClientStart(d)
  <2>1. c = d /\ cPhase[d] = "off"
    BY <1>2, <1>8 DEF ClientStart
  <2> QED
    BY <2>1
<1> QED
  BY <1>1, <1>3, <1>4, <1>5, <1>6, <1>7, <1>8 DEF ClientStep, StartClient, ClientNext

(* The reply with which send() returns answers the request it has sent: no  *)
(* late reply to an earlier one, or to an earlier attempt, is taken for it. *)
THEOREM NoStrayAnswer == Spec => AnswerFits
<1>1. MajordomoInv /\ [Next]_vars
        => [\A c \in Client :
              cPhase[c] = "waiting" /\ cPhase'[c] = "ready" /\ conn'[c] = conn[c]
                => mReply'[c] = n[c]]_vars
  BY AnswerFitsStep
<1> QED
  BY <1>1, MajordomoInvariant, PTL DEF Spec, AnswerFits

(* Requests wait only for services the broker has heard of: what is for     *)
(* another is dropped.                                                      *)
WaitersAreKnown == \A s \in Service : s \in services \/ pending[s] = <<>>

LEMMA WaitersStayKnown ==
  ASSUME TypeOK, WaitersAreKnown, [Next]_vars
  PROVE  WaitersAreKnown'
<1>1. CASE \E a \in asked : HandleClientRequest(a)
  <2>1. PICK a \in asked : HandleClientRequest(a)
    BY <1>1
  <2>2. services' = services
    BY <2>1 DEF HandleClientRequest
  <2>t. PICK t \in Service : t = WantOf[a.addr[1]]
    BY BrokerTypes, AskParts, BrokerAssumption
  <2>r. PICK r \in Seq(Ask) : r = Append(pending[t], a)
    BY BrokerTypes, AppendProperties
  <2>3. CASE t \in services
    <3>1. HandOut(t, r)
      BY <2>1, <2>t, <2>r, <2>3 DEF HandleClientRequest
    <3>2. \A z \in Service : z # t => pending'[z] = pending[z]
      BY <3>1, HandOutQueues
    <3> QED
      BY <2>2, <2>3, <3>2 DEF WaitersAreKnown
  <2>4. CASE t \notin services
    BY <2>1, <2>2, <2>t, <2>4 DEF HandleClientRequest, WaitersAreKnown
  <2> QED
    BY <2>3, <2>4
<1>2. CASE \E w \in WorkerId : HandleWorkerResponse(w)
  <2>1. pending' = pending /\ services \subseteq services'
    BY <1>2 DEF HandleWorkerResponse, HandleReady, HandleReply, HandleHeartbeat
  <2> QED
    BY <2>1 DEF WaitersAreKnown
<1>3. CASE BrokerFails
  <2>1. pending' = [s \in Service |-> <<>>]
    BY <1>3 DEF BrokerFails, BrokerCrash, EmptyMaps
  <2> QED
    BY <2>1 DEF WaitersAreKnown
<1>4. CASE UNCHANGED <<services, pending>>
  BY <1>4 DEF WaitersAreKnown
<1> QED
  BY <1>1, <1>2, <1>3, <1>4 DEF Next, vars, BrokerStep, BrokerNext, BrokerWait,
     Housekeeping, StartBroker, BrokerStart, Tick, BrokerTick, WorkerStep,
     StartWorker, WorkerFails, ClientStep, StartClient, brokerVars

LEMMA ArrivalsHandOutStep ==
  ASSUME MajordomoInv, WaitersAreKnown, Next, NEW a \in asked, Arrives(a)
  PROVE  idle'[WantOf[a.addr[1]]] = <<>> \/ pending'[WantOf[a.addr[1]]] = <<>>
<1>0. TypeOK
  BY DEF MajordomoInv, Inv
<1>1. asked' # asked /\ "front" \in todo /\ "front" \notin todo' /\ up'
  BY DEF Arrives
<1>2. ~BrokerFails
  BY <1>1 DEF BrokerFails, BrokerCrash
<1>3. PICK b \in asked : HandleClientRequest(b)
  BY <1>1, <1>2 DEF Next, BrokerStep, BrokerNext, BrokerWait, Housekeeping,
     HandleWorkerResponse, StartBroker, BrokerStart, Tick, BrokerTick, WorkerStep,
     StartWorker, WorkerFails, ClientStep, StartClient, brokerVars, frontVars
<1>4. a = b
  BY <1>3 DEF HandleClientRequest, Arrives
<1>t. PICK t \in Service : t = WantOf[a.addr[1]]
  BY <1>0, BrokerTypes, AskParts, BrokerAssumption
<1>5. CASE t \notin services
  <2>1. pending[t] = <<>>
    BY <1>5 DEF WaitersAreKnown
  <2>2. pending' = pending
    BY <1>3, <1>4, <1>5, <1>t DEF HandleClientRequest
  <2> QED
    BY <1>t, <2>1, <2>2
<1>6. CASE t \in services
  <2>r. PICK r \in Seq(Ask) : r = Append(pending[t], a)
    BY <1>0, BrokerTypes, AppendProperties
  <2>1. HandOut(t, r)
    BY <1>3, <1>4, <1>6, <1>t, <2>r DEF HandleClientRequest
  <2>m. PICK m : m = MinOf(Len(idle[t]), Len(r))
    OBVIOUS
  <2>2. /\ m \in Nat /\ m <= Len(idle[t]) /\ m <= Len(r)
        /\ idle[t] \in Seq(WorkerId)
        /\ idle'[t] = SubSeq(idle[t], m + 1, Len(idle[t]))
        /\ pending'[t] = SubSeq(r, m + 1, Len(r))
    BY <1>0, <2>1, <2>m, HandOutQueues
  <2>3. Len(idle[t]) \in Nat /\ Len(r) \in Nat /\ m + 1 \in Nat \ {0}
    BY <2>2, LenProperties
  <2>4. /\ idle'[t] \in Seq(WorkerId)
        /\ Len(idle'[t])
             = IF m + 1 <= Len(idle[t]) THEN Len(idle[t]) - (m + 1) + 1 ELSE 0
    BY <2>2, <2>3, SubSeqElements
  <2>5. /\ pending'[t] \in Seq(Ask)
        /\ Len(pending'[t]) = IF m + 1 <= Len(r) THEN Len(r) - (m + 1) + 1 ELSE 0
    BY <2>2, <2>3, SubSeqElements
  <2>6. m = Len(idle[t]) \/ m = Len(r)
    BY <2>m DEF MinOf
  <2>7. Len(idle'[t]) = 0 \/ Len(pending'[t]) = 0
    BY <2>2, <2>3, <2>4, <2>5, <2>6
  <2> QED
    BY <1>t, <2>4, <2>5, <2>7, EmptySeq
<1> QED
  BY <1>5, <1>6

(* After an arrival nothing of that service waits that a worker could do:   *)
(* the loop of handleClientRequest takes up what handleReply and            *)
(* handleReady have left in pendingRequests, however many it hands out.     *)
THEOREM NobodyWaitsInVain == Spec => ArrivalsHandOut
<1>1. Init => WaitersAreKnown
  BY DEF Init, BrokerInit, EmptyMaps, WaitersAreKnown
<1>2. MajordomoInv /\ WaitersAreKnown /\ [Next]_vars => WaitersAreKnown'
  BY WaitersStayKnown DEF MajordomoInv, Inv
<1>3. MajordomoInv /\ WaitersAreKnown /\ [Next]_vars
        => [\A a \in asked :
              Arrives(a) => LET s == WantOf[a.addr[1]]
                            IN  idle'[s] = <<>> \/ pending'[s] = <<>>]_vars
  BY ArrivalsHandOutStep
<1> QED
  BY <1>1, <1>2, <1>3, MajordomoInvariant, PTL DEF Spec, ArrivalsHandOut
=============================================================================
