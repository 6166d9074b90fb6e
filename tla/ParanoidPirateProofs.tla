------------------------ MODULE ParanoidPirateProofs ------------------------
(***************************************************************************)
(* The Paranoid Pirate, for any numbers of workers, clients, attempts and  *)
(* crashes of the queue, and for any periods.                              *)
(*                                                                         *)
(* ListedOnce is inductive with the type of the list: add looks for the    *)
(* identity, and everything else takes entries out or changes expiries.    *)
(*                                                                         *)
(* OneCopy follows what is Found of a set of attempts, at the front        *)
(* socket, on the way to workers, in their hands, on the way back and      *)
(* among the answers.  A handler takes it from one place to the next, and  *)
(* what is closed or crashes leaves less.  A client sends an attempt only  *)
(* on a socket that it has not had (Unborn), so that nothing of it is      *)
(* found before.                                                           *)
(***************************************************************************)
EXTENDS ParanoidPirate, QueueProofs

(* The list of idle workers.                                                *)
Distinct(q) ==
  \A i, j \in 1 .. Len(q) : q[i].identity = q[j].identity => i = j

ListInv == mWorkers \in Seq(Entry) /\ ListedOnce

LEMMA EntryFields ==
  /\ \A e \in Entry : e.identity \in Worker /\ e.ttl \in 0 .. Expiry
  /\ \A e \in Entry, t \in 0 .. Expiry :
       /\ [e EXCEPT !.ttl = t] \in Entry
       /\ [e EXCEPT !.ttl = t].identity = e.identity
  /\ \A w \in Worker : LET e == [identity |-> w, ttl |-> Expiry]
                       IN  e \in Entry /\ e.identity = w
<1>1. Expiry \in 0 .. Expiry
  BY QueueAssumption
<1> QED
  BY <1>1 DEF Entry

LEMMA PickDistinct ==
  ASSUME NEW q \in Seq(Entry), Distinct(q), NEW I \in SUBSET (1 .. Len(q))
  PROVE  /\ Pick(q, I) \in Seq(Entry) /\ Distinct(Pick(q, I))
         /\ \A k \in 1 .. Len(Pick(q, I)) : \E i \in I : Pick(q, I)[k] = q[i]
<1>1. /\ Len(q) \in Nat /\ Pick(q, I) \in Seq(Entry)
      /\ Len(Pick(q, I)) = Cardinality(I)
      /\ \A k \in 1 .. Cardinality(I) :
           Nth(I, k) \in I /\ Pick(q, I)[k] = q[Nth(I, k)]
  BY PickPositions, LenProperties
<1>2. \A k, l \in 1 .. Cardinality(I) : Nth(I, k) = Nth(I, l) => k = l
  BY <1>1, NthProperties
<1>3. Distinct(Pick(q, I))
  <2> SUFFICES ASSUME NEW k \in 1 .. Cardinality(I), NEW l \in 1 .. Cardinality(I),
                      Pick(q, I)[k].identity = Pick(q, I)[l].identity
               PROVE  k = l
    BY <1>1 DEF Distinct
  <2>1. /\ Nth(I, k) \in 1 .. Len(q) /\ Nth(I, l) \in 1 .. Len(q)
        /\ q[Nth(I, k)].identity = q[Nth(I, l)].identity
    BY <1>1
  <2>2. Nth(I, k) = Nth(I, l)
    BY <2>1 DEF Distinct
  <2> QED
    BY <1>2, <2>2
<1> QED
  BY <1>1, <1>3

LEMMA TailDistinct ==
  ASSUME NEW q \in Seq(Entry), Distinct(q), q # <<>>
  PROVE  /\ Head(q).identity \in Worker
         /\ Tail(q) \in Seq(Entry) /\ Distinct(Tail(q))
<1>1. /\ Head(q) \in Entry /\ Tail(q) \in Seq(Entry) /\ Len(q) \in Nat
      /\ Len(Tail(q)) = Len(q) - 1
      /\ \A i \in 1 .. Len(Tail(q)) : Tail(q)[i] = q[i + 1]
  BY HeadTailProperties, LenProperties
<1>2. Distinct(Tail(q))
  <2> SUFFICES ASSUME NEW i \in 1 .. Len(Tail(q)), NEW j \in 1 .. Len(Tail(q)),
                      Tail(q)[i].identity = Tail(q)[j].identity
               PROVE  i = j
    BY DEF Distinct
  <2>1. /\ i + 1 \in 1 .. Len(q) /\ j + 1 \in 1 .. Len(q)
        /\ q[i + 1].identity = q[j + 1].identity
    BY <1>1
  <2>2. i + 1 = j + 1
    BY <2>1 DEF Distinct
  <2> QED
    BY <1>1, <2>2
<1> QED
  BY <1>1, <1>2, EntryFields

LEMMA AddDistinct ==
  ASSUME NEW q \in Seq(Entry), Distinct(q), NEW w \in Worker
  PROVE  Add(q, w) \in Seq(Entry) /\ Distinct(Add(q, w))
<1>1. CASE w \in Listed(q)
  BY <1>1 DEF Add
<1>2. CASE w \notin Listed(q)
  <2>1. PICK e : e = [identity |-> w, ttl |-> Expiry]
    OBVIOUS
  <2>2. e \in Entry /\ e.identity = w /\ Add(q, w) = Append(q, e)
    BY <1>2, <2>1, EntryFields DEF Add
  <2>3. /\ Append(q, e) \in Seq(Entry) /\ Len(q) \in Nat
        /\ Len(Append(q, e)) = Len(q) + 1
        /\ \A i \in 1 .. Len(q) : Append(q, e)[i] = q[i]
        /\ Append(q, e)[Len(q) + 1] = e
    BY <2>2, AppendProperties, LenProperties
  <2>4. \A i \in 1 .. Len(q) : q[i].identity # w
    BY <1>2 DEF Listed
  <2>5. Distinct(Append(q, e))
    <3> SUFFICES ASSUME NEW i \in 1 .. Len(q) + 1, NEW j \in 1 .. Len(q) + 1,
                        Append(q, e)[i].identity = Append(q, e)[j].identity
                 PROVE  i = j
      BY <2>3 DEF Distinct
    <3>1. CASE i = Len(q) + 1 /\ j # Len(q) + 1
      <4>1. j \in 1 .. Len(q)
        BY <2>3, <3>1
      <4> QED
        BY <2>2, <2>3, <2>4, <3>1, <4>1
    <3>2. CASE j = Len(q) + 1 /\ i # Len(q) + 1
      <4>1. i \in 1 .. Len(q)
        BY <2>3, <3>2
      <4> QED
        BY <2>2, <2>3, <2>4, <3>2, <4>1
    <3>3. CASE i # Len(q) + 1 /\ j # Len(q) + 1
      <4>1. i \in 1 .. Len(q) /\ j \in 1 .. Len(q)
        BY <2>3, <3>3
      <4> QED
        BY <2>3, <4>1 DEF Distinct
    <3> QED
      BY <3>1, <3>2, <3>3
  <2> QED
    BY <2>2, <2>3, <2>5
<1> QED
  BY <1>1, <1>2

(* Entries whose identities stay where they are.                            *)
LEMMA SameIdentities ==
  ASSUME NEW q \in Seq(Entry), Distinct(q), NEW r, DOMAIN r = 1 .. Len(q),
         \A i \in 1 .. Len(q) : r[i] \in Entry /\ r[i].identity = q[i].identity,
         r = [i \in 1 .. Len(q) |-> r[i]]
  PROVE  r \in Seq(Entry) /\ Distinct(r)
<1>1. Len(q) \in Nat
  BY LenProperties
<1>2. r \in [1 .. Len(q) -> Entry]
  OBVIOUS
<1>3. r \in Seq(Entry)
  BY <1>1, <1>2, SeqDef
<1>4. Len(r) = Len(q)
  BY <1>1, <1>3, LenProperties
<1> QED
  BY <1>3, <1>4 DEF Distinct

LEMMA RefreshDistinct ==
  ASSUME NEW q \in Seq(Entry), Distinct(q), NEW w \in Worker
  PROVE  Refresh(q, w) \in Seq(Entry) /\ Distinct(Refresh(q, w))
<1>1. Len(q) \in Nat /\ DOMAIN q = 1 .. Len(q) /\ \A i \in 1 .. Len(q) : q[i] \in Entry
  BY LenProperties, ElementOfSeq
<1>2. PICK r : r = Refresh(q, w)
  OBVIOUS
<1>3. /\ DOMAIN r = 1 .. Len(q) /\ r = [i \in 1 .. Len(q) |-> r[i]]
      /\ \A i \in 1 .. Len(q) : r[i] \in {q[i], [q[i] EXCEPT !.ttl = Expiry]}
  BY <1>1, <1>2 DEF Refresh
<1>4. Expiry \in 0 .. Expiry
  BY QueueAssumption
<1>5. \A i \in 1 .. Len(q) : r[i] \in Entry /\ r[i].identity = q[i].identity
  <2> TAKE i \in 1 .. Len(q)
  <2>1. q[i] \in Entry
    BY <1>1
  <2>2. CASE r[i] = q[i]
    BY <2>1, <2>2
  <2>3. CASE r[i] = [q[i] EXCEPT !.ttl = Expiry]
    <3>1. PICK e : e = q[i]
      OBVIOUS
    <3>2. [e EXCEPT !.ttl = Expiry] \in Entry
          /\ [e EXCEPT !.ttl = Expiry].identity = e.identity
      BY <1>4, <2>1, <3>1, EntryFields
    <3> QED
      BY <2>3, <3>1, <3>2
  <2> QED
    BY <1>3, <2>2, <2>3
<1> QED
  BY <1>2, <1>3, <1>5, SameIdentities

LEMMA TickDistinct ==
  ASSUME ListInv, QueueTick
  PROVE  ListInv'
<1>1. /\ mWorkers \in Seq(Entry) /\ Len(mWorkers) \in Nat
      /\ \A i \in 1 .. Len(mWorkers) : mWorkers[i] \in Entry
  BY LenProperties, ElementOfSeq DEF ListInv
<1>2. mWorkers' = [i \in 1 .. Len(mWorkers) |->
                     [mWorkers[i] EXCEPT !.ttl = IF @ = 0 THEN 0 ELSE @ - 1]]
  BY DEF QueueTick
<1>3. ASSUME NEW i \in 1 .. Len(mWorkers)
      PROVE  mWorkers'[i] \in Entry /\ mWorkers'[i].identity = mWorkers[i].identity
  <2> DEFINE t == IF mWorkers[i].ttl = 0 THEN 0 ELSE mWorkers[i].ttl - 1
  <2>1. mWorkers'[i] = [mWorkers[i] EXCEPT !.ttl = t]
    BY <1>2
  <2>2. mWorkers[i].ttl \in 0 .. Expiry /\ Expiry \in Nat
    BY <1>1, EntryFields, QueueAssumption
  <2>3. t \in 0 .. Expiry
    BY <2>2
  <2> HIDE DEF t
  <2> QED
    BY <1>1, <2>1, <2>3, EntryFields
<1>4. PICK r : r = mWorkers'
  OBVIOUS
<1>5. DOMAIN r = 1 .. Len(mWorkers) /\ r = [i \in 1 .. Len(mWorkers) |-> r[i]]
  BY <1>2, <1>4
<1>6. Distinct(mWorkers)
  BY DEF ListInv, ListedOnce, Distinct
<1>7. r \in Seq(Entry) /\ Distinct(r)
  BY <1>1, <1>3, <1>4, <1>5, <1>6, SameIdentities
<1> QED
  BY <1>4, <1>7 DEF ListInv, ListedOnce, Distinct

-----------------------------------------------------------------------------
(* The types that matter here.                                              *)
Phases == {"off", "polling", "busy", "asleep", "leaving", "ended"}

Typed ==
  /\ asked \subseteq Address
  /\ backUp \in [Worker -> Seq(UpMsg)]
  /\ backDown \in [Worker -> Seq(DownMsg)]
  /\ wPhase \in [Worker -> Phases]
  /\ hand \in [Worker -> Address \cup {NoAddress}]
  /\ \A w \in Worker : wPhase[w] = "busy" => hand[w] \in Address
  /\ cPhase \in [Client -> {"off", "waiting", "done", "abandoned"}]
  /\ retries \in [Client -> 0 .. Retries]

WorksOf(A) == {Work(a) : a \in A}

LEMMA Messages ==
  /\ Ready \in UpMsg /\ Heartbeat \in UpMsg /\ Heartbeat \in DownMsg
  /\ \A a \in Address : Work(a) \in UpMsg /\ Work(a) \in DownMsg
  /\ \A m \in UpMsg : m.type \in {"ready", "heartbeat", "work"}
  /\ \A m \in UpMsg \cup DownMsg :
       m.type = "work" => m.addr \in Address /\ m = Work(m.addr)
  /\ \A a, b : Work(a) = Work(b) => a = b
  /\ \A A : /\ Ready \notin WorksOf(A) /\ Heartbeat \notin WorksOf(A)
            /\ \A a : Work(a) \in WorksOf(A) <=> a \in A
<1>1. \A a : Work(a).type = "work" /\ Work(a).addr = a
  BY DEF Work
<1>2. Ready.type = "ready" /\ Heartbeat.type = "heartbeat"
  BY DEF Ready, Heartbeat
<1>3. \A m \in UpMsg \cup DownMsg :
        m = Ready \/ m = Heartbeat \/ \E a \in Address : m = Work(a)
  BY DEF UpMsg, DownMsg, WorkMsg
<1>4. \A a \in Address : Work(a) \in UpMsg /\ Work(a) \in DownMsg
  BY DEF UpMsg, DownMsg, WorkMsg
<1>5. Ready \in UpMsg /\ Heartbeat \in UpMsg /\ Heartbeat \in DownMsg
  BY DEF UpMsg, DownMsg
<1>6. \A A : \A m \in WorksOf(A) : \E a \in A : m = Work(a)
  BY DEF WorksOf
<1>7. \A A : \A a \in A : Work(a) \in WorksOf(A)
  BY DEF WorksOf
<1>8. \A a, b : Work(a) = Work(b) => a = b
  BY <1>1
<1>9. \A A : /\ Ready \notin WorksOf(A) /\ Heartbeat \notin WorksOf(A)
             /\ \A a : Work(a) \in WorksOf(A) <=> a \in A
  BY <1>1, <1>2, <1>6, <1>7, <1>8
<1>10. \A m \in UpMsg \cup DownMsg :
         /\ m.type \in {"ready", "heartbeat", "work"}
         /\ m.type = "work" => m.addr \in Address /\ m = Work(m.addr)
  BY <1>1, <1>2, <1>3
<1> QED
  BY <1>4, <1>5, <1>8, <1>9, <1>10

-----------------------------------------------------------------------------
(* Where an attempt can be.                                                 *)
Place == ({"asked", "answers"} \X {"front"}) \cup ({"hand", "down", "up"} \X Worker)

Found(A) ==
  [p \in Place |->
     CASE p[1] = "asked"   -> asked \cap A
       [] p[1] = "answers" -> answers \cap A
       [] p[1] = "hand"    -> {hand[p[2]]} \cap A
       [] p[1] = "down"    -> Positions(backDown[p[2]], WorksOf(A))
       [] p[1] = "up"      -> Positions(backUp[p[2]], WorksOf(A))]

LEMMA PlaceCases ==
  /\ <<"asked", "front">> \in Place /\ <<"answers", "front">> \in Place
  /\ \A w \in Worker : /\ <<"hand", w>> \in Place /\ <<"down", w>> \in Place
                       /\ <<"up", w>> \in Place
  /\ \A p \in Place :
       \/ p = <<"asked", "front">> \/ p = <<"answers", "front">>
       \/ \E w \in Worker : p = <<"hand", w>> \/ p = <<"down", w>> \/ p = <<"up", w>>
BY DEF Place

LEMMA FoundAt ==
  ASSUME NEW A
  PROVE  /\ Found(A)[<<"asked", "front">>] = asked \cap A
         /\ Found(A)[<<"answers", "front">>] = answers \cap A
         /\ \A w \in Worker :
              /\ Found(A)[<<"hand", w>>] = {hand[w]} \cap A
              /\ Found(A)[<<"down", w>>] = Positions(backDown[w], WorksOf(A))
              /\ Found(A)[<<"up", w>>] = Positions(backUp[w], WorksOf(A))
BY PlaceCases DEF Found

LEMMA FoundAtThen ==
  ASSUME NEW A
  PROVE  /\ Found(A)'[<<"asked", "front">>] = asked' \cap A
         /\ Found(A)'[<<"answers", "front">>] = answers' \cap A
         /\ \A w \in Worker :
              /\ Found(A)'[<<"hand", w>>] = {hand'[w]} \cap A
              /\ Found(A)'[<<"down", w>>] = Positions(backDown'[w], WorksOf(A))
              /\ Found(A)'[<<"up", w>>] = Positions(backUp'[w], WorksOf(A))
BY PlaceCases DEF Found

(* Place by place, but for the places D.                                    *)
LEMMA FewerElsewhere ==
  ASSUME NEW A, NEW D,
         <<"asked", "front">> \in D \/ asked' \cap A \subseteq asked,
         <<"answers", "front">> \in D \/ answers' \cap A \subseteq answers,
         \A w \in Worker :
           /\ <<"hand", w>> \in D \/ {hand'[w]} \cap A \subseteq {hand[w]}
           /\ <<"down", w>> \in D \/ NoMore(backDown'[w], backDown[w], WorksOf(A))
           /\ <<"up", w>> \in D \/ NoMore(backUp'[w], backUp[w], WorksOf(A))
  PROVE  \A p \in Place \ D : Fewer(Found(A)'[p], Found(A)[p])
<1>1. \A X, Y : Y \subseteq X => Fewer(Y, X)
  BY DEF Fewer, AtMostOne
<1>2. PICK F, G : F = Found(A) /\ G = Found(A)'
  OBVIOUS
<1>3. /\ F[<<"asked", "front">>] = asked \cap A
      /\ F[<<"answers", "front">>] = answers \cap A
      /\ \A w \in Worker :
           /\ F[<<"hand", w>>] = {hand[w]} \cap A
           /\ F[<<"down", w>>] = Positions(backDown[w], WorksOf(A))
           /\ F[<<"up", w>>] = Positions(backUp[w], WorksOf(A))
  BY <1>2, FoundAt
<1>4. /\ G[<<"asked", "front">>] = asked' \cap A
      /\ G[<<"answers", "front">>] = answers' \cap A
      /\ \A w \in Worker :
           /\ G[<<"hand", w>>] = {hand'[w]} \cap A
           /\ G[<<"down", w>>] = Positions(backDown'[w], WorksOf(A))
           /\ G[<<"up", w>>] = Positions(backUp'[w], WorksOf(A))
  BY <1>2, FoundAtThen
<1> SUFFICES ASSUME NEW p \in Place \ D
             PROVE  Fewer(G[p], F[p])
  BY <1>2
<1>5. CASE p = <<"asked", "front">> \/ p = <<"answers", "front">>
  <2>1. G[p] \subseteq F[p]
    BY <1>3, <1>4, <1>5
  <2> QED
    BY <1>1, <2>1
<1>6. ASSUME NEW w \in Worker, p = <<"hand", w>> \/ p = <<"down", w>> \/ p = <<"up", w>>
      PROVE  Fewer(G[p], F[p])
  <2>1. CASE p = <<"hand", w>>
    <3>1. G[p] \subseteq F[p]
      BY <1>3, <1>4, <2>1
    <3> QED
      BY <1>1, <3>1
  <2>2. CASE p = <<"down", w>>
    BY <1>3, <1>4, <2>2, FewerIsNoMore
  <2>3. CASE p = <<"up", w>>
    BY <1>3, <1>4, <2>3, FewerIsNoMore
  <2> QED
    BY <1>6, <2>1, <2>2, <2>3
<1> QED
  BY <1>5, <1>6, PlaceCases

(* What is only lost.                                                       *)
LEMMA FoundFewer ==
  ASSUME NEW A,
         asked' \cap A \subseteq asked, answers' \cap A \subseteq answers,
         \A w \in Worker :
           /\ {hand'[w]} \cap A \subseteq {hand[w]}
           /\ NoMore(backDown'[w], backDown[w], WorksOf(A))
           /\ NoMore(backUp'[w], backUp[w], WorksOf(A))
  PROVE  NotMore(Place, Found(A)', Found(A))
<1>1. \A p \in Place \ {} : Fewer(Found(A)'[p], Found(A)[p])
  BY FewerElsewhere
<1> QED
  BY <1>1, FewerEach
-----------------------------------------------------------------------------
(* A step makes no attempt found at more places, whichever attempts one     *)
(* looks for, and keeps the types.                                          *)
Carried ==
  Typed' /\ \A A \in SUBSET Address : NotMore(Place, Found(A)', Found(A))

LEMMA Parts ==
  ASSUME Typed, NEW w \in Worker
  PROVE  /\ backUp[w] \in Seq(UpMsg) /\ backDown[w] \in Seq(DownMsg)
         /\ Len(backUp[w]) \in Nat /\ Len(backDown[w]) \in Nat
BY LenProperties DEF Typed

(* Messages that are no work.                                               *)
LEMMA NoWork ==
  ASSUME NEW A
  PROVE  /\ NoneOf(<<>>, WorksOf(A)) /\ NoneOf(<<Ready>>, WorksOf(A))
         /\ NoneOf(<<Heartbeat>>, WorksOf(A))
BY Messages, NoneOfOne, NoMoreOfEmpty

LEMMA QueueCrashCarries ==
  ASSUME Typed, QueueCrash, UNCHANGED <<hand, wPhase, cPhase, retries>>
  PROVE  Carried
<1>1. asked' \subseteq asked /\ answers' \subseteq answers
  BY DEF QueueCrash
<1>2. PICK left \in [Worker -> UNION {Unsent(w) : w \in Worker}] :
        /\ \A w \in Worker : left[w] \in Unsent(w)
        /\ backUp' = left
  BY DEF QueueCrash
<1>3. PICK n \in [Worker -> 0 .. Hwm] :
        /\ \A w \in Worker : n[w] <= Len(backDown[w])
        /\ backDown' = [w \in Worker |-> SubSeq(backDown[w], 1, n[w])]
  BY DEF QueueCrash
<1>4. ASSUME NEW w \in Worker
      PROVE  /\ left[w] \in Seq(UpMsg)
             /\ \A A : NoMore(left[w], backUp[w], WorksOf(A))
  <2>1. PICK i \in 1 .. Len(backUp[w]) + 1 :
          left[w] = <<>> \/ left[w] = SubSeq(backUp[w], i, Len(backUp[w]))
    <3>1. left[w] \in Unsent(w)
      BY <1>2
    <3>2. 1 \in 1 .. Len(backUp[w]) + 1
      BY Parts
    <3> QED
      BY <3>1, <3>2 DEF Unsent
  <2>2. CASE left[w] = <<>>
    BY <2>2, NoMoreOfEmpty, EmptySeq
  <2>3. CASE left[w] = SubSeq(backUp[w], i, Len(backUp[w]))
    <3>1. PICK q, k : q = backUp[w] /\ k = Len(backUp[w])
      OBVIOUS
    <3>2. q \in Seq(UpMsg) /\ i \in Nat \ {0} /\ k \in Nat /\ k <= Len(q)
      BY <3>1, Parts
    <3>3. SubSeq(q, i, k) \in Seq(UpMsg)
          /\ \A A : NoMore(SubSeq(q, i, k), q, WorksOf(A))
      BY <3>2, SubSeqElements, NoMoreOfSubSeq
    <3> QED
      BY <2>3, <3>1, <3>3
  <2> QED
    BY <2>1, <2>2, <2>3
<1>5. ASSUME NEW w \in Worker
      PROVE  /\ backDown'[w] \in Seq(DownMsg)
             /\ \A A : NoMore(backDown'[w], backDown[w], WorksOf(A))
  <2>1. /\ backDown[w] \in Seq(DownMsg) /\ n[w] \in Nat /\ n[w] <= Len(backDown[w])
        /\ 1 \in Nat \ {0}
    BY <1>3, Parts, QueueAssumption, SMTT(30)
  <2>2. backDown'[w] = SubSeq(backDown[w], 1, n[w])
    BY <1>3
  <2> QED
    BY <2>1, <2>2, SubSeqElements, NoMoreOfSubSeq
<1>6. Typed'
  <2>1. backUp' \in [Worker -> Seq(UpMsg)] /\ backDown' \in [Worker -> Seq(DownMsg)]
    BY <1>2, <1>3, <1>4, <1>5
  <2> QED
    BY <1>1, <2>1 DEF Typed
<1>7. \A A \in SUBSET Address : NotMore(Place, Found(A)', Found(A))
  BY <1>1, <1>2, <1>4, <1>5, FoundFewer
<1> QED
  BY <1>6, <1>7 DEF Carried

LEMMA HousekeepingCarries ==
  ASSUME Typed, Housekeeping, UNCHANGED <<hand, wPhase, cPhase, retries>>
  PROVE  Carried
<1>1. UNCHANGED <<asked, answers, backUp>>
  BY DEF Housekeeping, frontVars
<1>2. ASSUME NEW w \in Worker
      PROVE  /\ backDown'[w] \in Seq(DownMsg)
             /\ \A A : NoMore(backDown'[w], backDown[w], WorksOf(A))
  <2>1. \/ backDown'[w] = backDown[w]
        \/ backDown'[w] = Append(backDown[w], Heartbeat)
    BY DEF Housekeeping
  <2>2. backDown[w] \in Seq(DownMsg) /\ Heartbeat \in DownMsg
    BY Parts, Messages
  <2>3. Append(backDown[w], Heartbeat) \in Seq(DownMsg)
    BY <2>2, AppendProperties
  <2>4. \A A : NoMore(Append(backDown[w], Heartbeat), backDown[w], WorksOf(A))
    BY <2>2, Messages, NoMoreOfAppend
  <2> QED
    BY <2>1, <2>2, <2>3, <2>4, NoMoreOfSame
<1>3. Typed'
  <2>1. backDown' \in [Worker -> Seq(DownMsg)]
    BY <1>2 DEF Housekeeping
  <2> QED
    BY <1>1, <2>1 DEF Typed
<1>4. \A A \in SUBSET Address : NotMore(Place, Found(A)', Found(A))
  BY <1>1, <1>2, FoundFewer, NoMoreOfSame
<1> QED
  BY <1>3, <1>4 DEF Carried

(* A request leaves the front socket, and goes to a worker or to no one.    *)
LEMMA HandleFrontCarries ==
  ASSUME Typed, mWorkers \in Seq(Entry), HandleFront,
         UNCHANGED <<hand, wPhase, cPhase, retries>>
  PROVE  Carried
<1>1. UNCHANGED <<answers, backUp>>
  BY DEF HandleFront
<1>2. CASE mWorkers = <<>>
  <2>1. UNCHANGED <<asked, backDown>>
    BY <1>2 DEF HandleFront
  <2> QED
    BY <1>1, <2>1, FoundFewer, NoMoreOfSame DEF Carried, Typed
<1>3. CASE mWorkers # <<>>
  <2>1. PICK a \in asked : /\ asked' = asked \ {a}
                           /\ SendToWorker(Head(mWorkers).identity, Work(a))
    BY <1>3 DEF HandleFront
  <2>2. PICK w : w = Head(mWorkers).identity
    OBVIOUS
  <2>3. w \in Worker
    BY <1>3, <2>2, HeadTailProperties, EntryFields
  <2>4. a \in Address /\ Work(a) \in DownMsg
    BY Messages DEF Typed
  <2>5. backDown \in [Worker -> Seq(DownMsg)] /\ backDown[w] \in Seq(DownMsg)
    BY <2>3 DEF Typed
  <2>6. CASE w \notin connected
    <3>1. UNCHANGED backDown
      BY <2>1, <2>2, <2>5, <2>6 DEF SendToWorker
    <3>2. asked' \subseteq asked
      BY <2>1
    <3> QED
      BY <1>1, <3>1, <3>2, FoundFewer, NoMoreOfSame DEF Carried, Typed
  <2>7. CASE w \in connected
    <3>1. backDown' = [backDown EXCEPT ![w] = Append(@, Work(a))]
      BY <2>1, <2>2, <2>7 DEF SendToWorker
    <3>2. /\ backDown'[w] = Append(backDown[w], Work(a))
          /\ \A v \in Worker : v # w => backDown'[v] = backDown[v]
      BY <2>3, <2>5, <3>1
    <3>3. Append(backDown[w], Work(a)) \in Seq(DownMsg)
      BY <2>4, <2>5, AppendProperties
    <3>4. Typed'
      BY <1>1, <2>1, <2>5, <3>1, <3>3 DEF Typed
    <3>5. ASSUME NEW A \in SUBSET Address
          PROVE  NotMore(Place, Found(A)', Found(A))
      <4> DEFINE d == <<"down", w>>
      <4>1. /\ Found(A)[<<"asked", "front">>] = asked \cap A
            /\ Found(A)[d] = Positions(backDown[w], WorksOf(A))
        BY <2>3, FoundAt
      <4>2. /\ Found(A)'[<<"asked", "front">>] = asked' \cap A
            /\ Found(A)'[d] = Positions(backDown'[w], WorksOf(A))
        BY <2>3, FoundAtThen
      <4>3. \A p \in Place \ {d} : Fewer(Found(A)'[p], Found(A)[p])
        <5>1. asked' \cap A \subseteq asked
          BY <2>1
        <5>2. \A v \in Worker : <<"down", v>> \in {d}
                                \/ NoMore(backDown'[v], backDown[v], WorksOf(A))
          BY <3>2, NoMoreOfSame
        <5> HIDE DEF d
        <5> QED
          BY <1>1, <5>1, <5>2, FewerElsewhere, NoMoreOfSame
      <4>4. CASE a \in A
        <5>1. /\ Found(A)[<<"asked", "front">>] # {}
              /\ AtMostOne(Found(A)[<<"asked", "front">>])
                   => Found(A)'[<<"asked", "front">>] = {}
          BY <2>1, <4>1, <4>2, <4>4 DEF AtMostOne
        <5>2. Found(A)[d] = {} => AtMostOne(Found(A)'[d])
          <6>1. PICK q, r : q = backDown[w] /\ r = Append(backDown[w], Work(a))
            OBVIOUS
          <6>2. NoneOf(q, WorksOf(A)) => OneOf(r, WorksOf(A))
            BY <2>4, <2>5, <6>1, NoMoreOfAppend
          <6>3. Positions(q, WorksOf(A)) = {} => AtMostOne(Positions(r, WorksOf(A)))
            BY <6>2 DEF NoneOf, OneOf, AtMostOne
          <6> QED
            BY <3>2, <4>1, <4>2, <6>1, <6>3
        <5>3. <<"asked", "front">> \in Place /\ d \in Place /\ <<"asked", "front">> # d
          BY <2>3, PlaceCases
        <5> HIDE DEF d
        <5> QED
          BY <4>3, <5>1, <5>2, <5>3, OneMoved
      <4>5. CASE a \notin A
        <5>1. NoMore(backDown'[w], backDown[w], WorksOf(A))
          BY <2>4, <2>5, <3>2, <4>5, Messages, NoMoreOfAppend
        <5>2. \A v \in Worker : NoMore(backDown'[v], backDown[v], WorksOf(A))
          BY <3>2, <5>1, NoMoreOfSame
        <5>3. asked' \cap A \subseteq asked
          BY <2>1
        <5> QED
          BY <1>1, <5>2, <5>3, FoundFewer, NoMoreOfSame
      <4> QED
        BY <4>4, <4>5
    <3> QED
      BY <3>4, <3>5 DEF Carried
  <2> QED
    BY <2>6, <2>7
<1> QED
  BY <1>2, <1>3
(* A message of a worker is read: a reply goes to its client, or to no one. *)
LEMMA HandleBackCarries ==
  ASSUME Typed, NEW w \in Worker, HandleBack(w),
         UNCHANGED <<hand, wPhase, cPhase, retries>>
  PROVE  Carried
<1>1. /\ backUp[w] # <<>> /\ backUp' = [backUp EXCEPT ![w] = Tail(@)]
      /\ UNCHANGED <<asked, backDown>>
  BY DEF HandleBack
<1>2. PICK m : m = Head(backUp[w])
  OBVIOUS
<1>3. /\ backUp \in [Worker -> Seq(UpMsg)] /\ backUp[w] \in Seq(UpMsg)
  BY DEF Typed
<1>4. /\ m \in UpMsg /\ Tail(backUp[w]) \in Seq(UpMsg)
      /\ \A A : NoMore(Tail(backUp[w]), backUp[w], WorksOf(A))
  BY <1>1, <1>2, <1>3, HeadFound
<1>5. /\ backUp'[w] = Tail(backUp[w])
      /\ \A v \in Worker : v # w => backUp'[v] = backUp[v]
      /\ \A A : \A v \in Worker : NoMore(backUp'[v], backUp[v], WorksOf(A))
  BY <1>1, <1>3, <1>4, NoMoreOfSame
<1>6. Typed'
  BY <1>1, <1>3, <1>4 DEF Typed
<1>7. CASE UNCHANGED answers
  BY <1>1, <1>5, <1>6, <1>7, FoundFewer, NoMoreOfSame DEF Carried
<1>8. CASE m.type = "work" /\ ~UNCHANGED answers
  <2>1. PICK a \in Address : m = Work(a) /\ m.addr = a
    BY <1>4, <1>8, Messages DEF Work
  <2>2. answers' = answers \cup {a}
    BY <1>2, <1>8, <2>1 DEF HandleBack, SendToClient
  <2>3. ASSUME NEW A \in SUBSET Address
        PROVE  NotMore(Place, Found(A)', Found(A))
    <3> DEFINE o == <<"up", w>>
               d == <<"answers", "front">>
    <3>1. CASE a \notin A
      <4>1. answers' \cap A \subseteq answers
        BY <2>2, <3>1
      <4> QED
        BY <1>1, <1>5, <4>1, FoundFewer, NoMoreOfSame
    <3>2. CASE a \in A
      <4>1. /\ Found(A)[d] = answers \cap A
            /\ Found(A)[o] = Positions(backUp[w], WorksOf(A))
        BY FoundAt
      <4>2. /\ Found(A)'[d] = answers' \cap A
            /\ Found(A)'[o] = Positions(backUp'[w], WorksOf(A))
        BY FoundAtThen
      <4>3. \A p \in Place \ {d} : Fewer(Found(A)'[p], Found(A)[p])
        <5> HIDE DEF o
        <5> QED
          BY <1>1, <1>5, FewerElsewhere, NoMoreOfSame
      <4>4. /\ Positions(backUp[w], WorksOf(A)) # {}
            /\ AtMostOne(Positions(backUp[w], WorksOf(A)))
                 => Positions(backUp'[w], WorksOf(A)) = {}
        <5>1. Head(backUp[w]) \in WorksOf(A)
          BY <1>2, <2>1, <3>2, Messages
        <5> QED
          BY <1>1, <1>3, <1>5, <5>1, HeadFound
      <4>5. answers \cap A = {} => AtMostOne(answers' \cap A)
        BY <2>2 DEF AtMostOne
      <4>6. o \in Place /\ d \in Place /\ o # d
        BY PlaceCases
      <4> HIDE DEF o, d
      <4>7. /\ Found(A)[o] # {}
            /\ AtMostOne(Found(A)[o]) => Found(A)'[o] = {}
            /\ Found(A)[d] = {} => AtMostOne(Found(A)'[d])
        BY <4>1, <4>2, <4>4, <4>5
      <4> QED
        BY <4>3, <4>6, <4>7, OneMoved
    <3> QED
      BY <3>1, <3>2
  <2> QED
    BY <1>6, <2>3 DEF Carried
<1>9. m.type = "work" \/ UNCHANGED answers
  <2>1. m.type \in {"ready", "heartbeat", "work"}
    BY <1>4, Messages
  <2> QED
    BY <1>2, <2>1 DEF HandleBack
<1> QED
  BY <1>7, <1>8, <1>9

-----------------------------------------------------------------------------
(* The workers.                                                             *)

(* What one of them does to the links, to its hand and to its phase.        *)
LEMMA WorkerTyped ==
  ASSUME Typed, NEW w \in Worker,
         NEW us \in Seq(UpMsg), backUp' = [backUp EXCEPT ![w] = us],
         NEW ds \in Seq(DownMsg), backDown' = [backDown EXCEPT ![w] = ds],
         NEW ph \in Phases, wPhase' = [wPhase EXCEPT ![w] = ph],
         NEW h \in Address \cup {NoAddress}, hand' = [hand EXCEPT ![w] = h],
         ph = "busy" => h \in Address,
         UNCHANGED <<asked, cPhase, retries>>
  PROVE  /\ Typed'
         /\ backUp'[w] = us /\ backDown'[w] = ds /\ hand'[w] = h
         /\ \A v \in Worker : v # w => /\ backUp'[v] = backUp[v]
                                       /\ backDown'[v] = backDown[v]
                                       /\ hand'[v] = hand[v]
BY DEF Typed

(* A step of one worker that sends no reply and takes no request.           *)
LEMMA IdleCarries ==
  ASSUME Typed, NEW w \in Worker,
         NEW us \in Seq(UpMsg), backUp' = [backUp EXCEPT ![w] = us],
         NEW ds \in Seq(DownMsg), backDown' = [backDown EXCEPT ![w] = ds],
         NEW ph \in Phases, wPhase' = [wPhase EXCEPT ![w] = ph], ph # "busy",
         UNCHANGED <<asked, answers, cPhase, retries, hand>>,
         \A A : /\ NoMore(us, backUp[w], WorksOf(A))
                /\ NoMore(ds, backDown[w], WorksOf(A))
  PROVE  Carried
<1>1. PICK h : h = hand[w]
  OBVIOUS
<1>2. h \in Address \cup {NoAddress} /\ hand' = [hand EXCEPT ![w] = h]
  BY <1>1 DEF Typed
<1>3. /\ Typed'
      /\ backUp'[w] = us /\ backDown'[w] = ds
      /\ \A v \in Worker : v # w => /\ backUp'[v] = backUp[v]
                                    /\ backDown'[v] = backDown[v]
  BY <1>2 DEF Typed
<1>4. \A A : \A v \in Worker :
        /\ NoMore(backUp'[v], backUp[v], WorksOf(A))
        /\ NoMore(backDown'[v], backDown[v], WorksOf(A))
  BY <1>3, NoMoreOfSame
<1>5. \A A \in SUBSET Address : NotMore(Place, Found(A)', Found(A))
  BY <1>4, FoundFewer
<1> QED
  BY <1>3, <1>5 DEF Carried

LEMMA Said ==
  ASSUME NEW x \in UpMsg
  PROVE  <<x>> \in Seq(UpMsg)
OBVIOUS

(* What follows the poll: messages, a heartbeat perhaps, and another phase. *)
LEMMA AfterPollSays ==
  ASSUME Typed, NEW w \in Worker, NEW msgs \in Seq(UpMsg), NEW left,
         AfterPoll(w, msgs, left)
  PROVE  \E more \in {<<>>, <<Heartbeat>>}, ph \in Phases \ {"busy"} :
           /\ backUp' = [backUp EXCEPT ![w] = backUp[w] \o (msgs \o more)]
           /\ wPhase' = [wPhase EXCEPT ![w] = ph]
           /\ msgs \o more \in Seq(UpMsg)
<1>1. msgs \o <<>> = msgs
  BY EmptySeq, ConcatProperties
<1>2. <<>> \in Seq(UpMsg) /\ <<Heartbeat>> \in Seq(UpMsg)
  BY Messages
<1>3. \A more \in {<<>>, <<Heartbeat>>} : msgs \o more \in Seq(UpMsg)
  BY <1>2, ConcatProperties
<1>4. CASE left > 0
  <2> DEFINE more == IF elapsed[w] THEN <<Heartbeat>> ELSE <<>>
             ph == IF isRunning[w] THEN "polling" ELSE "leaving"
  <2>1. /\ backUp' = [backUp EXCEPT ![w] = backUp[w] \o (msgs \o more)]
        /\ wPhase' = [wPhase EXCEPT ![w] = ph]
    BY <1>4 DEF AfterPoll, Finish
  <2>2. more \in {<<>>, <<Heartbeat>>} /\ ph \in Phases \ {"busy"}
    BY DEF Phases
  <2> HIDE DEF more, ph
  <2> QED
    BY <1>3, <2>1, <2>2
<1>5. CASE ~(left > 0)
  <2>1. /\ backUp' = [backUp EXCEPT ![w] = backUp[w] \o (msgs \o <<>>)]
        /\ wPhase' = [wPhase EXCEPT ![w] = "asleep"]
    BY <1>1, <1>5 DEF AfterPoll
  <2>2. "asleep" \in Phases \ {"busy"}
    BY DEF Phases
  <2> QED
    BY <1>3, <2>1, <2>2
<1> QED
  BY <1>4, <1>5
LEMMA WorkerStartCarries ==
  ASSUME Typed, NEW w \in Worker, WorkerStart(w),
         UNCHANGED <<asked, answers, cPhase, retries>>
  PROVE  Carried
<1>1. PICK ds, ph : ds = backDown[w] /\ ph = "polling"
  OBVIOUS
<1>2. /\ ds \in Seq(DownMsg) /\ backDown' = [backDown EXCEPT ![w] = ds]
      /\ ph \in Phases /\ wPhase' = [wPhase EXCEPT ![w] = ph] /\ ph # "busy"
  BY <1>1 DEF WorkerStart, Typed, Phases
<1>3. PICK us : us = <<Ready>>
  OBVIOUS
<1>4. us \in Seq(UpMsg) /\ backUp' = [backUp EXCEPT ![w] = us] /\ UNCHANGED hand
  BY <1>3, Messages DEF WorkerStart
<1>5. \A A : NoMore(us, backUp[w], WorksOf(A)) /\ NoMore(ds, backDown[w], WorksOf(A))
  <2>1. \A A : OneOf(us, WorksOf(A)) /\ NoneOf(us, WorksOf(A))
    BY <1>3, NoWork, NoneOfOne
  <2> QED
    BY <1>1, <2>1, NoMoreOfSame DEF NoMore
<1> QED
  BY <1>2, <1>4, <1>5, IdleCarries

(* A poll that finds nothing, or a heartbeat.                               *)
LEMMA NothingTakenCarries ==
  ASSUME Typed, NEW w \in Worker, WorkerTimesOut(w) \/ WorkerHears(w),
         UNCHANGED <<asked, answers, cPhase, retries>>
  PROVE  Carried
<1>1. \E left : AfterPoll(w, <<>>, left)
  BY DEF WorkerTimesOut, WorkerHears
<1>2. <<>> \in Seq(UpMsg)
  BY EmptySeq
<1>3. PICK more \in {<<>>, <<Heartbeat>>}, ph \in Phases \ {"busy"} :
        /\ backUp' = [backUp EXCEPT ![w] = backUp[w] \o (<<>> \o more)]
        /\ wPhase' = [wPhase EXCEPT ![w] = ph]
        /\ <<>> \o more \in Seq(UpMsg)
  BY <1>1, <1>2, AfterPollSays
<1>4. <<>> \o more = more
  <2>1. more \in Seq(UpMsg)
    <3>1. <<Heartbeat>> \in Seq(UpMsg)
      BY Messages, Said
    <3> QED
      BY <1>2, <3>1
  <2> QED
    BY <2>1, EmptySeq, ConcatProperties
<1>5. /\ backUp[w] \in Seq(UpMsg) /\ backDown[w] \in Seq(DownMsg)
      /\ backDown \in [Worker -> Seq(DownMsg)]
  BY DEF Typed
<1>6. PICK us : us = backUp[w] \o more
  OBVIOUS
<1>7. /\ us \in Seq(UpMsg) /\ backUp' = [backUp EXCEPT ![w] = us]
      /\ \A A : NoMore(us, backUp[w], WorksOf(A))
  <2>1. more \in Seq(UpMsg) /\ \A A : NoneOf(more, WorksOf(A))
    BY <1>3, <1>4, NoWork
  <2> QED
    BY <1>3, <1>4, <1>5, <1>6, <2>1, ConcatProperties, NoMoreOfConcat
<1>8. PICK ds \in Seq(DownMsg) : /\ backDown' = [backDown EXCEPT ![w] = ds]
                                 /\ \A A : NoMore(ds, backDown[w], WorksOf(A))
  <2>1. CASE WorkerTimesOut(w)
    <3>1. backDown' = [backDown EXCEPT ![w] = backDown[w]]
      BY <1>5, <2>1 DEF WorkerTimesOut
    <3> QED
      BY <1>5, <3>1, NoMoreOfSame
  <2>2. CASE WorkerHears(w)
    <3>1. backDown[w] # <<>> /\ backDown' = [backDown EXCEPT ![w] = Tail(backDown[w])]
      BY <2>2 DEF WorkerHears
    <3>2. Tail(backDown[w]) \in Seq(DownMsg)
          /\ \A A : NoMore(Tail(backDown[w]), backDown[w], WorksOf(A))
      BY <1>5, <3>1, HeadFound
    <3> QED
      BY <3>1, <3>2
  <2> QED
    BY <2>1, <2>2
<1>9. UNCHANGED hand /\ ph # "busy"
  BY DEF WorkerTimesOut, WorkerHears
<1> QED
  BY <1>3, <1>7, <1>8, <1>9, IdleCarries

(* A socket is closed, and perhaps a new one opened.                        *)
LEMMA LeftIsLess ==
  ASSUME Typed, NEW w \in Worker, NEW left \in LeftBy(w)
  PROVE  left \in Seq(UpMsg) /\ \A A : NoMore(left, backUp[w], WorksOf(A))
<1>1. PICK n \in 0 .. Len(backUp[w]) :
        left = <<>> \/ left = SubSeq(backUp[w], 1, n)
  <2>1. 0 \in 0 .. Len(backUp[w])
    BY Parts
  <2> QED
    BY <2>1 DEF LeftBy
<1>2. CASE left = <<>>
  BY <1>2, EmptySeq, NoMoreOfEmpty
<1>3. CASE left = SubSeq(backUp[w], 1, n)
  <2>1. PICK q : q = backUp[w]
    OBVIOUS
  <2>2. q \in Seq(UpMsg) /\ 1 \in Nat \ {0} /\ n \in Nat /\ n <= Len(q)
    BY <2>1, Parts
  <2> QED
    BY <1>3, <2>1, <2>2, SubSeqElements, NoMoreOfSubSeq
<1> QED
  BY <1>1, <1>2, <1>3

LEMMA ClosedCarries ==
  ASSUME Typed, NEW w \in Worker, NEW left \in LeftBy(w),
         WorkerReconnects(w, left) \/ WorkerEnds(w, left),
         UNCHANGED <<asked, answers, cPhase, retries>>
  PROVE  Carried
<1>1. left \in Seq(UpMsg) /\ \A A : NoMore(left, backUp[w], WorksOf(A))
  BY LeftIsLess
<1>2. PICK out \in Seq(UpMsg), ph \in Phases \ {"busy"} :
        /\ backUp' = [backUp EXCEPT ![w] = left \o out]
        /\ wPhase' = [wPhase EXCEPT ![w] = ph]
        /\ \A A : NoneOf(out, WorksOf(A))
  <2>1. CASE WorkerReconnects(w, left)
    <3> DEFINE more == IF elapsed[w] THEN <<Heartbeat>> ELSE <<>>
               ph == IF isRunning[w] THEN "polling" ELSE "leaving"
    <3>1. /\ backUp' = [backUp EXCEPT ![w] = left \o (<<Ready>> \o more)]
          /\ wPhase' = [wPhase EXCEPT ![w] = ph]
      BY <2>1 DEF WorkerReconnects, Finish
    <3>2. PICK p, q : p = <<Ready>> /\ q = more
      OBVIOUS
    <3>3. /\ p \in Seq(UpMsg) /\ q \in Seq(UpMsg)
          /\ \A A : NoneOf(p, WorksOf(A)) /\ NoneOf(q, WorksOf(A))
      BY <3>2, Messages, Said, EmptySeq, NoWork
    <3>4. p \o q \in Seq(UpMsg) /\ \A A : NoneOf(p \o q, WorksOf(A))
      BY <3>3, ConcatProperties, NoMoreOfConcat
    <3>5. ph \in Phases \ {"busy"}
      BY DEF Phases
    <3> HIDE DEF more, ph
    <3> QED
      BY <3>1, <3>2, <3>4, <3>5
  <2>2. CASE WorkerEnds(w, left)
    <3>1. left \o <<>> = left
      BY <1>1, EmptySeq, ConcatProperties
    <3>2. "ended" \in Phases \ {"busy"} /\ <<>> \in Seq(UpMsg)
      BY EmptySeq DEF Phases
    <3> QED
      BY <2>2, <3>1, <3>2, NoWork DEF WorkerEnds
  <2> QED
    BY <2>1, <2>2
<1>4. PICK us : us = left \o out
  OBVIOUS
<1>5. us \in Seq(UpMsg) /\ \A A : NoMore(us, left, WorksOf(A))
  BY <1>1, <1>2, <1>4, ConcatProperties, NoMoreOfConcat
<1>6. \A A : NoMore(us, backUp[w], WorksOf(A))
  BY <1>1, <1>5 DEF NoMore
<1>7. PICK ds : ds = <<>>
  OBVIOUS
<1>8. /\ ds \in Seq(DownMsg) /\ backDown' = [backDown EXCEPT ![w] = ds]
      /\ \A A : NoMore(ds, backDown[w], WorksOf(A))
      /\ UNCHANGED hand
  BY <1>7, EmptySeq, NoMoreOfEmpty DEF WorkerReconnects, WorkerEnds
<1>9. backUp' = [backUp EXCEPT ![w] = us] /\ ph # "busy"
  BY <1>2, <1>4
<1> QED
  BY <1>2, <1>5, <1>6, <1>8, <1>9, IdleCarries
(* A request comes into the hands of a worker.                              *)
LEMMA WorkerTakesCarries ==
  ASSUME Typed, NEW w \in Worker, WorkerTakes(w),
         UNCHANGED <<asked, answers, cPhase, retries>>
  PROVE  Carried
<1>1. /\ backDown[w] # <<>> /\ Head(backDown[w]).type = "work"
      /\ hand' = [hand EXCEPT ![w] = Head(backDown[w]).addr]
      /\ backDown' = [backDown EXCEPT ![w] = Tail(@)]
      /\ wPhase' = [wPhase EXCEPT ![w] = "busy"]
      /\ UNCHANGED backUp
  BY DEF WorkerTakes
<1>2. /\ backDown \in [Worker -> Seq(DownMsg)] /\ backDown[w] \in Seq(DownMsg)
      /\ hand \in [Worker -> Address \cup {NoAddress}]
  BY DEF Typed
<1>3. PICK m : m = Head(backDown[w])
  OBVIOUS
<1>4. /\ m \in DownMsg /\ Tail(backDown[w]) \in Seq(DownMsg)
      /\ \A A : NoMore(Tail(backDown[w]), backDown[w], WorksOf(A))
  BY <1>1, <1>2, <1>3, HeadFound
<1>5. PICK a \in Address : a = m.addr /\ m = Work(a)
  <2>1. m.type = "work"
    BY <1>1, <1>3
  <2> QED
    BY <1>4, <2>1, Messages
<1>6. /\ hand' = [hand EXCEPT ![w] = a]
      /\ backDown' = [backDown EXCEPT ![w] = Tail(backDown[w])]
  BY <1>1, <1>3, <1>5
<1>7. /\ hand'[w] = a /\ backDown'[w] = Tail(backDown[w])
      /\ \A v \in Worker : v # w => /\ hand'[v] = hand[v]
                                    /\ backDown'[v] = backDown[v]
  BY <1>2, <1>6
<1>8. Typed'
  BY <1>1, <1>4, <1>6 DEF Typed, Phases
<1>9. ASSUME NEW A \in SUBSET Address
      PROVE  NotMore(Place, Found(A)', Found(A))
  <2>1. \A v \in Worker : /\ NoMore(backUp'[v], backUp[v], WorksOf(A))
                          /\ NoMore(backDown'[v], backDown[v], WorksOf(A))
    BY <1>1, <1>4, <1>7, NoMoreOfSame
  <2>2. CASE a \notin A
    <3>1. \A v \in Worker : {hand'[v]} \cap A \subseteq {hand[v]}
      BY <1>7, <2>2
    <3> QED
      BY <2>1, <3>1, FoundFewer
  <2>3. CASE a \in A
    <3> DEFINE o == <<"down", w>>
               d == <<"hand", w>>
    <3>1. /\ Found(A)[o] = Positions(backDown[w], WorksOf(A))
          /\ Found(A)[d] = {hand[w]} \cap A
      BY FoundAt
    <3>2. /\ Found(A)'[o] = Positions(backDown'[w], WorksOf(A))
          /\ Found(A)'[d] = {hand'[w]} \cap A
      BY FoundAtThen
    <3>3. \A p \in Place \ {d} : Fewer(Found(A)'[p], Found(A)[p])
      <4>1. \A v \in Worker : <<"hand", v>> \in {d}
                              \/ {hand'[v]} \cap A \subseteq {hand[v]}
        BY <1>7
      <4> HIDE DEF o, d
      <4> QED
        BY <2>1, <4>1, FewerElsewhere
    <3>4. /\ Positions(backDown[w], WorksOf(A)) # {}
          /\ AtMostOne(Positions(backDown[w], WorksOf(A)))
               => Positions(backDown'[w], WorksOf(A)) = {}
      <4>1. Head(backDown[w]) \in WorksOf(A)
        BY <1>3, <1>5, <2>3, Messages
      <4> QED
        BY <1>1, <1>2, <1>7, <4>1, HeadFound
    <3>5. AtMostOne({hand'[w]} \cap A)
      BY DEF AtMostOne
    <3>6. o \in Place /\ d \in Place /\ o # d
      BY PlaceCases
    <3> HIDE DEF o, d
    <3>7. /\ Found(A)[o] # {}
          /\ AtMostOne(Found(A)[o]) => Found(A)'[o] = {}
          /\ Found(A)[d] = {} => AtMostOne(Found(A)'[d])
      BY <3>1, <3>2, <3>4, <3>5
    <3> QED
      BY <3>3, <3>6, <3>7, OneMoved
  <2> QED
    BY <2>2, <2>3
<1> QED
  BY <1>8, <1>9 DEF Carried

(* And leaves them for the way back.                                        *)
LEMMA WorkerRepliesCarries ==
  ASSUME Typed, NEW w \in Worker, WorkerReplies(w),
         UNCHANGED <<asked, answers, cPhase, retries>>
  PROVE  Carried
<1>1. /\ wPhase[w] = "busy" /\ hand' = [hand EXCEPT ![w] = NoAddress]
      /\ AfterPoll(w, <<Work(hand[w])>>, patience[w])
      /\ UNCHANGED backDown
  BY DEF WorkerReplies
<1>2. /\ backUp \in [Worker -> Seq(UpMsg)] /\ backUp[w] \in Seq(UpMsg)
      /\ hand \in [Worker -> Address \cup {NoAddress}]
  BY DEF Typed
<1>3. PICK a \in Address : a = hand[w]
  BY <1>1 DEF Typed
<1>4. <<Work(a)>> \in Seq(UpMsg) /\ <<>> \in Seq(UpMsg) /\ <<Heartbeat>> \in Seq(UpMsg)
  BY Messages, Said, EmptySeq
<1>5. PICK more \in {<<>>, <<Heartbeat>>}, ph \in Phases \ {"busy"} :
        /\ backUp' = [backUp EXCEPT ![w] = backUp[w] \o (<<Work(a)>> \o more)]
        /\ wPhase' = [wPhase EXCEPT ![w] = ph]
        /\ <<Work(a)>> \o more \in Seq(UpMsg)
  BY <1>1, <1>3, <1>4, AfterPollSays
<1>6. PICK out : out = <<Work(a)>> \o more
  OBVIOUS
<1>7. /\ out \in Seq(UpMsg)
      /\ backUp' = [backUp EXCEPT ![w] = backUp[w] \o out]
      /\ backUp[w] \o out \in Seq(UpMsg)
  <2>1. backUp[w] \o out \in Seq(UpMsg)
    BY <1>2, <1>5, <1>6, ConcatProperties
  <2> QED
    BY <1>5, <1>6, <2>1
<1>8. /\ backUp'[w] = backUp[w] \o out /\ hand'[w] = NoAddress
      /\ \A v \in Worker : v # w => /\ hand'[v] = hand[v]
                                    /\ backUp'[v] = backUp[v]
  BY <1>1, <1>2, <1>7
<1>9. Typed'
  BY <1>1, <1>5, <1>7 DEF Typed, Phases
<1>10. ASSUME NEW A
       PROVE  OneOf(out, WorksOf(A)) /\ (a \notin A => NoneOf(out, WorksOf(A)))
  <2>1. PICK q, r : q = <<Work(a)>> /\ r = more
    OBVIOUS
  <2>2. /\ q \in Seq(UpMsg) /\ r \in Seq(UpMsg) /\ NoneOf(r, WorksOf(A))
    BY <1>4, <1>5, <2>1, NoWork
  <2>3. OneOf(q, WorksOf(A)) /\ (a \notin A => NoneOf(q, WorksOf(A)))
    BY <2>1, Messages, NoneOfOne
  <2>4. NoMore(q \o r, q, WorksOf(A))
    BY <2>2, NoMoreOfConcat
  <2> QED
    BY <1>6, <2>1, <2>3, <2>4 DEF NoMore
<1>11. ASSUME NEW A \in SUBSET Address
       PROVE  NotMore(Place, Found(A)', Found(A))
  <2>1. NoAddress \notin A
    BY WorkerAssumption
  <2>2. \A v \in Worker : {hand'[v]} \cap A \subseteq {hand[v]}
    BY <1>8, <2>1
  <2>3. \A v \in Worker : v # w => NoMore(backUp'[v], backUp[v], WorksOf(A))
    BY <1>8, NoMoreOfSame
  <2>4. CASE a \notin A
    <3>1. NoMore(backUp'[w], backUp[w], WorksOf(A))
      BY <1>2, <1>7, <1>8, <1>10, <2>4, NoMoreOfConcat
    <3>2. \A v \in Worker : NoMore(backUp'[v], backUp[v], WorksOf(A))
      BY <2>3, <3>1
    <3> QED
      BY <1>1, <2>2, <3>2, FoundFewer, NoMoreOfSame
  <2>5. CASE a \in A
    <3> DEFINE o == <<"hand", w>>
               d == <<"up", w>>
    <3>1. /\ Found(A)[o] = {hand[w]} \cap A
          /\ Found(A)[d] = Positions(backUp[w], WorksOf(A))
      BY FoundAt
    <3>2. /\ Found(A)'[o] = {hand'[w]} \cap A
          /\ Found(A)'[d] = Positions(backUp'[w], WorksOf(A))
      BY FoundAtThen
    <3>3. \A p \in Place \ {d} : Fewer(Found(A)'[p], Found(A)[p])
      <4>1. \A v \in Worker : <<"up", v>> \in {d}
                              \/ NoMore(backUp'[v], backUp[v], WorksOf(A))
        BY <2>3
      <4> HIDE DEF o, d
      <4> QED
        BY <1>1, <2>2, <4>1, FewerElsewhere, NoMoreOfSame
    <3>4. Positions(backUp[w], WorksOf(A)) = {}
            => AtMostOne(Positions(backUp'[w], WorksOf(A)))
      <4>1. NoneOf(backUp[w], WorksOf(A)) => OneOf(backUp[w] \o out, WorksOf(A))
        BY <1>2, <1>7, <1>10, NoMoreOfConcat
      <4> QED
        BY <1>8, <4>1 DEF NoneOf, OneOf, AtMostOne
    <3>5. o \in Place /\ d \in Place /\ o # d
      BY PlaceCases
    <3>6. {hand[w]} \cap A # {} /\ {hand'[w]} \cap A = {}
      BY <1>3, <1>8, <2>1, <2>5
    <3> HIDE DEF o, d
    <3>7. /\ Found(A)[o] # {}
          /\ AtMostOne(Found(A)[o]) => Found(A)'[o] = {}
          /\ Found(A)[d] = {} => AtMostOne(Found(A)'[d])
      BY <3>1, <3>2, <3>4, <3>6
    <3> QED
      BY <3>3, <3>5, <3>7, OneMoved
  <2> QED
    BY <2>4, <2>5
<1> QED
  BY <1>9, <1>11 DEF Carried

-----------------------------------------------------------------------------
(* The clients.                                                             *)

(* The attempts not yet made.                                               *)
Unborn == {a \in Address : cPhase[a[1]] = "off" \/ a[2] > retries[a[1]] + 1}

AttemptsInv ==
  /\ NoneAmong(Place, Found(Unborn))
  /\ \A a \in Address : OneAmong(Place, Found({a}))

LEMMA CarriedKeepsAttempts ==
  ASSUME AttemptsInv, Carried, UNCHANGED <<cPhase, retries>>
  PROVE  AttemptsInv'
<1>1. PICK A : A = Unborn
  OBVIOUS
<1>2. A \in SUBSET Address /\ Unborn' = A
  BY <1>1 DEF Unborn
<1>3. Found(Unborn) = Found(A) /\ Found(Unborn)' = Found(A)'
  BY <1>1, <1>2 DEF Found
<1>4. NotMore(Place, Found(A)', Found(A))
  BY <1>2 DEF Carried
<1>5. NoneAmong(Place, Found(Unborn))'
  BY <1>3, <1>4 DEF AttemptsInv, NotMore, NoneAmong
<1>6. ASSUME NEW a \in Address
      PROVE  OneAmong(Place, Found({a}))'
  <2>1. NotMore(Place, Found({a})', Found({a}))
    BY DEF Carried
  <2> QED
    BY <2>1 DEF AttemptsInv, NotMore, OneAmong
<1> QED
  BY <1>5, <1>6 DEF AttemptsInv
(* A client asks with an attempt it has not made: it is found nowhere, and  *)
(* all that is found afterwards is at the front socket.                     *)
LEMMA AskingKeepsAttempts ==
  ASSUME AttemptsInv, NEW n \in Unborn,
         asked' \subseteq asked \cup {n}, answers' \subseteq answers,
         UNCHANGED <<hand, backDown, backUp>>,
         Unborn' \subseteq Unborn \ {n}
  PROVE  AttemptsInv'
<1>1. PICK A : A = Unborn'
  OBVIOUS
<1>2. A \subseteq Unborn \ {n} /\ n \in Address /\ A \subseteq Address
  BY <1>1 DEF Unborn
<1>3. ASSUME NEW B \in SUBSET Unborn
      PROVE  NoneAmong(Place, Found(B))
  <2>1. PICK U : U = Unborn
    OBVIOUS
  <2>2. NoneAmong(Place, Found(U))
    BY <2>1 DEF AttemptsInv
  <2> SUFFICES ASSUME NEW p \in Place
               PROVE  Found(B)[p] = {}
    BY DEF NoneAmong
  <2>3. Found(U)[p] = {}
    BY <2>2 DEF NoneAmong
  <2>4. CASE p = <<"asked", "front">> \/ p = <<"answers", "front">>
    <3>1. Found(B)[p] \subseteq Found(U)[p]
      BY <2>1, <2>4, FoundAt
    <3> QED
      BY <2>3, <3>1
  <2>5. ASSUME NEW w \in Worker, p = <<"hand", w>> \/ p = <<"down", w>> \/ p = <<"up", w>>
        PROVE  Found(B)[p] = {}
    <3>1. WorksOf(B) \subseteq WorksOf(U)
      BY <2>1 DEF WorksOf
    <3>2. CASE p = <<"hand", w>>
      <4>1. Found(B)[p] = {hand[w]} \cap B /\ Found(U)[p] = {hand[w]} \cap U
        BY <3>2, FoundAt
      <4> QED
        BY <2>1, <2>3, <4>1
    <3>3. CASE p = <<"down", w>>
      <4>1. /\ Found(B)[p] = Positions(backDown[w], WorksOf(B))
            /\ Found(U)[p] = Positions(backDown[w], WorksOf(U))
        BY <3>3, FoundAt
      <4> QED
        BY <2>3, <3>1, <4>1 DEF Positions
    <3>4. CASE p = <<"up", w>>
      <4>1. /\ Found(B)[p] = Positions(backUp[w], WorksOf(B))
            /\ Found(U)[p] = Positions(backUp[w], WorksOf(U))
        BY <3>4, FoundAt
      <4> QED
        BY <2>3, <3>1, <4>1 DEF Positions
    <3> QED
      BY <2>5, <3>2, <3>3, <3>4
  <2> QED
    BY <2>4, <2>5, PlaceCases
<1>4. NoneAmong(Place, Found(Unborn))'
  <2>1. NoneAmong(Place, Found(A))
    BY <1>2, <1>3
  <2>2. asked' \cap A \subseteq asked
    BY <1>2
  <2>3. NotMore(Place, Found(A)', Found(A))
    BY <2>2, FoundFewer, NoMoreOfSame
  <2>4. Found(Unborn)' = Found(A)'
    BY <1>1 DEF Found
  <2> QED
    BY <2>1, <2>3, <2>4 DEF NotMore, NoneAmong
<1>5. OneAmong(Place, Found({n})')
  <2>1. NoneAmong(Place, Found({n}))
    BY <1>3
  <2>2. \A p \in Place \ {<<"asked", "front">>} : Fewer(Found({n})'[p], Found({n})[p])
    BY FewerElsewhere, NoMoreOfSame
  <2>3. AtMostOne(Found({n})'[<<"asked", "front">>])
    BY FoundAtThen DEF AtMostOne
  <2> QED
    BY <2>1, <2>2, <2>3, PlaceCases, OneAppears
<1>6. ASSUME NEW a \in Address
      PROVE  OneAmong(Place, Found({a})')
  <2>1. CASE a = n
    BY <1>5, <2>1
  <2>2. CASE a # n
    <3>1. asked' \cap {a} \subseteq asked
      BY <2>2
    <3>2. NotMore(Place, Found({a})', Found({a}))
      BY <3>1, FoundFewer, NoMoreOfSame
    <3> QED
      BY <3>2 DEF AttemptsInv, NotMore
  <2> QED
    BY <2>1, <2>2
<1> QED
  BY <1>4, <1>6 DEF AttemptsInv, NoneAmong, OneAmong

LEMMA AddressParts ==
  /\ \A a \in Address : a[1] \in Client /\ a[2] \in Nat /\ a = <<a[1], a[2]>>
  /\ \A c \in Client, k \in 1 .. Retries + 1 :
       LET a == <<c, k>> IN a \in Address /\ a[1] = c /\ a[2] = k
BY QueueAssumption DEF Address

LEMMA ClientStartKeeps ==
  ASSUME Typed, AttemptsInv, NEW c \in Client, ClientStart(c),
         UNCHANGED <<backUp, backDown, wPhase, hand>>
  PROVE  Typed' /\ AttemptsInv'
<1>1. PICK n : n = <<c, retries[c] + 1>>
  OBVIOUS
<1>2. /\ cPhase[c] = "off" /\ cPhase' = [cPhase EXCEPT ![c] = "waiting"]
      /\ asked' = asked \cup {n} /\ UNCHANGED <<retries, answers>>
  BY <1>1 DEF ClientStart, At
<1>3. /\ retries[c] \in 0 .. Retries /\ Retries \in Nat
      /\ cPhase \in [Client -> {"off", "waiting", "done", "abandoned"}]
  BY QueueAssumption DEF Typed
<1>4. retries[c] + 1 \in 1 .. Retries + 1
  BY <1>3
<1>5. n \in Address /\ n[1] = c /\ n[2] = retries[c] + 1
  BY <1>1, <1>4, AddressParts
<1>6. n \in Unborn
  BY <1>2, <1>5 DEF Unborn
<1>7. Unborn' \subseteq Unborn \ {n}
  <2> SUFFICES ASSUME NEW a \in Address, a \in Unborn'
               PROVE  a \in Unborn \ {n}
    BY DEF Unborn
  <2>1. /\ a[1] \in Client /\ a[2] \in Nat
        /\ cPhase'[a[1]] = "off" \/ a[2] > retries[a[1]] + 1
    BY <1>2, AddressParts DEF Unborn
  <2>2. CASE a[1] = c
    <3>1. a[2] > retries[c] + 1
      BY <1>2, <1>3, <2>1, <2>2
    <3>2. a # n
      BY <1>3, <1>5, <2>1, <3>1
    <3> QED
      BY <1>2, <2>2, <3>2 DEF Unborn
  <2>3. CASE a[1] # c
    BY <1>2, <1>3, <1>5, <2>1, <2>3 DEF Unborn
  <2> QED
    BY <2>2, <2>3
<1>8. Typed'
  BY <1>2, <1>5 DEF Typed
<1>9. AttemptsInv'
  BY <1>2, <1>6, <1>7, AskingKeepsAttempts
<1> QED
  BY <1>8, <1>9

LEMMA RetryKeeps ==
  ASSUME Typed, AttemptsInv, NEW c \in Client, Retry(c),
         UNCHANGED <<backUp, backDown, wPhase, hand>>
  PROVE  Typed' /\ AttemptsInv'
<1>1. PICK n : n = <<c, retries[c] + 2>>
  OBVIOUS
<1>2. /\ retries[c] \in 0 .. Retries /\ Retries \in Nat
      /\ retries \in [Client -> 0 .. Retries]
      /\ retries[c] < Retries /\ retries' = [retries EXCEPT ![c] = @ + 1]
      /\ UNCHANGED <<answers, cPhase>>
  BY QueueAssumption DEF Typed, Retry
<1>3. retries'[c] = retries[c] + 1 /\ retries'[c] + 1 = retries[c] + 2
  BY <1>2
<1>4. asked' \subseteq asked \cup {n}
  <2>1. PICK kept \in RequestsLeft(c) : asked' = kept \cup {<<c, retries'[c] + 1>>}
    BY DEF Retry
  <2>2. kept \subseteq asked
    BY DEF RequestsLeft
  <2> QED
    BY <1>1, <1>3, <2>1, <2>2
<1>5. n \in Address /\ n[1] = c /\ n[2] = retries[c] + 2
  <2>1. retries[c] + 2 \in 1 .. Retries + 1
    BY <1>2
  <2> QED
    BY <1>1, <2>1, AddressParts
<1>6. n \in Unborn
  <2>1. retries[c] + 2 > retries[c] + 1
    BY <1>2
  <2> QED
    BY <1>5, <2>1 DEF Unborn
<1>7. Unborn' \subseteq Unborn \ {n}
  <2> SUFFICES ASSUME NEW a \in Address, a \in Unborn'
               PROVE  a \in Unborn \ {n}
    BY DEF Unborn
  <2>1. /\ a[1] \in Client /\ a[2] \in Nat
        /\ cPhase[a[1]] = "off" \/ a[2] > retries'[a[1]] + 1
    BY <1>2, AddressParts DEF Unborn
  <2>2. CASE a[1] = c /\ cPhase[c] # "off"
    <3>1. a[2] > retries[c] + 2
      BY <1>3, <2>1, <2>2
    <3>2. a # n /\ a[2] > retries[c] + 1
      BY <1>2, <1>5, <2>1, <3>1
    <3> QED
      BY <2>2, <3>2 DEF Unborn
  <2>3. CASE a[1] # c
    BY <1>2, <1>5, <2>1, <2>3 DEF Unborn
  <2>4. cPhase[c] # "off"
    BY DEF Retry, TimedOut
  <2> QED
    BY <2>2, <2>3, <2>4
<1>8. Typed'
  <2>1. retries' \in [Client -> 0 .. Retries]
    <3>1. retries[c] + 1 \in 0 .. Retries
      BY <1>2
    <3> QED
      BY <1>2, <3>1
  <2> QED
    BY <1>2, <1>4, <1>5, <2>1 DEF Typed
<1>9. AttemptsInv'
  BY <1>2, <1>4, <1>6, <1>7, AskingKeepsAttempts
<1> QED
  BY <1>8, <1>9

(* The reply comes, or the client gives up: no attempt is made.             *)
LEMMA LeavingKeeps ==
  ASSUME Typed, AttemptsInv, NEW c \in Client, HandleResponse(c) \/ Abandon(c),
         UNCHANGED <<backUp, backDown, wPhase, hand>>
  PROVE  Typed' /\ AttemptsInv'
<1>1. /\ asked' \subseteq asked /\ answers' \subseteq answers
      /\ UNCHANGED retries
      /\ cPhase[c] = "waiting"
      /\ \E ph \in {"done", "abandoned"} : cPhase' = [cPhase EXCEPT ![c] = ph]
  BY DEF HandleResponse, Abandon, RequestsLeft, TimedOut
<1>2. cPhase \in [Client -> {"off", "waiting", "done", "abandoned"}]
  BY DEF Typed
<1>3. Typed'
  BY <1>1, <1>2 DEF Typed
<1>4. Unborn' = Unborn
  <2>1. \A d \in Client : cPhase'[d] = "off" <=> cPhase[d] = "off"
    BY <1>1, <1>2
  <2>2. \A a \in Address : a[1] \in Client
    BY AddressParts
  <2> QED
    BY <1>1, <2>1, <2>2 DEF Unborn
<1>5. PICK A : A = Unborn
  OBVIOUS
<1>6. \A B : NotMore(Place, Found(B)', Found(B))
  <2>1. ASSUME NEW B
        PROVE  NotMore(Place, Found(B)', Found(B))
    <3>1. asked' \cap B \subseteq asked /\ answers' \cap B \subseteq answers
      BY <1>1
    <3> QED
      BY <3>1, FoundFewer, NoMoreOfSame
  <2> QED
    BY <2>1
<1>7. Found(Unborn) = Found(A) /\ Found(Unborn)' = Found(A)'
  BY <1>4, <1>5 DEF Found
<1>8. NoneAmong(Place, Found(Unborn)')
  BY <1>6, <1>7 DEF AttemptsInv, NotMore
<1>9. \A a \in Address : OneAmong(Place, Found({a})')
  BY <1>6 DEF AttemptsInv, NotMore
<1> QED
  BY <1>3, <1>8, <1>9 DEF AttemptsInv, NoneAmong, OneAmong
-----------------------------------------------------------------------------
LEMMA ListStep ==
  ASSUME Typed, ListInv, [Next]_vars
  PROVE  ListInv'
<1>1. /\ mWorkers \in Seq(Entry) /\ Distinct(mWorkers)
      /\ DOMAIN mWorkers = 1 .. Len(mWorkers)
  BY LenProperties DEF ListInv, ListedOnce, Distinct
<1>2. ASSUME mWorkers' \in Seq(Entry), Distinct(mWorkers')
      PROVE  ListInv'
  BY <1>2 DEF ListInv, ListedOnce, Distinct
<1>3. CASE UNCHANGED mWorkers
  BY <1>1, <1>2, <1>3
<1>4. CASE HandleFront
  BY <1>1, <1>2, <1>3, <1>4, TailDistinct DEF HandleFront
<1>5. ASSUME NEW w \in Worker, HandleBack(w)
      PROVE  ListInv'
  <2> DEFINE others == {i \in DOMAIN mWorkers : mWorkers[i].identity # w}
  <2>1. \/ mWorkers' = Add(Removed(mWorkers, w), w)
        \/ mWorkers' = Refresh(mWorkers, w)
        \/ mWorkers' = Add(mWorkers, w)
    <3>1. PICK m : m = Head(backUp[w])
      OBVIOUS
    <3>2. backUp[w] \in Seq(UpMsg) /\ backUp[w] # <<>>
      BY <1>5, Parts DEF HandleBack
    <3>3. m.type \in {"ready", "heartbeat", "work"}
      BY <3>1, <3>2, HeadTailProperties, Messages
    <3> QED
      BY <1>5, <3>1, <3>3 DEF HandleBack
  <2>2. Removed(mWorkers, w) = Pick(mWorkers, others)
    BY DEF Removed
  <2>3. others \in SUBSET (1 .. Len(mWorkers))
    BY <1>1
  <2> HIDE DEF others
  <2>4. Removed(mWorkers, w) \in Seq(Entry) /\ Distinct(Removed(mWorkers, w))
    BY <1>1, <2>2, <2>3, PickDistinct
  <2> QED
    BY <1>1, <1>2, <2>1, <2>4, AddDistinct, RefreshDistinct
<1>6. CASE Housekeeping
  <2> DEFINE alive == {i \in DOMAIN mWorkers : mWorkers[i].ttl > 0}
  <2>1. mWorkers' = Pick(mWorkers, alive)
    BY <1>6 DEF Housekeeping, Alive
  <2>2. alive \in SUBSET (1 .. Len(mWorkers))
    BY <1>1
  <2> HIDE DEF alive
  <2> QED
    BY <1>1, <1>2, <2>1, <2>2, PickDistinct
<1>7. CASE QueueFails
  <2>1. mWorkers' = <<>>
    BY <1>7 DEF QueueFails, QueueCrash
  <2>2. <<>> \in Seq(Entry) /\ Distinct(<<>>)
    BY EmptySeq DEF Distinct
  <2> QED
    BY <1>2, <2>1, <2>2
<1>8. CASE Tick
  BY <1>8, TickDistinct DEF Tick
<1>9. CASE QueueActs
  BY <1>3, <1>4, <1>5, <1>6, <1>9 DEF QueueActs, QueueStep, QueueWait
<1> QED
  BY <1>3, <1>7, <1>8, <1>9
     DEF Next, QueueStarts, QueueStart, WorkerStarts, WorkerActs, ClientStarts,
         ClientActs, queueVars, vars

LEMMA AttemptsStep ==
  ASSUME Typed, ListInv, AttemptsInv, [Next]_vars
  PROVE  Typed' /\ AttemptsInv'
<1>1. ASSUME Carried, UNCHANGED <<cPhase, retries>>
      PROVE  Typed' /\ AttemptsInv'
  BY <1>1, CarriedKeepsAttempts DEF Carried
<1>2. ASSUME UNCHANGED <<asked, answers, backUp, backDown, hand, wPhase, cPhase, retries>>
      PROVE  Typed' /\ AttemptsInv'
  <2>1. Unborn' = Unborn
    BY <1>2 DEF Unborn
  <2>2. Found(Unborn)' = Found(Unborn)
    BY <1>2, <2>1 DEF Found
  <2>3. \A a : Found({a})' = Found({a})
    BY <1>2 DEF Found
  <2>4. AttemptsInv'
    BY <2>2, <2>3 DEF AttemptsInv, NoneAmong, OneAmong
  <2> QED
    BY <1>2, <2>4 DEF Typed
<1>3. CASE QueueActs
  <2>1. UNCHANGED <<hand, wPhase, cPhase, retries>>
    BY <1>3 DEF QueueActs, workerVars, clientVars
  <2>2. CASE QueueWait
    BY <1>2, <2>1, <2>2 DEF QueueWait, frontVars, backVars
  <2>3. CASE HandleFront
    BY <1>1, <2>1, <2>3, HandleFrontCarries DEF ListInv
  <2>4. ASSUME NEW w \in Worker, HandleBack(w)
        PROVE  Typed' /\ AttemptsInv'
    BY <1>1, <2>1, <2>4, HandleBackCarries
  <2>5. CASE Housekeeping
    BY <1>1, <2>1, <2>5, HousekeepingCarries
  <2> QED
    BY <1>3, <2>2, <2>3, <2>4, <2>5 DEF QueueActs, QueueStep
<1>4. CASE QueueStarts
  BY <1>2, <1>4 DEF QueueStarts, QueueStart, frontVars, backVars, workerVars, clientVars
<1>5. CASE QueueFails
  BY <1>1, <1>5, QueueCrashCarries DEF QueueFails, workerVars, clientVars
<1>6. ASSUME NEW w \in Worker, WorkerStarts(w)
      PROVE  Typed' /\ AttemptsInv'
  BY <1>1, <1>6, WorkerStartCarries DEF WorkerStarts, frontVars, clientVars
<1>7. ASSUME NEW w \in Worker, WorkerActs(w)
      PROVE  Typed' /\ AttemptsInv'
  <2>1. WorkerStep(w) /\ UNCHANGED <<asked, answers, cPhase, retries>>
    BY <1>7 DEF WorkerActs, frontVars, clientVars
  <2>2. CASE WorkerTimesOut(w) \/ WorkerHears(w)
    BY <1>1, <2>1, <2>2, NothingTakenCarries
  <2>3. CASE WorkerTakes(w)
    BY <1>1, <2>1, <2>3, WorkerTakesCarries
  <2>4. CASE WorkerReplies(w)
    BY <1>1, <2>1, <2>4, WorkerRepliesCarries
  <2>5. ASSUME NEW left \in LeftBy(w), WorkerReconnects(w, left) \/ WorkerEnds(w, left)
        PROVE  Typed' /\ AttemptsInv'
    BY <1>1, <2>1, <2>5, ClosedCarries
  <2> QED
    BY <2>1, <2>2, <2>3, <2>4, <2>5 DEF WorkerStep
<1>8. ASSUME NEW c \in Client, ClientStarts(c)
      PROVE  Typed' /\ AttemptsInv'
  BY <1>8, ClientStartKeeps DEF ClientStarts, backVars, workerVars
<1>9. ASSUME NEW c \in Client, ClientActs(c)
      PROVE  Typed' /\ AttemptsInv'
  <2>1. ClientWaits(c) /\ UNCHANGED <<backUp, backDown, wPhase, hand>>
    BY <1>9 DEF ClientActs, backVars, workerVars
  <2> QED
    BY <2>1, RetryKeeps, LeavingKeeps DEF ClientWaits
<1>10. CASE Tick
  BY <1>2, <1>10 DEF Tick, frontVars, backVars, WorkerTick, ClientTick
<1>11. CASE UNCHANGED vars
  BY <1>2, <1>11 DEF vars, frontVars, backVars, workerVars, clientVars
<1> QED
  BY <1>3, <1>4, <1>5, <1>6, <1>7, <1>8, <1>9, <1>10, <1>11 DEF Next

-----------------------------------------------------------------------------
PirateInv == Typed /\ ListInv /\ AttemptsInv

(* Whatever crashes, is closed or comes late: the idle list holds each      *)
(* worker once, and an attempt is at one place.                             *)
THEOREM PirateInvariant == Spec => []PirateInv
<1>1. Init => PirateInv
  <2> SUFFICES ASSUME Init
               PROVE  PirateInv
    OBVIOUS
  <2>1. /\ asked = {} /\ answers = {} /\ mWorkers = <<>>
        /\ \A w \in Worker : backUp[w] = <<>> /\ backDown[w] = <<>>
        /\ hand = [w \in Worker |-> NoAddress]
    BY DEF Init, QueueInit, WorkerInit
  <2>2. Typed
    <3>1. /\ [w \in Worker |-> <<>>] \in [Worker -> Seq(UpMsg)]
          /\ [w \in Worker |-> <<>>] \in [Worker -> Seq(DownMsg)]
      BY EmptySeq
    <3>2. 0 \in 0 .. Retries
      BY QueueAssumption
    <3> QED
      BY <3>1, <3>2 DEF Init, QueueInit, WorkerInit, ClientInit, Typed, Phases
  <2>3. ListInv
    <3>1. <<>> \in Seq(Entry) /\ Len(<<>>) = 0
      BY EmptySeq
    <3> QED
      BY <2>1, <3>1 DEF ListInv, ListedOnce
  <2>4. ASSUME NEW A \in SUBSET Address
        PROVE  NoneAmong(Place, Found(A))
    <3> SUFFICES ASSUME NEW p \in Place
                 PROVE  Found(A)[p] = {}
      BY DEF NoneAmong
    <3>1. NoAddress \notin A
      BY WorkerAssumption
    <3>2. Positions(<<>>, WorksOf(A)) = {}
      BY NoMoreOfEmpty DEF NoneOf
    <3>3. /\ Found(A)[<<"asked", "front">>] = {} /\ Found(A)[<<"answers", "front">>] = {}
          /\ \A w \in Worker : /\ Found(A)[<<"hand", w>>] = {}
                               /\ Found(A)[<<"down", w>>] = {}
                               /\ Found(A)[<<"up", w>>] = {}
      BY <2>1, <3>1, <3>2, FoundAt
    <3> QED
      BY <3>3, PlaceCases
  <2>5. AttemptsInv
    <3>1. Unborn \in SUBSET Address /\ \A a \in Address : {a} \in SUBSET Address
      BY DEF Unborn
    <3>2. \A a \in Address : NoneAmong(Place, Found({a}))
      BY <2>4, <3>1
    <3>3. \A a \in Address : OneAmong(Place, Found({a}))
      BY <3>2 DEF NoneAmong, OneAmong
    <3> QED
      BY <2>4, <3>1, <3>3 DEF AttemptsInv
  <2> QED
    BY <2>2, <2>3, <2>5 DEF PirateInv
<1>2. PirateInv /\ [Next]_vars => PirateInv'
  BY ListStep, AttemptsStep DEF PirateInv
<1> QED
  BY <1>1, <1>2, PTL DEF Spec

(* The list of idle workers never holds a worker twice, whatever a worker   *)
(* that was taken for dead, or reconnected, says later.                     *)
THEOREM NobodyTwice == Spec => []ListedOnce
<1>1. PirateInv => ListedOnce
  BY DEF PirateInv, ListInv
<1> QED
  BY <1>1, PirateInvariant, PTL

LEMMA AtMostOneCopy ==
  ASSUME AttemptsInv
  PROVE  OneCopy
<1> SUFFICES ASSUME NEW a \in Address
             PROVE  /\ Cardinality(Places(a)) <= 1
                    /\ \A w \in Worker :
                         Copies(backDown[w], a) <= 1 /\ Copies(backUp[w], a) <= 1
  BY DEF OneCopy
<1>1. PICK F : F = Found({a})
  OBVIOUS
<1>2. OneAmong(Place, F)
  BY <1>1 DEF AttemptsInv
<1>3. WorksOf({a}) = {Work(a)}
  BY DEF WorksOf
<1>4. /\ F[<<"asked", "front">>] = asked \cap {a}
      /\ F[<<"answers", "front">>] = answers \cap {a}
      /\ \A w \in Worker :
           /\ F[<<"hand", w>>] = {hand[w]} \cap {a}
           /\ F[<<"down", w>>] = {i \in 1 .. Len(backDown[w]) : backDown[w][i] = Work(a)}
           /\ F[<<"up", w>>] = {i \in 1 .. Len(backUp[w]) : backUp[w][i] = Work(a)}
  <2>1. \A q : Positions(q, WorksOf({a})) = {i \in 1 .. Len(q) : q[i] = Work(a)}
    BY <1>3 DEF Positions
  <2>2. PICK A : A = {a}
    OBVIOUS
  <2>3. /\ F[<<"asked", "front">>] = asked \cap A
        /\ F[<<"answers", "front">>] = answers \cap A
        /\ \A w \in Worker :
             /\ F[<<"hand", w>>] = {hand[w]} \cap A
             /\ F[<<"down", w>>] = Positions(backDown[w], WorksOf(A))
             /\ F[<<"up", w>>] = Positions(backUp[w], WorksOf(A))
    BY <1>1, <2>2, FoundAt
  <2> QED
    BY <2>1, <2>2, <2>3
<1>5. ASSUME NEW p \in Place
      PROVE  AtMostOne(F[p])
  BY <1>2 DEF OneAmong, AtMostOne
<1>6. \A w \in Worker : /\ Copies(backDown[w], a) = Cardinality(F[<<"down", w>>])
                        /\ Copies(backUp[w], a) = Cardinality(F[<<"up", w>>])
  BY <1>4 DEF Copies
<1>7. \A w \in Worker : Copies(backDown[w], a) <= 1 /\ Copies(backUp[w], a) <= 1
  BY <1>5, <1>6, PlaceCases, OneAmongSize
<1>8. ASSUME NEW w \in Worker
      PROVE  /\ Copies(backDown[w], a) > 0 => F[<<"down", w>>] # {}
             /\ Copies(backUp[w], a) > 0 => F[<<"up", w>>] # {}
  <2>1. Cardinality({}) = 0
    BY FS_EmptySet
  <2> QED
    BY <1>6, <2>1
<1>9. ASSUME NEW x \in Places(a)
      PROVE  \E p \in Place :
               /\ F[p] # {}
               /\ \/ p = <<"asked", "front">> /\ x = <<"front", a>>
                  \/ p = <<"answers", "front">> /\ x = <<"client", a>>
                  \/ \E w \in Worker : \/ p = <<"hand", w>> /\ x = <<w, "hand">>
                                       \/ p = <<"down", w>> /\ x = <<w, "down">>
                                       \/ p = <<"up", w>> /\ x = <<w, "up">>
  <2>1. CASE x \in {<<"front", y>> : y \in asked \cap {a}}
    BY <1>4, <2>1, PlaceCases
  <2>2. CASE x \in {<<"client", y>> : y \in answers \cap {a}}
    BY <1>4, <2>2, PlaceCases
  <2>3. CASE x \in {<<w, "hand">> : w \in {v \in Worker : hand[v] = a}}
    <3>1. PICK w \in Worker : hand[w] = a /\ x = <<w, "hand">>
      BY <2>3
    <3>2. F[<<"hand", w>>] # {}
      BY <1>4, <3>1, ZenonT(40)
    <3> QED
      BY <3>1, <3>2, PlaceCases
  <2>4. CASE x \in {<<w, "down">> : w \in {v \in Worker : Copies(backDown[v], a) > 0}}
    <3>1. PICK w \in Worker : Copies(backDown[w], a) > 0 /\ x = <<w, "down">>
      BY <2>4
    <3> QED
      BY <1>8, <3>1, PlaceCases
  <2>5. CASE x \in {<<w, "up">> : w \in {v \in Worker : Copies(backUp[v], a) > 0}}
    <3>1. PICK w \in Worker : Copies(backUp[w], a) > 0 /\ x = <<w, "up">>
      BY <2>5
    <3> QED
      BY <1>8, <3>1, PlaceCases
  <2> QED
    BY <2>1, <2>2, <2>3, <2>4, <2>5 DEF Places
<1>10. AtMostOne(Places(a))
  <2> SUFFICES ASSUME NEW x \in Places(a), NEW y \in Places(a)
               PROVE  x = y
    BY DEF AtMostOne
  <2>1. PICK p \in Place :
          /\ F[p] # {}
          /\ \/ p = <<"asked", "front">> /\ x = <<"front", a>>
             \/ p = <<"answers", "front">> /\ x = <<"client", a>>
             \/ \E w \in Worker : \/ p = <<"hand", w>> /\ x = <<w, "hand">>
                                  \/ p = <<"down", w>> /\ x = <<w, "down">>
                                  \/ p = <<"up", w>> /\ x = <<w, "up">>
    BY <1>9
  <2>2. PICK q \in Place :
          /\ F[q] # {}
          /\ \/ q = <<"asked", "front">> /\ y = <<"front", a>>
             \/ q = <<"answers", "front">> /\ y = <<"client", a>>
             \/ \E w \in Worker : \/ q = <<"hand", w>> /\ y = <<w, "hand">>
                                  \/ q = <<"down", w>> /\ y = <<w, "down">>
                                  \/ q = <<"up", w>> /\ y = <<w, "up">>
    BY <1>9
  <2>3. p = q
    BY <1>2, <2>1, <2>2 DEF OneAmong
  <2> QED
    BY <2>1, <2>2, <2>3
<1> QED
  BY <1>7, <1>10, OneAmongSize

(* An attempt of a client is in one place: at the front socket, on its way  *)
(* to one worker, in its hands, on its way back or answered.  No crash of   *)
(* the queue, no late worker and no further attempt multiplies it.          *)
THEOREM NothingMultiplied == Spec => []OneCopy
<1>1. PirateInv => OneCopy
  BY AtMostOneCopy DEF PirateInv
<1> QED
  BY <1>1, PirateInvariant, PTL
=============================================================================
