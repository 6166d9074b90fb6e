--------------------------- MODULE BinaryStarProofs ---------------------------
(***************************************************************************)
(* What holds of the two servers of a Binary Star for any number of        *)
(* clients, of crashes and of states that wait in a queue.                 *)
(*                                                                         *)
(* NeverBothPassive and BackupFollowsPrimary are not inductive: a state    *)
(* that was published long ago may still wait to be read, and its          *)
(* publisher may have crashed since.  Two facts about the queues make them *)
(* so.  A server turns passive only from its initial state, thus before    *)
(* its process was ever active, and so the Active that its peer may see is *)
(* one of an earlier process, which ended in a crash.  That crash emptied  *)
(* the queue of the one who crashed, and so both cannot see such an Active *)
(* of each other.  A backup leaves its first state only when it has seen   *)
(* the primary active, which takes a primary that has been asked.          *)
(*                                                                         *)
(* RepliesAreExpected follows the requests that come from an open socket:  *)
(* Expected says that a client has one of them at most, at the server its  *)
(* socket leads to and for the number it waits for, and none if it waits   *)
(* for nothing or its reply is there already.                              *)
(***************************************************************************)
EXTENDS BinaryStar, QueueProofs

(* The state of a process of s that has not been active.                    *)
NeverActive(s) == st[s] \in {InitialState(s), "Passive"}

(* s has taken its peer for active, or is about to.                         *)
SeesActive(s) ==
  st[s] = "Passive" \/ \E i \in 1 .. Len(inbox[s]) : inbox[s][i] = "Active"

StatesTyped ==
  /\ up \in [Server -> BOOLEAN]
  /\ st \in [Server -> StateName]
  /\ inbox \in [Server -> Seq(StateName)]
  /\ faults \in [Server -> Nat]

(* A server that is down is as at first, and it is never in the initial     *)
(* state of the other.                                                      *)
OwnState(s) ==
  /\ st[s] # InitialState(Peer(s))
  /\ ~up[s] => st[s] = InitialState(s)

OneSideSees ==
  ~ \A s \in Server : NeverActive(s) /\ SeesActive(s)

PrimaryFirst ==
  faults["primary"] = 0
    => \/ st["backup"] = "Backup" /\ ~SeesActive("backup")
       \/ st["primary"] # "Primary"

StarInv ==
  /\ StatesTyped
  /\ \A s \in Server : OwnState(s)
  /\ OneSideSees
  /\ PrimaryFirst

-----------------------------------------------------------------------------
(* Where an event leads to: to Passive only on an active peer, from Active  *)
(* and Unknown to nothing but these, never back to Primary, and from Backup *)
(* only on an active peer.                                                  *)
LEMMA NextState ==
  ASSUME NEW src \in StateName, NEW evt
  PROVE  /\ After(src, evt) \in StateName
         /\ After(src, evt) = "Passive" => src = "Passive" \/ evt = "PeerActive"
         /\ src \in {"Active", "Unknown"}
              => After(src, evt) \in {"Active", "Unknown"}
         /\ src # "Primary" => After(src, evt) # "Primary"
         /\ src # "Backup" => After(src, evt) # "Backup"
         /\ src = "Backup" /\ evt # "PeerActive" => After(src, evt) = "Backup"
<1>1. CASE \E d \in StateName : <<src, evt, d>> \in Transitions
  <2>1. /\ After(src, evt) \in StateName
        /\ <<src, evt, After(src, evt)>> \in Transitions
    BY <1>1 DEF After
  <2> QED
    BY <2>1 DEF Transitions
<1>2. CASE ~ \E d \in StateName : <<src, evt, d>> \in Transitions
  <2>1. After(src, evt) = src
    BY <1>2 DEF After
  <2>2. src = "Passive" \/ src # "Passive"
    OBVIOUS
  <2> QED
    BY <2>1
<1> QED
  BY <1>1, <1>2

(* The event of an active peer is that of the state Active alone.           *)
LEMMA PeerEvent ==
  ASSUME NEW state \in StateName
  PROVE  ToPeerEvt(state) = "PeerActive" <=> state = "Active"
BY DEF ToPeerEvt, StateName

(* A process that reacts to an event without having seen an active peer     *)
(* sees none afterwards, and one that was active is so still.               *)
LEMMA Reaction ==
  ASSUME StarInv, NEW s \in Server, NEW evt, up[s],
         evt = "PeerActive" => SeesActive(s),
         st' = [st EXCEPT ![s] = After(@, evt)],
         \A t \in Server :
           (\E i \in 1 .. Len(inbox'[t]) : inbox'[t][i] = "Active")
             => \E i \in 1 .. Len(inbox[t]) : inbox[t][i] = "Active",
         inbox' \in [Server -> Seq(StateName)], UNCHANGED <<up, faults>>
  PROVE  StarInv'
<1>1. st \in [Server -> StateName] /\ st[s] \in StateName
  BY DEF StarInv, StatesTyped
<1>2. st' \in [Server -> StateName] /\ st'[s] = After(st[s], evt)
  BY <1>1, NextState
<1>3. \A t \in Server : t # s => st'[t] = st[t]
  BY <1>1
<1>4. \A t \in Server : SeesActive(t)' => SeesActive(t)
  BY <1>1, <1>2, <1>3, NextState, SMTT(30) DEF SeesActive
<1>5. \A t \in Server : NeverActive(t)' => NeverActive(t)
  <2>1. ASSUME st'[s] \in {InitialState(s), "Passive"}
        PROVE  st[s] \in {InitialState(s), "Passive"}
    <3>1. st[s] \notin {"Active", "Unknown"}
      BY <1>1, <1>2, <2>1, NextState DEF InitialState
    <3>2. st[s] # InitialState(Peer(s))
      BY DEF StarInv, OwnState
    <3>3. {InitialState(s), InitialState(Peer(s))} = {"Primary", "Backup"}
      BY DEF InitialState, Peer, Server
    <3> QED
      BY <1>1, <3>1, <3>2, <3>3 DEF StateName
  <2> QED
    BY <1>3, <2>1 DEF NeverActive
<1>6. OneSideSees'
  BY <1>4, <1>5 DEF StarInv, OneSideSees
<1>7. PrimaryFirst'
  <2>1. st["primary"] # "Primary" => st'["primary"] # "Primary"
    BY <1>1, <1>2, <1>3, NextState DEF Server
  <2>2. st["backup"] = "Backup" /\ ~SeesActive("backup")
          => st'["backup"] = "Backup" /\ ~SeesActive("backup")'
    BY <1>1, <1>2, <1>3, <1>4, NextState DEF Server
  <2> QED
    BY <2>1, <2>2 DEF StarInv, PrimaryFirst
<1>8. \A t \in Server : OwnState(t)'
  <2>1. st'[s] # InitialState(Peer(s))
    BY <1>1, <1>2, NextState
       DEF StarInv, OwnState, InitialState, Peer, Server
  <2> QED
    BY <1>3, <2>1 DEF StarInv, OwnState
<1> QED
  BY <1>2, <1>3, <1>6, <1>7, <1>8 DEF StarInv, StatesTyped

-----------------------------------------------------------------------------
(* The invariant holds at first, whoever runs then.                         *)
LEMMA InitInv ==
  ASSUME Init
  PROVE  StarInv
BY DEF Init, ServerInit, StarInv, StatesTyped, OwnState, Peer, OneSideSees,
       PrimaryFirst, NeverActive, SeesActive, InitialState, Server, StateName

(* A step of the loop of run() keeps it.                                    *)
LEMMA ServeInv ==
  ASSUME StarInv, NEW s \in Server, ServerStep(s)
  PROVE  StarInv'
<1>1. CASE HandleRequestReceived(s)
  <2>1. /\ up[s] /\ UNCHANGED <<up, inbox, faults>>
        /\ st' = [st EXCEPT ![s] = After(@, "ClientRequest")]
    BY <1>1 DEF HandleRequestReceived
  <2>2. inbox \in [Server -> Seq(StateName)]
    BY DEF StarInv, StatesTyped
  <2>3. /\ inbox' \in [Server -> Seq(StateName)]
        /\ \A t \in Server : inbox'[t] = inbox[t]
    BY <2>1, <2>2
  <2>4. "ClientRequest" = "PeerActive" => SeesActive(s)
    OBVIOUS
  <2> QED
    BY <2>1, <2>3, <2>4, Reaction
<1>2. CASE HandlePeerStateReceived(s)
  <2> DEFINE read == Head(inbox[s])
  <2>1. /\ inbox[s] \in Seq(StateName) /\ inbox[s] # <<>>
        /\ inbox \in [Server -> Seq(StateName)]
    BY <1>2 DEF HandlePeerStateReceived, StarInv, StatesTyped
  <2>2. /\ read \in StateName /\ Tail(inbox[s]) \in Seq(StateName)
        /\ Len(inbox[s]) >= 1 /\ read = inbox[s][1]
        /\ Len(Tail(inbox[s])) = Len(inbox[s]) - 1
        /\ \A i \in 1 .. Len(Tail(inbox[s])) :
             Tail(inbox[s])[i] = inbox[s][i + 1]
    BY <2>1, HeadTailProperties, LenProperties
  <2>3. ToPeerEvt(read) = "PeerActive" => SeesActive(s)
    BY <2>2, PeerEvent, 1 \in 1 .. Len(inbox[s]) DEF SeesActive
  <2>4. inbox' = [inbox EXCEPT ![s] = Tail(inbox[s])]
    BY <1>2 DEF HandlePeerStateReceived
  <2>5. ASSUME NEW t \in Server,
               NEW i \in 1 .. Len(inbox'[t]), inbox'[t][i] = "Active"
        PROVE  \E j \in 1 .. Len(inbox[t]) : inbox[t][j] = "Active"
    <3>1. CASE t = s
      <4>1. i + 1 \in 1 .. Len(inbox[s]) /\ inbox[s][i + 1] = "Active"
        BY <2>1, <2>2, <2>4, <2>5, <3>1
      <4> QED
        BY <3>1, <4>1
    <3>2. CASE t # s
      BY <2>1, <2>4, <2>5, <3>2
    <3> QED
      BY <3>1, <3>2
  <2>6. inbox' \in [Server -> Seq(StateName)]
    BY <2>1, <2>2, <2>4
  <2> QED
    BY <1>2, <2>3, <2>5, <2>6, Reaction DEF HandlePeerStateReceived
<1>3. CASE PubSelfState(s)
  <2> DEFINE p == Peer(s)
  <2>1. /\ p \in Server /\ st[s] \in StateName /\ inbox[p] \in Seq(StateName)
        /\ inbox \in [Server -> Seq(StateName)]
    BY DEF Peer, Server, StarInv, StatesTyped
  <2>2. /\ Append(inbox[p], st[s]) \in Seq(StateName)
        /\ Len(Append(inbox[p], st[s])) = Len(inbox[p]) + 1
        /\ \A i \in 1 .. Len(inbox[p]) + 1 :
             Append(inbox[p], st[s])[i]
               = IF i <= Len(inbox[p]) THEN inbox[p][i] ELSE st[s]
    BY <2>1, AppendProperties
  <2>3. inbox' = [inbox EXCEPT ![p] = Append(inbox[p], st[s])]
    BY <1>3 DEF PubSelfState
  <2>4. UNCHANGED <<up, st, faults>>
    BY <1>3 DEF PubSelfState
  <2>5. inbox' \in [Server -> Seq(StateName)]
    BY <2>1, <2>2, <2>3
  <2>6. ASSUME NEW t \in Server, SeesActive(t)'
        PROVE  SeesActive(t) \/ (t = p /\ st[s] = "Active")
    <3>1. CASE t # p
      BY <2>1, <2>3, <2>4, <2>6, <3>1 DEF SeesActive
    <3>2. CASE t = p
      <4>1. CASE st'[t] = "Passive"
        BY <2>4, <4>1 DEF SeesActive
      <4>2. ASSUME NEW i \in 1 .. Len(inbox'[p]), inbox'[p][i] = "Active"
            PROVE  SeesActive(p) \/ st[s] = "Active"
        <5>1. inbox'[p] = Append(inbox[p], st[s]) /\ Len(inbox[p]) \in Nat
          BY <2>1, <2>3, LenProperties
        <5>2. i \in 1 .. Len(inbox[p]) + 1
          BY <2>2, <5>1
        <5>3. CASE i <= Len(inbox[p])
          BY <2>2, <4>2, <5>1, <5>2, <5>3 DEF SeesActive
        <5>4. CASE ~(i <= Len(inbox[p]))
          BY <2>2, <4>2, <5>1, <5>2, <5>4
        <5> QED
          BY <5>3, <5>4
      <4> QED
        BY <2>6, <3>2, <4>1, <4>2 DEF SeesActive
    <3> QED
      BY <3>1, <3>2
  <2>7. OneSideSees'
    <3>1. CASE st[s] = "Active"
      BY <2>4, <3>1 DEF OneSideSees, NeverActive, InitialState
    <3>2. CASE st[s] # "Active"
      BY <2>4, <2>6, <3>2 DEF StarInv, OneSideSees, NeverActive
    <3> QED
      BY <3>1, <3>2
  <2>8. PrimaryFirst'
    BY <2>4, <2>6 DEF StarInv, PrimaryFirst, Peer, Server
  <2> QED
    BY <2>4, <2>5, <2>7, <2>8 DEF StarInv, StatesTyped, OwnState
<1> QED
  BY <1>1, <1>2, <1>3 DEF ServerStep

(* A crash keeps it: the queue of the server that dies dies with it.        *)
LEMMA CrashInv ==
  ASSUME StarInv, NEW s \in Server, ServerFails(s)
  PROVE  StarInv'
<1> DEFINE p == Peer(s)
<1>1. PICK arrived \in 0 .. Len(inbox[p]), kept \in SUBSET Client,
           lost \in SUBSET Client : Crash(s, arrived, kept, lost)
  BY DEF ServerFails
<1>2. /\ p \in Server /\ p # s /\ \A t \in Server : t = s \/ t = p
      /\ inbox \in [Server -> Seq(StateName)] /\ inbox[p] \in Seq(StateName)
      /\ st \in [Server -> StateName] /\ up \in [Server -> BOOLEAN]
      /\ faults \in [Server -> Nat]
  BY DEF Peer, Server, StarInv, StatesTyped
<1>3. /\ SubSeq(inbox[p], 1, arrived) \in Seq(StateName)
      /\ Len(SubSeq(inbox[p], 1, arrived)) = arrived
      /\ \A i \in 1 .. arrived : SubSeq(inbox[p], 1, arrived)[i] = inbox[p][i]
      /\ Len(inbox[p]) \in Nat
  <2>1. Len(inbox[p]) \in Nat
    BY <1>2, LenProperties
  <2> QED
    BY <1>2, <2>1, SubSeqProperties
<1>4. /\ inbox' = [inbox EXCEPT ![s] = <<>>,
                                ![p] = SubSeq(inbox[p], 1, arrived)]
      /\ st' = [st EXCEPT ![s] = InitialState(s)]
      /\ up' = [up EXCEPT ![s] = FALSE]
      /\ faults' = [faults EXCEPT ![s] = faults[s] + 1]
  BY <1>1, <1>2 DEF Crash, ServerFails
<1>5. /\ inbox'[s] = <<>> /\ inbox'[p] = SubSeq(inbox[p], 1, arrived)
      /\ st'[s] = InitialState(s) /\ st'[p] = st[p]
      /\ up'[p] = up[p] /\ ~up'[s]
      /\ faults'[s] = faults[s] + 1 /\ faults'[p] = faults[p]
  BY <1>2, <1>4
<1>6. StatesTyped'
  <2>1. <<>> \in Seq(StateName) /\ InitialState(s) \in StateName
    BY DEF InitialState, StateName
  <2>2. inbox' \in [Server -> Seq(StateName)]
    BY <1>2, <1>3, <1>4, <2>1
  <2>3. faults' \in [Server -> Nat]
    BY <1>2, <1>4
  <2> QED
    BY <1>2, <1>4, <2>1, <2>2, <2>3 DEF StatesTyped
<1>7. ~SeesActive(s)'
  BY <1>5 DEF SeesActive, InitialState
<1>8. SeesActive(p)' => SeesActive(p)
  BY <1>3, <1>5 DEF SeesActive
<1>9. OneSideSees'
  BY <1>7 DEF OneSideSees
<1>10. PrimaryFirst'
  <2>1. CASE s = "primary"
    BY <1>2, <1>5, <2>1 DEF PrimaryFirst, Server
  <2>2. CASE s = "backup"
    BY <1>5, <1>7, <2>2 DEF PrimaryFirst, InitialState
  <2> QED
    BY <2>1, <2>2 DEF Server
<1>11. \A t \in Server : OwnState(t)'
  BY <1>2, <1>5 DEF StarInv, OwnState, InitialState, Peer, Server
<1> QED
  BY <1>6, <1>9, <1>10, <1>11 DEF StarInv

(* A step of the module, or one that changes nothing here, keeps it.        *)
LEMMA StepInv ==
  ASSUME StarInv, [Next]_vars
  PROVE  StarInv'
<1>1. ASSUME UNCHANGED <<st, inbox, faults>>,
             up' = up \/ \E s \in Server : up' = [up EXCEPT ![s] = TRUE]
      PROVE  StarInv'
  BY <1>1 DEF StarInv, StatesTyped, OwnState, OneSideSees, PrimaryFirst,
              NeverActive, SeesActive
<1>2. ASSUME NEW s \in Server,
             Serve(s) \/ Connected(s) \/ Started(s) \/ ServerFails(s)
      PROVE  StarInv'
  BY <1>1, <1>2, ServeInv, CrashInv
     DEF Serve, Connected, Link, Started, Start
<1>3. ASSUME NEW c \in Client,
             \/ SendRequest(c) \/ ReceiveReply(c) \/ Reconnects(c)
             \/ PollTimeout(c)
      PROVE  StarInv'
  BY <1>1, <1>3 DEF SendRequest, ReceiveReply, Reconnects, Reconnect,
                    PollTimeout, serverVars
<1>4. CASE UNCHANGED vars
  BY <1>1, <1>4 DEF vars, serverVars
<1> QED
  BY <1>2, <1>3, <1>4 DEF Next, Untimed

(* The strengthening of the two theorems below.                             *)
THEOREM StarInvariance == Spec => []StarInv
BY InitInv, StepInv, PTL DEF Spec

(* The servers never wait for each other as passive servers, whoever        *)
(* crashes and however late a state is read.                                *)
THEOREM OneServes == Spec => []NeverBothPassive
<1>1. StarInv => NeverBothPassive
  BY DEF StarInv, OneSideSees, NeverActive, SeesActive, NeverBothPassive
<1> QED
  BY <1>1, StarInvariance, PTL

(* A backup serves no one before the primary has been there, however often  *)
(* the backup crashes.                                                      *)
THEOREM BackupWaits == Spec => []BackupFollowsPrimary
<1>1. StarInv => BackupFollowsPrimary
  BY DEF StarInv, OwnState, PrimaryFirst, BackupFollowsPrimary, InitialState,
         Server
<1> QED
  BY <1>1, StarInvariance, PTL
-----------------------------------------------------------------------------
(* The requests of c whose socket is open, and those of them at s that c    *)
(* does not expect to be there.                                             *)
LiveOf(c) == {m \in Request : m.client = c /\ m.live}

Stray(s, c) ==
  {m \in LiveOf(c) : \/ s # At(c) \/ phase[c] = "idle"
                     \/ replies[c] # <<>> \/ m.seq # mSeq[c]}

Expected(c) ==
  /\ \A s \in Server :
       NoneOf(requests[s], Stray(s, c)) /\ OneOf(requests[s], LiveOf(c))
  /\ replies[c] # <<>> => phase[c] # "idle" /\ replies[c] = <<mSeq[c]>>

RepliesInv == TypeOK /\ \A c \in Client : Expected(c)

LEMMA NoneOfFewer ==
  ASSUME NEW q, NEW S, NEW R, R \subseteq S, NoneOf(q, S)
  PROVE  NoneOf(q, R)
BY DEF NoneOf, Positions

(* A client that expects no request to be anywhere has none.                *)
LEMMA AllStray ==
  ASSUME NEW c \in Client, Expected(c), NEW s \in Server,
         s # At(c) \/ phase[c] = "idle" \/ replies[c] # <<>>
  PROVE  NoneOf(requests[s], LiveOf(c))
<1>1. LiveOf(c) \subseteq Stray(s, c)
  BY DEF Stray
<1> QED
  BY <1>1, NoneOfFewer DEF Expected

(* Nothing new for c, and nothing said or read by it.                       *)
LEMMA NothingNew ==
  ASSUME NEW c \in Client, Expected(c),
         mSeq'[c] = mSeq[c], At(c)' = At(c),
         phase'[c] = "idle" => phase[c] = "idle",
         replies'[c] \in {replies[c], <<>>},
         \A s \in Server : \A S \in SUBSET LiveOf(c) :
           NoMore(requests'[s], requests[s], S)
  PROVE  Expected(c)'
<1>1. ASSUME NEW s \in Server
      PROVE  NoneOf(requests'[s], Stray(s, c)') /\ OneOf(requests'[s], LiveOf(c))
  <2>1. Stray(s, c)' \subseteq LiveOf(c) /\ Stray(s, c) \subseteq LiveOf(c)
    BY DEF Stray
  <2>2. CASE replies[c] # <<>>
    <3>1. NoneOf(requests[s], LiveOf(c))
      BY <2>2, AllStray
    <3>2. NoneOf(requests'[s], LiveOf(c))
      BY <3>1 DEF NoMore
    <3>3. OneOf(requests'[s], LiveOf(c))
      BY DEF NoMore, Expected
    <3> QED
      BY <2>1, <3>2, <3>3, NoneOfFewer
  <2>3. CASE replies[c] = <<>>
    <3>1. Stray(s, c)' \subseteq Stray(s, c)
      BY <2>3 DEF Stray
    <3>2. NoneOf(requests'[s], Stray(s, c)) /\ OneOf(requests'[s], LiveOf(c))
      BY <2>1 DEF NoMore, Expected
    <3> QED
      BY <3>1, <3>2, NoneOfFewer
  <2> QED
    BY <2>2, <2>3
<1>2. replies'[c] # <<>> => phase'[c] # "idle" /\ replies'[c] = <<mSeq'[c]>>
  BY DEF Expected
<1> QED
  BY <1>1, <1>2 DEF Expected

(* The one request of c is a new one, at the server its socket leads to.    *)
LEMMA OneIsNew ==
  ASSUME NEW c \in Client, NEW q,
         \A s \in Server : q[s] \in Seq(Request) /\ NoneOf(q[s], LiveOf(c)),
         \A s \in Server :
           requests'[s] = IF s = At(c)' THEN Arrive(q[s], c, mSeq'[c]) ELSE q[s],
         mSeq'[c] \in 0 .. Seqs - 1, phase'[c] # "idle", replies'[c] = <<>>
  PROVE  Expected(c)'
<1> DEFINE e == [client |-> c, seq |-> mSeq'[c], live |-> TRUE]
<1>1. e \in Request
  BY DEF Request
<1>2. ASSUME NEW s \in Server
      PROVE  NoneOf(requests'[s], Stray(s, c)') /\ OneOf(requests'[s], LiveOf(c))
  <2>0. PICK S : S = Stray(s, c)'
    OBVIOUS
  <2>1. S \subseteq LiveOf(c)
    BY <2>0 DEF Stray
  <2>2. NoneOf(q[s], S)
    BY <2>1, NoneOfFewer
  <2>3. CASE s = At(c)'
    <3>1. requests'[s] = Append(q[s], e)
      BY <2>3 DEF Arrive
    <3>2. e \notin S
      BY <2>0, <2>3 DEF Stray
    <3>3. NoneOf(Append(q[s], e), S)
      BY <1>1, <2>2, <3>2, NoMoreOfAppend
    <3>4. OneOf(Append(q[s], e), LiveOf(c))
      BY <1>1, NoMoreOfAppend
    <3> QED
      BY <2>0, <3>1, <3>3, <3>4
  <2>4. CASE s # At(c)'
    BY <2>0, <2>2, <2>4 DEF NoneOf, OneOf
  <2> QED
    BY <2>3, <2>4
<1> QED
  BY <1>2 DEF Expected

LEMMA Sides ==
  ASSUME NEW c \in Client
  PROVE  At(c) \in Server
BY DEF At, Address, Server

-----------------------------------------------------------------------------
(* The type invariant.                                                      *)
LEMMA RequestFields ==
  ASSUME NEW m \in Request
  PROVE  /\ m.client \in Client /\ m.seq \in 0 .. Seqs - 1 /\ m.live \in BOOLEAN
         /\ \A b \in BOOLEAN : [m EXCEPT !.live = b] \in Request
BY DEF Request

(* What becomes of the requests when the socket of c is closed: none of c   *)
(* is live, and there are no more of the others.                            *)
LEMMA OrphanProperties ==
  ASSUME NEW c \in Client, NEW q \in Seq(Request), NEW kept \in BOOLEAN
  PROVE  /\ Orphan(q, c, kept) \in Seq(Request)
         /\ NoneOf(Orphan(q, c, kept), LiveOf(c))
         /\ \A d \in Client : d # c =>
              \A S \in SUBSET LiveOf(d) : NoMore(Orphan(q, c, kept), q, S)
<1>1. PICK g : g = [i \in DOMAIN q |-> [q[i] EXCEPT !.live = @ /\ q[i].client # c]]
  OBVIOUS
<1>2. PICK I : I = {i \in DOMAIN q : q[i].client # c \/ kept}
  OBVIOUS
<1>3. /\ Len(q) \in Nat /\ DOMAIN q = 1 .. Len(q) /\ I \in SUBSET (1 .. Len(q))
      /\ \A i \in 1 .. Len(q) : q[i] \in Request
  BY <1>2, LenProperties, ElementOfSeq
<1>4. \A i \in 1 .. Len(q) :
        /\ g[i] \in Request /\ g[i].client = q[i].client
        /\ g[i].live <=> q[i].live /\ q[i].client # c
        /\ q[i].client # c => g[i] = q[i]
  <2> SUFFICES ASSUME NEW i \in 1 .. Len(q)
               PROVE  /\ g[i] \in Request /\ g[i].client = q[i].client
                      /\ g[i].live <=> q[i].live /\ q[i].client # c
                      /\ q[i].client # c => g[i] = q[i]
    OBVIOUS
  <2>1. g[i] = [q[i] EXCEPT !.live = @ /\ q[i].client # c] /\ q[i] \in Request
    BY <1>1, <1>3
  <2> QED
    BY <2>1 DEF Request
<1>5. g \in Seq(Request) /\ Len(g) = Len(q)
  <2>1. g \in [1 .. Len(q) -> Request]
    BY <1>1, <1>3, <1>4
  <2>2. g \in Seq(Request)
    BY <1>3, <2>1, SeqDef
  <2>3. DOMAIN g = 1 .. Len(q)
    BY <2>1
  <2> QED
    BY <1>3, <2>2, <2>3, LenProperties
<1>6. Orphan(q, c, kept) = Pick(g, I)
  BY <1>1, <1>2 DEF Orphan
<1>7. I \in SUBSET (1 .. Len(g))
  BY <1>3, <1>5
<1>8. Pick(g, I) \in Seq(Request) /\ \A S : NoMore(Pick(g, I), g, S)
  BY <1>5, <1>7, PickProperties, NoMoreOfPick
<1>9. NoneOf(g, LiveOf(c))
  BY <1>4, <1>5 DEF NoneOf, Positions, LiveOf
<1>10. ASSUME NEW d \in Client, d # c, NEW S \in SUBSET LiveOf(d)
       PROVE  Positions(g, S) = Positions(q, S)
  <2>1. \A m \in S : m.client = d
    BY DEF LiveOf
  <2> QED
    BY <1>4, <1>5, <1>10, <2>1 DEF Positions
<1>11. ASSUME NEW d \in Client, d # c, NEW S \in SUBSET LiveOf(d)
       PROVE  NoMore(Pick(g, I), q, S)
  BY <1>8, <1>10, <1>11 DEF NoMore, NoneOf, OneOf
<1> QED
  BY <1>6, <1>8, <1>9, <1>11 DEF NoMore

LEMMA ArriveProperties ==
  ASSUME NEW c \in Client, NEW q \in Seq(Request), NEW k \in 0 .. Seqs - 1
  PROVE  /\ Arrive(q, c, k) \in Seq(Request)
         /\ \A d \in Client : d # c =>
              \A S \in SUBSET LiveOf(d) : NoMore(Arrive(q, c, k), q, S)
<1> DEFINE e == [client |-> c, seq |-> k, live |-> TRUE]
<1>1. e \in Request /\ Arrive(q, c, k) = Append(q, e)
  BY DEF Request, Arrive
<1>2. \A d \in Client : d # c => e \notin LiveOf(d)
  BY DEF LiveOf
<1>3. Append(q, e) \in Seq(Request)
  BY <1>1, AppendProperties
<1>4. ASSUME NEW d \in Client, d # c, NEW S \in SUBSET LiveOf(d)
      PROVE  NoMore(Append(q, e), q, S)
  <2>1. e \notin S
    BY <1>2, <1>4
  <2> QED
    BY <1>1, <2>1, NoMoreOfAppend
<1> QED
  BY <1>1, <1>3, <1>4

LEMMA TypesAtFirst == Init => TypeOK
BY ServerAssumption
   DEF Init, ServerInit, ClientInit, TypeOK, ServerTypeOK, ClientTypeOK,
       InitialState, StateName, Server, Phase

LEMMA ServeTyped ==
  ASSUME TypeOK, NEW s \in Server, ServerStep(s), UNCHANGED clientVars
  PROVE  TypeOK'
<1>1. ClientTypeOK'
  BY DEF TypeOK, ClientTypeOK, clientVars
<1>2. /\ requests[s] \in Seq(Request) /\ inbox[s] \in Seq(StateName)
      /\ st[s] \in StateName /\ Peer(s) \in Server
      /\ \A t \in Server : Len(inbox[t]) \in Nat /\ Len(inbox[t]) <= StateHwm
  BY LenProperties DEF TypeOK, ServerTypeOK, Peer, Server
<1>3. CASE HandleRequestReceived(s)
  <2>1. requests[s] # <<>>
    BY <1>3 DEF HandleRequestReceived
  <2>2. Head(requests[s]) \in Request /\ Tail(requests[s]) \in Seq(Request)
    BY <1>2, <2>1, HeadTailProperties
  <2>3. After(st[s], "ClientRequest") \in StateName
    BY <1>2, NextState
  <2>4. replies' \in [Client -> Seq(0 .. Seqs - 1)]
    <3> DEFINE m == Head(requests[s])
    <3>1. \/ replies' = replies
          \/ replies' = [replies EXCEPT ![m.client] = Append(@, m.seq)]
      BY <1>3 DEF HandleRequestReceived
    <3>2. m.client \in Client /\ m.seq \in 0 .. Seqs - 1
      BY <2>2, RequestFields
    <3>3. replies \in [Client -> Seq(0 .. Seqs - 1)]
      BY DEF TypeOK, ServerTypeOK
    <3>4. Append(replies[m.client], m.seq) \in Seq(0 .. Seqs - 1)
      BY <3>2, <3>3, AppendProperties
    <3> QED
      BY <3>1, <3>3, <3>4
  <2>5. requests' = [requests EXCEPT ![s] = Tail(requests[s])]
        /\ st' = [st EXCEPT ![s] = After(st[s], "ClientRequest")]
        /\ UNCHANGED <<up, linked, inbox, faults>>
    BY <1>3 DEF HandleRequestReceived
  <2>6. requests' \in [Server -> Seq(Request)] /\ st' \in [Server -> StateName]
    BY <2>2, <2>3, <2>5 DEF TypeOK, ServerTypeOK
  <2> QED
    BY <1>1, <2>4, <2>5, <2>6 DEF TypeOK, ServerTypeOK
<1>4. CASE HandlePeerStateReceived(s)
  <2>1. inbox[s] # <<>>
    BY <1>4 DEF HandlePeerStateReceived
  <2>2. /\ Tail(inbox[s]) \in Seq(StateName)
        /\ Len(Tail(inbox[s])) = Len(inbox[s]) - 1
    BY <1>2, <2>1, HeadTailProperties
  <2>3. After(st[s], ToPeerEvt(Head(inbox[s]))) \in StateName
    BY <1>2, NextState
  <2>4. /\ inbox' = [inbox EXCEPT ![s] = Tail(inbox[s])]
        /\ st' = [st EXCEPT ![s] = After(st[s], ToPeerEvt(Head(inbox[s])))]
        /\ UNCHANGED <<up, linked, requests, replies, faults>>
    BY <1>4 DEF HandlePeerStateReceived
  <2>5. inbox' \in [Server -> Seq(StateName)] /\ st' \in [Server -> StateName]
    BY <2>2, <2>3, <2>4 DEF TypeOK, ServerTypeOK
  <2>6. StateHwm \in Nat
    BY ServerAssumption
  <2>7. \A t \in Server : Len(inbox'[t]) <= StateHwm
    BY <1>2, <2>2, <2>4, <2>6 DEF TypeOK, ServerTypeOK
  <2> QED
    BY <1>1, <2>4, <2>5, <2>7 DEF TypeOK, ServerTypeOK
<1>5. CASE PubSelfState(s)
  <2> DEFINE p == Peer(s)
  <2>1. /\ Append(inbox[p], st[s]) \in Seq(StateName)
        /\ Len(Append(inbox[p], st[s])) = Len(inbox[p]) + 1
    BY <1>2, AppendProperties DEF TypeOK, ServerTypeOK
  <2>2. /\ inbox' = [inbox EXCEPT ![p] = Append(inbox[p], st[s])]
        /\ Len(inbox[p]) < StateHwm
        /\ UNCHANGED <<up, st, linked, requests, replies, faults>>
    BY <1>5 DEF PubSelfState
  <2>3. inbox' \in [Server -> Seq(StateName)]
    BY <1>2, <2>1, <2>2 DEF TypeOK, ServerTypeOK
  <2>4. StateHwm \in Nat
    BY ServerAssumption
  <2>5. \A t \in Server : Len(inbox'[t]) <= StateHwm
    BY <1>2, <2>1, <2>2, <2>4 DEF TypeOK, ServerTypeOK
  <2> QED
    BY <1>1, <2>2, <2>3, <2>5 DEF TypeOK, ServerTypeOK
<1> QED
  BY <1>3, <1>4, <1>5 DEF ServerStep

(* A crash: of the requests of a server and of the states of its peer, some *)
(* are left.                                                                *)
LEMMA CrashTyped ==
  ASSUME TypeOK, NEW s \in Server, ServerFails(s)
  PROVE  /\ TypeOK'
         /\ \A t \in Server : \A S : NoMore(requests'[t], requests[t], S)
         /\ \A c \in Client : replies'[c] \in {replies[c], <<>>}
<1> DEFINE p == Peer(s)
<1>1. PICK arrived \in 0 .. Len(inbox[p]), kept \in SUBSET Client,
           lost \in SUBSET Client : Crash(s, arrived, kept, lost)
  BY DEF ServerFails
<1>2. /\ p \in Server /\ p # s
      /\ inbox \in [Server -> Seq(StateName)] /\ inbox[p] \in Seq(StateName)
      /\ requests \in [Server -> Seq(Request)] /\ requests[s] \in Seq(Request)
      /\ replies \in [Client -> Seq(0 .. Seqs - 1)]
      /\ faults \in [Server -> 0 .. MaxFaults] /\ StateHwm \in Nat
      /\ \A t \in Server : Len(inbox[t]) \in Nat /\ Len(inbox[t]) <= StateHwm
  BY ServerAssumption, LenProperties DEF TypeOK, ServerTypeOK, Peer, Server
<1>3. /\ SubSeq(inbox[p], 1, arrived) \in Seq(StateName)
      /\ Len(SubSeq(inbox[p], 1, arrived)) = arrived
      /\ arrived <= StateHwm
  BY <1>2, SubSeqProperties
<1>4. PICK I : I = {i \in DOMAIN requests[s] :
                      requests[s][i].live /\ requests[s][i].client \in kept}
  OBVIOUS
<1>5. /\ inbox' = [inbox EXCEPT ![s] = <<>>,
                                ![p] = SubSeq(inbox[p], 1, arrived)]
      /\ st' = [st EXCEPT ![s] = InitialState(s)]
      /\ up' = [up EXCEPT ![s] = FALSE]
      /\ linked' = [t \in Server |-> FALSE]
      /\ requests' = [requests EXCEPT ![s] = Pick(requests[s], I)]
      /\ replies' = [c \in Client |-> IF c \in lost THEN <<>> ELSE replies[c]]
  BY <1>1, <1>2, <1>4 DEF Crash
<1>6. I \in SUBSET (1 .. Len(requests[s]))
  BY <1>2, <1>4, LenProperties
<1>7. Pick(requests[s], I) \in Seq(Request)
  BY <1>2, <1>6, PickProperties
<1>8. requests' \in [Server -> Seq(Request)]
  BY <1>2, <1>5, <1>7
<1>9. \A t \in Server : \A S : NoMore(requests'[t], requests[t], S)
  <2> SUFFICES ASSUME NEW t \in Server, NEW S
               PROVE  NoMore(requests'[t], requests[t], S)
    OBVIOUS
  <2>1. CASE t = s
    BY <1>2, <1>5, <1>6, <2>1, NoMoreOfPick
  <2>2. CASE t # s
    BY <1>2, <1>5, <2>2, NoMoreOfSame
  <2> QED
    BY <2>1, <2>2
<1>10. \A c \in Client : replies'[c] \in {replies[c], <<>>}
  BY <1>5
<1>11. replies' \in [Client -> Seq(0 .. Seqs - 1)]
  <2>1. <<>> \in Seq(0 .. Seqs - 1)
    BY EmptySeq
  <2> QED
    BY <1>2, <1>5, <2>1
<1>12. /\ inbox' \in [Server -> Seq(StateName)]
       /\ \A t \in Server : Len(inbox'[t]) <= StateHwm
  <2>1. <<>> \in Seq(StateName) /\ Len(<<>>) = 0
    BY EmptySeq
  <2>2. /\ inbox'[s] = <<>> /\ inbox'[p] = SubSeq(inbox[p], 1, arrived)
        /\ \A t \in Server : t # s /\ t # p => inbox'[t] = inbox[t]
    BY <1>2, <1>5
  <2>3. inbox' \in [Server -> Seq(StateName)]
    BY <1>2, <1>3, <1>5, <2>1
  <2>4. 0 <= StateHwm
    BY <1>2
  <2>5. ASSUME NEW t \in Server
        PROVE  Len(inbox'[t]) <= StateHwm
    <3>1. CASE t = s
      BY <2>1, <2>2, <2>4, <3>1
    <3>2. CASE t = p
      BY <1>3, <2>2, <3>2
    <3>3. CASE t # s /\ t # p
      BY <1>2, <2>2, <3>3
    <3> QED
      BY <3>1, <3>2, <3>3
  <2> QED
    BY <2>3, <2>5
<1>13. faults' \in [Server -> 0 .. MaxFaults]
  <2>1. /\ faults' = [faults EXCEPT ![s] = faults[s] + 1]
        /\ faults["primary"] + faults["backup"] < MaxFaults
    BY DEF ServerFails
  <2>2. /\ faults["primary"] \in 0 .. MaxFaults
        /\ faults["backup"] \in 0 .. MaxFaults /\ MaxFaults \in Nat
    BY <1>2, ServerAssumption DEF Server
  <2>3. faults[s] + 1 \in 0 .. MaxFaults
    BY <2>1, <2>2 DEF Server
  <2> QED
    BY <1>2, <2>1, <2>3
<1>14. /\ up' \in [Server -> BOOLEAN] /\ linked' \in [Server -> BOOLEAN]
       /\ st' \in [Server -> StateName]
  BY <1>5 DEF TypeOK, ServerTypeOK, InitialState, StateName
<1>15. ClientTypeOK'
  BY DEF TypeOK, ClientTypeOK, ServerFails, clientVars
<1> QED
  BY <1>8, <1>9, <1>10, <1>11, <1>12, <1>13, <1>14, <1>15 DEF TypeOK, ServerTypeOK

-----------------------------------------------------------------------------
(* The requests that are expected.                                          *)
LEMMA ServeExpected ==
  ASSUME RepliesInv, NEW s \in Server, ServerStep(s), UNCHANGED clientVars,
         NEW c \in Client
  PROVE  Expected(c)'
<1>1. /\ Expected(c) /\ requests \in [Server -> Seq(Request)]
      /\ replies \in [Client -> Seq(0 .. Seqs - 1)]
  BY DEF RepliesInv, TypeOK, ServerTypeOK
<1>2. mSeq'[c] = mSeq[c] /\ At(c)' = At(c) /\ phase'[c] = phase[c]
  BY DEF clientVars, At
<1>3. CASE HandleRequestReceived(s)
  <2> DEFINE m == Head(requests[s])
  <2>1. requests[s] # <<>> /\ requests[s] \in Seq(Request)
    BY <1>1, <1>3 DEF HandleRequestReceived
  <2>2. m \in Request /\ m.client \in Client
    BY <2>1, HeadTailProperties, RequestFields
  <2>3. requests' = [requests EXCEPT ![s] = Tail(requests[s])]
    BY <1>3 DEF HandleRequestReceived
  <2>4. \A t \in Server : \A S : NoMore(requests'[t], requests[t], S)
    <3> SUFFICES ASSUME NEW t \in Server, NEW S
                 PROVE  NoMore(requests'[t], requests[t], S)
      OBVIOUS
    <3>1. CASE t = s
      BY <1>1, <2>1, <2>3, <3>1, NoMoreOfTail
    <3>2. CASE t # s
      BY <1>1, <2>3, <3>2, NoMoreOfSame
    <3> QED
      BY <3>1, <3>2
  <2>5. CASE st[s] \in Answering /\ m.live /\ m.client = c
    <3>1. m \in LiveOf(c)
      BY <2>2, <2>5 DEF LiveOf
    <3>2. m \notin Stray(s, c)
      <4>1. PICK S : S = Stray(s, c)
        OBVIOUS
      <4>2. NoneOf(requests[s], S)
        BY <1>1, <4>1 DEF Expected
      <4>3. m = requests[s][1] /\ 1 \in 1 .. Len(requests[s])
        BY <2>1, HeadTailProperties, LenProperties, EmptySeq
      <4> QED
        BY <4>1, <4>2, <4>3 DEF NoneOf, Positions
    <3>3. s = At(c) /\ phase[c] # "idle" /\ replies[c] = <<>> /\ m.seq = mSeq[c]
      BY <3>1, <3>2 DEF Stray
    <3>4. replies' = [replies EXCEPT ![c] = Append(replies[c], m.seq)]
      BY <1>3, <2>5 DEF HandleRequestReceived
    <3>5. replies'[c] = <<mSeq[c]>>
      BY <1>1, <3>3, <3>4
    <3>6. ASSUME NEW t \in Server
          PROVE  NoneOf(requests'[t], LiveOf(c))
      <4>1. CASE t = s
        <5>1. OneOf(requests[s], LiveOf(c))
          BY <1>1 DEF Expected
        <5>2. NoneOf(Tail(requests[s]), LiveOf(c))
          BY <2>1, <3>1, <5>1, NoMoreOfTail
        <5> QED
          BY <1>1, <2>3, <4>1, <5>2
      <4>2. CASE t # s
        <5>1. NoneOf(requests[t], LiveOf(c))
          BY <1>1, <3>3, <4>2, AllStray
        <5> QED
          BY <2>4, <5>1 DEF NoMore
      <4> QED
        BY <4>1, <4>2
    <3>7. \A t \in Server : Stray(t, c)' \subseteq LiveOf(c)
      BY DEF Stray
    <3>8. \A t \in Server : NoneOf(requests'[t], Stray(t, c)')
      BY <3>6, <3>7, NoneOfFewer
    <3>9. \A t \in Server : OneOf(requests'[t], LiveOf(c))
      BY <3>6 DEF NoneOf, OneOf
    <3> QED
      BY <1>2, <3>3, <3>5, <3>8, <3>9 DEF Expected
  <2>6. CASE ~(st[s] \in Answering /\ m.live /\ m.client = c)
    <3>1. replies'[c] = replies[c]
      BY <1>1, <1>3, <2>2, <2>6 DEF HandleRequestReceived
    <3> QED
      BY <1>1, <1>2, <2>4, <3>1, NothingNew
  <2> QED
    BY <2>5, <2>6
<1>4. CASE HandlePeerStateReceived(s) \/ PubSelfState(s)
  <2>1. UNCHANGED <<requests, replies>>
    BY <1>4 DEF HandlePeerStateReceived, PubSelfState
  <2>2. \A t \in Server : \A S : NoMore(requests'[t], requests[t], S)
    BY <2>1, NoMoreOfSame
  <2> QED
    BY <1>1, <1>2, <2>1, <2>2, NothingNew
<1> QED
  BY <1>3, <1>4 DEF ServerStep

LEMMA AddressAfter ==
  ASSUME TypeOK, NEW c \in Client, mAddrTurn' = [mAddrTurn EXCEPT ![c] = (@ + 1) % 2]
  PROVE  /\ At(c)' = Address(mAddrTurn[c])
         /\ mAddrTurn' \in [Client -> 0 .. 1]
         /\ \A d \in Client : d # c => At(d)' = At(d)
<1>1. mAddrTurn \in [Client -> 0 .. 1] /\ mAddrTurn[c] \in 0 .. 1
  BY DEF TypeOK, ClientTypeOK
<1>2. mAddrTurn'[c] = (mAddrTurn[c] + 1) % 2
  BY <1>1
<1>3. CASE mAddrTurn[c] = 0
  BY <1>1, <1>2, <1>3 DEF At, Address
<1>4. CASE mAddrTurn[c] = 1
  BY <1>1, <1>2, <1>4 DEF At, Address
<1> QED
  BY <1>1, <1>3, <1>4

(* The steps of a client keep the types and what the others expect.         *)
LEMMA SendKeeps ==
  ASSUME RepliesInv, NEW c \in Client, SendRequest(c)
  PROVE  RepliesInv'
<1> DEFINE k == (mSeq[c] + 1) % Seqs
<1>1. /\ requests \in [Server -> Seq(Request)] /\ mSeq \in [Client -> 0 .. Seqs - 1]
      /\ phase \in [Client -> Phase] /\ phase[c] = "idle" /\ At(c) \in Server
      /\ UNCHANGED <<up, st, linked, inbox, replies, faults, mAddrTurn>>
      /\ phase' = [phase EXCEPT ![c] = "waiting"]
  BY Sides DEF SendRequest, RepliesInv, TypeOK, ServerTypeOK, ClientTypeOK
<1>2. /\ mSeq' = [mSeq EXCEPT ![c] = k]
      /\ requests' = [requests EXCEPT ![At(c)] = Arrive(requests[At(c)], c, k)]
  BY DEF SendRequest
<1>3. k \in 0 .. Seqs - 1
  <2>1. mSeq[c] + 1 \in Nat /\ Seqs \in Nat /\ Seqs > 0
    BY <1>1, ServerAssumption
  <2> QED
    BY <2>1
<1> HIDE DEF k
<1>4. /\ Arrive(requests[At(c)], c, k) \in Seq(Request)
      /\ \A d \in Client : d # c => \A S \in SUBSET LiveOf(d) :
           NoMore(Arrive(requests[At(c)], c, k), requests[At(c)], S)
  BY <1>1, <1>3, ArriveProperties
<1>5. requests' \in [Server -> Seq(Request)] /\ mSeq' \in [Client -> 0 .. Seqs - 1]
  BY <1>1, <1>2, <1>3, <1>4
<1>6. phase' \in [Client -> Phase]
  BY <1>1 DEF Phase
<1>7. TypeOK'
  BY <1>1, <1>5, <1>6 DEF RepliesInv, TypeOK, ServerTypeOK, ClientTypeOK
<1>8. ASSUME NEW d \in Client, d # c
      PROVE  Expected(d)'
  <2>1. /\ Expected(d) /\ mSeq'[d] = mSeq[d] /\ At(d)' = At(d)
        /\ phase'[d] = phase[d] /\ replies'[d] = replies[d]
    BY <1>1, <1>2, <1>8 DEF RepliesInv, At
  <2>2. ASSUME NEW s \in Server, NEW S \in SUBSET LiveOf(d)
        PROVE  NoMore(requests'[s], requests[s], S)
    <3>1. CASE s = At(c)
      BY <1>1, <1>2, <1>4, <1>8, <3>1
    <3>2. CASE s # At(c)
      BY <1>1, <1>2, <3>2, NoMoreOfSame
    <3> QED
      BY <3>1, <3>2
  <2> QED
    BY <2>1, <2>2, NothingNew
<1>9. Expected(c)'
  <2>1. Expected(c) /\ replies[c] = <<>>
    BY <1>1 DEF RepliesInv, Expected
  <2>2. \A s \in Server : requests[s] \in Seq(Request) /\ NoneOf(requests[s], LiveOf(c))
    BY <1>1, <2>1, AllStray
  <2>3. At(c)' = At(c) /\ mSeq'[c] = k /\ phase'[c] # "idle" /\ replies'[c] = <<>>
    BY <1>1, <1>2, <2>1 DEF At
  <2>4. \A s \in Server :
          requests'[s] = IF s = At(c)' THEN Arrive(requests[s], c, mSeq'[c])
                                       ELSE requests[s]
    BY <1>1, <1>2, <2>3
  <2> QED
    BY <1>3, <2>2, <2>3, <2>4, OneIsNew
<1> QED
  BY <1>7, <1>8, <1>9 DEF RepliesInv

LEMMA ReceiveKeeps ==
  ASSUME RepliesInv, NEW c \in Client, ReceiveReply(c)
  PROVE  RepliesInv'
<1>1. /\ phase \in [Client -> Phase] /\ replies \in [Client -> Seq(0 .. Seqs - 1)]
      /\ phase[c] = "waiting" /\ replies[c] # <<>>
      /\ replies' = [replies EXCEPT ![c] = Tail(replies[c])]
      /\ UNCHANGED <<up, st, linked, inbox, requests, faults, mSeq, mAddrTurn>>
      /\ phase' = [phase EXCEPT
                     ![c] = IF Head(replies[c]) = mSeq[c] THEN "idle" ELSE @]
  BY DEF ReceiveReply, RepliesInv, TypeOK, ServerTypeOK, ClientTypeOK
<1>2. replies[c] = <<mSeq[c]>> /\ Expected(c)
  BY <1>1 DEF RepliesInv, Expected
<1>3. replies'[c] = <<>> /\ phase'[c] = "idle"
  <2>1. Head(<<mSeq[c]>>) = mSeq[c] /\ Tail(<<mSeq[c]>>) = <<>>
    OBVIOUS
  <2> QED
    BY <1>1, <1>2, <2>1
<1>4. TypeOK'
  <2>1. /\ phase' \in [Client -> Phase]
        /\ replies' \in [Client -> Seq(0 .. Seqs - 1)]
    BY <1>1, HeadTailProperties DEF Phase
  <2> QED
    BY <1>1, <2>1 DEF RepliesInv, TypeOK, ServerTypeOK, ClientTypeOK
<1>5. ASSUME NEW s \in Server
      PROVE  NoneOf(requests'[s], Stray(s, c)') /\ OneOf(requests'[s], LiveOf(c))
  <2>1. NoneOf(requests[s], LiveOf(c))
    BY <1>1, <1>2, AllStray
  <2>2. Stray(s, c)' \subseteq LiveOf(c)
    BY DEF Stray
  <2> QED
    BY <1>1, <2>1, <2>2, NoneOfFewer DEF NoneOf, OneOf
<1>6. Expected(c)'
  BY <1>3, <1>5 DEF Expected
<1>7. ASSUME NEW d \in Client, d # c
      PROVE  Expected(d)'
  <2>1. /\ Expected(d) /\ mSeq'[d] = mSeq[d] /\ At(d)' = At(d)
        /\ phase'[d] = phase[d] /\ replies'[d] = replies[d]
    BY <1>1, <1>7 DEF RepliesInv, At
  <2>2. \A s \in Server : \A S \in SUBSET LiveOf(d) :
          NoMore(requests'[s], requests[s], S)
    BY <1>1, NoMoreOfSame
  <2> QED
    BY <2>1, <2>2, NothingNew
<1> QED
  BY <1>4, <1>6, <1>7 DEF RepliesInv

LEMMA ReconnectKeeps ==
  ASSUME RepliesInv, NEW c \in Client, Reconnects(c)
  PROVE  RepliesInv'
<1>1. PICK kept \in BOOLEAN : Reconnect(c, kept)
  BY DEF Reconnects
<1> DEFINE to == Address(mAddrTurn[c])
<1>2. PICK left : left = [s \in Server |-> Orphan(requests[s], c, kept /\ up[s])]
  OBVIOUS
<1>3. /\ requests \in [Server -> Seq(Request)] /\ mSeq \in [Client -> 0 .. Seqs - 1]
      /\ phase \in [Client -> Phase] /\ up \in [Server -> BOOLEAN]
      /\ replies \in [Client -> Seq(0 .. Seqs - 1)] /\ TypeOK
  BY DEF RepliesInv, TypeOK, ServerTypeOK, ClientTypeOK
<1>4. /\ requests' = [s \in Server |->
                        IF s = to THEN Arrive(left[s], c, mSeq[c]) ELSE left[s]]
      /\ replies' = [replies EXCEPT ![c] = <<>>]
      /\ mAddrTurn' = [mAddrTurn EXCEPT ![c] = (@ + 1) % 2]
      /\ phase' = [phase EXCEPT ![c] = "waiting"]
      /\ UNCHANGED <<up, st, linked, inbox, faults, mSeq>>
  BY <1>1, <1>2 DEF Reconnect
<1>5. ASSUME NEW s \in Server
      PROVE  /\ left[s] \in Seq(Request) /\ NoneOf(left[s], LiveOf(c))
             /\ \A d \in Client : d # c =>
                  \A S \in SUBSET LiveOf(d) : NoMore(left[s], requests[s], S)
  <2>1. left[s] = Orphan(requests[s], c, kept /\ up[s])
    BY <1>2
  <2>2. requests[s] \in Seq(Request) /\ (kept /\ up[s]) \in BOOLEAN
    BY <1>3
  <2> QED
    BY <2>1, <2>2, OrphanProperties
<1>6. ASSUME NEW s \in Server
      PROVE  /\ Arrive(left[s], c, mSeq[c]) \in Seq(Request)
             /\ \A d \in Client : d # c => \A S \in SUBSET LiveOf(d) :
                  NoMore(Arrive(left[s], c, mSeq[c]), left[s], S)
  BY <1>3, <1>5, ArriveProperties
<1>7. /\ At(c)' = to /\ mAddrTurn' \in [Client -> 0 .. 1]
      /\ \A d \in Client : d # c => At(d)' = At(d)
  BY <1>3, <1>4, AddressAfter
<1>8. TypeOK'
  <2>1. requests' \in [Server -> Seq(Request)]
    BY <1>4, <1>5, <1>6
  <2>2. replies' \in [Client -> Seq(0 .. Seqs - 1)] /\ phase' \in [Client -> Phase]
    <3>1. <<>> \in Seq(0 .. Seqs - 1)
      BY EmptySeq
    <3> QED
      BY <1>3, <1>4, <3>1 DEF Phase
  <2> QED
    BY <1>3, <1>4, <1>7, <2>1, <2>2 DEF TypeOK, ServerTypeOK, ClientTypeOK
<1>9. Expected(c)'
  <2>1. \A s \in Server :
          requests'[s] = IF s = At(c)' THEN Arrive(left[s], c, mSeq'[c]) ELSE left[s]
    BY <1>4, <1>7
  <2>2. mSeq'[c] \in 0 .. Seqs - 1 /\ phase'[c] # "idle" /\ replies'[c] = <<>>
    BY <1>3, <1>4
  <2>3. \A s \in Server : left[s] \in Seq(Request) /\ NoneOf(left[s], LiveOf(c))
    BY <1>5
  <2> QED
    BY <2>1, <2>2, <2>3, OneIsNew
<1>10. ASSUME NEW d \in Client, d # c
       PROVE  Expected(d)'
  <2>1. /\ Expected(d) /\ mSeq'[d] = mSeq[d] /\ At(d)' = At(d)
        /\ phase'[d] = phase[d] /\ replies'[d] = replies[d]
    BY <1>3, <1>4, <1>7, <1>10 DEF RepliesInv
  <2>2. ASSUME NEW s \in Server, NEW S \in SUBSET LiveOf(d)
        PROVE  NoMore(requests'[s], requests[s], S)
    <3>1. NoMore(left[s], requests[s], S)
      BY <1>5, <1>10
    <3>2. NoMore(Arrive(left[s], c, mSeq[c]), left[s], S)
      BY <1>6, <1>10
    <3>3. requests'[s] \in {left[s], Arrive(left[s], c, mSeq[c])}
      BY <1>4
    <3> QED
      BY <3>1, <3>2, <3>3 DEF NoMore
  <2> QED
    BY <2>1, <2>2, NothingNew
<1> QED
  BY <1>8, <1>9, <1>10 DEF RepliesInv

(* The invariant holds at first, and a step keeps it.                       *)
LEMMA RepliesAtFirst == Init => RepliesInv
<1> SUFFICES ASSUME Init, NEW c \in Client  PROVE Expected(c)
  BY TypesAtFirst DEF RepliesInv
<1>1. replies[c] = <<>> /\ \A s \in Server : requests[s] = <<>>
  BY DEF Init, ServerInit
<1> QED
  BY <1>1, NoMoreOfEmpty DEF Expected

LEMMA RepliesStep ==
  ASSUME RepliesInv, [Next]_vars
  PROVE  RepliesInv'
<1>0. TypeOK /\ \A c \in Client : Expected(c)
  BY DEF RepliesInv
<1>1. ASSUME NEW s \in Server, Serve(s)
      PROVE  RepliesInv'
  BY <1>0, <1>1, ServeTyped, ServeExpected DEF Serve, RepliesInv
<1>2. ASSUME UNCHANGED <<requests, replies, mSeq, mAddrTurn>>, TypeOK',
             \A c \in Client : phase'[c] = "idle" => phase[c] = "idle"
      PROVE  RepliesInv'
  <2>1. \A c \in Client : At(c)' = At(c)
    BY <1>2 DEF At
  <2>2. \A s \in Server : \A S : NoMore(requests'[s], requests[s], S)
    BY <1>2, NoMoreOfSame
  <2>3. \A c \in Client : Expected(c)'
    BY <1>0, <1>2, <2>1, <2>2, NothingNew
  <2> QED
    BY <1>2, <2>3 DEF RepliesInv
<1>3. ASSUME NEW s \in Server, Connected(s) \/ Started(s)
      PROVE  RepliesInv'
  <2>1. UNCHANGED <<st, inbox, requests, replies, faults, clientVars>>
    BY <1>3 DEF Connected, Started, Link, Start
  <2>2. up' \in [Server -> BOOLEAN] /\ linked' \in [Server -> BOOLEAN]
    BY <1>0, <1>3 DEF Connected, Started, Link, Start, TypeOK, ServerTypeOK
  <2>3. TypeOK'
    BY <1>0, <2>1, <2>2 DEF TypeOK, ServerTypeOK, ClientTypeOK, clientVars
  <2> QED
    BY <1>2, <2>1, <2>3 DEF clientVars
<1>4. ASSUME NEW s \in Server, ServerFails(s)
      PROVE  RepliesInv'
  <2>1. UNCHANGED clientVars
    BY <1>4 DEF ServerFails
  <2>2. \A c \in Client : /\ At(c)' = At(c) /\ mSeq'[c] = mSeq[c]
                          /\ phase'[c] = phase[c]
    BY <2>1 DEF At, clientVars
  <2>3. /\ TypeOK'
        /\ \A t \in Server : \A S : NoMore(requests'[t], requests[t], S)
        /\ \A c \in Client : replies'[c] \in {replies[c], <<>>}
    BY <1>0, <1>4, CrashTyped
  <2>4. \A c \in Client : Expected(c)'
    BY <1>0, <2>2, <2>3, NothingNew
  <2> QED
    BY <2>3, <2>4 DEF RepliesInv
<1>5. ASSUME NEW c \in Client, PollTimeout(c)
      PROVE  RepliesInv'
  <2>1. /\ UNCHANGED <<serverVars, mSeq, mAddrTurn>>
        /\ phase' = [phase EXCEPT ![c] = "settling"]
    BY <1>5 DEF PollTimeout
  <2>2. phase \in [Client -> Phase]
    BY <1>0 DEF TypeOK, ClientTypeOK
  <2>3. /\ phase' \in [Client -> Phase]
        /\ \A d \in Client : phase'[d] = "idle" => phase[d] = "idle"
    BY <2>1, <2>2 DEF Phase
  <2>4. TypeOK'
    BY <1>0, <2>1, <2>3 DEF TypeOK, ServerTypeOK, ClientTypeOK, serverVars
  <2> QED
    BY <1>2, <2>1, <2>3, <2>4 DEF serverVars
<1>6. CASE UNCHANGED vars
  <2>1. UNCHANGED <<serverVars, clientVars>>
    BY <1>6 DEF vars
  <2>2. TypeOK'
    BY <1>0, <2>1 DEF TypeOK, ServerTypeOK, ClientTypeOK, serverVars, clientVars
  <2> QED
    BY <1>2, <2>1, <2>2 DEF serverVars, clientVars
<1> QED
  BY <1>1, <1>3, <1>4, <1>5, <1>6, SendKeeps, ReceiveKeeps, ReconnectKeeps
     DEF Next, Untimed

(* The strengthening of the next theorem.                                   *)
THEOREM RepliesInvariance == Spec => []RepliesInv
BY RepliesAtFirst, RepliesStep, PTL DEF Spec

(* Every variable of the servers, their sockets and the clients keeps its   *)
(* type, whoever crashes: no queue of states grows beyond its mark.         *)
THEOREM StarTyped == Spec => []TypeOK
<1>1. RepliesInv => TypeOK
  BY DEF RepliesInv
<1> QED
  BY <1>1, RepliesInvariance, PTL

(* A client never gets a reply that it does not wait for: mSeq returns to a *)
(* number it has had before, but the answers to that one are long gone.     *)
THEOREM NoBadReply == Spec => []RepliesAreExpected
<1>1. RepliesInv => RepliesAreExpected
  BY DEF RepliesInv, Expected, RepliesAreExpected
<1> QED
  BY <1>1, RepliesInvariance, PTL
=============================================================================
