-------------------------- MODULE BinaryStarClient --------------------------
(***************************************************************************)
(* A client of a Binary Star, BinaryStarClient.{h,cpp}: it sends a number, *)
(* waits for the same number, and when a second passes without an answer   *)
(* sleeps two, opens a new socket to the other server and asks again.      *)
(***************************************************************************)
EXTENDS BinaryStarServer

CONSTANT MaxQueue   \* how many requests may wait at a server

ASSUME ClientAssumption == MaxQueue \in Nat \ {0}

VARIABLES
  phase,            \* where run() is
  mSeq,             \* the number of the request, an unsigned
  mAddrTurn         \* mAddrTurn modulo 2: all that connect() looks at, and
                    \* 2^32 is even

clientVars == <<phase, mSeq, mAddrTurn>>
vars == <<serverVars, clientVars>>

Phase == {"idle", "waiting", "settling"}

ClientTypeOK ==
  /\ phase \in [Client -> Phase]
  /\ mSeq \in [Client -> 0 .. Seqs - 1]
  /\ mAddrTurn \in [Client -> 0 .. 1]

(* run() has called connect() once.                                         *)
ClientInit ==
  /\ phase = [c \in Client |-> "idle"]
  /\ mSeq = [c \in Client |-> 0]
  /\ mAddrTurn = [c \in Client |-> 1]

(* mAddresses[ turn % 2 ], and where the socket c has now leads to.         *)
Address(turn) == IF turn % 2 = 0 THEN "primary" ELSE "backup"
At(c) == Address(mAddrTurn[c] + 1)

-----------------------------------------------------------------------------
(* A request on its way to a server.                                        *)
Arrive(q, c, n) == Append(q, [client |-> c, seq |-> n, live |-> TRUE])

(* The next request; the second of sleep after a reply is part of "idle".   *)
SendRequest(c) ==
  /\ phase[c] = "idle"
  /\ Len(requests[At(c)]) < MaxQueue
  /\ LET n == (mSeq[c] + 1) % Seqs
     IN  /\ mSeq' = [mSeq EXCEPT ![c] = n]
         /\ requests' = [requests EXCEPT ![At(c)] = Arrive(@, c, n)]
  /\ phase' = [phase EXCEPT ![c] = "waiting"]
  /\ UNCHANGED <<up, st, linked, inbox, replies, faults, mAddrTurn>>

(* The callback of setupCallback: another number than mSeq is a "Bad reply" *)
(* and leaves mExpectReply as it is.                                        *)
ReceiveReply(c) ==
  /\ phase[c] = "waiting"
  /\ replies[c] # <<>>
  /\ phase' = [phase EXCEPT
                 ![c] = IF Head(replies[c]) = mSeq[c] THEN "idle" ELSE @]
  /\ replies' = [replies EXCEPT ![c] = Tail(@)]
  /\ UNCHANGED <<up, st, linked, inbox, requests, faults, mSeq, mAddrTurn>>

(* poller.wait comes back empty.                                            *)
PollTimeout(c) ==
  /\ phase[c] = "waiting"
  /\ replies[c] = <<>>
  /\ phase' = [phase EXCEPT ![c] = "settling"]
  /\ UNCHANGED <<serverVars, mSeq, mAddrTurn>>

(* What is left of the requests in q when the socket of c is closed: one    *)
(* that a server has may still be read, the other end of it is gone.        *)
Orphan(q, c, kept) ==
  Pick([i \in DOMAIN q |-> [q[i] EXCEPT !.live = @ /\ q[i].client # c]],
       {i \in DOMAIN q : q[i].client # c \/ kept})

(* Mutant: connect() leaves the old socket open.                            *)
ReconnectKeepsSocket(c, kept) ==
  /\ phase[c] = "settling"
  /\ LET to == Address(mAddrTurn[c])
     IN  /\ Len(requests[to]) < MaxQueue
         /\ requests' = [requests EXCEPT ![to] = Arrive(@, c, mSeq[c])]
  /\ mAddrTurn' = [mAddrTurn EXCEPT ![c] = (@ + 1) % 2]
  /\ phase' = [phase EXCEPT ![c] = "waiting"]
  /\ UNCHANGED <<up, st, linked, inbox, replies, faults, mSeq>>

(* Mutant: connect() does not count.                                        *)
ReconnectSameTurn(c, kept) ==
  /\ phase[c] = "settling"
  /\ LET to == At(c)
         left(s) == Orphan(requests[s], c, kept /\ up[s])
     IN  /\ Len(left(to)) < MaxQueue
         /\ requests' = [s \in Server |->
                           IF s = to THEN Arrive(left(s), c, mSeq[c])
                                     ELSE left(s)]
  /\ replies' = [replies EXCEPT ![c] = <<>>]
  /\ phase' = [phase EXCEPT ![c] = "waiting"]
  /\ UNCHANGED <<up, st, linked, inbox, faults, mSeq, mAddrTurn>>

(* Mutant: the turn is not reduced before the addresses are indexed.        *)
ReconnectNoModulo(c, kept) ==
  /\ phase[c] = "settling"
  /\ requests' = [requests EXCEPT ![Address(mAddrTurn[c])] =
                    Arrive(Orphan(@, c, kept), c, mSeq[c])]
  /\ replies' = [replies EXCEPT ![c] = <<>>]
  /\ mAddrTurn' = [mAddrTurn EXCEPT ![c] = @ + 1]
  /\ phase' = [phase EXCEPT ![c] = "waiting"]
  /\ UNCHANGED <<up, st, linked, inbox, faults, mSeq>>

(* After the settle delay: connect() closes the socket with all that is in  *)
(* it, opens one to the next address, and the same request goes there.      *)
Reconnect(c, kept) ==
  /\ phase[c] = "settling"
  /\ LET to == Address(mAddrTurn[c])
         left(s) == Orphan(requests[s], c, kept /\ up[s])
     IN  /\ Len(left(to)) < MaxQueue
         /\ requests' = [s \in Server |->
                           IF s = to THEN Arrive(left(s), c, mSeq[c])
                                     ELSE left(s)]
  /\ replies' = [replies EXCEPT ![c] = <<>>]
  /\ mAddrTurn' = [mAddrTurn EXCEPT ![c] = (@ + 1) % 2]
  /\ phase' = [phase EXCEPT ![c] = "waiting"]
  /\ UNCHANGED <<up, st, linked, inbox, faults, mSeq>>
=============================================================================
