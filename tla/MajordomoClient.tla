--------------------------- MODULE MajordomoClient ---------------------------
(***************************************************************************)
(* The clients of the synchronous Majordomo: MajordomoClient.{h,cpp} and   *)
(* the loop of Client.cpp around send().                                   *)
(***************************************************************************)
EXTENDS MajordomoBroker

CONSTANT Patience       \* the timeout of send(), in ticks

ASSUME ClientAssumption == Patience \in Nat \ {0}

VARIABLES
  cPhase,           \* "off", "ready" to send, "waiting", "done"
  conn,             \* how many sockets c has had
  n,                \* the number of the request
  retries,          \* currentRetries
  timer,            \* ticks left of the poll
  mReply            \* mReply: the request it answers, 0 for none

clientVars == <<cPhase, conn, n, retries, timer, mReply>>

At(c) == <<c, conn[c]>>
TheAsk(c) == [addr |-> At(c), n |-> n[c]]

ClientTypeOK ==
  /\ cPhase \in [Client -> {"off", "ready", "waiting", "done"}]
  /\ conn \in [Client -> 0 .. Requests * Retries]
  /\ n \in [Client -> 0 .. Requests]
  /\ retries \in [Client -> 0 .. Retries - 1]
  /\ timer \in [Client -> 0 .. Patience]
  /\ mReply \in [Client -> 0 .. Requests]

ClientInit ==
  /\ cPhase = [c \in Client |-> "off"]
  /\ conn = [c \in Client |-> 0]
  /\ n = [c \in Client |-> 0]
  /\ retries = [c \in Client |-> 0]
  /\ timer = [c \in Client |-> 0]
  /\ mReply = [c \in Client |-> 0]

-----------------------------------------------------------------------------
ClientStart(c) ==
  /\ cPhase[c] = "off"
  /\ cPhase' = [cPhase EXCEPT ![c] = "ready"]
  /\ sockets' = sockets \cup {At(c)}
  /\ UNCHANGED <<conn, n, retries, timer, mReply, asked, answers>>

(* main ends its loop when send() has returned nothing.                     *)
Ended(c) == n[c] = Requests \/ (n[c] > 0 /\ mReply[c] = 0)

Send(c) ==
  /\ cPhase[c] = "ready" /\ ~Ended(c)
  /\ cPhase' = [cPhase EXCEPT ![c] = "waiting"]
  /\ n' = [n EXCEPT ![c] = @ + 1]
  /\ timer' = [timer EXCEPT ![c] = Patience]
  /\ asked' = asked \cup {[addr |-> At(c), n |-> n[c] + 1]}
  /\ UNCHANGED <<conn, retries, mReply, sockets, answers>>

(* The socket is closed, and linger is 0: the request is lost if it has not *)
(* left.  What the broker's poll has announced has.                         *)
AskedLeft(c) ==
  {kept \in {asked, asked \ {TheAsk(c)}} :
     /\ TheAsk(c) \in kept => up
     /\ "front" \in todo => kept # {}}

(* connect(), with a new identity.                                          *)
Reconnect(c) ==
  /\ conn' = [conn EXCEPT ![c] = @ + 1]
  /\ sockets' = (sockets \ {At(c)}) \cup {<<c, conn[c] + 1>>}
  /\ answers' = {a \in answers : a.addr # At(c)}

(* The locals of send() are gone.                                           *)
Returns(c) ==
  /\ retries' = [retries EXCEPT ![c] = 0]
  /\ timer' = [timer EXCEPT ![c] = 0]

(* handleResponse, and send() returns.                                      *)
HandleResponse(c) ==
  /\ cPhase[c] = "waiting"
  /\ \E a \in answers :
       /\ a.addr = At(c)
       /\ mReply' = [mReply EXCEPT ![c] = a.n]
       /\ answers' = answers \ {a}
  /\ cPhase' = [cPhase EXCEPT ![c] = "ready"]
  /\ Returns(c)
  /\ UNCHANGED <<conn, n, sockets, asked>>

TimedOut(c) ==
  cPhase[c] = "waiting" /\ timer[c] = 0 /\ \A a \in answers : a.addr # At(c)

(* Mutant: one identity for all the attempts of a request, so that the      *)
(* replies to several of them find the socket.                              *)
RetryAsBefore(c) ==
  /\ TimedOut(c)
  /\ retries[c] < Retries - 1
  /\ retries' = [retries EXCEPT ![c] = @ + 1]
  /\ timer' = [timer EXCEPT ![c] = Patience]
  /\ \E kept \in AskedLeft(c) : asked' = kept \cup {TheAsk(c)}
  /\ UNCHANGED <<cPhase, conn, n, mReply, sockets, answers>>

(* Mutant: one attempt too many.                                            *)
RetryOneMore(c) ==
  /\ TimedOut(c)
  /\ retries[c] < Retries
  /\ Reconnect(c)
  /\ retries' = [retries EXCEPT ![c] = @ + 1]
  /\ timer' = [timer EXCEPT ![c] = Patience]
  /\ \E kept \in AskedLeft(c) :
       asked' = kept \cup {[addr |-> <<c, conn'[c]>>, n |-> n[c]]}
  /\ UNCHANGED <<cPhase, n, mReply>>

Retry(c) ==
  /\ TimedOut(c)
  /\ retries[c] < Retries - 1
  /\ Reconnect(c)
  /\ retries' = [retries EXCEPT ![c] = @ + 1]
  /\ timer' = [timer EXCEPT ![c] = Patience]
  /\ \E kept \in AskedLeft(c) :
       asked' = kept \cup {[addr |-> <<c, conn'[c]>>, n |-> n[c]]}
  /\ UNCHANGED <<cPhase, n, mReply>>

(* "Too many failed attempts": send() returns what mReply holds.            *)
GiveUp(c) ==
  /\ TimedOut(c)
  /\ retries[c] = Retries - 1
  /\ Reconnect(c)
  /\ cPhase' = [cPhase EXCEPT ![c] = "ready"]
  /\ asked' \in AskedLeft(c)
  /\ Returns(c)
  /\ UNCHANGED <<n, mReply>>

ClientEnd(c) ==
  /\ cPhase[c] = "ready" /\ Ended(c)
  /\ cPhase' = [cPhase EXCEPT ![c] = "done"]
  /\ sockets' = sockets \ {At(c)}
  /\ answers' = {a \in answers : a.addr # At(c)}
  /\ mReply' = [mReply EXCEPT ![c] = 0]
  /\ UNCHANGED <<conn, n, retries, timer, asked>>

ClientNext(c) ==
  Send(c) \/ HandleResponse(c) \/ Retry(c) \/ GiveUp(c) \/ ClientEnd(c)

ClientTick ==
  /\ timer' = [c \in Client |-> IF timer[c] = 0 THEN 0 ELSE timer[c] - 1]
  /\ UNCHANGED <<cPhase, conn, n, retries, mReply>>
=============================================================================
