-------------------------- MODULE LazyPirateClient --------------------------
(***************************************************************************)
(* The client of the Lazy Pirate (LazyPirate/Client.cpp).  It serves the   *)
(* Simple and the Paranoid Pirate, too: their queues bind the port that    *)
(* this client connects to, and have no client of their own.  A client     *)
(* makes one request, and asks again on a new socket when no reply comes   *)
(* in time.  Its sequence number is always 1, so that the comparison in    *)
(* handleResponse always holds.                                            *)
(***************************************************************************)
EXTENDS ParanoidPirateQueue

CONSTANT ReplyPatience        \* gRequestTimeout, in ticks, rounded up

ASSUME ClientAssumption == ReplyPatience \in Nat \ {0}

VARIABLES
  cPhase,           \* "off", "waiting", "done", "abandoned"
  retries,
  timer             \* ticks until poller.wait returns without a reply

clientVars == <<cPhase, retries, timer>>

ClientTypeOK ==
  /\ cPhase \in [Client -> {"off", "waiting", "done", "abandoned"}]
  /\ retries \in [Client -> 0 .. Retries]
  /\ timer \in [Client -> 0 .. ReplyPatience]

ClientInit ==
  /\ cPhase = [c \in Client |-> "off"]
  /\ retries = [c \in Client |-> 0]
  /\ timer = [c \in Client |-> 0]

(* The socket of the attempt that c is at.                                  *)
At(c) == <<c, retries[c] + 1>>

-----------------------------------------------------------------------------
(* main up to its first wait.                                               *)
ClientStart(c) ==
  /\ cPhase[c] = "off"
  /\ cPhase' = [cPhase EXCEPT ![c] = "waiting"]
  /\ timer' = [timer EXCEPT ![c] = ReplyPatience]
  /\ sockets' = sockets \cup {At(c)}
  /\ asked' = asked \cup {At(c)}
  /\ UNCHANGED <<retries, answers>>

(* A reply comes, and main returns.                                         *)
HandleResponse(c) ==
  /\ cPhase[c] = "waiting"
  /\ At(c) \in answers
  /\ cPhase' = [cPhase EXCEPT ![c] = "done"]
  /\ timer' = [timer EXCEPT ![c] = 0]
  /\ answers' = answers \ {At(c)}
  /\ sockets' = sockets \ {At(c)}
  /\ UNCHANGED <<retries, asked>>

(* The socket of c is closed, and linger is 0: the request it sent is gone  *)
(* unless it has left.  What the queue was told of is there to be read.     *)
RequestsLeft(c) ==
  {kept \in {asked, asked \ {At(c)}} :
     /\ At(c) \in kept => up
     /\ "front" \in todo => kept # {}}

TimedOut(c) ==
  /\ cPhase[c] = "waiting"
  /\ At(c) \notin answers
  /\ timer[c] = 0

(* Mutant: the socket is kept for the next attempt.                         *)
RetryOnSameSocket(c) ==
  /\ TimedOut(c)
  /\ retries[c] < Retries
  /\ asked' = asked \cup {At(c)}
  /\ timer' = [timer EXCEPT ![c] = ReplyPatience]
  /\ UNCHANGED <<answers, sockets, retries, cPhase>>

(* The wait ends without a reply: a new socket, and the request again.      *)
Retry(c) ==
  /\ TimedOut(c)
  /\ retries[c] < Retries
  /\ retries' = [retries EXCEPT ![c] = @ + 1]
  /\ \E kept \in RequestsLeft(c) : asked' = kept \cup {<<c, retries'[c] + 1>>}
  /\ sockets' = (sockets \ {At(c)}) \cup {<<c, retries'[c] + 1>>}
  /\ timer' = [timer EXCEPT ![c] = ReplyPatience]
  /\ UNCHANGED <<answers, cPhase>>

(* Or the client gives up, and main returns.                                *)
Abandon(c) ==
  /\ TimedOut(c)
  /\ retries[c] = Retries
  /\ cPhase' = [cPhase EXCEPT ![c] = "abandoned"]
  /\ \E kept \in RequestsLeft(c) : asked' = kept
  /\ sockets' = sockets \ {At(c)}
  /\ UNCHANGED <<answers, retries, timer>>

ClientWaits(c) == HandleResponse(c) \/ Retry(c) \/ Abandon(c)

ClientTick ==
  /\ timer' = [c \in Client |-> IF timer[c] = 0 THEN 0 ELSE timer[c] - 1]
  /\ UNCHANGED <<cPhase, retries>>
=============================================================================
