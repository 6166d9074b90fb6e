----------------------------- MODULE LazyPirate -----------------------------
(***************************************************************************)
(* The Lazy Pirate's own server, LazyPirate/Server.cpp, and its clients    *)
(* (Client.cpp), with the times of the code: a tick is half a second.      *)
(*                                                                         *)
(* The server does one request after the other, those that their clients   *)
(* have given up included.  A request is <<client, attempt>>.              *)
(***************************************************************************)
EXTENDS Integers, FiniteSets

CONSTANTS
  LazyClient,
  LazyAttempts,     \* 1 + gRequestRetries
  LazyPatience,     \* gRequestTimeout
  LazyWork,         \* the time a request takes ...
  LazyOverload,     \* ... and how much longer it may take ...
  LazyWarmup        \* ... after so many that did not

ASSUME LazyAssumption ==
  /\ IsFiniteSet(LazyClient)
  /\ LazyAttempts \in Nat \ {0} /\ LazyPatience \in Nat \ {0}
  /\ {LazyWork, LazyOverload, LazyWarmup} \subseteq Nat

VARIABLES
  lzUp,             \* the server runs
  lzCrashed,        \* it has crashed before
  lzCycles,         \* cycles, up to LazyWarmup + 1
  lzHand,           \* the request it is at ...
  lzBusy,           \* ... and the ticks left to its reply
  lzRequests,       \* the requests in its socket or on their way there
  lzReplies,        \* the replies in those of the clients
  lzPhase,          \* "off", "waiting", "done" or "abandoned"
  lzTry,            \* the attempt a client is at
  lzTimer           \* the ticks left to its timeout

lzServer == <<lzUp, lzCrashed, lzCycles, lzHand, lzBusy>>
lzClients == <<lzPhase, lzTry, lzTimer>>
lzVars == <<lzServer, lzRequests, lzReplies, lzClients>>

(* The server may have served others before.                                *)
LazyInit ==
  /\ lzUp = TRUE /\ lzCrashed = FALSE
  /\ lzCycles \in 0 .. LazyWarmup + 1
  /\ lzHand = {} /\ lzBusy = 0
  /\ lzRequests = {} /\ lzReplies = {}
  /\ lzPhase = [c \in LazyClient |-> "off"]
  /\ lzTry = [c \in LazyClient |-> 1]
  /\ lzTimer = [c \in LazyClient |-> 0]

Mine(c) == <<c, lzTry[c]>>
Waits(c) == lzPhase[c] = "waiting"

-----------------------------------------------------------------------------
(* cycles++                                                                 *)
NextCycle == IF lzCycles > LazyWarmup THEN lzCycles ELSE lzCycles + 1

Takes(r) ==
  /\ lzUp /\ lzHand = {} /\ r \in lzRequests
  /\ lzRequests' = lzRequests \ {r}
  /\ UNCHANGED <<lzReplies, lzClients>>

LazyServes(r) ==
  /\ Takes(r)
  /\ lzHand' = {r} /\ lzBusy' = LazyWork /\ lzCycles' = NextCycle
  /\ UNCHANGED <<lzUp, lzCrashed>>

(* Mutant: the count goes on after an overload.                             *)
LazyOverloadedForGood(r) ==
  /\ Takes(r) /\ NextCycle > LazyWarmup
  /\ lzHand' = {r} /\ lzBusy' = LazyOverload + LazyWork
  /\ lzCycles' = NextCycle
  /\ UNCHANGED <<lzUp, lzCrashed>>

(* "Simulate CPU overload"                                                  *)
LazyOverloaded(r) ==
  /\ Takes(r) /\ NextCycle > LazyWarmup
  /\ lzHand' = {r} /\ lzBusy' = LazyOverload + LazyWork
  /\ lzCycles' = 0
  /\ UNCHANGED <<lzUp, lzCrashed>>

(* "Simulate a crash": the request it has read is lost, and those that have *)
(* left their client; others wait there until the server is back.           *)
LazyCrashes(r) ==
  /\ lzUp /\ lzHand = {} /\ r \in lzRequests /\ NextCycle > LazyWarmup
  /\ lzUp' = FALSE /\ lzCrashed' = TRUE /\ lzCycles' = 0
  /\ lzRequests' \in SUBSET {q \in lzRequests \ {r} :
                                Waits(q[1]) /\ Mine(q[1]) = q}
  /\ UNCHANGED <<lzHand, lzBusy, lzReplies, lzClients>>

(* A reply to a socket that is closed is dropped.                           *)
LazyReplies(r) ==
  /\ r \in lzHand /\ lzBusy = 0
  /\ lzHand' = {}
  /\ lzReplies' = lzReplies \cup
                    {x \in {r} : Waits(r[1]) /\ Mine(r[1]) = r}
  /\ UNCHANGED <<lzUp, lzCrashed, lzCycles, lzBusy, lzRequests, lzClients>>

(* Someone starts the server again.                                         *)
LazyServerStarts ==
  /\ ~lzUp
  /\ lzUp' = TRUE
  /\ UNCHANGED <<lzCrashed, lzCycles, lzHand, lzBusy, lzRequests, lzReplies,
                 lzClients>>

-----------------------------------------------------------------------------
LazyAsks(c) ==
  /\ lzPhase[c] = "off"
  /\ lzPhase' = [lzPhase EXCEPT ![c] = "waiting"]
  /\ lzTimer' = [lzTimer EXCEPT ![c] = LazyPatience]
  /\ lzRequests' = lzRequests \cup {<<c, 1>>}
  /\ UNCHANGED <<lzServer, lzReplies, lzTry>>

(* handleResponse; the sequence number is always 1.                         *)
LazyAnswered(c) ==
  /\ Waits(c) /\ Mine(c) \in lzReplies
  /\ lzPhase' = [lzPhase EXCEPT ![c] = "done"]
  /\ lzReplies' = lzReplies \ {Mine(c)}
  /\ UNCHANGED <<lzServer, lzRequests, lzTry, lzTimer>>

(* What the close of c's socket leaves: linger is 0, and a request that has *)
(* not left for want of a server goes with it.                              *)
AfterClose(c) == IF lzUp THEN lzRequests ELSE lzRequests \ {Mine(c)}

(* A new socket and the same request, or the end.                           *)
LazyTimeout(c) ==
  /\ Waits(c) /\ lzTimer[c] = 0 /\ Mine(c) \notin lzReplies
  /\ IF lzTry[c] < LazyAttempts
       THEN /\ lzTry' = [lzTry EXCEPT ![c] = @ + 1]
            /\ lzTimer' = [lzTimer EXCEPT ![c] = LazyPatience]
            /\ lzRequests' = AfterClose(c) \cup {<<c, lzTry[c] + 1>>}
            /\ UNCHANGED lzPhase
       ELSE /\ lzPhase' = [lzPhase EXCEPT ![c] = "abandoned"]
            /\ lzRequests' = AfterClose(c)
            /\ UNCHANGED <<lzTry, lzTimer>>
  /\ UNCHANGED <<lzServer, lzReplies>>

(* Half a second passes while all wait for it.                              *)
HalfSecond ==
  /\ lzUp => (lzHand = {} /\ lzRequests = {}) \/ lzBusy > 0
  /\ \A c \in LazyClient : Waits(c) => lzTimer[c] > 0 /\ Mine(c) \notin lzReplies
  /\ lzBusy' = IF lzBusy = 0 THEN 0 ELSE lzBusy - 1
  /\ lzTimer' = [c \in LazyClient |-> IF Waits(c) THEN lzTimer[c] - 1 ELSE 0]
  /\ UNCHANGED <<lzUp, lzCrashed, lzCycles, lzHand, lzRequests, lzReplies,
                 lzPhase, lzTry>>

LazyNext ==
  \/ \E r \in lzRequests :
       LazyServes(r) \/ LazyOverloaded(r) \/ LazyCrashes(r)
  \/ \E r \in lzHand : LazyReplies(r)
  \/ LazyServerStarts \/ HalfSecond
  \/ \E c \in LazyClient : LazyAsks(c) \/ LazyAnswered(c) \/ LazyTimeout(c)

LazySpec == LazyInit /\ [][LazyNext]_lzVars

-----------------------------------------------------------------------------
(* A client that is alone does not give up unless the server crashes: an    *)
(* overload outlasts its timeout and leaves a request behind that nobody    *)
(* waits for any more, which the server does all the same, but it catches   *)
(* up before the last attempt ends.  With a second client it need not.      *)
NotAbandoned ==
  Cardinality(LazyClient) = 1 =>
    \A c \in LazyClient : lzPhase[c] = "abandoned" => lzCrashed
=============================================================================
