--------------------------- MODULE RequestLifecycle ---------------------------
(***************************************************************************)
(* What a client of the asynchronous Majordomo may count on for each of    *)
(* its requests, without any queue, socket, identity or heartbeat.         *)
(*                                                                         *)
(* A request is queued, is given to a worker, is replied to and is         *)
(* answered, in that order and once each; at any moment before the answer  *)
(* it may be lost, and then it is lost for good.  There are never more     *)
(* requests with the workers than there are workers.  One event may move   *)
(* several requests: a crash loses some, a reply frees a worker for the    *)
(* next.  AsyncMajordomo implements this.                                  *)
(***************************************************************************)
EXTENDS Integers, FiniteSets

CONSTANTS
  Body,          \* the requests of all clients
  Servers        \* how many workers there are

VARIABLE stage

Stage == {"unsent", "queued", "working", "replied", "answered", "lost"}

Moves == {<<"unsent", "queued">>, <<"queued", "working">>,
          <<"working", "replied">>, <<"replied", "answered">>}
         \cup {"queued", "working", "replied"} \X {"lost"}

Init == stage = [b \in Body |-> "unsent"]

Next ==
  /\ stage' \in [Body -> Stage]
  /\ \A b \in Body : stage'[b] # stage[b] => <<stage[b], stage'[b]>> \in Moves
  /\ Cardinality({b \in Body : stage'[b] = "working"}) <= Servers

Spec == Init /\ [][Next]_stage
=============================================================================
