-------------------------- MODULE AsyncMajordomoNet --------------------------
(***************************************************************************)
(* The two links of the asynchronous Majordomo (App/AsyncMajordomo) and    *)
(* what libzmq does with them, as far as the code relies on it.            *)
(*                                                                         *)
(*   - The broker binds two ROUTER sockets: the back one for the workers,  *)
(*     the front one for the clients.  A worker or a client owns a DEALER  *)
(*     socket with an identity of its own choice.                          *)
(*   - Between one identity and the broker, messages stay in order.        *)
(*   - A ROUTER silently drops a message for an identity with no open      *)
(*     connection, and one whose queue is at the high-water mark.  A       *)
(*     DEALER at its high-water mark blocks instead.                       *)
(*   - Closing a socket (linger 0) forgets what it has not yet sent and    *)
(*     what it has not yet read; the other side still reads what it has    *)
(*     received.  A connection that breaks loses what was in flight: on    *)
(*     the way up messages between those the broker's socket has and those *)
(*     still queued in the DEALER, on the way down the newest ones.        *)
(*                                                                         *)
(* None of this code is under src/: libzmq is external.                    *)
(***************************************************************************)
EXTENDS AsyncMajordomoMessages, Subsequences

CONSTANTS
  Service,       \* the service names (argv[1] of a worker and of a client)
  ClientProc,    \* the client processes
  Requests,      \* how many requests a client sends (100000 in Client.cpp)
  WorkerId,      \* the identities RandomString::generate gives to workers
  ClientId,      \* the identities RandomString::generate gives to clients;
                 \* a ROUTER knows only those of its own link
  FrontHwm,      \* the high-water mark of a queue of the front link
  BackHwm        \* the high-water mark of a queue of the back link

ASSUME NetAssumption ==
  /\ Requests \in Nat \ {0}
  /\ FrontHwm \in Nat \ {0}
  /\ BackHwm \in Nat \ {0}
  /\ WorkerId \cap ClientId = {}

VARIABLES
  peers,         \* the identities with an open connection to the broker
  backUp,        \* for each worker identity, its messages to the broker
  backDown,      \* for each worker identity, the broker's messages to it
  frontUp,       \* for each client identity, its messages to the broker
  frontDown      \* for each client identity, the broker's messages to it

netVars == <<peers, backUp, backDown, frontUp, frontDown>>

-----------------------------------------------------------------------------
(* The messages of each queue.  A request body is tagged with who sent it   *)
(* and its number; the real bodies are all "HelloWorld".                    *)

Body == ClientProc \X (1 .. Requests)

BackUpMsg == [type : {"Ready"}, service : Service]
             \cup [type : {"Reply"}, client : ClientId, body : Body]
             \cup [type : {"Heartbeat", "Disconnect"}]
BackDownMsg == [type : {"Request"}, client : ClientId, body : Body]
               \cup [type : {"Heartbeat", "Disconnect"}]
FrontUpMsg == [type : {"Discovery"}, service : Service]
              \cup [type : {"Request"}, service : Service, body : Body]
FrontDownMsg == [type : {"Discovery"}, service : Service,
                 status : {"Ok", "NotFound"}]
                \cup [type : {"Reply"}, service : Service, body : Body]

NetTypeOK ==
  /\ peers \in SUBSET (WorkerId \cup ClientId)
  /\ backUp \in [WorkerId -> Seq(BackUpMsg)]
  /\ backDown \in [WorkerId -> Seq(BackDownMsg)]
  /\ frontUp \in [ClientId -> Seq(FrontUpMsg)]
  /\ frontDown \in [ClientId -> Seq(FrontDownMsg)]

-----------------------------------------------------------------------------
(* Every way to choose, for each of a family of queues, a number of its     *)
(* messages.                                                                *)
Cuts(qs, hwm) == {f \in [DOMAIN qs -> 0 .. hwm] :
                    \A i \in DOMAIN qs : f[i] <= Len(qs[i])}

-----------------------------------------------------------------------------
(* What the sockets do.                                                     *)

NetInit ==
  /\ peers = {}
  /\ backUp = [w \in WorkerId |-> <<>>]
  /\ backDown = [w \in WorkerId |-> <<>>]
  /\ frontUp = [c \in ClientId |-> <<>>]
  /\ frontDown = [c \in ClientId |-> <<>>]

(* What a queue holds after a ROUTER was given msgs for it: those that do   *)
(* not fit, or that have no connection to go to, are dropped.               *)
Offer(q, msgs, hwm) ==
  SubSeq(q \o msgs, 1, MinOf(hwm, Len(q) + Len(msgs)))
Routed(id, q, msgs, hwm) == IF id \in peers THEN Offer(q, msgs, hwm) ELSE q

(* A DEALER's send waits for room.                                          *)
Room(q, n, hwm) == Len(q) + n <= hwm

(* A queue of which only the k oldest, or all but the k oldest, are left.   *)
Oldest(q, k) == SubSeq(q, 1, k)
AllButOldest(q, k) == SubSeq(q, k + 1, Len(q))

(* A queue of which `lost' messages behind the `read' oldest are lost.      *)
WithLoss(q, read, lost) == Oldest(q, read) \o AllButOldest(q, read + lost)

(* The connection of a worker or of a client breaks and is made again.      *)
BackConnectionReset(w, read, lost, kept) ==
  /\ w \in peers
  /\ read + lost <= Len(backUp[w]) /\ kept <= Len(backDown[w])
  /\ backUp' = [backUp EXCEPT ![w] = WithLoss(@, read, lost)]
  /\ backDown' = [backDown EXCEPT ![w] = Oldest(@, kept)]
  /\ UNCHANGED <<peers, frontUp, frontDown>>

FrontConnectionReset(c, read, lost, kept) ==
  /\ c \in peers
  /\ read + lost <= Len(frontUp[c]) /\ kept <= Len(frontDown[c])
  /\ frontUp' = [frontUp EXCEPT ![c] = WithLoss(@, read, lost)]
  /\ frontDown' = [frontDown EXCEPT ![c] = Oldest(@, kept)]
  /\ UNCHANGED <<peers, backUp, backDown>>
=============================================================================
