-------------------------- MODULE BinaryStarServer --------------------------
(***************************************************************************)
(* The two servers of a Binary Star, BinaryStarServer.{h,cpp} and          *)
(* Server.cpp, with the sockets between them and to the clients.           *)
(*                                                                         *)
(* A server takes requests on a ROUTER socket, publishes its state on a    *)
(* PUB socket every two seconds and reads its peer's on a SUB socket.  A   *)
(* loop of run() handles at most one request, then at most one state, then *)
(* publishes when it is time to; what is ready in which loop is up to the  *)
(* sockets, so each of the three is a step of its own.                     *)
(***************************************************************************)
EXTENDS BinaryStarFsm, Subsequences

CONSTANTS
  Client,           \* the client processes
  Seqs,             \* how many values mSeq has: 2^32 in the code
  StateHwm,         \* how many states the peer's SUB queue holds
  UpAtFirst,        \* the servers that run before the clients start
  Faultable,        \* the servers that may crash
  MaxFaults         \* bound: how many crashes there may be

Server == {"primary", "backup"}
Peer(s) == IF s = "primary" THEN "backup" ELSE "primary"

ASSUME ServerAssumption ==
  /\ Seqs \in Nat \ {0, 1}
  /\ StateHwm \in Nat \ {0}
  /\ UpAtFirst \subseteq Server
  /\ Faultable \subseteq Server
  /\ MaxFaults \in Nat

VARIABLES
  up,               \* whether the process runs
  st,               \* mBinaryStarFsm
  linked,           \* linked[s]: the SUB socket of s is connected to the peer
  inbox,            \* the peer's states in that socket
  requests,         \* what waits to be read from the ROUTER socket, or in the
                    \* clients' pipes while the server is down
  replies,          \* replies[c]: what waits in the REQ socket c has now
  faults            \* faults[s]: the crashes of s so far

serverVars == <<up, st, linked, inbox, requests, replies, faults>>

(* A request remembers the client's socket only as: is it still open?       *)
Request == [client : Client, seq : 0 .. Seqs - 1, live : BOOLEAN]

ServerTypeOK ==
  /\ up \in [Server -> BOOLEAN]
  /\ st \in [Server -> StateName]
  /\ linked \in [Server -> BOOLEAN]
  /\ inbox \in [Server -> Seq(StateName)]
  /\ \A s \in Server : Len(inbox[s]) <= StateHwm
  /\ requests \in [Server -> Seq(Request)]
  /\ replies \in [Client -> Seq(0 .. Seqs - 1)]
  /\ faults \in [Server -> 0 .. MaxFaults]

(* The constructor: the role comes from argv[1].                            *)
InitialState(s) == IF s = "primary" THEN "Primary" ELSE "Backup"

ServerInit ==
  /\ up = [s \in Server |-> s \in UpAtFirst]
  /\ st = [s \in Server |-> InitialState(s)]
  /\ linked = [s \in Server |-> FALSE]
  /\ inbox = [s \in Server |-> <<>>]
  /\ requests = [s \in Server |-> <<>>]
  /\ replies = [c \in Client |-> <<>>]
  /\ faults = [s \in Server |-> 0]

-----------------------------------------------------------------------------
(* toPeerEvt.                                                               *)
ToPeerEvt(state) ==
  CASE state = "Active"  -> "PeerActive"
    [] state = "Passive" -> "PeerPassive"
    [] state = "Backup"  -> "PeerBackup"
    [] state = "Primary" -> "PeerPrimary"
    [] OTHER             -> "Unknown"

(* The states whose action for ClientRequest setup() makes respond().       *)
Answering == {"Primary", "Active", "Passive"}

(* handleRequestReceived: the state changes first, and the action of the    *)
(* state left behind answers; the reply to a socket that is closed goes     *)
(* nowhere.                                                                 *)
HandleRequestReceived(s) ==
  /\ up[s]
  /\ requests[s] # <<>>
  /\ LET m == Head(requests[s])
     IN  /\ st' = [st EXCEPT ![s] = After(@, "ClientRequest")]
         /\ replies' =
              IF st[s] \in Answering /\ m.live
                THEN [replies EXCEPT ![m.client] = Append(@, m.seq)]
                ELSE replies
  /\ requests' = [requests EXCEPT ![s] = Tail(@)]
  /\ UNCHANGED <<up, linked, inbox, faults>>

HandlePeerStateReceived(s) ==
  /\ up[s]
  /\ inbox[s] # <<>>
  /\ st' = [st EXCEPT ![s] = After(@, ToPeerEvt(Head(inbox[s])))]
  /\ inbox' = [inbox EXCEPT ![s] = Tail(@)]
  /\ UNCHANGED <<up, linked, requests, replies, faults>>

(* pubSelfState.  A PUB socket drops what has no subscriber or finds the    *)
(* subscriber's queue full; such a call changes nothing.                    *)
PubSelfState(s) ==
  /\ up[s]
  /\ linked[Peer(s)]
  /\ Len(inbox[Peer(s)]) < StateHwm
  /\ inbox' = [inbox EXCEPT ![Peer(s)] = Append(@, st[s])]
  /\ UNCHANGED <<up, st, linked, requests, replies, faults>>

-----------------------------------------------------------------------------
(* A SUB socket connects, or connects again, to a peer that runs.           *)
Link(s) ==
  /\ up[s] /\ up[Peer(s)] /\ ~linked[s]
  /\ linked' = [linked EXCEPT ![s] = TRUE]
  /\ UNCHANGED <<up, st, inbox, requests, replies, faults>>

(* Someone starts the process, for the first time or after a crash.         *)
Start(s) ==
  /\ ~up[s]
  /\ up' = [up EXCEPT ![s] = TRUE]
  /\ UNCHANGED <<st, linked, inbox, requests, replies, faults>>

(* The process dies, and all it knows with it.  Of the states it published  *)
(* the first few still reach the peer; of the requests those still in the   *)
(* pipes of the clients in kept wait for the next process; the replies to   *)
(* the clients in lost never arrive.                                        *)
Crash(s, arrived, kept, lost) ==
  /\ up[s]
  /\ up' = [up EXCEPT ![s] = FALSE]
  /\ st' = [st EXCEPT ![s] = InitialState(s)]
  /\ linked' = [t \in Server |-> FALSE]
  /\ inbox' = [inbox EXCEPT ![s] = <<>>, ![Peer(s)] = SubSeq(@, 1, arrived)]
  /\ requests' = [requests EXCEPT
                    ![s] = Pick(@, {i \in DOMAIN @ :
                                      @[i].live /\ @[i].client \in kept})]
  /\ replies' = [c \in Client |-> IF c \in lost THEN <<>> ELSE replies[c]]

ServerStep(s) ==
  \/ HandleRequestReceived(s)
  \/ HandlePeerStateReceived(s)
  \/ PubSelfState(s)
=============================================================================
