----------------------------- MODULE BinaryStar -----------------------------
(***************************************************************************)
(* The Binary Star: two servers, their clients, and crashes.               *)
(***************************************************************************)
EXTENDS BinaryStarClient

Init == ServerInit /\ ClientInit

(* A server of Faultable crashes.                                           *)
ServerFails(s) ==
  /\ s \in Faultable
  /\ faults["primary"] + faults["backup"] < MaxFaults
  /\ faults' = [faults EXCEPT ![s] = @ + 1]
  /\ \E arrived \in 0 .. Len(inbox[Peer(s)]) :
       \E kept, lost \in SUBSET Client :
         /\ \A c \in lost : At(c) = s
         /\ Crash(s, arrived, kept, lost)
  /\ UNCHANGED clientVars

(* A step of server s, of a client, of the sockets or of the operator.      *)
Serve(s) == ServerStep(s) /\ UNCHANGED clientVars
Connected(s) == Link(s) /\ UNCHANGED clientVars
Started(s) == Start(s) /\ UNCHANGED clientVars
Reconnects(c) == \E kept \in BOOLEAN : Reconnect(c, kept)

(* Everything but the time-out of a poll.                                   *)
Untimed ==
  \/ \E s \in Server : Serve(s) \/ Connected(s) \/ Started(s) \/ ServerFails(s)
  \/ \E c \in Client : SendRequest(c) \/ ReceiveReply(c) \/ Reconnects(c)

Next == Untimed \/ \E c \in Client : PollTimeout(c)

Spec == Init /\ [][Next]_vars

(* A poll waits for a second and a server handles a request within 100 ms   *)
(* of its arrival: when everyone is prompt, a poll comes back empty only if *)
(* the request waits at a server that does not run, or nowhere.             *)
PromptTimeout(c) ==
  /\ PollTimeout(c)
  /\ \A s \in Server : up[s] =>
       \A i \in 1 .. Len(requests[s]) :
         requests[s][i].live => requests[s][i].client # c

PromptNext == Untimed \/ \E c \in Client : PromptTimeout(c)

PromptSpec == Init /\ [][PromptNext]_vars

(* Every process that runs makes its steps and a second passes in the end.  *)
(* Nothing forces anyone to start a server.                                 *)
Fairness ==
  /\ \A s \in Server :
       /\ WF_vars(HandleRequestReceived(s) /\ UNCHANGED clientVars)
       /\ WF_vars(HandlePeerStateReceived(s) /\ UNCHANGED clientVars)
       /\ WF_vars(PubSelfState(s) /\ UNCHANGED clientVars)
       /\ WF_vars(Connected(s))
  /\ \A c \in Client :
       /\ WF_vars(SendRequest(c))
       /\ WF_vars(ReceiveReply(c) \/ PromptTimeout(c))
       /\ WF_vars(Reconnects(c))

FairSpec == PromptSpec /\ Fairness

(* The same processes when a poll may time out early.                       *)
RestlessSpec == Spec /\ Fairness

(* And someone starts every server that does not run.                       *)
AttendedSpec == FairSpec /\ \A s \in Server : WF_vars(Started(s))

-----------------------------------------------------------------------------
TypeOK == ServerTypeOK /\ ClientTypeOK

(* The two never wait for each other as passive servers: a server becomes   *)
(* passive only on a state its peer published while active, states arrive   *)
(* in order, and those read before a crash die with the reader.             *)
NeverBothPassive ==
  ~ \A s \in Server : up[s] /\ st[s] = "Passive"

(* A client never gets a "Bad reply": what waits for it answers the request *)
(* it is waiting for, however often it asked both servers for it and        *)
(* however late they answer, because connect() closes the old socket.       *)
RepliesAreExpected ==
  \A c \in Client : replies[c] # <<>> =>
    /\ phase[c] # "idle"
    /\ replies[c] = <<mSeq[c]>>

(* As long as the primary has not crashed, the backup leaves its initial    *)
(* state only after the primary has left its own, however often the backup  *)
(* crashes: a backup that was started first serves no one.                  *)
BackupFollowsPrimary ==
  faults["primary"] = 0 /\ up["backup"] /\ st["backup"] # "Backup"
    => up["primary"] /\ st["primary"] # "Primary"

(* A client is answered in the end if from some moment on no poll times out *)
(* early and there is always a server that answers those who ask it: the    *)
(* client turns to the other server when one is silent.                     *)
CanAnswer(s) == up[s] /\ st[s] \in Answering
ServedWhileAble ==
  <>[][\A c \in Client : PollTimeout(c) => PromptTimeout(c)]_vars
    /\ <>[](\E s \in Server : CanAnswer(s))
      => \A c \in Client : []<>(phase[c] = "idle")

(* Readme.md:5, "High-availability solution": a client is answered.         *)
AlwaysServed ==
  \A c \in Client : phase[c] = "waiting" ~> phase[c] = "idle"
=============================================================================
