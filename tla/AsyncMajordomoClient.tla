------------------------- MODULE AsyncMajordomoClient -------------------------
(***************************************************************************)
(* The clients of the asynchronous Majordomo: MajordomoClient.{h,cpp} and  *)
(* the program Client.cpp makes of it.  It pings "echo", waits for the     *)
(* answer but does not look at it, sleeps, sends all its requests without  *)
(* reading anything, then receives until it has an answer for each or a    *)
(* receive comes back empty.                                               *)
(***************************************************************************)
EXTENDS AsyncMajordomoNet

CONSTANTS
  WantOf,           \* WantOf[q]: argv[1] of the client process q
  Echo,             \* the service Client.cpp pings, "echo"
  PingPatience,     \* the 2500 s timeout of the first recv, in ticks
  PauseTicks,       \* the 5 s sleep after it, in ticks
  RecvPatience,     \* the 2500 ms timeout of the other recv's, in ticks
  NoClientId,       \* the identity of a client that has no socket
  NoReply           \* an empty mReply

ASSUME ClientAssumption ==
  /\ WantOf \in [ClientProc -> Service]
  /\ Echo \in Service
  /\ PingPatience \in Nat \ {0}
  /\ PauseTicks \in Nat \ {0}
  /\ RecvPatience \in Nat \ {0}
  /\ NoClientId \notin WorkerId \cup ClientId
  /\ NoReply \notin Body

VARIABLES
  cPhase,           \* where Client.cpp's main is
  cId,              \* the identity of mSocket
  timer,            \* ticks left of the poll or of the sleep main is in
  sent,             \* how many requests were sent
  received,         \* the replies recv() returned to the last loop
  mReply            \* mReply: the last reply parsed

clientVars == <<cPhase, cId, timer, sent, received, mReply>>

ClientPhase == {"off", "pinging", "pausing", "sending", "receiving",
                "stopping", "done"}
MaxTimer == PingPatience + PauseTicks + RecvPatience

ClientTypeOK ==
  /\ cPhase \in [ClientProc -> ClientPhase]
  /\ cId \in [ClientProc -> ClientId \cup {NoClientId}]
  /\ timer \in [ClientProc -> 0 .. MaxTimer]
  /\ sent \in [ClientProc -> 0 .. Requests]
  /\ received \in [ClientProc -> Seq(Body)]
  /\ mReply \in [ClientProc -> Body \cup {NoReply}]

ClientInit ==
  /\ cPhase = [q \in ClientProc |-> "off"]
  /\ cId = [q \in ClientProc |-> NoClientId]
  /\ timer = [q \in ClientProc |-> 0]
  /\ sent = [q \in ClientProc |-> 0]
  /\ received = [q \in ClientProc |-> <<>>]
  /\ mReply = [q \in ClientProc |-> NoReply]

-----------------------------------------------------------------------------
(* connect(), and the end of the process: the old socket is closed and the  *)
(* broker still reads the `flushed' oldest messages of it.  A socket with   *)
(* the identity id starts with the messages in first.                       *)
ClientSocket(q, id, first, flushed) ==
  LET old == cId[q]
  IN  /\ old # NoClientId => flushed <= Len(frontUp[old])
      /\ peers' = (peers \ {old}) \cup ({id} \ {NoClientId})
      /\ frontUp' = [c \in ClientId |->
                       IF c = id THEN first
                       ELSE IF c = old THEN Oldest(frontUp[c], flushed)
                       ELSE frontUp[c]]
      /\ frontDown' = [c \in ClientId |->
                         IF c \in {id, old} THEN <<>> ELSE frontDown[c]]
      /\ cId' = [cId EXCEPT ![q] = id]
      /\ UNCHANGED <<backUp, backDown>>

Goto(q, phase, ticks) ==
  /\ cPhase' = [cPhase EXCEPT ![q] = phase]
  /\ timer' = [timer EXCEPT ![q] = ticks]

(* The constructor and ping().                                              *)
ClientStart(q, id) ==
  /\ cPhase[q] = "off"
  /\ ClientSocket(q, id, <<DiscoveryRequest(Echo)>>, 0)
  /\ Goto(q, "pinging", PingPatience)
  /\ UNCHANGED <<sent, received, mReply>>

(* recv() with an event: handleResponse reads one message.  Only a reply    *)
(* sets mReply, and mReply is what recv() returns.                          *)
HandleResponse(q) ==
  /\ frontDown[cId[q]] # <<>>
  /\ frontDown' = [frontDown EXCEPT ![cId[q]] = Tail(@)]
  /\ LET m == Head(frontDown[cId[q]])
     IN  mReply' = [mReply EXCEPT ![q] = IF m.type = "Reply" THEN m.body ELSE @]
  /\ UNCHANGED <<cId, sent, peers, backUp, backDown, frontUp>>

ClientPong(q) ==
  /\ cPhase[q] = "pinging"
  /\ HandleResponse(q)
  /\ Goto(q, "pausing", PauseTicks)
  /\ UNCHANGED received

ClientPingTimeout(q, id, flushed) ==
  /\ cPhase[q] = "pinging"
  /\ timer[q] = 0 /\ frontDown[cId[q]] = <<>>
  /\ ClientSocket(q, id, <<>>, flushed)
  /\ Goto(q, "pausing", PauseTicks)
  /\ UNCHANGED <<sent, received, mReply>>

ClientResume(q) ==
  /\ cPhase[q] = "pausing"
  /\ timer[q] = 0
  /\ Goto(q, "sending", 0)
  /\ UNCHANGED <<cId, sent, received, mReply, netVars>>

(* send(): one iteration of the first loop of main.                         *)
ClientSend(q) ==
  /\ cPhase[q] = "sending"
  /\ Room(frontUp[cId[q]], 1, FrontHwm)
  /\ sent' = [sent EXCEPT ![q] = @ + 1]
  /\ frontUp' = [frontUp EXCEPT
       ![cId[q]] = Append(@, ClientRequest(WantOf[q], <<q, sent[q] + 1>>))]
  /\ IF sent[q] + 1 = Requests THEN Goto(q, "receiving", RecvPatience)
                               ELSE UNCHANGED <<cPhase, timer>>
  /\ UNCHANGED <<cId, received, mReply, peers, backUp, backDown, frontDown>>

(* Mutant: the second loop stops one reply short.                           *)
ClientReceiveOneShort(q) ==
  /\ cPhase[q] = "receiving"
  /\ HandleResponse(q)
  /\ IF mReply'[q] = NoReply
       THEN Goto(q, "stopping", 0) /\ UNCHANGED received
       ELSE /\ received' = [received EXCEPT ![q] = Append(@, mReply'[q])]
            /\ IF Len(received[q]) + 1 = Requests - 1
                 THEN Goto(q, "stopping", 0)
                 ELSE Goto(q, "receiving", RecvPatience)

(* recv(): one iteration of the second loop of main.                        *)
ClientReceive(q) ==
  /\ cPhase[q] = "receiving"
  /\ HandleResponse(q)
  /\ IF mReply'[q] = NoReply
       THEN Goto(q, "stopping", 0) /\ UNCHANGED received
       ELSE /\ received' = [received EXCEPT ![q] = Append(@, mReply'[q])]
            /\ IF Len(received[q]) + 1 = Requests
                 THEN Goto(q, "stopping", 0)
                 ELSE Goto(q, "receiving", RecvPatience)

(* Mutant: recv() without an event returns the last mReply (as in           *)
(* App/Majordomo, the synchronous client).                                  *)
ClientRecvTimeoutStale(q, id, flushed) ==
  /\ cPhase[q] = "receiving"
  /\ timer[q] = 0 /\ frontDown[cId[q]] = <<>>
  /\ ClientSocket(q, id, <<>>, flushed)
  /\ Goto(q, "stopping", 0)
  /\ received' = [received EXCEPT
       ![q] = IF mReply[q] = NoReply THEN @ ELSE Append(@, mReply[q])]
  /\ UNCHANGED <<sent, mReply>>

(* Mutant: recv() without an event sends the first unanswered request       *)
(* again.                                                                   *)
ClientRecvTimeoutResends(q, id, flushed) ==
  /\ cPhase[q] = "receiving"
  /\ timer[q] = 0 /\ frontDown[cId[q]] = <<>>
  /\ ClientSocket(q, id, <<ClientRequest(WantOf[q],
                                         <<q, Len(received[q]) + 1>>)>>, flushed)
  /\ Goto(q, "receiving", RecvPatience)
  /\ UNCHANGED <<sent, received, mReply>>

(* recv() without an event: connect() with a new identity, and the empty    *)
(* result ends the loop.                                                    *)
ClientRecvTimeout(q, id, flushed) ==
  /\ cPhase[q] = "receiving"
  /\ timer[q] = 0 /\ frontDown[cId[q]] = <<>>
  /\ ClientSocket(q, id, <<>>, flushed)
  /\ Goto(q, "stopping", 0)
  /\ UNCHANGED <<sent, received, mReply>>

(* main returns, or the process is killed.                                  *)
ClientEnds(q, flushed) ==
  /\ ClientSocket(q, NoClientId, <<>>, flushed)
  /\ Goto(q, "done", 0)
  /\ UNCHANGED <<sent, received, mReply>>

ClientExit(q, flushed) == cPhase[q] = "stopping" /\ ClientEnds(q, flushed)

ClientCrash(q, flushed) ==
  /\ cPhase[q] \in {"pinging", "pausing", "sending", "receiving"}
  /\ ClientEnds(q, flushed)

(* A tick of the clock, for the clients.                                    *)
ClientTick ==
  /\ timer' = [q \in ClientProc |-> IF timer[q] = 0 THEN 0 ELSE timer[q] - 1]
  /\ UNCHANGED <<cPhase, cId, sent, received, mReply>>
=============================================================================
