------------------------- MODULE AsyncMajordomoCodec -------------------------
(***************************************************************************)
(* The messages of the asynchronous Majordomo as frames:                   *)
(* MajordomoWorkerMessage.cpp, MajordomoClientMessage.cpp, and what the    *)
(* receivers make of the frames they read.                                 *)
(*                                                                         *)
(* A frame is a sequence of bytes.  A message goes one of four ways; a     *)
(* ROUTER that receives puts the sender's identity in front of the frames, *)
(* a ROUTER that sends takes the first frame off as the identity to send   *)
(* to.  Either a message of this code goes over the wire, or a peer of     *)
(* another implementation sends frames of its own, added one by one.       *)
(***************************************************************************)
EXTENDS AsyncMajordomoMessages, Naturals, Sequences

CONSTANTS
  Text,             \* what a service name, an address or a body may be
  Version,          \* gMajVer
  Header,           \* gDiscoveryService
  Identity,         \* the identity of the worker or of the client
  MaxFrames         \* bound: how many frames a foreign message has

VARIABLES
  way,              \* "backUp", "backDown", "frontUp" or "frontDown"
  msg,              \* the message sent
  frames            \* what the receiver's ZmqUtil::recvAllFrames returns

codecVars == <<way, msg, frames>>

Way == {"backUp", "backDown", "frontUp", "frontDown"}
Empty == <<>>
Invalid == [type |-> "Invalid"]      \* a std::optional without a value
Foreign == [type |-> "Foreign"]      \* a message of another implementation

ASSUME CodecAssumption ==
  /\ Text \subseteq Seq(0 .. 255) /\ Empty \in Text
  /\ {Version, Header, Identity} \subseteq Seq(0 .. 255) \ {Empty}
  /\ MaxFrames \in Nat

(* The strings "Ok" and "NotFound".                                         *)
Status == {"Ok", "NotFound"}
StatusFrame(st) == IF st = "Ok" THEN <<79, 107>> ELSE <<78, 111, 116>>
StatusOf(f) == IF f = StatusFrame("Ok") THEN "Ok" ELSE "NotFound"

-----------------------------------------------------------------------------
(* to: the frames of a message, without the identity.                       *)

Code == [Ready |-> <<1>>, Request |-> <<2>>, Reply |-> <<3>>,
         Heartbeat |-> <<4>>, Disconnect |-> <<5>>]

(* Mutant: address and body change places.                                  *)
WorkerToSwapped(m) ==
  <<Empty, Version, Code[m.type]>>
  \o CASE m.type = "Ready" -> <<m.service>>
       [] m.type \in {"Request", "Reply"} -> <<m.body, Empty, m.client>>
       [] m.type \in {"Heartbeat", "Disconnect"} -> <<>>

(* MajordomoWorkerMessage: to() of each struct.                             *)
WorkerTo(m) ==
  <<Empty, Version, Code[m.type]>>
  \o CASE m.type = "Ready" -> <<m.service>>
       [] m.type \in {"Request", "Reply"} -> <<m.client, Empty, m.body>>
       [] m.type \in {"Heartbeat", "Disconnect"} -> <<>>

(* to() of a message that a ROUTER will send starts with the identity; the  *)
(* worker messages put it before the empty frame.                           *)
WorkerToIdentity(m, id) == <<id>> \o WorkerTo(m)

(* MajordomoClientMessage, from the client ...                              *)
ClientTo(m) ==
  CASE m.type = "Discovery" -> <<Header, m.service>>
    [] m.type = "Request" -> <<Empty, Version, m.service, m.body>>

(* ... and to it.  The discovery reply has no empty frame.                  *)
ClientToIdentity(m, id) ==
  CASE m.type = "Discovery" -> <<id, Header, m.service, StatusFrame(m.status)>>
    [] m.type = "Reply" -> <<id, Empty, Version, m.service, m.body>>

-----------------------------------------------------------------------------
(* from: a message, or nothing.                                             *)

(* Frame i; reading past the end gives what no frame holds: no byte is 256. *)
Beyond == <<256>>
Frame(f, i) == IF i \in DOMAIN f THEN f[i] ELSE Beyond

IsWorkerMessage(f, type, n) ==
  Len(f) = n /\ Frame(f, 1) = Empty /\ Frame(f, 3) = Code[type]

ReadyFrom(f) ==
  IF IsWorkerMessage(f, "Ready", 4) THEN Ready(Frame(f, 4)) ELSE Invalid

WorkerRequestFrom(f) ==
  IF IsWorkerMessage(f, "Request", 6) /\ Frame(f, 5) = Empty
    THEN WorkerRequest(Frame(f, 4), Frame(f, 6)) ELSE Invalid

WorkerReplyFrom(f) ==
  IF IsWorkerMessage(f, "Reply", 6)
    THEN WorkerReply(Frame(f, 4), Frame(f, 6)) ELSE Invalid

HeartbeatFrom(f) ==
  IF IsWorkerMessage(f, "Heartbeat", 3) THEN Heartbeat ELSE Invalid

(* Mutant: the frames are not counted.                                      *)
ClientRequestFromUncounted(f) ==
  IF Frame(f, 1) = Empty
    THEN ClientRequest(Frame(f, 3), Frame(f, 4)) ELSE Invalid

ClientRequestFrom(f) ==
  IF Len(f) = 4 /\ Frame(f, 1) = Empty
    THEN ClientRequest(Frame(f, 3), Frame(f, 4)) ELSE Invalid

ClientReplyFrom(f) ==
  IF Len(f) = 4 THEN ClientReply(Frame(f, 3), Frame(f, 4)) ELSE Invalid

DiscoveryRequestFrom(f) ==
  IF Len(f) = 2 /\ Frame(f, 1) = Header
    THEN DiscoveryRequest(Frame(f, 2)) ELSE Invalid

DiscoveryReplyFrom(f) ==
  IF Len(f) = 3 /\ Frame(f, 1) = Header
    THEN DiscoveryReply(Frame(f, 2), StatusOf(Frame(f, 3))) ELSE Invalid

-----------------------------------------------------------------------------
(* What a receiver does with the frames.                                    *)

(* The two returns before handleCmd.                                        *)
HasType(f) == Len(f) >= 3 /\ Len(f[3]) = 1

(* MajordomoBroker: handleWorkerResponse and handleCmd.  Nothing parses a   *)
(* Disconnect: its type is enough.                                          *)
BrokerReadsBack(raw) ==
  LET f == Tail(raw)
  IN  IF ~HasType(f) THEN Invalid
      ELSE CASE f[3] = Code.Heartbeat -> HeartbeatFrom(f)
             [] f[3] = Code.Ready -> ReadyFrom(f)
             [] f[3] = Code.Reply -> WorkerReplyFrom(f)
             [] f[3] = Code.Disconnect -> Disconnect
             [] OTHER -> Invalid

(* MajordomoWorker: handleIncomingMessage and handleCmd.                    *)
WorkerReads(f) ==
  IF ~HasType(f) THEN Invalid
  ELSE CASE f[3] = Code.Request -> WorkerRequestFrom(f)
         [] f[3] = Code.Disconnect -> Disconnect
         [] f[3] = Code.Heartbeat -> Heartbeat
         [] OTHER -> Invalid

(* MajordomoBroker: handleClientRequest.                                    *)
BrokerReadsFront(raw) ==
  LET f == Tail(raw)
  IN  IF DiscoveryRequestFrom(f) # Invalid THEN DiscoveryRequestFrom(f)
                                           ELSE ClientRequestFrom(f)

(* MajordomoClient: handleResponse.                                         *)
ClientReads(f) ==
  IF DiscoveryReplyFrom(f) # Invalid THEN DiscoveryReplyFrom(f)
                                     ELSE ClientReplyFrom(f)

Read(w, f) ==
  CASE w = "backUp" -> BrokerReadsBack(f)
    [] w = "backDown" -> WorkerReads(f)
    [] w = "frontUp" -> BrokerReadsFront(f)
    [] w = "frontDown" -> ClientReads(f)

-----------------------------------------------------------------------------
Sendable(w) ==
  CASE w = "backUp" ->
         {Ready(s) : s \in Text} \cup {Heartbeat, Disconnect}
         \cup {WorkerReply(c, b) : c \in Text, b \in Text}
    [] w = "backDown" ->
         {WorkerRequest(c, b) : c \in Text, b \in Text}
         \cup {Heartbeat, Disconnect}
    [] w = "frontUp" ->
         {DiscoveryRequest(s) : s \in Text}
         \cup {ClientRequest(s, b) : s \in Text, b \in Text}
    [] w = "frontDown" ->
         {DiscoveryReply(s, st) : s \in Text, st \in Status}
         \cup {ClientReply(s, b) : s \in Text, b \in Text}

(* The frames that reach the receiver: a ROUTER puts the identity in front  *)
(* when it receives, and takes the first frame off when it sends.           *)
Received(w, m) ==
  CASE w = "backUp" -> <<Identity>> \o WorkerTo(m)
    [] w = "backDown" -> Tail(WorkerToIdentity(m, Identity))
    [] w = "frontUp" -> <<Identity>> \o ClientTo(m)
    [] w = "frontDown" -> Tail(ClientToIdentity(m, Identity))

(* A message of another implementation starts with what the ROUTER adds.    *)
CodecInit ==
  /\ way \in Way
  /\ \/ msg \in Sendable(way) /\ frames = Received(way, msg)
     \/ msg = Foreign
        /\ frames = IF way \in {"backUp", "frontUp"} THEN <<Identity>>
                                                     ELSE <<>>

OneMoreFrame(f) ==
  /\ msg = Foreign
  /\ Len(frames) < MaxFrames + IF way \in {"backUp", "frontUp"} THEN 1 ELSE 0
  /\ frames' = Append(frames, f)
  /\ UNCHANGED <<way, msg>>

(* No receiver looks at the version: any text may stand for it.  The header *)
(* is a text like any other where no discovery is read.                     *)
CodecNext ==
  \/ \E f \in Text : OneMoreFrame(f)
  \/ way \in {"frontUp", "frontDown"} /\ OneMoreFrame(Header)

CodecSpec == CodecInit /\ [][CodecNext]_codecVars

-----------------------------------------------------------------------------
(* What a peer of this code sends, its receiver reads: the same message and *)
(* nothing else, whatever the bytes of the names, addresses and bodies are. *)
(* The receivers of AsyncMajordomo rely on it: they take no parse error.    *)
SentIsRead == way \in Way /\ msg # Foreign => Read(way, frames) = msg

(* Whatever frames come, no receiver reads one that is not there: every     *)
(* field of what it makes of them is the text of a frame.                   *)
NothingBeyondTheFrames ==
  way \in Way =>
  LET m == Read(way, frames)
  IN  \A field \in DOMAIN m \ {"type", "status"} :
        \E i \in 1 .. Len(frames) : m[field] = frames[i]
=============================================================================
