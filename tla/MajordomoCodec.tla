--------------------------- MODULE MajordomoCodec ---------------------------
(***************************************************************************)
(* The frames of the synchronous Majordomo: MajordomoWorkerData.h,         *)
(* MajordomoClientData.h, and what the receivers make of them.  The client *)
(* has a REQ socket, which puts an empty frame in front of what it sends   *)
(* and takes one off what it receives; the broker takes that one off, too, *)
(* and finds the empty frame of MajordomoClientCmd::Request behind it.     *)
(*                                                                         *)
(* The messages, the codes and the ROUTER are those of AsyncMajordomoCodec;*)
(* its state is used for one more protocol.                                *)
(***************************************************************************)
EXTENDS AsyncMajordomoCodec

SyncWay == {"syncBackUp", "syncBackDown", "syncFrontUp", "syncFrontDown"}

(* to() of the structs of MajordomoWorkerCmd ...                            *)
CommandTo(m) ==
  CASE m.type = "Ready" -> <<Empty, Version, Code[m.type], m.service>>
    [] m.type \in {"Request", "Reply"} ->
         <<Empty, Version, Code[m.type], m.client, Empty, m.body>>
    [] m.type \in {"Heartbeat", "Disconnect"} ->
         <<Empty, Version, Code[m.type]>>

(* ... and of MajordomoClientCmd: request and reply have the same frames.   *)
ClientCommandTo(m) == <<Empty, Version, m.service, m.body>>

(* from(): the frames of a command of the type, or nothing.                 *)
IsCommand(f, type, n) ==
  Len(f) = n /\ Frame(f, 1) = Empty /\ Frame(f, 3) = Code[type]

CommandReadyFrom(f) ==
  IF IsCommand(f, "Ready", 4) THEN Ready(Frame(f, 4)) ELSE Invalid

CommandRequestFrom(f) ==
  IF IsCommand(f, "Request", 6) /\ Frame(f, 5) = Empty
    THEN WorkerRequest(Frame(f, 4), Frame(f, 6)) ELSE Invalid

CommandReplyFrom(f) ==
  IF IsCommand(f, "Reply", 6)
    THEN WorkerReply(Frame(f, 4), Frame(f, 6)) ELSE Invalid

CommandHeartbeatFrom(f) ==
  IF IsCommand(f, "Heartbeat", 3) THEN Heartbeat ELSE Invalid

SyncRequestFrom(f) ==
  IF Len(f) = 4 /\ Frame(f, 1) = Empty
    THEN ClientRequest(Frame(f, 3), Frame(f, 4)) ELSE Invalid

(* Mutant: the reply is parsed as if REQ left the empty frame there.        *)
SyncReplyFromFourFrames(f) ==
  IF Len(f) = 4 THEN ClientReply(Frame(f, 3), Frame(f, 4)) ELSE Invalid

(* The empty frame that Reply::to puts first is the delimiter REQ removes.  *)
SyncReplyFrom(f) ==
  IF Len(f) = 3 THEN ClientReply(Frame(f, 2), Frame(f, 3)) ELSE Invalid

-----------------------------------------------------------------------------
(* handleWorkerResponse and handleCmd of MajordomoBroker ...                *)
SyncBrokerReadsBack(raw) ==
  LET f == Tail(raw)
  IN  IF ~HasType(f) THEN Invalid
      ELSE CASE f[3] = Code.Heartbeat -> CommandHeartbeatFrom(f)
             [] f[3] = Code.Ready -> CommandReadyFrom(f)
             [] f[3] = Code.Reply -> CommandReplyFrom(f)
             [] OTHER -> Invalid

(* ... handleIncomingMessage and handleCmd of MajordomoWorker ...           *)
SyncWorkerReads(f) ==
  IF ~HasType(f) THEN Invalid
  ELSE CASE f[3] = Code.Request -> CommandRequestFrom(f)
         [] f[3] = Code.Disconnect -> Disconnect
         [] f[3] = Code.Heartbeat -> Heartbeat
         [] OTHER -> Invalid

SyncRead(w, f) ==
  CASE w = "syncBackUp" -> SyncBrokerReadsBack(f)
    [] w = "syncBackDown" -> SyncWorkerReads(f)
    [] w = "syncFrontUp" -> SyncRequestFrom(SubSeq(f, 3, Len(f)))
    [] w = "syncFrontDown" -> SyncReplyFrom(f)

SyncSendable(w) ==
  CASE w = "syncBackUp" -> Sendable("backUp") \ {Disconnect}
    [] w = "syncBackDown" -> Sendable("backDown") \ {Disconnect}
    [] w = "syncFrontUp" -> {ClientRequest(s, b) : s \in Text, b \in Text}
    [] w = "syncFrontDown" -> {ClientReply(s, b) : s \in Text, b \in Text}

(* What reaches the receiver.                                               *)
SyncReceived(w, m) ==
  CASE w = "syncBackUp" -> <<Identity>> \o CommandTo(m)
    [] w = "syncBackDown" -> CommandTo(m)
    [] w = "syncFrontUp" -> <<Identity, Empty>> \o ClientCommandTo(m)
    [] w = "syncFrontDown" -> Tail(ClientCommandTo(m))

SyncInit ==
  /\ way \in SyncWay
  /\ msg \in SyncSendable(way)
  /\ frames = SyncReceived(way, msg)

(* What one part of either Majordomo sends another reads as the same        *)
(* message, whatever its texts are.  In the synchronous one the two empty   *)
(* frames of a request and the one of a reply are each taken off by         *)
(* someone, once.                                                           *)
EverySentIsRead ==
  /\ SentIsRead
  /\ way \in SyncWay /\ msg # Foreign => SyncRead(way, frames) = msg
=============================================================================
