------------------------ MODULE AsyncMajordomoMessages ------------------------
(***************************************************************************)
(* The messages of the asynchronous Majordomo, as the structs of           *)
(* MajordomoWorkerMessage.h and MajordomoClientMessage.h hold them: by     *)
(* field, not by frame.  All but the version, which is always gMajVer.     *)
(* AsyncMajordomoCodec is about their frames.                              *)
(***************************************************************************)

(* Between a worker and the broker.                                         *)
Ready(s) == [type |-> "Ready", service |-> s]
WorkerRequest(c, b) == [type |-> "Request", client |-> c, body |-> b]
WorkerReply(c, b) == [type |-> "Reply", client |-> c, body |-> b]
Heartbeat == [type |-> "Heartbeat"]
Disconnect == [type |-> "Disconnect"]

(* Between a client and the broker.                                         *)
DiscoveryRequest(s) == [type |-> "Discovery", service |-> s]
DiscoveryReply(s, st) == [type |-> "Discovery", service |-> s, status |-> st]
ClientRequest(s, b) == [type |-> "Request", service |-> s, body |-> b]
ClientReply(s, b) == [type |-> "Reply", service |-> s, body |-> b]
=============================================================================
