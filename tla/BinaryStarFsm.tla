---------------------------- MODULE BinaryStarFsm ----------------------------
(***************************************************************************)
(* The state machine of a Binary Star server: BinaryStarFsm.{h,cpp}.       *)
(***************************************************************************)

StateName == {"Unknown", "Primary", "Backup", "Active", "Passive"}
EventName == {"Unknown", "PeerPrimary", "PeerBackup", "PeerActive",
              "PeerPassive", "ClientRequest"}

(* Mutant: an active server that meets another one steps down.              *)
TransitionsStepDown ==
  { <<"Primary", "PeerBackup",    "Active">>,
    <<"Primary", "ClientRequest", "Active">>,
    <<"Primary", "PeerActive",    "Passive">>,
    <<"Passive", "PeerPassive",   "Unknown">>,
    <<"Passive", "PeerBackup",    "Active">>,
    <<"Passive", "PeerPrimary",   "Active">>,
    <<"Passive", "ClientRequest", "Active">>,
    <<"Active",  "PeerActive",    "Passive">>,
    <<"Active",  "ClientRequest", "Active">>,
    <<"Backup",  "PeerActive",    "Passive">> }

(* connectStates: <<state, event, next state>>.                             *)
Transitions ==
  { <<"Primary", "PeerBackup",    "Active">>,
    <<"Primary", "ClientRequest", "Active">>,
    <<"Primary", "PeerActive",    "Passive">>,
    <<"Passive", "PeerPassive",   "Unknown">>,
    <<"Passive", "PeerBackup",    "Active">>,
    <<"Passive", "PeerPrimary",   "Active">>,
    <<"Passive", "ClientRequest", "Active">>,
    <<"Active",  "PeerActive",    "Unknown">>,
    <<"Active",  "ClientRequest", "Active">>,
    <<"Backup",  "PeerActive",    "Passive">> }

(* Mutant: a backup serves whoever asks.                                    *)
AfterBackupServes(src, evt) ==
  IF src = "Backup" /\ evt = "ClientRequest" THEN "Active"
  ELSE IF \E d \in StateName : <<src, evt, d>> \in Transitions
         THEN CHOOSE d \in StateName : <<src, evt, d>> \in Transitions
         ELSE src

(* trigger: an event the state has no transition for changes nothing.       *)
After(src, evt) ==
  IF \E d \in StateName : <<src, evt, d>> \in Transitions
    THEN CHOOSE d \in StateName : <<src, evt, d>> \in Transitions
    ELSE src
=============================================================================
