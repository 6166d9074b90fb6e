------------------------------ MODULE Patterns ------------------------------
(***************************************************************************)
(* The small programs and the codecs, side by side: `program' is the one   *)
(* that runs, and the others stay in an initial state.  They share no      *)
(* state.                                                                  *)
(***************************************************************************)
EXTENDS InterBroker, Freelance, SimplePirate, LazyPirate, LoadBalancing,
        AsyncServer, SyncPubSub, TaskPipeline, MajordomoCodec

VARIABLE program

Program == {"InterBroker", "Freelance", "SimplePirate", "LazyPirate",
            "LoadBalancing", "AsyncServer", "SyncPubSub", "TaskPipeline", "Codec"}

PatternsInit ==
  /\ program \in Program
  /\ RouterInit /\ FreelanceInit /\ SimplePirateInit /\ LazyInit /\ LbInit
  /\ AsInit /\ SyncPubInit /\ TaskInit
  /\ CodecInit \/ SyncInit
  /\ program # "Freelance" => hostUp = [s \in Host |-> TRUE]
  /\ program # "LazyPirate" => lzCycles = 0
  /\ program # "Codec" => way = "backUp" /\ msg = Heartbeat

PatternsNext ==
  /\ UNCHANGED program
  /\ \/ /\ program = "InterBroker" /\ InterNext
        /\ UNCHANGED <<flVars, spVars, lzVars, lbVars, asVars, pubVars,
                        taskVars, codecVars>>
     \/ /\ program = "Freelance" /\ FreelanceNext
        /\ UNCHANGED <<interVars, spVars, lzVars, lbVars, asVars, pubVars,
                        taskVars, codecVars>>
     \/ /\ program = "SimplePirate" /\ SimplePirateNext
        /\ UNCHANGED <<interVars, flVars, lzVars, lbVars, asVars, pubVars,
                        taskVars, codecVars>>
     \/ /\ program = "LazyPirate" /\ LazyNext
        /\ UNCHANGED <<interVars, flVars, spVars, lbVars, asVars, pubVars,
                        taskVars, codecVars>>
     \/ /\ program = "LoadBalancing" /\ LbNext
        /\ UNCHANGED <<interVars, flVars, spVars, lzVars, asVars, pubVars,
                        taskVars, codecVars>>
     \/ /\ program = "AsyncServer" /\ AsNext
        /\ UNCHANGED <<interVars, flVars, spVars, lzVars, lbVars, pubVars,
                        taskVars, codecVars>>
     \/ /\ program = "SyncPubSub" /\ SyncPubNext
        /\ UNCHANGED <<interVars, flVars, spVars, lzVars, lbVars, asVars,
                        taskVars, codecVars>>
     \/ /\ program = "TaskPipeline" /\ TaskNext
        /\ UNCHANGED <<interVars, flVars, spVars, lzVars, lbVars, asVars,
                        pubVars, codecVars>>
     \/ /\ program = "Codec" /\ CodecNext
        /\ UNCHANGED <<interVars, flVars, spVars, lzVars, lbVars, asVars,
                        pubVars, taskVars>>

(* The fairness of the program that runs.                                   *)
Inter == program = "InterBroker"
Lance == program = "Freelance"
Pirate == program = "SimplePirate"
Lb == program = "LoadBalancing"
Async == program = "AsyncServer"
Pub == program = "SyncPubSub"

PatternsFairness ==
  /\ \A b \in Router : WF_interVars(Inter /\ RouterStep(b))
  /\ \A w \in RouterWorker : WF_interVars(Inter /\ DoWork(w))
  /\ \A c \in RouterClient : WF_interVars(Inter /\ ReadAnswer(c))
  /\ WF_flVars(Lance /\ ProxyStep) /\ WF_flVars(Lance /\ SendPing)
  /\ WF_flVars(Lance /\ SendCommand) /\ WF_flVars(Lance /\ Second)
  /\ \A s \in Host : WF_flVars(Lance /\ Handshake(s))
                      /\ WF_flVars(Lance /\ HostAnswers(s))
  /\ WF_spVars(Pirate /\ SpQueueStep)
  /\ \A w \in PirateWorker : WF_spVars(Pirate /\ SpWorkerReplies(w))
  /\ WF_lbVars(Lb /\ LbMainStep)
  /\ \A c \in LbClient : WF_lbVars(Lb /\ LbClientStep(c))
  /\ \A w \in LbWorker : WF_lbVars(Lb /\ LbWorkerStep(w))
  /\ WF_asVars(Async /\ AsJoin)
  /\ \A c \in AsClient : WF_asVars(Async /\ AsClientStep(c))
                          /\ SF_asVars(Async /\ AsForwardRequest(c))
  /\ \A w \in AsWorker : WF_asVars(Async /\ AsWorkerStep(w))
                          /\ WF_asVars(Async /\ AsForwardReply(w))
  /\ WF_pubVars(Pub /\ PubStep)
  /\ \A s \in Subscriber : WF_pubVars(Pub /\ SubStep(s))

PatternsSpec ==
  /\ PatternsInit
  /\ [][PatternsNext]_<<program, interVars, flVars, spVars, lzVars, lbVars,
                        asVars, pubVars, taskVars, codecVars>>
  /\ PatternsFairness
=============================================================================
