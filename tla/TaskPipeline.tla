---------------------------- MODULE TaskPipeline ----------------------------
(***************************************************************************)
(* Ventilator, workers and sink: Worker/TaskVentilator.cpp, TaskWorker.cpp *)
(* and TaskSink.cpp.                                                       *)
(*                                                                         *)
(* The sink takes the first message for the start signal, whatever it is.  *)
(* A worker obeys "STOP" if its subscription has reached the sink by then. *)
(***************************************************************************)
EXTENDS Naturals, FiniteSets

CONSTANTS
  TaskWorker,
  Tasks             \* 100

ASSUME TaskAssumption == Tasks \in Nat /\ IsFiniteSet(TaskWorker)

VARIABLES
  sent,             \* the tasks that the ventilator has sent
  startSent,        \* the start signal is in the sink's socket, read or not
  queued,           \* how many tasks wait for each worker
  results,          \* how many messages wait for the sink
  received,         \* how many it has received, the first one included
  stopSent,         \* it has published "STOP"
  taskWorker,       \* "off", "running" or "ended"
  stopHeard         \* the workers whose subscription was there in time

taskVars == <<sent, startSent, queued, results, received, stopSent, taskWorker,
              stopHeard>>

TaskInit ==
  /\ sent = 0 /\ startSent = FALSE /\ results = 0 /\ received = 0
  /\ queued = [w \in TaskWorker |-> 0]
  /\ stopSent = FALSE /\ stopHeard = {}
  /\ taskWorker = [w \in TaskWorker |-> "off"]

-----------------------------------------------------------------------------
(* sendStart has a socket of its own: the tasks need not wait for it.       *)
StartArrives ==
  /\ ~startSent
  /\ startSent' = TRUE /\ results' = results + 1
  /\ UNCHANGED <<sent, queued, received, stopSent, taskWorker, stopHeard>>

(* PUSH gives each task to a worker that is connected.                      *)
SendTask(w) ==
  /\ sent < Tasks /\ taskWorker[w] = "running"
  /\ sent' = sent + 1
  /\ queued' = [queued EXCEPT ![w] = @ + 1]
  /\ UNCHANGED <<startSent, results, received, stopSent, taskWorker, stopHeard>>

TaskWorkerStarts(w) ==
  /\ taskWorker[w] = "off"
  /\ taskWorker' = [taskWorker EXCEPT ![w] = "running"]
  /\ UNCHANGED <<sent, startSent, queued, results, received, stopSent, stopHeard>>

DoTask(w) ==
  /\ taskWorker[w] = "running" /\ queued[w] > 0
  /\ queued' = [queued EXCEPT ![w] = @ - 1]
  /\ results' = results + 1
  /\ UNCHANGED <<sent, startSent, received, stopSent, taskWorker, stopHeard>>

TaskWorkerStops(w) ==
  /\ taskWorker[w] = "running" /\ w \in stopHeard
  /\ taskWorker' = [taskWorker EXCEPT ![w] = "ended"]
  /\ UNCHANGED <<sent, startSent, queued, results, received, stopSent, stopHeard>>

SinkReceives ==
  /\ results > 0 /\ received < Tasks + 1
  /\ results' = results - 1 /\ received' = received + 1
  /\ UNCHANGED <<sent, startSent, queued, stopSent, taskWorker, stopHeard>>

(* Mutant: the start signal is counted as a result.                         *)
SinkStopsOneEarly ==
  /\ received >= Tasks /\ ~stopSent
  /\ stopSent' = TRUE
  /\ stopHeard' \in SUBSET {w \in TaskWorker : taskWorker[w] = "running"}
  /\ UNCHANGED <<sent, startSent, queued, results, received, taskWorker>>

SinkStops ==
  /\ received = Tasks + 1 /\ ~stopSent
  /\ stopSent' = TRUE
  /\ stopHeard' \in SUBSET {w \in TaskWorker : taskWorker[w] = "running"}
  /\ UNCHANGED <<sent, startSent, queued, results, received, taskWorker>>

TaskNext ==
  \/ StartArrives \/ SinkReceives \/ SinkStops
  \/ \E w \in TaskWorker :
       SendTask(w) \/ TaskWorkerStarts(w) \/ DoTask(w) \/ TaskWorkerStops(w)

TaskSpec == TaskInit /\ [][TaskNext]_taskVars

-----------------------------------------------------------------------------
(* No task is left when the workers are stopped: the sink receives as many  *)
(* messages as there are tasks and one, in whatever order the start signal  *)
(* and the results come.                                                    *)
StoppedWhenDone ==
  stopSent => sent = Tasks /\ startSent /\ \A w \in TaskWorker : queued[w] = 0
=============================================================================
