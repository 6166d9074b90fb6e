# A verification project for zmq_do

`zmq_do` is a C++ collection of the patterns of the ZeroMQ guide, each a small
distributed program of a few processes or threads over libzmq sockets (`App/*`),
with a few shared helpers (`Shared/*`). There is no state on disk: what a process
knows dies with it, and everything interesting is in the order of messages, timeouts
and restarts. This directory models every program that has state to be wrong about,
model-checks them with TLC and proves the safety of the larger ones with TLAPS.

- [Inventory](#inventory)
- [Modules](#modules)
- [The asynchronous Majordomo](#the-asynchronous-majordomo)
- [The synchronous Majordomo](#the-synchronous-majordomo)
- [The codecs](#the-codecs)
- [The Binary Star](#the-binary-star)
- [The Paranoid Pirate](#the-paranoid-pirate)
- [The small programs](#the-small-programs)
- [Runs](#runs)
- [Proofs](#proofs)
- [Where code and documentation disagree](#where-code-and-documentation-disagree)
- [Not modelled, and why](#not-modelled-and-why)

Run any instance with `tlc -config <Run>.cfg <MC module>.tla`, any proof with
`tlapm <Module>.tla`. `PROJECT.json` maps each definition to the lines it models.

## Inventory

| Part (`src/...`) | State | Operations | What is hard | What makes it correct |
|---|---|---|---|---|
| `App/AsyncMajordomo` broker | registered workers with expiry; per service a queue of idle workers and one of pending requests; heartbeat deadline | client request, discovery, Ready, Reply, Heartbeat, Disconnect, purge, heartbeat | stale identities, loss at the sockets, restart with empty maps, double entries in a pool | work conserving, one request per worker, pools hold registered workers, at most once, recovery |
| `App/AsyncMajordomo` worker | socket identity, count of silent periods, deadline | connect, receive, heartbeat, sleep and reconnect | early timeouts, reconnection with messages in flight | rejoins, does not give up on a live broker |
| `App/AsyncMajordomo` client | socket identity, last reply | ping, send, recv | no retry, stale `mReply`, reply to an old identity | its own replies, in order, once |
| `App/AsyncMajordomo` messages | none | `to`, `from` of nine structs | free text beside type bytes, frame counts | round trip, nothing read past the end |
| `App/BinaryStar` server | state machine, publication deadline | client request, peer state, publication | stale states, both active, both unknown | never both passive, the backup serves no one first |
| `App/BinaryStar` client | sequence number, address turn, socket | send, receive, fail over | second answer to one request, settling on a silent server | replies expected, served while someone can answer |
| `App/Majordomo` | as the asynchronous one, without discovery, without a word to unknown workers, and requests are given out only when one arrives; client with retries | client request, Ready, Reply, Heartbeat, purge; send with retries | requests and workers that wait side by side, stale `mReply` after the last retry, restart with empty maps | an arrival takes up what waited, an answer fits its question, recovery |
| `App/ParanoidPirate` queue | idle workers in order, with expiry; heartbeat deadline | front, back, heartbeat, purge | a late reply and a ready of one worker, heartbeats of workers it does not list, restart with an empty list | listed once, the dead are forgotten |
| `App/ParanoidPirate` worker | two deadlines, count of requests | request, heartbeat, nap and new socket, crash and overload at random | a busy worker gets no heartbeats and takes the queue for lost | returns to the list |
| `App/LazyPirate` client | retries, socket | send, retry on a new socket, give up | an abandoned attempt that is still executed | attempts are not mixed up |
| `App/LazyPirate` server | count of requests | serve, overload, crash | requests that nobody waits for any more use up the others' patience | an overload alone makes nobody give up |
| `App/Freelance` | servers available with expiry; three threads of the client | ping, pong, purge, forward a command, answer | one message moved from in a loop over servers; who is purged must be heard of again | one server gets a command, who lives becomes available |
| `App/InterBroker` | idle local workers, peers that announce some | route local, route to a peer, lend, publish | two handlers of one poll want the same worker; a request is read before there is one | a worker is counted on once, no request lost between brokers |
| `App/SimplePirate` | idle workers in order; whether the frontend is polled | front, back | the queue never learns that a worker died; the frontend leaves the poller | each death costs one request, requests are taken up |
| `App/LoadBalancingBroker` | idle workers in order; SIGINT flag | front, back, joins | a frontend that is announced and not read; threads that main joins | clients are served, the program ends |
| `App/AsyncClientServer` | threads' loops; SIGINT flag | send, reply several times, proxy | every reply leads to one more request until all pipes are full | sends do not block each other for good |
| `App/SyncPubSub` | count of reports | report, release, updates, end | slow joiner | all are there before the start |
| `App/Worker` | counts of tasks and results | start signal, task, result, STOP | the sink takes any first message for the signal | no task is left when the workers stop |
| `App/MultiThreadedRelay`, `MultiThreadedServer`, `AsyncRequestReply`, `RequestReply`, `RouterDealer`, `RouterRequest`, `PubSub`, `Identity`, `SocketPoller` | none of their own | one socket pattern each | whatever libzmq does | - |
| `App/Titanic` | no code | | | |
| `Shared/*` | none | frames, random names, stopwatch | off-by-one in `RandomString` | - |

Processes interact only through sockets, and so do the threads of one process, but
for the SIGINT flags; hence a handler is atomic. libzmq is not part of the
repository: its queues are modelled from how the code uses them and marked external
in the map.

## Modules

| Module | Models | Extends |
|---|---|---|
| `Subsequences` | what is left of a sequence when some elements are taken out | |
| `AsyncMajordomoMessages` | the message structs | |
| `AsyncMajordomoNet` | the two links: queues, high-water marks, broken connections | Messages, Subsequences |
| `AsyncMajordomoBroker` | `MajordomoBroker.*`, `Broker.cpp` | Net |
| `AsyncMajordomoWorker` | `MajordomoWorker.*`, `Worker.cpp` | Net |
| `AsyncMajordomoClient` | `MajordomoClient.*`, `Client.cpp` | Net |
| `AsyncMajordomo` | all of them with faults and a clock; the properties | Broker, Worker, Client |
| `RequestLifecycle` | abstract specification: what a client may count on | |
| `AsyncMajordomoCodec` | `MajordomoWorkerMessage.cpp`, `MajordomoClientMessage.cpp`, parsing | Messages |
| `QueueProofs` | lemmas about sequences, `Pick`, and what is to be found in queues | Subsequences |
| `AsyncMajordomoProofs`, `AsyncMajordomoOnceProofs`, `AsyncMajordomoLifecycleProofs` | lemmas and theorems | AsyncMajordomo, QueueProofs |
| `MajordomoBroker` | `Majordomo/MajordomoBroker.*`, `Broker.cpp` and the sockets | Subsequences |
| `MajordomoWorker` | `Majordomo/MajordomoWorker.*`, `Worker.cpp` | MajordomoBroker |
| `MajordomoClient` | `Majordomo/MajordomoClient.*`, `Client.cpp` | MajordomoBroker |
| `Majordomo` | all of them with crashes and a clock; the properties | MajordomoWorker, MajordomoClient |
| `MajordomoProofs` | lemmas and theorems | Majordomo, QueueProofs |
| `MajordomoCodec` | `MajordomoWorkerData.h`, `MajordomoClientData.h`, parsing | AsyncMajordomoCodec |
| `BinaryStarFsm` | `BinaryStarFsm.*` | |
| `BinaryStarServer` | `BinaryStarServer.*`, `Server.cpp` | Fsm, Subsequences |
| `BinaryStarClient` | `BinaryStarClient.*`, `Client.cpp` | Server |
| `BinaryStar` | both servers, clients, crashes; the properties | Client |
| `BinaryStarProofs` | lemmas and theorems | BinaryStar, QueueProofs |
| `ParanoidPirateQueue` | `ParanoidPirateQueue.cpp`, `WorkerQueue.*` and the sockets | Subsequences |
| `ParanoidPirateWorker` | `ParanoidPirateWorker.cpp` | Queue |
| `LazyPirateClient` | `LazyPirate/Client.cpp` | Queue |
| `ParanoidPirate` | all of them with crashes of the queue and a clock; the properties | Worker, Client |
| `ParanoidPirateProofs` | lemmas and theorems | ParanoidPirate, QueueProofs |
| `InterBroker` | `WorkRouter.*`, `BrokerState.*`, `Client.cpp`, `Worker.cpp` | |
| `Freelance` | `FreelanceClientProxy.*`, `FreelanceServer.*` and the services | |
| `SimplePirate` | `SimplePirateQueue.cpp`, `SimplePirateWorker.cpp`, impatient clients | |
| `LazyPirate` | `LazyPirate/Server.cpp` with its clients and their times | |
| `LoadBalancing` | `LoadBalancingBroker.cpp` | |
| `AsyncServer` | `AsyncClientServer.cpp` | |
| `SyncPubSub` | `SyncPub.cpp`, `SyncSub.cpp` | |
| `TaskPipeline` | `TaskVentilator.cpp`, `TaskWorker.cpp`, `TaskSink.cpp` | |
| `Patterns` | the eight programs above from `InterBroker` on and the codecs, one at a time | all of these |
| `PatternsProofs` | lemmas and theorems | InterBroker, Freelance, SimplePirate, TaskPipeline |
| `MCAsyncMajordomo`, `MCMajordomo`, `MCBinaryStar`, `MCParanoidPirate`, `MCPatterns` | instances for TLC | the above |

A definition introduced by a comment that starts with *Mutant* is not part of any
specification: it is a variant of the definition after it with a plausible mistake,
and shows that the property named in `PROJECT.json` would notice the mistake.

## The asynchronous Majordomo

Clients send requests for a service to the broker's front socket; workers register
for a service at its back socket with Ready and get one request at a time; both
sides of the back link exchange heartbeats.

**State.** `registered`, `ttl`, `services`, `idle`, `pending` are
`mRegisteredWorkers` (service and expiry) and `mServices` (keys and both deques);
`wId`, `missing`, `elapsed`, `wPhase` the worker's socket identity,
`mMissingHeartbeat`, deadline and place in the loop; `cId`, `mReply`, `cPhase`,
`sent`, `received` the client's and those of `main`. A link is four families of
queues, one per identity and direction; `peers` are the identities with an open
connection.

**Actions.** One handler call is one action: `HandleWorkerResponse` and
`HandleClientRequest` with everything they call, down to `SendPendingRequests`;
`Housekeeping` is the purge and the heartbeats at the end of an iteration, and
`todo` keeps the order inside an iteration (back, front, housekeeping). One
iteration of `MajordomoWorker::receive` is one action. The client has one action per
call of `main`.

**Time.** Expiry, sleep and patience are counters of ticks of one second that `Tick`
decrements. In `Spec` a tick may happen at any moment, which lets every timeout come
too early: a superset of what any scheduler can do, for safety. In `PromptSpec` a
tick waits until every process has done all it can do at once. The code's periods are
1 s and more and a handler takes microseconds, so this is its normal regime.

**Faults** (`FaultKinds`, at most `MaxFaults`): the broker, a worker or a client is
killed; a connection breaks and comes back; a worker of another implementation says
Disconnect and leaves. A killed process or a broken connection loses any part of what
was in flight that TCP and libzmq can lose, and the killed broker starts again empty.

**Identities.** `RandomString::generate( 5 )` gives a new identity that nothing still
mentions (`FreshWorkerId`, `FreshClientId`). Two connections with one identity at one
time do not occur in the model; in the code they have a probability of 1 in 63^5.

**Refinement.** `RequestLifecycle` knows a stage per request and nothing else.
`StageOf` computes it from the place the request is in, and `LifecycleSpec` states
that each step of the system is a step of the abstract one or none. Executed at most
once, answered at most once, never answered without having been executed, and never
more requests with workers than there are worker processes: all follow.

**Fairness** (`FairSpec`): each process that can take a step does so in the end (its
loop does not block while it has something to do), time passes, and a broker or a
worker that is not running is started. Nothing is assumed of faults or of the start
of a client.

## The synchronous Majordomo

The same protocol with a client that waits for each answer. Three things differ and
each is where it could go wrong. `handleReply` and `handleReady` return a worker to its
pool without a look at `pendingRequests`, so requests and workers of one service may
wait side by side until the next request of that service arrives. `send()` tries three
times, each time on a new socket, so a request may be executed three times, and what
it returns after the last attempt is the member `mReply`, which may be that of the
request before. And the broker does not answer an unknown worker, which finds out by
silence.

**State and actions** are those of the asynchronous model, name by name. Each attempt
has a socket of its own, so an address is `<<client, number of the socket>>`; what a
REQ socket drops because it is closed or out of turn is not in `sockets` any more.
`todo` keeps the order of an iteration: back socket, front socket, purge and
heartbeats. An iteration of `MajordomoWorker::receive` is one action, or two when it
sleeps before it reconnects.

**Time** is prompt: a tick of one heartbeat period waits until everyone is at rest.
**Faults:** the broker or a worker crashes, at any moment, with all that is in its
sockets. **Fairness** is that of every process's loop, of time, and of the restart of
the broker and of workers; clients need not start.

**What the run rests on.** `ArrivalsHandOut` is the loop of `handleClientRequest`,
which looks at the queue and not at the request it just read: after each request that
the broker reads, its service has no worker idle or no request pending, whatever stood
side by side before. `AnswerFits` is about
replies that end a wait, late ones of an earlier attempt included; a `send()` that gives
up returns `mReply` as it is, and `main` goes on if an earlier reply is in it (`GiveUp`,
`Ended`), which is what the code does and no property denies. `OneRequestPerWorker` needs that a
worker sleeps and takes a new identity before it is Ready again.

## The codecs

The components above exchange messages by field. `AsyncMajordomoCodec` and
`MajordomoCodec` are why they may: `EverySentIsRead` shows that each message of either
Majordomo, encoded to frames, given its identity frame by a ROUTER and its delimiter by
a REQ, and taken apart by the receiver's dispatch, is read as itself, for names,
addresses and bodies that look like type bytes or are empty. Frames of a foreign peer
are added one by one, up to six: `NothingBeyondTheFrames` shows that none makes a
receiver index past the end of its vector. In the synchronous protocol the delimiters
are easily got wrong: the client's request has an empty frame of its own behind that
of its REQ socket, the reply has only one.

## The Binary Star

Two servers publish their state to each other every two seconds and answer a client
that alternates between them. `After` is the table of `connectStates`. The server's
loop has three steps (request, peer state, publication); each is an action, since
which of them a loop iteration contains is up to the sockets. A client's request
remembers whether the socket it came from is still open: `connect()` closes it, and
answers to a closed socket go nowhere. `mSeq` wraps at `Seqs` as the code's `uint32_t`
does at 2^32; two values are enough because a reply that waits while nothing is
expected already violates `RepliesAreExpected`. `mAddrTurn` is kept modulo 2, which
is all `connect()` looks at.

In `Spec` a poll may time out at any moment; in `PromptSpec` only when the request is
not waiting at a running server (the servers handle it within 100 ms, the poll lasts
a second). `FairSpec` adds weak fairness of every step of a running process and of
the sockets' connecting; nothing forces anyone to start a server. `AttendedSpec`
adds that, to show that the outage it finds is not a missing process. `RestlessSpec`
has the steps of `Spec` and the fairness of `FairSpec`, so that safety is checked with
early timeouts and liveness under the condition that they cease (`ServedWhileAble`).

## The Paranoid Pirate

Clients ask a queue, the queue gives each request to the worker that has been idle
longest, and queue and workers watch each other by heartbeats. The program has no
client of its own; the Lazy Pirate's connects to the same port and is modelled with it.

**State.** `mWorkers` and `beat` are the `WorkerQueue`; `wPhase`, `cycles`,
`isRunning`, `patience` and `elapsed` the variables of the worker's `main`, with `hand`
and `sleep` for a thread that sleeps over a request or before it reconnects; `retries`
and `timer` the client's. The client opens a socket for each attempt, so an attempt is
an address `<<c, n>>`, and a request or a reply is known by it. What waits at the front
socket is a set, since each of its peers says one thing; the back link is a queue per
worker and direction.

**Actions.** `todo` keeps the order inside an iteration of the queue's loop: front,
back, heartbeats and purge. An iteration of the worker is one action, except that
`WorkerTakes` ends where the thread goes to sleep over a request and `WorkerReplies`
is the rest of it; what the random numbers bring is chosen freely from `Troubles`.

**Time** passes in ticks of a second, when everyone waits for it. The periods are the
code's, 2.5 s and 3.5 s rounded up; a deadline of the worker goes on while it sleeps,
as in the code, where `queueHeartbeatDeadline` is moved by two naps and one is slept.

**Failures.** The queue is killed and started again, and the sockets of the others keep
what they have not sent. A worker ends after a request, or is overloaded. Both, and a
client that gives up an attempt, close sockets with `linger` 0, so any newer part of
what is under way is lost (`LeftBy`, `RequestsLeft`); but what the queue's poll has
announced is there when it is read. When a worker reconnects under its identity, the
queue's socket has noticed that the old connection is closed: the nap before it is
three seconds.

**What the runs rest on.** `Listed` is not the complement of busy. After a false alarm
a worker's late reply and its new ready both return it to the list, and it may then
hold two requests; `ListedOnce` needs the search in `WorkerQueue::add` for exactly
this case, which takes three requests to occur. False alarms need no failure: the
queue sends heartbeats to idle workers only, every 3 s, and a worker that is busy for
that one second waits for 3.5 s in vain and closes its socket, its last reply
included. `WorkersReturn` says that it comes back, and the client's retries are for
the reply.

**Fairness.** As above: who runs makes its steps, time passes, and the queue is
started again; nobody need start a worker or a client.

## The small programs

Each is a module of its own; none shares state with another. `Patterns` puts them side
by side with a variable `program` that says which one runs, so that one run answers for
all of them; every property speaks of the variables of one program, which stay in an
initial state while another runs.

**InterBroker.** `pool` is `mIdleWorkers` of a broker, `idlePeers` what it believes of
its peers, `events` what is left of a poll. A request is known by its client. Next to
brokers of this code there are *foreign* ones: the routing to peers is written for
brokers that pass requests on, and those of this code hardly ever do. The frontends are
polled only while a local worker is idle, so the branch that asks a peer is reached only
if the handler before it took the last worker, and that takes a request from a peer:
nobody starts. `PeersOf` is the command line, that is, whose backend and state a broker
connects to. `NothingPassedOn` states this, and is a theorem. With a foreign peer that
does start, `LostOnlyToForeigners` shows what can get lost then, and `ClientsServed`
that otherwise every client is answered: with two local clients and one worker the
second request waits while the frontends are out of the poller, which has to take them
back when the worker returns. `WorkerOnce` holds in any case.

**Freelance.** The proxy thread, `HeartbeatService` and `RequestService` over PAIR
sockets, and servers that crash and come back. `forwardReq` moves the request into the
message for the first available server inside its loop over all of them, so the others
get a message without it: `CommandOnce` is what this amounts to, and `AvailableAreAlive`
that a server which lives becomes and stays available, purged before or not. A server
behind a ROUTER is sent nothing before the handshake (`shaken`); afterwards its queue
stays when it dies, up to the high-water mark, and what is left of it is delivered to
the process that is started next. Which server gets a command, and that it is lost if
that one is dead, is what the code does; no property denies it.

**Simple Pirate** with the Lazy Pirate's clients. The queue never learns that a worker
died, and it does not poll its frontend while no worker is idle. `LossesArePaid` bounds
the damage: the requests that are waited for in vain are no more than the workers that
died and are no longer listed. `AskedIsTaken` is the way back of the frontend into the
poller. Timeouts come at any time.

**Lazy Pirate server** with the times of the code (a tick is half a second): a request
takes one second, an overload two seconds more, patience is two and a half, and
there are four attempts. `NotAbandoned`: a client that is alone gives up only if the
server crashes. It does not hold for two clients, whose abandoned requests the server
works off one after the other: with two overloads a fourth attempt may come too late, and the
property says for whom it holds.

**Load balancing broker** and **asynchronous client and server** are threads of one
process around a broker or a proxy in the main thread, until SIGINT. The models assume
that the signal goes to the main thread. `LbGetsOn` and `AsGetsOn` say that all get on
before the signal and name what can keep the program from ending after it: a client whose
answer the main thread has not sent, or a thread that is stuck in a send to a full
socket that nobody empties any more. In `AsyncServer` there is one case more: the handler
sets a flag that `zmq::proxy` does not read, and only a poll is interrupted, so a signal
that comes while the proxy forwards is lost on it (`AsSignal`). The threads then end, and
main runs its proxy for nobody until the next signal; `AsGetsOn` has this as an outcome of
its own. The model ends with main's joins: the destructors of sockets and context, with
what they linger for, are not in it. In `AsyncServer` every reply ends a wait and leads
to one more request, so that all pipes fill up; the proxy reads its sockets in turn,
hence strong fairness for a client's request that there is room for again and again.

**Synchronised publisher.** A subscription and a report go over different connections;
`SubLate` shows the report first. The ten million updates are one step.

**Task pipeline.** The sink takes its first message for the start signal, be it a
result. `StoppedWhenDone` shows that this does no harm: it counts one message more than
there are tasks.

## Runs

Runs whose processes come to an end (all clients done, all frames there, a program that
has ended) switch the deadlock check off; `BsServers`, `BsUnavailable`, `PpRecovery` and
`PpGhosts` have it on.

| Run | Specification, instance | Shows |
|---|---|---|
| `AmdFaults` | `Spec`, 1 worker and 2 identities, 1 client, 2 requests; the broker, the worker or their link fails, or the worker leaves | `Inv`, `OneRequestPerWorker`, `AtMostOnce` |
| `AmdExchange` | `PromptSpec`, 2 services, 2 workers, 2 clients with 2 requests and 2 identities; a client or a front connection fails | `RepliesReachTheAsker`, `GivenInOrder`, `GivenToAProvider`, `WorkConserving` |
| `AmdLifecycle` | `FairSpec`, 1 worker and 1 client with 2 identities each, 2 requests, a fault of any of the six kinds | `LifecycleSpec`, `WorkersRejoin`, `GhostsAreForgotten` |
| `AmdPrompt` | `FairSpec`, 2 workers, the code's 3 s expiry and 3 silent periods, no fault, room for the replies | `NoFalseAlarm`, `AcceptedIsAnswered` |
| `BsServers` | `RestlessSpec`, 1 client, 2 crashes of either server, 1 state in flight to each | `TypeOK`, `NeverBothPassive`, `BackupFollowsPrimary`, `RepliesAreExpected`, `ServedWhileAble` |
| `PpRecovery` | `FairSpec`, the code's periods, 1 worker with all troubles from its first request, 1 client with 3 attempts, 1 crash of the queue at any moment | `ListedOnce`, `OneCopy`, `WorkersReturn` |
| `PpGhosts` | `FairSpec`, 2 workers, 1 client with 2 attempts, periods shortened in the same order, no crash of the queue | `GhostsForgotten` |
| `MdRecovery` | `Spec`, 1 worker and 2 identities, 1 client with 2 requests of up to 3 attempts each, shorter deadlines than the code's, 2 crashes of the broker or of the worker | `Inv`, `OneRequestPerWorker`, `AnswerFits`, `ArrivalsHandOut`, `WorkersRejoin` |
| `Patterns` | `PatternsSpec`; 2 brokers and a foreign one with 1 worker, 2 local clients and a foreign one; 2 Freelance servers with queues of 2 and 1 crash; 2 Pirate workers that may both die and 2 clients with 2 attempts; the Lazy Pirate with the code's times; 3 clients of 2 workers; pipes of one message; 2 subscribers; 3 tasks for 2 workers; texts empty or of one byte that is a type, an identity with a 0 in it, 6 frames | `WorkerOnce`, `NothingPassedOn`, `LostOnlyToForeigners`, `ClientsServed`; `CommandOnce`, `AvailableAreAlive`; `LossesArePaid`, `AskedIsTaken`; `NotAbandoned`; `LbGetsOn`; `AsGetsOn`; `StoppedWhenDone`; `EverySentIsRead`, `NothingBeyondTheFrames` |
| `AmdLostWorker`, `BsUnavailable`, `SubLate` | see below | violated |

**Bounds.** Two identities per side are what it takes for a stale one and a new one to
exist together, two workers or clients for the pools and the return addresses to be
mixed up, two requests for an order, and a high-water mark of two for a queue to fill
up and drop. One fault may happen at any moment of a run; the theorems below hold for
any number. Two crashes of a Binary Star are one of each server, or a crash and another
before the first is noticed; the one state in flight to each server may be a stale one,
published by a process that has died since, and `BinaryStarProofs` has any number of them.
Three attempts are what a worker of the Paranoid Pirate needs to be listed by a
late reply, by a ready and by a reply again; a second worker is needed for one to
stand before another in the list. `Warmup` is 0 so that troubles come at once. `Hwm`
of the Paranoid Pirate is no bound on behaviour: no connection ever holds more, and
libzmq's limit is 1000. `MdRecovery` has the code's three attempts per request: a late
reply to the first or second one meets the wait of the next, on another socket, and after
two requests that of another request. Its deadlines are as short as their order allows
(an expiry of two periods, one silent poll, a client's patience of one period, where the
code has three of each). One client is enough for requests and workers to wait side by
side, since the attempts that it has given up still stand in `pendingRequests` and are
executed like those of further clients; two clients with several attempts have too many
states for a run of minutes. The theorems have any number. In `Patterns` one worker is
enough for a broker's two handlers to want the same one. Two deaths among
two Pirate workers is all of them; pipes of one message are full with the first.
`MaxCut` is the most messages of a queue that a crash of the synchronous broker takes, or
leaves: two in the run, where no queue holds more, any number in the theorems.

## Proofs

For every value of the constants that satisfies the named assumptions (any number of
processes, identities, services, requests, crashes, any expiries and bounds):

| Module | Theorem | Statement |
|---|---|---|
| `AsyncMajordomoProofs` | `Invariance` | `Spec => []Inv` |
| | `TypeCorrect`, `WorkIsConserved`, `PoolsAreRegistered` | `[]TypeOK`, `[]WorkConserving`, `[]IdleAreRegistered` |
| | `WorkersHoldOneRequest` | `Spec => []OneRequestPerWorker` |
| | `RequestsGoToProviders` | `Spec => []GivenToAProvider` |
| | `NobodyIsTakenForDead` | `Punctual => (PromptSpec => NoFalseAlarm)` |
| `AsyncMajordomoOnceProofs` | `RequestsRunOnce` | `Spec => []AtMostOnce` |
| | `RepliesAreForTheAsker` | `Spec => []RepliesReachTheAsker` |
| `AsyncMajordomoLifecycleProofs` | `RequestsAreRefined` | `Spec => LifecycleSpec` |
| | `GivenAsSent` | `Spec => []GivenInOrder` |
| `MajordomoProofs` | `PoolsAreRegistered` | `Spec => []Inv` |
| | `NoSecondRequest` | `Spec => []OneRequestPerWorker` |
| | `NoStrayAnswer` | `Spec => AnswerFits` |
| | `NobodyWaitsInVain` | `Spec => ArrivalsHandOut` |
| `BinaryStarProofs` | `OneServes` | `Spec => []NeverBothPassive` |
| | `BackupWaits` | `Spec => []BackupFollowsPrimary` |
| | `StarTyped` | `Spec => []TypeOK` |
| | `NoBadReply` | `Spec => []RepliesAreExpected` |
| `ParanoidPirateProofs` | `NobodyTwice` | `Spec => []ListedOnce` |
| | `NothingMultiplied` | `Spec => []OneCopy` |
| `PatternsProofs` | `RoutersTyped` | `InterSpec => []RouterTypeOK` |
| | `NothingIsPassedOn` | `InterSpec => []NothingPassedOn` |
| | `WorkersCountOnce` | `InterSpec => []WorkerOnce` |
| | `OnlyForeignersLose` | `InterSpec => []LostOnlyToForeigners` |
| | `CommandsAreSentOnce` | `FreelanceSpec => []CommandOnce` |
| | `EachDeathCostsOne` | `SimplePirateSpec => []LossesArePaid` |
| | `ALoneClientIsServed` | `CatchesUp => (LazySpec => []NotAbandoned)` |
| | `TasksAreDone` | `TaskSpec => []StoppedWhenDone` |
| | `MessagesAreRead` | `CodecsSpec => []EverySentIsRead` |
| | `FramesAreCounted` | `CodecsSpec => []NothingBeyondTheFrames` |

The specifications that add promptness or fairness to `Spec` have steps of `Spec`
only, so the theorems hold for them as well.

**The asynchronous Majordomo.** `WorkConserving` is not inductive on its own:
`HandleReady` appends a worker to the pool of one service, and if the same identity
were still registered for another service the purge would later look for it in the
wrong pool. So `Inv` has `ReadyIsNew` (a Ready is the first message of its identity
and the broker does not know that identity yet), `PhasesAgree` (a process that uses its
socket has one) to show that an identity a process takes is a new one, and
`IdleAreRegistered`, from which `Erase` is seen to take out what the purge forgets.
`SendPendingRequests` leaves one of its two queues empty (`MinOf` of both lengths is
taken from both), and it ends each of the handlers that lengthen a queue; the handlers
that shorten one cannot break the disjunction. The module has one lemma per action
under one heading per process, `StepKeeps` puts them together, and `Invariance` adds
the temporal step.

**Queues.** `QueueProofs` has the lemmas that both Majordomos rest on. `Pick` keeps a
sequence's type, its order and its elements, and as many as there are positions
(`PickProperties`, `NthProperties`). `Positions(q, S)` are those of a queue that hold an
element of `S`; `NoMore` (an injection from one set into another) says that an
operation leaves at most as many, and there is one such lemma for each operation on
queues (`NoMoreOfTail`, `NoMoreOfConcat`, `NoMoreOfPick` and so on). `OneAmong` is "one at
most in all these places together", and `OneMoved` that this holds if something leaves
one place for another. None of them counts, since a cardinality would need an
induction.

**One request per worker.** A worker's *tokens* are its entries in a pool, the Requests
on their way to it and the Replies on their way back. `TokenInv` is `Inv` and `OnceIn`:
any two places that hold a token of the same worker are the same place. Each handler
that moves a token takes it out of one place and puts it into another (a Request takes
the first of a pool, a Reply ends a Request, a handled Reply appends to the pool), and
losses take out only. The one handler that makes a token is that of a Ready, and there
`ReadyIsNew` says that the broker does not know the identity, `FreshWorkerId` that
nothing else is under way for it. `OneRequestPerWorker` follows for any two positions.

**To a provider.** `ServiceInv` adds where requests and identities stand: a client's
request wants the service of the queue it is in (`Sorted`), and of an identity `w` of a
worker process that provides `s` (`Fits(w, s)`) there is no registration, Ready or
Request for another service, and so, by `IdleAreRegistered`, no entry in another pool. A
pool is entered from a Ready, which names the process's own service, or by a Reply,
which goes back to where the identity is registered; identities whose process has gone
are of no concern, and a new one has nothing anywhere.

**No false alarm.** `PromptSpec` has no fairness: time passes when nobody has anything
to do. `TouchInv` says how far apart the broker and a polling worker can then be. The
broker knows the worker's identity or its Ready is what it reads of it next (`Known`);
the registration is fresh, or one period old while the worker's heartbeat is due or on
its way (`OnTime`); at most one poll of the worker has timed out, and then the broker's
heartbeat is due or something of it waits to be read (`Patient`). At a tick all queues
are empty, so that what was on its way has arrived, and both heartbeats fall due again.
The theorem is for any numbers of processes, for workers that die or leave and for clients
and their connections that fail. `Punctual` has what it needs of the constants: an expiry
of two periods (three in the code), one silent poll allowed (three), two places in a queue
of the back link (a reply and a heartbeat), and neither the broker nor the back link
failing. On an instance with exactly these values TLC finds `TouchInv` invariant, and it
finds `NoFalseAlarm` violated as soon as the expiry is one period, no silent poll is
allowed, there is one place only, or the back link may fail.

**At most once, and to the asker.** A request passes through six kinds of queues, each
time as another message. A *selection* says for each queue which messages are of
interest, and *follows* if a handler makes one of interest only out of one of interest;
of such a selection no step leaves more than there was (`Carried`), and "at most one"
and "none" are kept alike. There is one lemma per handler and per failure, for every
selection that follows; only what a client says of its own is new. Four selections are
followed: `Carrying(b)`, the places of a request; `Greeting(c)`, the discovery of an
identity and its answer; `Naming(c, B)`, what mentions an identity with a request of
`B`, once with all requests and once with those of other clients. The invariant
`OnceInv` says that of a request there is one at most and none before it is sent, that
nothing mentions the identity of a client with a request of another, and that no answer
to a discovery comes after the client has left its ping. The last part is needed since
a late one would make `recv` return the `mReply` it has and so one reply twice. A new
identity starts with none of the selections by `FreshClientId`; that only its owner uses
it is `Owners`. The proof needs that no identity is a worker's and a client's
(`NetAssumption`): the model keeps the connections of both ROUTERs in one set.

**The refinement.** `RequestsAreRefined` maps every step of the asynchronous Majordomo to
a step of `RequestLifecycle` or a stutter. The stage of a request is where it is found, so
`StageIsAt` first puts `StageOf` in terms of the selection `Carrying`. Restricted to the
places of one stage, and in the process that moves a request on to those of the stage
before as well, this selection still follows. So a step finds a request only at the
stage where it was or one further (`MovesOn`), unless it is the step that sends it
(`IsSent`); that it is in one place at most (`OnceInv`) excludes every other change, and
that nothing new of a sent request is made keeps a lost one lost. The bound on the
requests with the workers combines two facts: a worker identity has one request at most
(`TokenInv`), and an identity that is connected or has messages to read belongs to a
process (`Hosts`), which gives an injection of these requests into the worker processes.
This is why `WorkerAssumption` has them finite.

**In order.** `OrderInv` adds that of two requests of a client the later one is behind
the earlier one (`Behind`): where both wait, it is further back in the same queue or still
in the client's socket while the earlier one is in `pendingRequests`, and it has not been
handed to a worker while the earlier one waits. A step leaves in the waiting queues what
was there in the order it was (`Shorter`), with two exceptions. `send()` puts a request at
the end of the client's socket, and while a client sends, all that waits there is from the
one socket it has (`SendsFromOne`). The front handler moves the head of a socket to the
end of the queue of its service (`ArrivesInOrder`); what already waits in a
`pendingRequests` has the client's one service by `Sorted`, so that this is the same queue.
`sendPendingRequests` takes the oldest (`SendPendingLeaves`), so what it hands on was
before all that stays (`PopKeepsBehind`); and what a step finds with a worker was there or
waited before (`MovesOn`), where `OnceInv` excludes that it is in both places.

**The synchronous Majordomo.** `MajordomoInv` has six parts. `Inv` is the type and
`IdleAreRegistered`; for the latter to survive `handleReady` an identity must not be
registered while its Ready waits (`ReadyIsNew`). `SocketsUsed` bounds a client's sockets
by `Retries` for each request, which is why `Address` has all of them.
`TokensAreAlone` is as above: a worker is at one place at most as an entry of a pool, a
Request, a Ready or a Reply. `AsksAreAlone` follows the requests instead: of a socket
there is one at most, among the front socket, `pendingRequests`, the queues of workers and
the waiting replies; and none is found anywhere that is `Wrong`, of a socket the client
has not opened or, on its present socket, other than the one it waits for. Both parts
are kept by the same lemmas: a handler moves what it finds from one place to the next
(`Found`, for every `Selection`), and crashes only take away. `HandOut` is the hard case,
since it moves any number at once, to several workers, in the order of the pool:
`Origins` maps each Request of a worker's queue to the request or to the entry it came
from. `AnswerFits` is then a step of `HandleResponse`: the reply it finds is of the
present socket and not `Wrong`. `ArrivalsHandOut` is about one request that the broker
reads: `MinOf` of both lengths, the request's own included, is taken from both queues,
so that one of them is empty. A request for a service the broker has not heard of is
dropped instead; `WaitersAreKnown`, an invariant of its own, says that nothing is pending
for such a service.

**The Binary Star.** A published state may wait in a queue while its publisher crashes
and starts again, so the two properties say too little to be inductive. `StarInv` adds
`OneSideSees`: call a server a *believer* if it is passive or has an Active in its
queue; then not both servers are believers that have never been active in their present
process. A server gets from its first state to Passive only on an Active, which its peer
published in an earlier process if it has not been active in this one; the crash in
between emptied the queue of the peer itself. `PrimaryFirst` is the same for a primary
that has not crashed.

`RepliesAreExpected` is about one client at a time. A request whose socket was closed
gets no answer; `LiveOf(c)` are the others. `Expected(c)` says that no queue has more
than one of them and that none is `Stray`: at another server than the one the client's
socket leads to, with another number than the client waits for, or although the client
waits for nothing or has its reply already. A client sends a request only when it has
none that lives, because a reply ends the request, and `connect()` makes the one that got
none an orphan (`OrphanProperties`). Numbers are never compared with earlier ones, so it
does not matter when they wrap. `RepliesInv` is this and `TypeOK`.

**The Paranoid Pirate.** `ListedOnce` needs only the type of the list and of the messages:
`add` looks for the identity, and everything else takes entries out or changes expiries.
For `OneCopy`, `Found(A)` is what is found of a set of attempts at the front socket, on
the way to workers, in their hands, on the way back and among the answers. Every step of
the queue and of a worker is `Carried`: for every set of attempts it leaves no more than
there was, since a handler takes an attempt from one place to the next and crashes and
closed sockets only take away. A client sends an attempt on a socket it has not had:
`Unborn` are the attempts still to come, of which nothing is found, and each step of a
client takes out of them what it sends. `Places` and `Copies` follow from "at most one
among all places". `PirateInv` has the types that this needs; the bound `Hwm` of
`TypeOK` is one of the runs only, since nothing in the program keeps it.

**InterBroker.** The handler of the local frontend passes a request on if it finds the
pool empty. `KeepsToItself` says why it does not: while the frontend is among the events
of this poll the pool is not empty, since the poll looked at it and only the handler of
the remote frontend could empty it, which has nothing to read. `WorkerOnce` counts the
entries of a worker in its broker's pool (`Entries`, a cardinality) and its messages
under way; `EntriesOfAppend` and `EntriesOfTail` say how the count changes, and each
handler moves one from one place to the next. `LostOnlyToForeigners` needs `RouterInv`
and `CountedInv`: `InOnePlace` says that a client's request is in one place at most and,
as long as no foreign peer has asked, in one; a handler that takes a request from one
place finds the worker or the client it goes to.

**Freelance.** `CommandInv` numbers the commands: those in the PAIR socket are in order
and no server has had them, and `Holds(s, r)` says that command `r` waits for server `s`,
comes back from it or was answered by it, of which there is one `s` at most. A command
leaves the PAIR socket when the first server gets it.

**Simple Pirate.** A cardinality is compared with another, so what has to be kept is an
inequality: `Balanced` says that a step lets one request at most be lost, and only if one
more worker has *paid*, that is, died and left both the list and its queue to the
broker. `OnePlace` (listed, with a request, or with something to say, and one of them
only) is why no worker pays twice.

**Lazy Pirate.** The server may do the attempts of a client in any order and those that
it gave up as well, so it is the sum that counts: `Lag` is all the work the server has
left, less what is left of the client's patience. Each attempt adds its work and the
patience of one more (`Late`), an overload adds once to it, and time takes the same from
both, because while the client waits its request is somewhere (`LazyWaits`), unless the server
has crashed, which loses the request that it has read and may lose those that had left
their client. After an
overload `cycles` and the requests that wait are fewer than the attempts, so that no second
one comes (`OverloadedOnce`). At the end of the last attempt the lag would be negative, and
the server would be done. `CatchesUp` is the condition on the times; in the code an overload
(4 ticks) and four requests (8) are less than four timeouts (20), and an overload needs
more than 5 cycles. TLC finds `NotAbandoned` violated with an overload of 12 ticks, and
with one of 8 that needs more than one cycle only.

**Task pipeline.** `TaskInv`: what was sent, the start signal included, is in the queue of
a worker, in the sink's socket or received. The sink stops the workers at `Tasks + 1`, so
nothing is left in a queue, whatever it took for the start signal.

**The codecs.** `CodecsSpec` starts with a message of either Majordomo (`CodecInit`,
`SyncInit`) or a foreign one, which grows by `CodecNext`. A message is taken through `to`,
what the sockets add and remove (`FirstOff`, `TwoFramesOff`), and `from`, one type after
the other (`WorkerMessagesRead` and its like); no byte of a text matters, since the
receivers compare the type, the header and the empty frames only, and these have their
places. For `NothingBeyondTheFrames` each `from` counts the frames before it takes one
(`ParsedWithin`). The run has four texts and six frames; the theorems have any texts,
identities and foreign frames of bytes from 0 to 255, and any number of frames.

**Only model-checked.** Liveness and everything under fairness, which is out of the
prover's reach: `WorkersRejoin`, `GhostsAreForgotten`, `AcceptedIsAnswered`,
`ServedWhileAble`, `WorkersReturn`, `GhostsForgotten`, `ClientsServed`,
`AvailableAreAlive`, `AskedIsTaken`, `LbGetsOn` and `AsGetsOn`. Every other property of a
run that passes is stated by a theorem.

## Where code and documentation disagree

Each of these is a run whose property states what a Readme or a comment says, and TLC
shows a behaviour of the code that contradicts it.

- `AmdLostWorker` (`RunningWorkersServe`): a Request lost with a connection leaves
  its worker registered by its heartbeats and out of every pool for good.
- `BsUnavailable` (`AlwaysServed`): the two active servers hear of each other and both
  go to Unknown, which has no way out. Both run, nobody answers. The way there is a
  primary that is started a little after a client gave up on it and turned to the
  backup; nothing has crashed.
- `SubLate` (`AllSubscribersReady`): the publisher counts reports, and a subscription
  may arrive after the report that was sent after it. Its subscriber misses updates, and
  if it misses the end message, it waits for ever.

Limits that show in the conditions of properties instead. `AcceptedIsAnswered` needs
room for all replies on the front link: `AsyncMajordomo/Client.cpp` sends all its
requests before it reads the first reply, and a ROUTER drops what does not fit. It also
needs that nothing fails: `recv` reconnects after its timeout and sends nothing again,
although the Readme speaks of a "retry mechanism" between client and broker.
`ArrivalsHandOut` needs an arrival: without one, requests of the synchronous Majordomo
wait beside idle workers. `NothingPassedOn` means that InterBroker's brokers do not
share work among themselves. `AsGetsOn` has an outcome in which main does not end: a
SIGINT that `zmq::proxy` does not notice.

## Not modelled, and why

Left out of the modelled parts: logging; parse errors between peers of this code (they
cannot occur, see the codecs); errors of `recv` and exceptions of libzmq; the contents of
bodies; and what nothing calls or sends: `stop()` of the Majordomos, the asynchronous
`Disconnect::from`, a Disconnect of the synchronous broker, `WorkerQueue::clear`.

Left out as a whole:

- `AsyncRequestReply`, `RequestReply`, `RouterDealer`, `RouterRequest`, `PubSub`,
  `MultiThreadedServer`: demonstrations of one socket type each without state of their
  own; a model would be one of libzmq.
- `MultiThreadedRelay`: three threads hand one message on in turn.
- `Identity`, `SocketPoller` and the other socket examples: input and output only.
- `Titanic`: a Readme without code.
- `Shared/*`: frames in and out, a stopwatch, random names. What the models assume of
  `RandomString`, that an identity is new, is `FreshWorkerId` and `FreshClientId`; that
  its range includes the terminating zero is noted among the hazards.
- The build files.
