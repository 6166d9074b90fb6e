------------------------------ MODULE Freelance ------------------------------
(***************************************************************************)
(* A client that finds out which servers live: FreelanceClientProxy.cpp    *)
(* with the threads HeartbeatService and RequestService, and the servers   *)
(* (FreelanceServer.cpp), between ROUTER sockets.                          *)
(*                                                                         *)
(* The proxy pings every server once a second and sends a command to those *)
(* that it heard of in the last three.  A ROUTER sends only to a peer it   *)
(* has shaken hands with.  `flEvents' is what is left of an iteration of   *)
(* FreelanceProxy::run, the purge at its end.  A tick is a second.         *)
(***************************************************************************)
EXTENDS Integers, Sequences, FiniteSets

CONSTANTS
  Host,             \* the servers, by their addresses
  Commands,         \* bound: how many commands RequestService sends
  HostExpiry,       \* gServerHeartbeatExpiry
  HostHwm,          \* how many messages wait for a server: libzmq's limit
  HostFaults        \* bound: how many crashes of servers

ASSUME FreelanceAssumption ==
  /\ {Commands, HostFaults} \subseteq Nat
  /\ {HostExpiry, HostHwm} \subseteq Nat \ {0}

VARIABLES
  mAvailServers,    \* the keys of the map ...
  hostTtl,          \* ... and the ticks left to their expiry
  flEvents,         \* the steps left of this iteration
  pingDue,          \* the deadline of HeartbeatService is over
  pinging,          \* a PING waits in the PAIR socket
  reqDue,           \* the interval of RequestService is over
  command,          \* how many commands it has sent
  reqs,             \* those in the PAIR socket
  hostUp,           \* the server runs
  shaken,           \* the proxy's ROUTER has learnt its identity
  toHost,           \* what waits for a server
  fromHost,         \* what waits for the proxy
  answeredBy,       \* the answers that the proxy has read
  hostFaults

proxyVars == <<mAvailServers, hostTtl, flEvents, answeredBy>>
serviceVars == <<pingDue, pinging, reqDue, command, reqs>>
hostVars == <<hostUp, shaken, toHost, fromHost, hostFaults>>
flVars == <<proxyVars, serviceVars, hostVars>>

(* A command by its number; 0 is a message whose content was moved away.    *)
Ping == [type |-> "PING"]
Pong == [type |-> "PONG"]
Command(r) == [type |-> "command", n |-> r]

(* Every server counts as available at first, whether it runs or not.       *)
FreelanceInit ==
  /\ mAvailServers = Host
  /\ hostTtl = [s \in Host |-> HostExpiry]
  /\ flEvents = {}
  /\ pingDue = TRUE /\ pinging = FALSE
  /\ reqDue = TRUE /\ command = 0 /\ reqs = <<>>
  /\ hostUp \in [Host -> BOOLEAN]
  /\ shaken = [s \in Host |-> FALSE]
  /\ toHost = [s \in Host |-> <<>>]
  /\ fromHost = [s \in Host |-> <<>>]
  /\ answeredBy = {}
  /\ hostFaults = 0

-----------------------------------------------------------------------------
(* The proxy.                                                               *)

Heard == {s \in Host : fromHost[s] # <<>>}
Overdue == {s \in mAvailServers : hostTtl[s] = 0}

(* To some servers a message each.  It is dropped if there has been no      *)
(* handshake or the queue is full; for a server that has died since it is   *)
(* kept until the connection is back.                                       *)
Sent(messages) ==
  [s \in Host |->
     IF s \in DOMAIN messages /\ shaken[s] /\ Len(toHost[s]) < HostHwm
       THEN Append(toHost[s], messages[s]) ELSE toHost[s]]

ProxyPoll ==
  /\ flEvents = {}
  /\ LET polled == {x \in {"request"} : reqs # <<>>}
                   \cup {x \in {"heartbeat"} : pinging}
                   \cup {x \in {"front"} : Heard # {}}
     IN  /\ polled # {} \/ Overdue # {}
         /\ flEvents' = polled \cup {"purge"}
  /\ UNCHANGED <<mAvailServers, hostTtl, answeredBy, serviceVars, hostVars>>

(* Mutant: every server gets a copy.                                        *)
ForwardReqToAll ==
  /\ "request" \in flEvents
  /\ flEvents' = flEvents \ {"request"}
  /\ reqs' = Tail(reqs)
  /\ toHost' = Sent([s \in mAvailServers |-> Command(Head(reqs))])
  /\ UNCHANGED <<mAvailServers, hostTtl, answeredBy, pingDue, pinging, reqDue,
                 command, hostUp, shaken, fromHost, hostFaults>>

(* forwardReq: a std::move in the loop over an unordered_map leaves the     *)
(* request to the first server and empty messages to the others.            *)
ForwardReq ==
  /\ "request" \in flEvents
  /\ flEvents' = flEvents \ {"request"}
  /\ reqs' = Tail(reqs)
  /\ IF mAvailServers = {} THEN UNCHANGED toHost
     ELSE \E first \in mAvailServers :
            toHost' = Sent([s \in mAvailServers |->
                           Command(IF s = first THEN Head(reqs) ELSE 0)])
  /\ UNCHANGED <<mAvailServers, hostTtl, answeredBy, pingDue, pinging, reqDue,
                 command, hostUp, shaken, fromHost, hostFaults>>

(* Mutant: only who is available is pinged.                                 *)
ForwardHeartbeatToAvailable ==
  /\ "heartbeat" \in flEvents
  /\ flEvents' = flEvents \ {"heartbeat"}
  /\ pinging' = FALSE
  /\ toHost' = Sent([s \in mAvailServers |-> Ping])
  /\ UNCHANGED <<mAvailServers, hostTtl, answeredBy, pingDue, reqDue, command,
                 reqs, hostUp, shaken, fromHost, hostFaults>>

(* forwardHeartbeat: to mRegisteredServers, which is all of them.           *)
ForwardHeartbeat ==
  /\ "heartbeat" \in flEvents
  /\ flEvents' = flEvents \ {"heartbeat"}
  /\ pinging' = FALSE
  /\ toHost' = Sent([s \in Host |-> Ping])
  /\ UNCHANGED <<mAvailServers, hostTtl, answeredBy, pingDue, reqDue, command,
                 reqs, hostUp, shaken, fromHost, hostFaults>>

(* handleIncomingMessage: whatever comes is a sign of life.                 *)
ProxyReceives(s) ==
  /\ "front" \in flEvents
  /\ s \in Heard
  /\ flEvents' = flEvents \ {"front"}
  /\ fromHost' = [fromHost EXCEPT ![s] = Tail(@)]
  /\ mAvailServers' = mAvailServers \cup {s}
  /\ hostTtl' = [hostTtl EXCEPT ![s] = HostExpiry]
  /\ LET m == Head(fromHost[s])
     IN  answeredBy' = IF m.type = "command"
                         THEN answeredBy \cup {<<s, m.n>>} ELSE answeredBy
  /\ UNCHANGED <<serviceVars, hostUp, shaken, toHost, hostFaults>>

(* Mutant: the purge looks only for one dead server at a time and stops at  *)
(* the first that lives.                                                    *)
PurgeWhileDead ==
  /\ flEvents = {"purge"}
  /\ flEvents' = {}
  /\ mAvailServers' = IF Overdue = mAvailServers THEN {} ELSE mAvailServers
  /\ UNCHANGED <<hostTtl, answeredBy, serviceVars, hostVars>>

PurgeDeadServers ==
  /\ flEvents = {"purge"}
  /\ flEvents' = {}
  /\ mAvailServers' = mAvailServers \ Overdue
  /\ UNCHANGED <<hostTtl, answeredBy, serviceVars, hostVars>>

ProxyStep ==
  \/ ProxyPoll \/ ForwardReq \/ ForwardHeartbeat \/ PurgeDeadServers
  \/ \E s \in Host : ProxyReceives(s)

(* The other threads of the client.                                         *)
SendPing ==
  /\ pingDue
  /\ pingDue' = FALSE /\ pinging' = TRUE
  /\ UNCHANGED <<proxyVars, reqDue, command, reqs, hostVars>>

SendCommand ==
  /\ reqDue /\ command < Commands
  /\ reqDue' = FALSE
  /\ command' = command + 1
  /\ reqs' = Append(reqs, command + 1)
  /\ UNCHANGED <<proxyVars, pingDue, pinging, hostVars>>

-----------------------------------------------------------------------------
(* The servers.                                                             *)

Handshake(s) ==
  /\ hostUp[s] /\ ~shaken[s]
  /\ shaken' = [shaken EXCEPT ![s] = TRUE]
  /\ UNCHANGED <<proxyVars, serviceVars, hostUp, toHost, fromHost, hostFaults>>

(* handleIncomingMessage: a PING is answered with PONG, anything else with  *)
(* itself and "OK".                                                         *)
HostAnswers(s) ==
  /\ hostUp[s] /\ toHost[s] # <<>>
  /\ toHost' = [toHost EXCEPT ![s] = Tail(@)]
  /\ LET m == Head(toHost[s])
     IN  fromHost' = [fromHost EXCEPT
                        ![s] = Append(@, IF m = Ping THEN Pong ELSE m)]
  /\ UNCHANGED <<proxyVars, serviceVars, hostUp, shaken, hostFaults>>

HostStarts(s) ==
  /\ ~hostUp[s]
  /\ hostUp' = [hostUp EXCEPT ![s] = TRUE]
  /\ UNCHANGED <<proxyVars, serviceVars, shaken, toHost, fromHost, hostFaults>>

(* A server dies, and what it has not sent yet with it, and what it has not *)
(* read yet of what had left the proxy: the newest may still wait there.    *)
HostCrashes(s) ==
  /\ hostUp[s] /\ hostFaults < HostFaults
  /\ hostFaults' = hostFaults + 1
  /\ hostUp' = [hostUp EXCEPT ![s] = FALSE]
  /\ \E lost \in 0 .. Len(toHost[s]) :
       toHost' = [toHost EXCEPT ![s] = SubSeq(@, lost + 1, Len(@))]
  /\ \E arrived \in 0 .. Len(fromHost[s]) :
       /\ Heard = {s} /\ "front" \in flEvents => arrived > 0
       /\ fromHost' = [fromHost EXCEPT ![s] = SubSeq(@, 1, arrived)]
  /\ UNCHANGED <<proxyVars, serviceVars, shaken>>

(* A second passes when everyone has done what can be done at once.         *)
Second ==
  /\ flEvents = {} /\ reqs = <<>> /\ Heard = {} /\ Overdue = {}
  /\ ~pinging /\ ~pingDue
  /\ reqDue => command = Commands
  /\ \A s \in Host : hostUp[s] => shaken[s] /\ toHost[s] = <<>>
  /\ hostTtl' = [s \in Host |-> IF hostTtl[s] = 0 THEN 0 ELSE hostTtl[s] - 1]
  /\ pingDue' = TRUE /\ reqDue' = TRUE
  /\ UNCHANGED <<mAvailServers, flEvents, answeredBy, pinging, command, reqs,
                 hostVars>>

FreelanceNext ==
  \/ ProxyStep \/ SendPing \/ SendCommand \/ Second
  \/ \E s \in Host :
       Handshake(s) \/ HostAnswers(s) \/ HostStarts(s) \/ HostCrashes(s)

(* Every thread runs, and time passes.  No one need start a server.         *)
FreelanceFairness ==
  /\ WF_flVars(ProxyStep) /\ WF_flVars(SendPing) /\ WF_flVars(SendCommand)
  /\ WF_flVars(Second)
  /\ \A s \in Host : WF_flVars(Handshake(s)) /\ WF_flVars(HostAnswers(s))

FreelanceSpec ==
  FreelanceInit /\ [][FreelanceNext]_flVars /\ FreelanceFairness

-----------------------------------------------------------------------------
(* A command reaches one server at most: the loop of forwardReq is over all *)
(* available servers, but only the first message has the command in it.     *)
CommandOnce ==
  \A r \in 1 .. Commands :
    LET Bears(q) == \E i \in DOMAIN q : q[i] = Command(r)
    IN  Cardinality({s \in Host : Bears(toHost[s]) \/ Bears(fromHost[s])
                                  \/ <<s, r>> \in answeredBy}) <= 1

(* A server that runs on becomes available and remains it, purged before or *)
(* not: its PONGs are back before the expiry.  One that is dead is          *)
(* forgotten, though what it said last is still read.                       *)
AvailableAreAlive ==
  \A s \in Host :
    /\ <>[](hostUp[s]) => <>[](s \in mAvailServers)
    /\ []<>(hostUp[s] \/ s \notin mAvailServers)
=============================================================================
