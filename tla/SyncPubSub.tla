----------------------------- MODULE SyncPubSub -----------------------------
(***************************************************************************)
(* A publisher that starts when its subscribers have reported:             *)
(* SyncPubSub/SyncPub.cpp and SyncSub.cpp.                                 *)
(*                                                                         *)
(* A subscriber subscribes over one connection and reports over another,   *)
(* and nothing orders the two.  The ten million updates are one step.      *)
(***************************************************************************)
EXTENDS Naturals, FiniteSets

CONSTANT Subscriber                  \* as many as the publisher is told of

ASSUME SubscriberAssumption == IsFiniteSet(Subscriber)

VARIABLES
  publisher,        \* "counting", "updating" or "ended"
  reports,          \* how often its loop has run
  subscriber,       \* "off", "reporting", "listening" or "ended"
  reported,         \* whose report waits for the publisher
  released,         \* whom it has answered
  subscribed,       \* whose subscription has reached it
  toldEnd           \* to whom "end" is under way

pubVars == <<publisher, reports, subscriber, reported, released, subscribed,
             toldEnd>>

SyncPubInit ==
  /\ publisher = "counting" /\ reports = 0
  /\ subscriber = [s \in Subscriber |-> "off"]
  /\ reported = {} /\ released = {} /\ subscribed = {} /\ toldEnd = {}

-----------------------------------------------------------------------------
SubStarts(s) ==
  /\ subscriber[s] = "off"
  /\ subscriber' = [subscriber EXCEPT ![s] = "reporting"]
  /\ reported' = reported \cup {s}
  /\ UNCHANGED <<publisher, reports, released, subscribed, toldEnd>>

(* The subscription arrives, at any time after it was made.                 *)
SubscriptionArrives(s) ==
  /\ subscriber[s] # "off" /\ s \notin subscribed /\ publisher # "ended"
  /\ subscribed' = subscribed \cup {s}
  /\ UNCHANGED <<publisher, reports, subscriber, reported, released, toldEnd>>

SubSynced(s) ==
  /\ subscriber[s] = "reporting" /\ s \in released
  /\ subscriber' = [subscriber EXCEPT ![s] = "listening"]
  /\ UNCHANGED <<publisher, reports, reported, released, subscribed, toldEnd>>

SubEnds(s) ==
  /\ subscriber[s] = "listening" /\ s \in toldEnd
  /\ subscriber' = [subscriber EXCEPT ![s] = "ended"]
  /\ UNCHANGED <<publisher, reports, reported, released, subscribed, toldEnd>>

AllCounted == reports = Cardinality(Subscriber)

PubCounts(s) ==
  /\ publisher = "counting" /\ ~AllCounted
  /\ s \in reported
  /\ reported' = reported \ {s} /\ released' = released \cup {s}
  /\ reports' = reports + 1
  /\ UNCHANGED <<publisher, subscriber, subscribed, toldEnd>>

(* "all subscribers are ready"                                              *)
PubStarts ==
  /\ publisher = "counting" /\ AllCounted
  /\ publisher' = "updating"
  /\ UNCHANGED <<reports, subscriber, reported, released, subscribed, toldEnd>>

(* After the updates "end" goes to those who have subscribed, and main      *)
(* returns when it is sent.                                                 *)
PubEnds ==
  /\ publisher = "updating"
  /\ publisher' = "ended"
  /\ toldEnd' = subscribed
  /\ UNCHANGED <<reports, subscriber, reported, released, subscribed>>

PubStep == PubStarts \/ PubEnds \/ \E s \in Subscriber : PubCounts(s)
SubStep(s) == SubStarts(s) \/ SubSynced(s) \/ SubEnds(s)

SyncPubNext ==
  PubStep \/ \E s \in Subscriber : SubStep(s) \/ SubscriptionArrives(s)

(* The processes run; nothing is said of the connection of a subscription.  *)
SyncPubFairness ==
  WF_pubVars(PubStep) /\ \A s \in Subscriber : WF_pubVars(SubStep(s))

SyncPubSpec == SyncPubInit /\ [][SyncPubNext]_pubVars /\ SyncPubFairness

-----------------------------------------------------------------------------
(* SyncPub.cpp:44, before the first update: "all subscribers are ready".    *)
AllSubscribersReady ==
  [][publisher = "counting" /\ publisher' = "updating"
       => subscribed = Subscriber]_pubVars
=============================================================================
