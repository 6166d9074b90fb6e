----------------------------- MODULE MCPatterns -----------------------------
(***************************************************************************)
(* An instance of Patterns for TLC: two brokers and one that is foreign,   *)
(* with the workers at the first.  The texts include the empty one and the *)
(* codes of the messages that have texts in them; the identity has a 0 in  *)
(* it, as RandomString may put there.                                      *)
(***************************************************************************)
EXTENDS Patterns

CONSTANTS b1, b2, f1, k3

(* Each broker of this code knows the other; one and the foreign one know   *)
(* each other.                                                              *)
PeersOfPeer == [b \in Peer |-> IF b = b1 THEN {b2, f1} ELSE {b1}]

HomeOfWorker == [w \in RouterWorker |-> b1]
HomeOfClient == [c \in RouterClient |-> IF c = k3 THEN f1 ELSE b1]

SomeText == {<<>>, <<1>>, <<2>>, <<3>>}
TheVersion == <<77, 68>>
TheHeader == <<109, 109, 105>>
AnIdentity == <<65, 0>>
=============================================================================
