---------------------------- MODULE MCBinaryStar ----------------------------
(***************************************************************************)
(* Instances of BinaryStar for TLC.                                        *)
(***************************************************************************)
EXTENDS BinaryStar, TLC

Clients == Permutations(Client)
=============================================================================
