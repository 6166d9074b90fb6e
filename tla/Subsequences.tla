----------------------------- MODULE Subsequences -----------------------------
(***************************************************************************)
(* What several models take out of a sequence: the elements at some        *)
(* positions, in their order, as std::erase_if and std::deque::erase leave *)
(* them.  It says the same as SelectSeq of the elements that are left, but *)
(* is defined without recursion.                                           *)
(***************************************************************************)
EXTENDS Integers, Sequences, FiniteSets

MinOf(a, b) == IF a <= b THEN a ELSE b

(* The k-th smallest element of a finite set of numbers.                    *)
Nth(I, k) == CHOOSE i \in I : Cardinality({j \in I : j <= i}) = k

(* The subsequence of s at the positions I.                                 *)
Pick(s, I) == [k \in 1 .. Cardinality(I) |-> s[Nth(I, k)]]
=============================================================================
