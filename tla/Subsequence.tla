---------------------------- MODULE Subsequence ----------------------------
(***************************************************************************)
(* The part of a sequence at some of its positions, in their order: what   *)
(* SelectSeq makes, in a form that can be reasoned about.                  *)
(***************************************************************************)
EXTENDS Naturals, Sequences, FiniteSets

(* The n-th of a set of positions.                                         *)
Position(P, n) == CHOOSE i \in P : Cardinality({j \in P : j <= i}) = n

AtPositions(s, P) == [n \in 1 .. Cardinality(P) |-> s[Position(P, n)]]
=============================================================================
