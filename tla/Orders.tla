------------------------------- MODULE Orders --------------------------------
(***************************************************************************)
(* The elements of a finite set of numbers in increasing order: what an    *)
(* ORDER BY id makes of a set of rows.                                     *)
(***************************************************************************)
EXTENDS Naturals, FiniteSets

Place(S, n) == CHOOSE i \in S : Cardinality({j \in S : j <= i}) = n
InOrder(S) == [n \in 1 .. Cardinality(S) |-> Place(S, n)]
=============================================================================
