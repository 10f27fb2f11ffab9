------------------------------ MODULE Selection ------------------------------
(***************************************************************************)
(* What Array.filter, and the loops that copy some entries of a list to    *)
(* another one, keep: the entries at some of the positions, in order.      *)
(***************************************************************************)
EXTENDS Naturals, Sequences, FiniteSets

Contents(s) == {s[i] : i \in DOMAIN s}

(* The n-th of the positions.                                              *)
Nth(kept, n) == CHOOSE i \in kept : Cardinality({j \in kept : j <= i}) = n

Those(s, kept) == [n \in 1..Cardinality(kept) |-> s[Nth(kept, n)]]
=============================================================================
