---------------------------------- MODULE Lists ----------------------------------
(***************************************************************************)
(* What a loop leaves of a sequence that goes through it once and keeps    *)
(* some of its elements.                                                   *)
(***************************************************************************)
EXTENDS Naturals, Sequences, FiniteSets

(* Where the element at i comes among those at the places of I.            *)
Rank(I, i) == Cardinality({j \in I : j <= i})

(* The elements of s at the places of I, in the order of s.                *)
Kept(s, I) == [n \in 1..Cardinality(I) |-> s[CHOOSE i \in I : Rank(I, i) = n]]

(* The elements of s that are in S, in the order of s.                     *)
Only(s, S) == Kept(s, {i \in DOMAIN s : s[i] \in S})
=============================================================================
