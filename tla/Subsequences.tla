----------------------------- MODULE Subsequences -----------------------------
(***************************************************************************)
(* The part of a sequence at some of its places, in the order of the       *)
(* sequence.  SelectSeq takes a test where this takes the places that pass *)
(* it, a set, which proofs can reason about.                               *)
(***************************************************************************)
EXTENDS Naturals, FiniteSets, Sequences

\* How many of the places are not after one.
Rank(places, i) == Cardinality({k \in places : k <= i})

SubsequenceAt(s, places) ==
    [n \in 1 .. Cardinality(places) |-> s[CHOOSE i \in places : Rank(places, i) = n]]

===============================================================================
