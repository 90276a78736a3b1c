-------------------------------- MODULE Lists --------------------------------
(***************************************************************************)
(* Sorting and selecting: what std::map, std::vector and redis do with     *)
(* lists in order, stated by the places the elements end up in.            *)
(***************************************************************************)
EXTENDS Integers, Sequences, FiniteSets

(* How many members of S come no later than x in the order R, which is a   *)
(* set of pairs.                                                           *)
Place(S, R, x) == Cardinality({y \in S : y = x \/ <<y, x>> \in R})

(* The members of S in the order R. *)
SortBy(S, R) == [n \in 1 .. Cardinality(S) |-> CHOOSE x \in S : Place(S, R, x) = n]

Ascending(S) == SortBy(S, {p \in S \X S : p[1] < p[2]})

(* The elements of s at positions I, in order. *)
Pick(s, I) ==
  LET order == Ascending(I) IN [n \in 1 .. Cardinality(I) |-> s[order[n]]]

(* The elements of s at positions I, least key first, otherwise in order.  *)
PickBy(s, I, key) ==
  LET order == SortBy(I, {p \in I \X I :
                            \/ key[p[1]] < key[p[2]]
                            \/ key[p[1]] = key[p[2]] /\ p[1] < p[2]})
  IN  [n \in 1 .. Cardinality(I) |-> s[order[n]]]
=============================================================================
