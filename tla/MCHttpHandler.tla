--------------------------- MODULE MCHttpHandler ---------------------------
(***************************************************************************)
(* Instances of HttpHandler for TLC: a table with a tie, a record without  *)
(* a distance and one beyond the search distance.                          *)
(***************************************************************************)
EXTENDS HttpHandler

MixedTable == <<2, NaN, 1, 2, 3, 5>>
ShortTable == <<2, 1>>

Symmetry == Permutations(Threads)
=============================================================================
