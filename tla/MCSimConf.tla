----------------------------- MODULE MCSimConf -----------------------------
(* Instances of SimConf for TLC. *)
EXTENDS SimConf, TLC

CONSTANTS p1, p2, k1, k2

Of(p, n, ks) == [pid |-> p, pattern |-> n, keys |-> ks]

(* Valid files of one and two products, one without products, one with a    *)
(* bad pattern after a good product, one that names a product twice.        *)
MCFiles ==
  {<<>>,
   <<Of(p1, 0, {k1})>>,
   <<Of(p1, 1, {k1}), Of(p2, 2, {k2})>>,
   <<Of(p2, 1, {}), Of(p1, 3, {})>>,
   <<Of(p2, 0, {k2}), Of(p2, 1, {k1})>>}

Symmetry == Permutations(Readers)
=============================================================================
