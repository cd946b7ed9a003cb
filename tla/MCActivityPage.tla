--------------------------- MODULE MCActivityPage ---------------------------
(* ActivityPage with model values for its targets, which are interchangeable. *)
EXTENDS ActivityPage, TLC

CONSTANTS t1, t2

Symmetry == Permutations({t1, t2})
=============================================================================
