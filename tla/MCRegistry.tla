------------------------------ MODULE MCRegistry ------------------------------
(* Instances of Registry for TLC.                                           *)
EXTENDS Registry, TLC

\* Requests are not ordered or chosen anywhere.
Symmetry == Permutations(Requests)
=============================================================================
