--------------------------- MODULE MCSharedStream ---------------------------
(* Instances of SharedStream for TLC.                                       *)
EXTENDS SharedStream, TLC

\* Neither viewers nor streams are ordered or chosen anywhere.
Symmetry == Permutations(Viewers) \cup Permutations(Streams)
=============================================================================
