--------------------------- MODULE MCWorkloadPage ---------------------------
(* Values for the constants of WorkloadPage. *)
EXTENDS WorkloadPage, TLC

CONSTANTS c1, c2, k1, k2

\* One container each, or the only one.
OneEach == (k1 :> c1) @@ (k2 :> c2)
OnlyOne == k1 :> c1
=============================================================================
