---------------------------- MODULE MCBrowserFeed ----------------------------
(* Instances of BrowserFeed for TLC.                                        *)
EXTENDS BrowserFeed, TLC

\* Neither viewers nor keys nor streams are ordered or chosen anywhere.
Symmetry == Permutations(Viewers) \cup Permutations(Streams) \cup Permutations(Keys)
=============================================================================
