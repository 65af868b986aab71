---------------------------- MODULE MCRmmEvents ----------------------------
(* Instances of RmmEvents for TLC. *)
EXTENDS RmmEvents, TLC
Symmetry == Permutations(Threads) \cup Permutations(Blocks)
=============================================================================
