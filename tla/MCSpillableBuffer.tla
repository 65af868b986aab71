-------------------------- MODULE MCSpillableBuffer --------------------------
(* Small instances of SpillableBuffer for TLC.                             *)
EXTENDS SpillableBuffer, TLC

Symmetry == Permutations(Threads) \cup Permutations(Owners) \cup Permutations(Frames)
=============================================================================
