--------------------------- MODULE MCCopyOnWrite ---------------------------
(* Instances of CopyOnWrite for TLC.  An owner that nothing refers to is an  *)
(* object Python has destroyed: the view forgets what is left of it.         *)
EXTENDS CopyOnWrite, TLC

Symmetry == Permutations(Slices) \cup Permutations(Owners) \cup Permutations(Values)

LiveState ==
  <<owner, off, len, external, open,
    [o \in Owners |-> IF FreeOwner(o) THEN <<>> ELSE <<slices[o], exposed[o], mem[o]>>]>>
=============================================================================
