--------------------------- MODULE MCSliceMoves ----------------------------
(* Instances of SliceMoves for TLC. *)
EXTENDS SliceMoves, TLC

CONSTANTS i1, i2, i3, v1, v2, v3, v4

Symmetry == Permutations(Slice) \cup Permutations(Volume)
=============================================================================
