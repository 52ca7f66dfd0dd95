------------------------- MODULE MCObjectLifecycle -------------------------
(* Instances of ObjectLifecycle for TLC. *)
EXTENDS ObjectLifecycle, TLC

CONSTANTS a, b, c1, c2, s1, s2, s3

\* Every upload asks for a name of its own.
OwnName == [o \in Obj |-> o]
=============================================================================
