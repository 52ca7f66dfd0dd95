----------------------------- MODULE MCVerifyRun -----------------------------
(* Two volumes; the second object has a slice on the second volume only.   *)
EXTENDS VerifyRun

MCSlicesOf == [o \in Obj |-> IF o = 2 THEN {2} ELSE {1, 2}]

MCFilters == {All, {1}}
=============================================================================
