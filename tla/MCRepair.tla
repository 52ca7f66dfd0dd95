------------------------------ MODULE MCRepair ------------------------------
EXTENDS Repair

CONSTANTS k1, k2, o1

MCObjectOf == [k \in {k1, k2} |-> o1]
=============================================================================
