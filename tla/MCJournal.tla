----------------------------- MODULE MCJournal -----------------------------
(* Instances of Journal for TLC. *)
EXTENDS Journal, TLC

CONSTANTS v1, v2, v3

\* v1 and v2 share a bus; v3 is on its own.
MCVol   == {v1, v2, v3}
MCGroup == [v \in MCVol |-> IF v = v3 THEN 2 ELSE 1]

\* All of them can be written to, or all but one have been drained.
MCFleets == {MCVol, {v3}}
AllOfThem == {MCVol}

\* A journal of two segments, on two buses, from before this process.
CONSTANTS h1, h2
OldHistory == <<h1, h2>>
NoHistory  == <<>>
OldHolders == {v1, v3}
NoHolders  == {}

\* Without old segments nothing tells the records apart, nor v1 from v2.
Symmetry == Permutations(Rec) \cup Permutations({v1, v2})
=============================================================================
