----------------------------- MODULE MCRecovery -----------------------------
(* Small instances of Recovery for TLC.                                    *)
EXTENDS Recovery

MCVol == {1, 2, 3}
MCTwo == {1, 2}
MCForeign == {9}
MCLose == {"db", "host"}
=============================================================================
