------------------------------ MODULE MCDevices ------------------------------
(* Small instances of Devices for TLC: volume "e" is encrypted and has a   *)
(* copy, volume "p" is plain.                                              *)
EXTENDS Devices

MCVolumes == {"e", "p"}
MCDisks == {"E", "copy", "P"}
MCCarries == [d \in MCDisks |-> IF d = "P" THEN "p" ELSE "e"]
MCStart == [n \in {"s1", "s2", "s3"} |-> CASE n = "s1" -> "E" [] n = "s2" -> "P" [] OTHER -> "gone"]
=============================================================================
