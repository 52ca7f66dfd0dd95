------------------------------- MODULE MCKeys -------------------------------
(* Small instances of Keys for TLC.                                        *)
EXTENDS Keys

MCDisk == {"d1", "d2", "d3"}
MCInUse == [d \in MCDisk |-> CASE d = "d1" -> 1 [] d = "d2" -> 2 [] OTHER -> 0]
MCEncrypted == {{}, {"d1", "d2"}}
MCDrained == {"d2"}
MCRetired == {{}, {"d2"}}
MCPass == {"p", "q"}
=============================================================================
