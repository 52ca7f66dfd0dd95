---------------------------- MODULE ObjectStore ----------------------------
(***************************************************************************)
(* What STRUBS promises of its objects, without requests, slices, journal  *)
(* or snapshot: an object a client can name has its data, its data goes    *)
(* only after its name, and when the database of names is lost, every name *)
(* there was comes back before the store serves again.                     *)
(***************************************************************************)
CONSTANT Obj    \* the objects

VARIABLES
    visible,    \* the objects that have a name a GET can find
    stored,     \* the objects whose data can be read back
    serving,    \* clients are served; FALSE while names are being recovered
    owed        \* what the recovery must bring back

vars == <<visible, stored, serving, owed>>

Init ==
    /\ stored \in SUBSET Obj /\ visible \in SUBSET stored
    /\ serving = TRUE /\ owed = {}

\* Data comes, or goes, where no name leads to it.
Write(o) ==
    /\ serving /\ o \notin visible
    /\ stored' = stored \cup {o}
    /\ UNCHANGED <<visible, serving, owed>>

Erase(o) ==
    /\ serving /\ o \notin visible
    /\ stored' = stored \ {o}
    /\ UNCHANGED <<visible, serving, owed>>

\* A name appears for data that is there, or goes and leaves the data.
Publish(o) ==
    /\ serving /\ o \in stored
    /\ visible' = visible \cup {o}
    /\ UNCHANGED <<stored, serving, owed>>

Retract(o) ==
    /\ serving
    /\ visible' = visible \ {o}
    /\ UNCHANGED <<stored, serving, owed>>

\* The names are lost.  At least the ones there were are owed; an object whose
\* name was being removed, and whose data is still there, may be too.
LoseNames ==
    /\ serving /\ serving' = FALSE
    /\ visible' = {}
    /\ owed' \in SUBSET stored /\ visible \subseteq owed'
    /\ UNCHANGED stored

Recover(o) ==
    /\ ~serving /\ o \in owed
    /\ visible' = visible \cup {o}
    /\ UNCHANGED <<stored, serving, owed>>

Resume ==
    /\ ~serving /\ serving' = TRUE
    /\ visible' = owed /\ owed' = {}
    /\ UNCHANGED stored

Next ==
    \/ \E o \in Obj : Write(o) \/ Erase(o) \/ Publish(o) \/ Retract(o) \/ Recover(o)
    \/ LoseNames \/ Resume

Spec == Init /\ [][Next]_vars
=============================================================================
