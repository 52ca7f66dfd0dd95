----------------------------- MODULE AppendLog -----------------------------
(***************************************************************************)
(* What the journal promises the callers of append(), without disks,       *)
(* segments or elections: a record is asked for once and waits in a queue; *)
(* the answers come in the order of the queue, for a group at a time; a    *)
(* record is acknowledged only when a replay would find it, and then is    *)
(* found for good; what was not acknowledged may stay or go, but a record  *)
(* that nobody waits for any more never appears.                           *)
(***************************************************************************)
EXTENDS Integers, Sequences

CONSTANT Rec    \* the records

VARIABLES
    asked,      \* the records somebody has asked for
    queue,      \* those that wait for their answer, in order
    log,        \* those acknowledged, in order
    kept        \* those a replay would find

vars == <<asked, queue, log, kept>>

Records(s) == {s[i] : i \in 1 .. Len(s)}

Init ==
    /\ asked \in SUBSET Rec /\ kept \in SUBSET asked
    /\ queue = <<>>
    /\ log \in Seq(Rec) /\ Records(log) \subseteq kept

Ask(r) ==
    /\ r \notin asked /\ asked' = asked \cup {r}
    /\ queue' = Append(queue, r)
    /\ UNCHANGED <<log, kept>>

\* The log is not open, or cannot be written: nothing is recorded.
Refuse(r) ==
    /\ r \notin asked /\ asked' = asked \cup {r}
    /\ UNCHANGED <<queue, log, kept>>

\* Records in the queue reach the medium.
Persist ==
    /\ kept \subseteq kept' /\ kept' \subseteq kept \cup Records(queue)
    /\ UNCHANGED <<asked, queue, log>>

\* Records leave it again, but none that was acknowledged.
Discard ==
    /\ kept' \subseteq kept /\ Records(log) \subseteq kept'
    /\ UNCHANGED <<asked, queue, log>>

\* The first n in the queue are answered: they are on the medium, or rejected.
Acknowledge(n) ==
    /\ n \in 1 .. Len(queue)
    /\ Records(SubSeq(queue, 1, n)) \subseteq kept
    /\ log' = log \o SubSeq(queue, 1, n)
    /\ queue' = SubSeq(queue, n + 1, Len(queue))
    /\ UNCHANGED <<asked, kept>>

Reject(n) ==
    /\ n \in 1 .. Len(queue)
    /\ queue' = SubSeq(queue, n + 1, Len(queue))
    /\ UNCHANGED <<asked, log, kept>>

\* The process dies: whoever waits, in the queue or before it, is not answered.
Crash ==
    /\ queue' = <<>>
    /\ asked \subseteq asked' /\ asked' \subseteq Rec
    /\ UNCHANGED <<log, kept>>

Next ==
    \/ \E r \in Rec : Ask(r) \/ Refuse(r)
    \/ \E n \in 1 .. Len(queue) : Acknowledge(n) \/ Reject(n)
    \/ Persist \/ Discard \/ Crash

Spec == Init /\ [][Next]_vars
=============================================================================
