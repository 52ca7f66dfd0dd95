--------------------------- MODULE JournalProofs ---------------------------
(***************************************************************************)
(* What holds of Journal for any finite fleet, any segment size and any    *)
(* budget of faults.  The inductive invariant has three layers:            *)
(*                                                                         *)
(*   Ordered       the types, and which of append, flush and discovery may *)
(*                 be at work together: a discovery finds the writer       *)
(*                 drained, a flush partitions the open volumes;           *)
(*   Whole         the files are lines: a flush appends behind an even     *)
(*                 offset, and what it left torn is cut before the next;   *)
(*   AckedDurable  an acknowledged record is on a platter.                 *)
(*                                                                         *)
(* Ordered needs LinesEverywhere of Whole (a file that opens is cut behind *)
(* a newline), Whole needs the partition of the open volumes, and          *)
(* AckedDurable needs both: a rollback takes back exactly its own batch.   *)
(*                                                                         *)
(* On steady disks two more layers, Aligned and Sequenced, give Lockstep   *)
(* and ReplayOrder; the second half of the module introduces them.  The    *)
(* last part shows that Journal implements AppendLog.                      *)
(***************************************************************************)
EXTENDS Journal, TLAPS, FiniteSetTheorems, SequenceTheorems, WellFoundedInduction, NaturalsInduction

\* A file made of whole lines, but for a torn last one.
Lines(f) ==
    \A i \in 1 .. Len(f) :
        /\ f[i][2] = IF i % 2 = 1 THEN "text" ELSE "newline"
        /\ i % 2 = 0 => f[i][1] = f[i - 1][1]

\* The record's line is in file f, complete.
Holds(f, r) == \E i \in 1 .. Len(f) : f[i] = <<r, "newline">>

\* A segment that is not on a volume has no bytes there.
AbsentIsEmpty == \A v \in Vol, s \in Seg : s \notin present[v] => disk[v][s] = <<>>

\* A discovery runs with the writer drained: nothing in flight, nothing queued.
Quiet == ephase \in {"scan", "lineage", "seed"} => fphase = "idle" /\ pending = <<>>

\* A volume is seeded before it is opened, and never from itself.
Seeding ==
    /\ ephase = "seed" => todo \cap open = {} /\ (target # None => target \notin open)
    /\ target \notin from

\* What is queued or in flight has not been answered, and nothing is in both.
InQueue ==
    /\ \A i \in 1 .. Len(pending) : rec[pending[i]] = "pending"
    /\ \A i \in 1 .. Len(batch) : rec[batch[i]] = "pending"
    /\ \A i \in 1 .. Len(pending), j \in 1 .. Len(batch) : pending[i] # batch[j]

\* A flush has every open volume still to write or written; its rollback has closed all.
Flushing ==
    /\ fphase = "idle" => batch = <<>>
    /\ fphase = "write" => open = left \cup durable /\ left \cap durable = {}
    /\ fphase = "rollback" => open = {}

\* A file handle of the writer is on a segment that exists.
OpenExists == \A v \in open : segment \in present[v]

Ordered == TypeOK /\ AbsentIsEmpty /\ OpenExists /\ Quiet /\ Seeding /\ InQueue /\ Flushing

\* Every file on every platter reads as lines, torn at most at its end.
LinesEverywhere == \A v \in Vol, s \in Seg : Lines(disk[v][s])

\* Between flushes the file the writer appends to ends with a newline.
OpenWhole == fphase = "idle" => \A v \in open : Len(disk[v][segment]) % 2 = 0

\* What a flush put behind the offset it noted came from its batch.
Written ==
    fphase # "idle" =>
        \A v \in Vol :
            /\ before[v] <= Len(disk[v][segment])
            /\ \A i \in before[v] + 1 .. Len(disk[v][segment]) :
                  \E j \in 1 .. Len(batch) : disk[v][segment][i][1] = batch[j]

\* A flush appends to whole lines; the volumes it counts have all of the batch.
Landing ==
    fphase = "write" =>
        /\ \A v \in open : before[v] % 2 = 0
        /\ \A v \in left : Len(disk[v][segment]) = before[v]
        /\ \A v \in durable :
              /\ Len(disk[v][segment]) = before[v] + 2 * Len(batch)
              /\ \A i \in 1 .. 2 * Len(batch) : disk[v][segment][before[v] + i] = Body(batch)[i]

Whole == LinesEverywhere /\ OpenWhole /\ Written /\ Landing

-----------------------------------------------------------------------------
\* Odd and even places.
LEMMA Halves ==
    ASSUME NEW n \in Nat, NEW i \in 1 .. 2 * n
    PROVE  /\ (i + 1) \div 2 \in 1 .. n
           /\ i % 2 = 0 => i - 1 \in 1 .. 2 * n /\ (i - 1) % 2 = 1 /\ ((i - 1) + 1) \div 2 = (i + 1) \div 2
  OBVIOUS

\* The last even place.
LEMMA EvenBefore ==
    ASSUME NEW n \in Nat
    PROVE  /\ n % 2 = 0 \/ n % 2 = 1
           /\ n % 2 # 0 => n - 1 \in 0 .. n /\ (n - 1) % 2 = 0
           /\ \A i \in 1 .. n : i % 2 = 0 => i - 1 \in 1 .. n
  OBVIOUS

\* Lines keep their parity behind an even offset.
LEMMA EvenShift ==
    ASSUME NEW n \in Nat, NEW k \in Nat, n % 2 = 0
    PROVE  k % 2 = (n + k) % 2
  OBVIOUS

\* What the elements of a file are.
LEMMA FileFacts ==
    ASSUME NEW f \in File
    PROVE  /\ Len(f) \in Nat
           /\ f \in [1 .. Len(f) -> Byte]
           /\ \A i \in 1 .. Len(f) : f[i] \in Byte /\ f[i] = <<f[i][1], f[i][2]>>
                                     /\ f[i][1] \in Rec /\ f[i][2] \in {"text", "newline"}
<1>1. Len(f) \in Nat /\ f \in [1 .. Len(f) -> Byte]
  BY LenProperties DEF File
<1>2. ASSUME NEW i \in 1 .. Len(f)
      PROVE  f[i] \in Byte /\ f[i] = <<f[i][1], f[i][2]>>
             /\ f[i][1] \in Rec /\ f[i][2] \in {"text", "newline"}
  <2>1. f[i] \in Byte
    BY <1>1
  <2>. QED
    BY <2>1 DEF Byte
<1>. QED
  BY <1>1, <1>2

\* The body of a batch: two cells for each record, the newline last.
LEMMA BodyFacts ==
    ASSUME NEW b \in Seq(Rec)
    PROVE  /\ Body(b) \in File /\ Len(Body(b)) = 2 * Len(b) /\ Lines(Body(b))
           /\ \A i \in 1 .. 2 * Len(b) : \E j \in 1 .. Len(b) : Body(b)[i][1] = b[j]
           /\ \A j \in 1 .. Len(b) : 2 * j \in 1 .. 2 * Len(b) /\ Body(b)[2 * j] = <<b[j], "newline">>
<1>1. Len(b) \in Nat /\ b \in [1 .. Len(b) -> Rec]
  BY LenProperties
<1>2. ASSUME NEW i \in 1 .. 2 * Len(b)
      PROVE  /\ (i + 1) \div 2 \in 1 .. Len(b)
             /\ Body(b)[i] = <<b[(i + 1) \div 2], IF i % 2 = 1 THEN "text" ELSE "newline">>
             /\ i % 2 = 0 => /\ (i - 1) % 2 = 1 /\ i - 1 \in 1 .. 2 * Len(b)
                             /\ ((i - 1) + 1) \div 2 = (i + 1) \div 2
  <2>1. /\ (i + 1) \div 2 \in 1 .. Len(b)
        /\ i % 2 = 0 => /\ (i - 1) % 2 = 1 /\ i - 1 \in 1 .. 2 * Len(b)
                        /\ ((i - 1) + 1) \div 2 = (i + 1) \div 2
    BY <1>1, Halves
  <2>2. Body(b)[i] = <<b[(i + 1) \div 2], IF i % 2 = 1 THEN "text" ELSE "newline">>
    BY DEF Body
  <2>. QED
    BY <2>1, <2>2
<1>3. ASSUME NEW i \in 1 .. 2 * Len(b) PROVE Body(b)[i] \in Byte
  <2>1. b[(i + 1) \div 2] \in Rec
    BY <1>1, <1>2
  <2>2. Body(b)[i] = <<b[(i + 1) \div 2], IF i % 2 = 1 THEN "text" ELSE "newline">>
    BY <1>2
  <2>3. (IF i % 2 = 1 THEN "text" ELSE "newline") \in {"text", "newline"}
    OBVIOUS
  <2>. QED
    BY <2>1, <2>2, <2>3 DEF Byte
<1>4. Body(b) \in [1 .. 2 * Len(b) -> Byte]
  BY <1>1, <1>3 DEF Body
<1>5. 2 * Len(b) \in Nat
  BY <1>1
<1>6. Body(b) \in File
  BY <1>4, <1>5, SeqDef DEF File
<1>7. Len(Body(b)) = 2 * Len(b)
  BY <1>4, <1>5, <1>6, LenProperties DEF File
<1>8. Lines(Body(b))
  BY <1>2, <1>7 DEF Lines
<1>9. ASSUME NEW j \in 1 .. Len(b)
      PROVE  2 * j \in 1 .. 2 * Len(b) /\ Body(b)[2 * j] = <<b[j], "newline">>
  <2>1. 2 * j \in 1 .. 2 * Len(b) /\ (2 * j) % 2 = 0 /\ (2 * j + 1) \div 2 = j
    BY <1>1
  <2>. QED
    BY <2>1, <1>2
<1>10. ASSUME NEW i \in 1 .. 2 * Len(b) PROVE \E j \in 1 .. Len(b) : Body(b)[i][1] = b[j]
  BY <1>2
<1>. QED
  BY <1>6, <1>7, <1>8, <1>9, <1>10

\* The bytes of a file, pointwise.
LEMMA ConcatFacts ==
    ASSUME NEW f \in File, NEW g \in File
    PROVE  /\ f \o g \in File /\ Len(f \o g) = Len(f) + Len(g)
           /\ \A i \in 1 .. Len(f) : (f \o g)[i] = f[i]
           /\ \A i \in 1 .. Len(g) : (f \o g)[Len(f) + i] = g[i]
           /\ \A i \in Len(f) + 1 .. Len(f) + Len(g) : i - Len(f) \in 1 .. Len(g) /\ (f \o g)[i] = g[i - Len(f)]
<1>1. Len(f) \in Nat /\ Len(g) \in Nat
  BY LenProperties DEF File
<1>. QED
  BY <1>1, ConcatProperties DEF File

\* A truncated file, pointwise.
LEMMA PrefixFacts ==
    ASSUME NEW f \in File, NEW n \in 0 .. Len(f)
    PROVE  /\ SubSeq(f, 1, n) \in File /\ Len(SubSeq(f, 1, n)) = n
           /\ \A i \in 1 .. n : SubSeq(f, 1, n)[i] = f[i]
<1>1. n \in Int /\ 1 \in Int /\ \A i \in 1 .. n : f[i] \in Byte
  BY FileFacts
<1>2. /\ SubSeq(f, 1, n) \in Seq(Byte)
      /\ Len(SubSeq(f, 1, n)) = IF 1 <= n THEN n - 1 + 1 ELSE 0
      /\ \A i \in 1 .. n - 1 + 1 : SubSeq(f, 1, n)[i] = f[1 + i - 1]
  BY <1>1, SubSeqProperties
<1>3. n \in Nat
  BY FileFacts
<1>. QED
  BY <1>2, <1>3 DEF File

\* An append to a file that ends with a newline leaves lines.
LEMMA LinesConcat ==
    ASSUME NEW f \in File, NEW g \in File, Lines(f), Lines(g), Len(f) % 2 = 0
    PROVE  Lines(f \o g)
<1>1. Len(f) \in Nat /\ Len(g) \in Nat
  BY LenProperties DEF File
<1>2. ASSUME NEW i \in 1 .. Len(f \o g)
      PROVE /\ (f \o g)[i][2] = IF i % 2 = 1 THEN "text" ELSE "newline"
            /\ i % 2 = 0 => (f \o g)[i][1] = (f \o g)[i - 1][1]
  <2>1. CASE i \in 1 .. Len(f)
    <3>1. (f \o g)[i] = f[i] /\ (i % 2 = 0 => i - 1 \in 1 .. Len(f) /\ (f \o g)[i - 1] = f[i - 1])
      BY <2>1, <1>1, ConcatFacts, EvenBefore
    <3>. QED
      BY <3>1, <2>1 DEF Lines
  <2>2. CASE i \notin 1 .. Len(f)
    <3>. DEFINE k == i - Len(f)
    <3>0. Len(f \o g) = Len(f) + Len(g)
      BY ConcatFacts
    <3>a. i \in Len(f) + 1 .. Len(f) + Len(g) /\ i = Len(f) + k /\ k \in Nat
      BY <2>2, <1>1, <3>0
    <3>b. k % 2 = i % 2
      BY <3>a, <1>1, EvenShift
    <3>1. k \in 1 .. Len(g) /\ (f \o g)[i] = g[k] /\ i = Len(f) + k /\ k % 2 = i % 2
      BY <3>a, <3>b, ConcatFacts
    <3>2. k % 2 = 0 => k - 1 \in 1 .. Len(g) /\ i - 1 = Len(f) + (k - 1)
      BY <3>1, <1>1
    <3>3. k % 2 = 0 => (f \o g)[i - 1] = g[k - 1]
      BY <3>2, ConcatFacts
    <3>. QED
      BY <3>1, <3>3 DEF Lines
  <2>. QED
    BY <2>1, <2>2
<1>. QED
  BY <1>2 DEF Lines

\* A truncation leaves lines.
LEMMA LinesPrefix ==
    ASSUME NEW f \in File, NEW n \in 0 .. Len(f), Lines(f)
    PROVE  Lines(SubSeq(f, 1, n))
<1>1. Len(f) \in Nat
  BY LenProperties DEF File
<1>2. /\ Len(SubSeq(f, 1, n)) = n /\ n \in Nat
      /\ \A i \in 1 .. n : SubSeq(f, 1, n)[i] = f[i]
  BY <1>1, PrefixFacts
<1>3. ASSUME NEW i \in 1 .. n
      PROVE  i \in 1 .. Len(f) /\ (i % 2 = 0 => i - 1 \in 1 .. n)
  BY <1>1, <1>2, EvenBefore
<1>. QED
  BY <1>2, <1>3 DEF Lines

\* rollBackTornTail() cuts behind the last newline, at an even offset.
LEMMA TornTailFacts ==
    ASSUME NEW f \in File, Lines(f)
    PROVE  \E n \in 0 .. Len(f) :
              /\ RollBackTornTail(f) = SubSeq(f, 1, n) /\ n % 2 = 0
              /\ \A i \in n + 1 .. Len(f) : f[i][2] # "newline"
<1>. DEFINE P(n) == /\ n = 0 \/ f[n][2] = "newline"
                    /\ \A i \in n + 1 .. Len(f) : f[i][2] # "newline"
            m == IF Len(f) % 2 = 0 THEN Len(f) ELSE Len(f) - 1
<1>1. Len(f) \in Nat
  BY LenProperties DEF File
<1>2. m \in 0 .. Len(f) /\ m % 2 = 0
  <2>1. CASE Len(f) % 2 = 0
    BY <1>1, <2>1
  <2>2. CASE Len(f) % 2 # 0
    BY <1>1, <2>2, EvenBefore
  <2>. QED
    BY <2>1, <2>2
<1>3. m = 0 \/ m \in 1 .. Len(f)
  BY <1>1, <1>2
<1>4. \A i \in m + 1 .. Len(f) : i \in 1 .. Len(f) /\ i % 2 = 1
  BY <1>1, <1>2
<1>5. P(m)
  BY <1>2, <1>3, <1>4 DEF Lines
<1>6. \E n \in 0 .. Len(f) : P(n)
  BY <1>2, <1>5
<1>7. LastNewline(f) \in 0 .. Len(f) /\ P(LastNewline(f))
  BY <1>6 DEF LastNewline
<1>8. LastNewline(f) = 0 \/ LastNewline(f) \in 1 .. Len(f)
  BY <1>7, <1>1
<1>9. LastNewline(f) % 2 = 0
  <2>1. ASSUME LastNewline(f) \in 1 .. Len(f), LastNewline(f) % 2 # 0 PROVE FALSE
    <3>1. f[LastNewline(f)][2] = "newline" /\ LastNewline(f) % 2 = 1
      BY <1>7, <2>1
    <3>. QED
      BY <3>1, <2>1 DEF Lines
  <2>. QED
    BY <1>8, <2>1
<1>. QED
  BY <1>7, <1>9 DEF RollBackTornTail

-----------------------------------------------------------------------------
\* append() only touches the queue.
LEMMA OrderedAppend ==
    ASSUME Ordered, AppendNext
    PROVE  Ordered'
<1>. PICK r \in Rec : AppendSkipped(r) \/ AppendQueue(r) \/ AppendWait(r) \/ AppendRefuse(r)
  BY DEF AppendNext
<1>0. TypeOK /\ AbsentIsEmpty /\ OpenExists /\ Quiet /\ Seeding /\ InQueue /\ Flushing
  BY DEF Ordered
<1>2. CASE AppendQueue(r)
  <2>1. /\ pending' = Append(pending, r) /\ rec' = [rec EXCEPT ![r] = "pending"] /\ rec[r] # "pending"
        /\ ephase = "idle"
        /\ UNCHANGED <<diskVars, fleetVars, mode, setVars, log, flushVars, electVars, budgets>>
    BY <1>2, <1>0 DEF AppendQueue, Electing, TypeOK, RecStatus
  <2>2. /\ pending' \in Seq(Rec) /\ Len(pending') = Len(pending) + 1
        /\ \A i \in 1 .. Len(pending) : pending'[i] = pending[i]
        /\ pending'[Len(pending) + 1] = r /\ Len(pending) \in Nat /\ Len(batch) \in Nat
    BY <2>1, <1>0, AppendProperties, LenProperties DEF TypeOK
  <2>3. TypeOK'
    BY <2>1, <2>2, <1>0 DEF TypeOK, RecStatus, diskVars, fleetVars, setVars,
        flushVars, electVars, seedVars, budgets
  <2>4. InQueue'
    <3>1. rec' \in [Rec -> RecStatus] /\ \A x \in Rec : x # r => rec'[x] = rec[x]
      BY <2>1, <2>3, <1>0 DEF TypeOK
    <3>2. rec'[r] = "pending"
      BY <2>1, <1>0 DEF TypeOK
    <3>3. batch' = batch
      BY <2>1 DEF flushVars
    <3>4. /\ \A i \in 1 .. Len(pending) : pending[i] \in Rec
          /\ \A i \in 1 .. Len(batch) : batch[i] \in Rec
      BY <1>0, LenProperties DEF TypeOK
    <3>5. \A i \in 1 .. Len(batch) : batch[i] # r
      BY <2>1, <1>0 DEF InQueue
    <3>. QED
      BY <3>1, <3>2, <3>3, <3>4, <3>5, <2>1, <2>2, <1>0 DEF InQueue
  <2>5. AbsentIsEmpty' /\ OpenExists' /\ Quiet' /\ Seeding' /\ Flushing'
    BY <2>1, <1>0 DEF AbsentIsEmpty, OpenExists, Quiet, Seeding, Flushing, diskVars,
        setVars, flushVars, electVars, seedVars
  <2>. QED
    BY <2>3, <2>4, <2>5 DEF Ordered
<1>3. CASE AppendSkipped(r) \/ AppendWait(r) \/ AppendRefuse(r)
  <2>1. PICK st \in {"skipped", "waiting", "refused"} : /\ rec[r] # "pending" /\ rec' = [rec EXCEPT ![r] = st]
    BY <1>3 DEF AppendSkipped, AppendWait, AppendRefuse
  <2>2. /\ UNCHANGED <<diskVars, fleetVars, mode, setVars, pending, log, flushVars, ephase, reelectionNeeded, seedVars, budgets>>
        /\ queued' = queued \/ (queued' = (queued \/ mode # "stopping"))
    BY <1>3 DEF AppendSkipped, AppendWait, AppendRefuse, electVars, Reconfigure
  <2>a. queued' \in BOOLEAN
    BY <2>2, <1>0 DEF TypeOK
  <2>b. rec' \in [Rec -> RecStatus]
    BY <2>1, <1>0 DEF TypeOK, RecStatus
  <2>3. TypeOK'
    BY <2>a, <2>b, <2>2, <1>0 DEF TypeOK, diskVars, fleetVars, setVars, flushVars,
        seedVars, budgets
  <2>4. AbsentIsEmpty' /\ OpenExists' /\ Quiet' /\ Seeding' /\ Flushing'
    BY <2>2, <1>0 DEF AbsentIsEmpty, OpenExists, Quiet, Seeding, Flushing, diskVars,
        setVars, flushVars, electVars, seedVars
  <2>5. InQueue'
    <3>1. \A x \in Rec : rec[x] = "pending" => rec'[x] = "pending"
      BY <2>1, <1>0 DEF TypeOK
    <3>4. /\ \A i \in 1 .. Len(pending) : pending[i] \in Rec
          /\ \A i \in 1 .. Len(batch) : batch[i] \in Rec
      BY <1>0, LenProperties DEF TypeOK
    <3>5. batch' = batch /\ pending' = pending
      BY <2>2 DEF flushVars
    <3>. QED
      BY <3>1, <3>4, <3>5, <1>0 DEF InQueue
  <2>. QED
    BY <2>3, <2>4, <2>5 DEF Ordered
<1>. QED
  BY <1>2, <1>3

\* The fleet is finite, so its quorums can be counted.
LEMMA FleetFinite == ASSUME NEW S, S \subseteq Vol PROVE IsFiniteSet(S) /\ Cardinality(S) \in Nat
  BY JournalAssumption, FS_Subset, FS_CardinalityType

\* Opening a segment creates it, or cuts its torn tail, on the volumes that open.
LEMMA OpenedFiles ==
    ASSUME TypeOK, AbsentIsEmpty, LinesEverywhere, NEW vs, NEW bad, NEW s \in Seg, OpenSegments(vs, bad, s)
    PROVE  /\ disk' \in [Vol -> [Seg -> File]] /\ present' \in [Vol -> SUBSET Seg]
           /\ \A v \in Vol : s \in present'[v] \/ (v \notin vs \ bad)
           /\ \A v \in Vol : present[v] \subseteq present'[v]
           /\ \A v \in Vol, t \in Seg :
                 disk'[v][t] = IF v \in vs \ bad /\ t = s THEN RollBackTornTail(disk[v][t]) ELSE disk[v][t]
           /\ AbsentIsEmpty'
<1>1. /\ disk' = [v \in Vol |->
                  IF v \in vs \ bad
                  THEN [disk[v] EXCEPT ![s] = RollBackTornTail(@)] ELSE disk[v]]
      /\ present' = [v \in Vol |->
                  IF v \in vs \ bad THEN present[v] \cup {s} ELSE present[v]]
  BY DEF OpenSegments
<1>2. ASSUME NEW v \in Vol PROVE RollBackTornTail(disk[v][s]) \in File
  <2>1. disk[v][s] \in File /\ Lines(disk[v][s])
    BY DEF TypeOK, LinesEverywhere
  <2>. QED
    BY <2>1, TornTailFacts, PrefixFacts
<1>3. disk \in [Vol -> [Seg -> File]] /\ present \in [Vol -> SUBSET Seg]
  BY DEF TypeOK
<1>4. disk' \in [Vol -> [Seg -> File]]
  <2>1. ASSUME NEW v \in Vol PROVE disk'[v] \in [Seg -> File]
    BY <1>1, <1>2, <1>3
  <2>. QED
    BY <2>1, <1>1
<1>5. present' \in [Vol -> SUBSET Seg]
  BY <1>1, <1>3
<1>6. ASSUME NEW v \in Vol, NEW t \in Seg
      PROVE  disk'[v][t] = IF v \in vs \ bad /\ t = s THEN RollBackTornTail(disk[v][t]) ELSE disk[v][t]
  BY <1>1, <1>3
<1>7. \A v \in Vol : (s \in present'[v] \/ (v \notin vs \ bad)) /\ present[v] \subseteq present'[v]
  BY <1>1
<1>8. AbsentIsEmpty'
  BY <1>6, <1>7 DEF AbsentIsEmpty
<1>. QED
  BY <1>4, <1>5, <1>6, <1>7, <1>8

\* The flush takes the queue, or settles its batch.
LEMMA EndQueue ==
    ASSUME Ordered, NEW outcome \in RecStatus, FlushEnd(outcome), UNCHANGED pending
    PROVE  InQueue' /\ Flushing' /\ rec' \in [Rec -> RecStatus] /\ batch' \in Seq(Rec)
           /\ left' = {} /\ durable' = {} /\ before' \in [Vol -> Nat] /\ fphase' = "idle"
<1>0. TypeOK /\ InQueue
  BY DEF Ordered
<1>1. /\ fphase' = "idle" /\ batch' = <<>> /\ left' = {} /\ durable' = {}
      /\ before' = [v \in Vol |-> 0] /\ pending' = pending
      /\ rec' = [r \in Rec |-> IF \E i \in 1 .. Len(batch) : batch[i] = r THEN outcome ELSE rec[r]]
  BY DEF FlushEnd
<1>2. rec' \in [Rec -> RecStatus]
  BY <1>0, <1>1 DEF TypeOK
<1>3. \A i \in 1 .. Len(pending) : pending[i] \in Rec
  BY <1>0, LenProperties DEF TypeOK
<1>4. \A i \in 1 .. Len(pending) : rec'[pending[i]] = "pending"
  BY <1>0, <1>1, <1>3 DEF InQueue
<1>5. Len(batch') = 0 /\ batch' \in Seq(Rec)
  BY <1>1
<1>6. InQueue'
  BY <1>1, <1>4, <1>5 DEF InQueue
<1>7. Flushing'
  BY <1>1 DEF Flushing
<1>. QED
  BY <1>1, <1>2, <1>5, <1>6, <1>7

\* Every step of a flush keeps Ordered.
LEMMA OrderedFlush ==
    ASSUME Ordered, LinesEverywhere, FlushNext
    PROVE  Ordered'
<1>0. TypeOK /\ AbsentIsEmpty /\ OpenExists /\ Quiet /\ Seeding /\ InQueue /\ Flushing
  BY DEF Ordered
<1>b. Body(batch) \in File
  BY <1>0, BodyFacts DEF TypeOK
<1>1. CASE FlushStart
  <2>1. TypeOK'
    <3>1. before' \in [Vol -> Nat]
      <4>1. \A v \in Vol : Len(disk[v][segment]) \in Nat
        BY <1>0, FileFacts DEF TypeOK
      <4>. QED
        BY <4>1, <1>1 DEF FlushStart
    <3>2. <<>> \in Seq(Rec)
      OBVIOUS
    <3>. QED
      BY <3>1, <3>2, <1>0, <1>1 DEF TypeOK, FlushStart, diskVars, fleetVars,
          setVars, electVars, seedVars, budgets
  <2>2. InQueue'
    <3>1. batch' = pending /\ Len(pending') = 0 /\ rec' = rec
      BY <1>1 DEF FlushStart
    <3>. QED
      BY <3>1, <1>0 DEF InQueue
  <2>3. Flushing' /\ AbsentIsEmpty' /\ OpenExists' /\ Quiet' /\ Seeding'
    BY <1>0, <1>1 DEF FlushStart, diskVars, setVars, electVars, seedVars, Flushing,
        AbsentIsEmpty, OpenExists, Quiet, Seeding
  <2>. QED
    BY <2>1, <2>2, <2>3 DEF Ordered
<1>2. CASE \E v \in Vol : FlushWrite(v)
  <2>. PICK v \in Vol : FlushWrite(v)
    BY <1>2
  <2>a. disk[v][segment] \in File /\ segment \in Seg
    BY <1>0 DEF TypeOK
  <2>b. disk[v][segment] \o Body(batch) \in File
    BY <2>a, <1>b, ConcatFacts
  <2>g. PICK g \in File : g = disk[v][segment] \o Body(batch)
    BY <2>b
  <2>c. disk' = [disk EXCEPT ![v][segment] = g]
    BY <2>g DEF FlushWrite
  <2>d. /\ disk' \in [Vol -> [Seg -> File]]
        /\ \A w \in Vol, t \in Seg : w # v \/ t # segment => disk'[w][t] = disk[w][t]
    <3>1. disk \in [Vol -> [Seg -> File]]
      BY <1>0 DEF TypeOK
    <3>. QED
      BY <3>1, <2>a, <2>c
  <2>1. TypeOK'
    BY <2>d, <1>0 DEF TypeOK, FlushWrite, fleetVars, setVars, queueVars, electVars,
        seedVars, budgets
  <2>2. AbsentIsEmpty'
    <3>1. segment \in present[v] /\ present' = present
      BY <1>0 DEF Flushing, OpenExists, FlushWrite
    <3>. QED
      BY <3>1, <2>d, <1>0 DEF AbsentIsEmpty
  <2>3. InQueue'
    BY <1>0 DEF FlushWrite, queueVars, InQueue
  <2>4. Flushing' /\ OpenExists' /\ Quiet' /\ Seeding'
    BY <1>0 DEF FlushWrite, setVars, queueVars, electVars, seedVars, Flushing,
        OpenExists, Quiet, Seeding
  <2>. QED
    BY <2>1, <2>2, <2>3, <2>4 DEF Ordered
<1>3. CASE \E v \in left : \E n \in 0 .. 2 * Len(batch) : FlushFail(v, n)
  <2>. PICK v \in left, n \in 0 .. 2 * Len(batch) : FlushFail(v, n)
    BY <1>3
  <2>a. disk[v][segment] \in File /\ segment \in Seg /\ v \in Vol
    BY <1>0 DEF TypeOK
  <2>b. disk[v][segment] \o SubSeq(Body(batch), 1, n) \in File
    <3>1. n \in 0 .. Len(Body(batch))
      BY <1>0, BodyFacts DEF TypeOK
    <3>2. SubSeq(Body(batch), 1, n) \in File
      BY <3>1, <1>b, PrefixFacts
    <3>. QED
      BY <3>2, <2>a, ConcatFacts
  <2>g. PICK g \in File : g = disk[v][segment] \o SubSeq(Body(batch), 1, n)
    BY <2>b
  <2>c. disk' = [disk EXCEPT ![v][segment] = g]
    BY <2>g DEF FlushFail
  <2>d. /\ disk' \in [Vol -> [Seg -> File]]
        /\ \A w \in Vol, t \in Seg : w # v \/ t # segment => disk'[w][t] = disk[w][t]
    <3>1. disk \in [Vol -> [Seg -> File]]
      BY <1>0 DEF TypeOK
    <3>. QED
      BY <3>1, <2>a, <2>c
  <2>e. faults' \in Nat /\ crashes' \in Nat /\ moves' \in Nat
    <3>1. faults \in Nat /\ crashes \in Nat /\ moves \in Nat
      BY <1>0 DEF TypeOK
    <3>2. Fault(1) \/ UNCHANGED budgets
      BY DEF FlushFail
    <3>. QED
      BY <3>1, <3>2 DEF Fault, budgets
  <2>f. /\ left' = left \ {v} /\ replicas' = replicas \ {v} /\ open' = open \ {v} /\ reelectionNeeded' = TRUE
        /\ UNCHANGED <<present, fleetVars, mode, segment, queueVars, fphase, batch, durable, before,
                       ephase, queued, seedVars>>
    BY DEF FlushFail
  <2>1. TypeOK'
    BY <2>d, <2>e, <2>f, <1>0 DEF TypeOK, fleetVars, queueVars, seedVars
  <2>2. AbsentIsEmpty'
    <3>1. segment \in present[v] /\ present' = present
      BY <1>0 DEF Flushing, OpenExists, FlushFail
    <3>. QED
      BY <3>1, <2>d, <1>0 DEF AbsentIsEmpty
  <2>3. InQueue'
    BY <1>0 DEF FlushFail, queueVars, InQueue
  <2>4. Flushing' /\ OpenExists' /\ Quiet' /\ Seeding'
    BY <1>0 DEF FlushFail, queueVars, seedVars, Flushing, OpenExists, Quiet, Seeding
  <2>. QED
    BY <2>1, <2>2, <2>3, <2>4 DEF Ordered
<1>4. CASE FlushAck \/ FlushRejected
  <2>1. PICK outcome \in RecStatus : FlushEnd(outcome)
    BY <1>4 DEF FlushAck, FlushRejected, RecStatus
  <2>2. /\ UNCHANGED <<diskVars, fleetVars, mode, setVars, pending, ephase, reelectionNeeded, seedVars, budgets>>
        /\ log' = log \/ log' = log \o batch
        /\ queued' \in BOOLEAN
    BY <1>4, <1>0 DEF FlushAck, FlushRejected, TypeOK
  <2>3. InQueue' /\ Flushing' /\ rec' \in [Rec -> RecStatus] /\ batch' \in Seq(Rec)
        /\ left' = {} /\ durable' = {} /\ before' \in [Vol -> Nat] /\ fphase' = "idle"
    BY <2>1, <2>2, EndQueue
  <2>4. log' \in Seq(Rec)
    <3>1. log \in Seq(Rec) /\ batch \in Seq(Rec)
      BY <1>0 DEF TypeOK
    <3>2. log \o batch \in Seq(Rec)
      BY <3>1, ConcatProperties
    <3>. QED
      BY <2>2, <3>1, <3>2
  <2>5. TypeOK'
    BY <2>2, <2>3, <2>4, <1>0 DEF TypeOK, diskVars, fleetVars, setVars, seedVars,
        budgets
  <2>6. AbsentIsEmpty' /\ OpenExists' /\ Quiet' /\ Seeding'
    BY <2>2, <2>3, <1>0 DEF diskVars, setVars, seedVars, AbsentIsEmpty, OpenExists,
        Quiet, Seeding
  <2>. QED
    BY <2>3, <2>5, <2>6 DEF Ordered
<1>5. CASE \E bad \in SUBSET replicas : FlushAckRotate(bad)
  <2>. PICK bad \in SUBSET replicas : FlushAckRotate(bad)
    BY <1>5
  <2>1. FlushEnd("acked") /\ "acked" \in RecStatus
    BY DEF FlushAckRotate, RecStatus
  <2>2. /\ UNCHANGED <<fleetVars, mode, pending, ephase, seedVars>>
        /\ log' = log \o batch /\ segment' = segment + 1 /\ segment < MaxSegment /\ fphase = "write"
    BY DEF FlushAckRotate
  <2>3. InQueue' /\ Flushing' /\ rec' \in [Rec -> RecStatus] /\ batch' \in Seq(Rec)
        /\ left' = {} /\ durable' = {} /\ before' \in [Vol -> Nat] /\ fphase' = "idle"
    BY <2>1, <2>2, EndQueue
  <2>4. log' \in Seq(Rec)
    BY <2>2, <1>0, ConcatProperties DEF TypeOK
  <2>5. segment + 1 \in Seg
    BY <2>2, <1>0, JournalAssumption DEF TypeOK, Seg
  <2>6. ephase \notin {"scan", "lineage", "seed"}
    BY <2>2, <1>0 DEF Quiet
  <2>7. Quiet' /\ Seeding'
    BY <2>2, <2>6, <1>0 DEF Quiet, Seeding, seedVars
  <2>8. CASE mode = "stopping"
    <3>1. open' = {} /\ UNCHANGED <<diskVars, replicas, reelectionNeeded, queued, budgets>>
      BY <2>8 DEF FlushAckRotate
    <3>2. TypeOK'
      BY <3>1, <2>2, <2>3, <2>4, <2>5, <1>0 DEF TypeOK, diskVars, fleetVars,
          seedVars, budgets
    <3>3. AbsentIsEmpty' /\ OpenExists'
      BY <3>1, <1>0 DEF diskVars, AbsentIsEmpty, OpenExists
    <3>. QED
      BY <3>2, <3>3, <2>3, <2>7 DEF Ordered
  <2>9. CASE mode # "stopping"
    <3>1. /\ OpenSegments(replicas, bad, segment + 1)
          /\ replicas' = replicas \ bad /\ open' = replicas \ bad
          /\ reelectionNeeded' = (reelectionNeeded \/ bad # {})
          /\ queued' = (queued \/ reelectionNeeded')
          /\ Fault(Cardinality({v \in bad : Mounted(v)}))
      BY <2>9 DEF FlushAckRotate
    <3>2. /\ disk' \in [Vol -> [Seg -> File]] /\ present' \in [Vol -> SUBSET Seg]
          /\ \A v \in Vol : segment + 1 \in present'[v] \/ (v \notin replicas \ bad)
          /\ AbsentIsEmpty'
      BY <3>1, <2>5, <1>0, OpenedFiles
    <3>3. Cardinality({v \in bad : Mounted(v)}) \in Nat
      BY <1>0, FleetFinite DEF TypeOK
    <3>4. faults' \in Nat /\ crashes' \in Nat /\ moves' \in Nat
      BY <3>1, <3>3, <1>0 DEF Fault, TypeOK
    <3>5. reelectionNeeded' \in BOOLEAN /\ queued' \in BOOLEAN
      BY <3>1, <1>0 DEF TypeOK
    <3>6. TypeOK'
      BY <3>1, <3>2, <3>4, <3>5, <2>2, <2>3, <2>4, <2>5, <1>0 DEF TypeOK, fleetVars,
          seedVars
    <3>7. OpenExists'
      BY <3>1, <3>2, <2>2, <1>0 DEF OpenExists, TypeOK
    <3>. QED
      BY <3>2, <3>6, <3>7, <2>3, <2>7 DEF Ordered
  <2>. QED
    BY <2>8, <2>9
<1>6. CASE FlushReject
  <2>1. TypeOK'
    BY <1>0, <1>6 DEF TypeOK, FlushReject, diskVars, fleetVars, setVars, queueVars,
        electVars, seedVars, budgets
  <2>2. InQueue'
    BY <1>0, <1>6 DEF FlushReject, queueVars, InQueue
  <2>3. Flushing' /\ AbsentIsEmpty' /\ OpenExists' /\ Quiet' /\ Seeding'
    BY <1>0, <1>6 DEF FlushReject, diskVars, setVars, queueVars, electVars,
        seedVars, Flushing, AbsentIsEmpty, OpenExists, Quiet, Seeding
  <2>. QED
    BY <2>1, <2>2, <2>3 DEF Ordered
<1>7. CASE \E v \in Vol : Rollback(v) \/ RollbackStuck(v)
  <2>. PICK v \in Vol : Rollback(v) \/ RollbackStuck(v)
    BY <1>7
  <2>a. disk[v][segment] \in File /\ segment \in Seg /\ before[v] \in Nat
    BY <1>0 DEF TypeOK
  <2>b. /\ TruncateTo(disk[v][segment], before[v]) \in File
        /\ disk[v][segment] = <<>> => TruncateTo(disk[v][segment], before[v]) = <<>>
    <3>1. Len(disk[v][segment]) \in Nat
      BY <2>a, FileFacts
    <3>2. Len(disk[v][segment]) <= before[v] \/ before[v] \in 0 .. Len(disk[v][segment])
      BY <2>a, <3>1
    <3>3. disk[v][segment] = <<>> => Len(disk[v][segment]) <= before[v]
      BY <2>a
    <3>. QED
      BY <2>a, <3>2, <3>3, PrefixFacts DEF TruncateTo
  <2>c. disk' = disk \/ disk' = [disk EXCEPT ![v][segment] = TruncateTo(disk[v][segment], before[v])]
    BY DEF Rollback, RollbackStuck, diskVars
  <2>d. disk' \in [Vol -> [Seg -> File]] /\ AbsentIsEmpty'
    <3>1. CASE disk' = disk
      BY <3>1, <1>0 DEF TypeOK, AbsentIsEmpty, Rollback, RollbackStuck, diskVars
    <3>2. CASE disk' = [disk EXCEPT ![v][segment] = TruncateTo(disk[v][segment], before[v])]
      <4>. PICK g \in File : g = TruncateTo(disk[v][segment], before[v])
        BY <2>b
      <4>0. disk' = [disk EXCEPT ![v][segment] = g]
        BY <3>2
      <4>1. /\ disk' \in [Vol -> [Seg -> File]]
            /\ disk'[v][segment] = g
            /\ \A w \in Vol, t \in Seg : w # v \/ t # segment => disk'[w][t] = disk[w][t]
        BY <1>0, <2>a, <4>0 DEF TypeOK
      <4>2. present' = present
        BY DEF Rollback, RollbackStuck, diskVars
      <4>. QED
        BY <4>1, <4>2, <2>b, <1>0 DEF AbsentIsEmpty
    <3>. QED
      BY <2>c, <3>1, <3>2
  <2>e. /\ UNCHANGED <<present, fleetVars, mode, setVars, queueVars, fphase, batch, durable, before, electVars, budgets>>
        /\ left' = left \ {v} /\ fphase = "rollback"
    BY DEF Rollback, RollbackStuck, diskVars
  <2>1. TypeOK'
    BY <2>d, <2>e, <1>0 DEF TypeOK, fleetVars, setVars, queueVars, electVars,
        seedVars, budgets
  <2>2. InQueue'
    BY <2>e, <1>0 DEF queueVars, InQueue
  <2>3. Flushing' /\ OpenExists' /\ Quiet' /\ Seeding'
    BY <2>e, <1>0 DEF setVars, queueVars, electVars, seedVars, Flushing, OpenExists,
        Quiet, Seeding
  <2>. QED
    BY <2>d, <2>1, <2>2, <2>3 DEF Ordered
<1>. QED
  BY <1>1, <1>2, <1>3, <1>4, <1>5, <1>6, <1>7 DEF FlushNext

\* What a copy does to the target's files: nothing, or it puts a prefix of the source's in the place of
\* one that is shorter and agrees.
LEMMA CopyCells ==
    ASSUME TypeOK, AbsentIsEmpty, Seeding, NEW w \in from,
           SeedCopy(w) \/ \E s \in Seg : \E n \in 0 .. Len(disk[w][s]) : SeedCopyFail(w, s, n)
    PROVE  /\ target \in Vol /\ w \in Vol /\ w # target /\ (ephase = "seed" => target \notin open)
           /\ disk' \in [Vol -> [Seg -> File]] /\ present' \in [Vol -> SUBSET Seg]
           /\ \A u \in Vol : u # target => disk'[u] = disk[u] /\ present'[u] = present[u]
           /\ present[target] \subseteq present'[target]
           /\ \A t \in Seg :
                 \/ disk'[target][t] = disk[target][t]
                 \/ /\ Len(disk[target][t]) <= Len(disk[w][t])
                    /\ AgreeOnPrefix(disk[w][t], disk[target][t])
                    /\ \E m \in 0 .. Len(disk[w][t]) : disk'[target][t] = SubSeq(disk[w][t], 1, m)
           /\ AbsentIsEmpty'
<1>1. target \in Vol /\ w \in Vol /\ w # target /\ (ephase = "seed" => target \notin open)
  BY DEF SeedCopy, SeedCopyFail, TypeOK, Seeding
<1>2. disk \in [Vol -> [Seg -> File]] /\ present \in [Vol -> SUBSET Seg]
  BY DEF TypeOK
<1>3. ASSUME NEW t \in Seg
      PROVE  /\ disk[w][t] \in File /\ disk[target][t] \in File
             /\ Len(disk[w][t]) \in Nat /\ Len(disk[target][t]) \in Nat
             /\ SubSeq(disk[w][t], 1, Len(disk[w][t])) = disk[w][t]
             /\ t \notin present[w] => disk[w][t] = <<>> /\ Len(disk[w][t]) = 0
             /\ t \notin present[target] => disk[target][t] = <<>> /\ Len(disk[target][t]) = 0
  <2>1. disk[w][t] \in File /\ disk[target][t] \in File
    BY <1>1, <1>2
  <2>2. Len(disk[w][t]) \in Nat /\ Len(disk[target][t]) \in Nat
    BY <2>1, FileFacts
  <2>3. SubSeq(disk[w][t], 1, Len(disk[w][t])) = disk[w][t]
    BY <2>1, SubSeqFull DEF File
  <2>4. /\ t \notin present[w] => disk[w][t] = <<>>
        /\ t \notin present[target] => disk[target][t] = <<>>
    BY <1>1 DEF AbsentIsEmpty
  <2>. QED
    BY <2>1, <2>2, <2>3, <2>4
<1>4. ASSUME NEW t \in Seg PROVE Copied(w, target)[t] \in File
  BY <1>3 DEF Copied
<1>5. ASSUME NEW t \in Seg, t \notin present[target], Smaller(Len(disk[w][t]), Len(disk[target][t])) # 0 PROVE FALSE
  BY <1>3, <1>5 DEF Smaller
<1>6. ASSUME NEW t \in Seg, t \notin present[target] PROVE AgreeOnPrefix(disk[w][t], disk[target][t])
  BY <1>5, <1>6 DEF AgreeOnPrefix
<1>7. CASE SeedCopy(w)
  <2>1. /\ disk' = [disk EXCEPT ![target] = Copied(w, target)]
        /\ present' = [present EXCEPT ![target] = present[target] \cup present[w]]
        /\ Agree(w, target)
    BY <1>7 DEF SeedCopy
  <2>2. Copied(w, target) \in [Seg -> File]
    BY <1>4 DEF Copied
  <2>3. disk' \in [Vol -> [Seg -> File]] /\ present' \in [Vol -> SUBSET Seg]
    BY <2>1, <2>2, <1>1, <1>2
  <2>4. /\ \A u \in Vol : u # target => disk'[u] = disk[u] /\ present'[u] = present[u]
        /\ disk'[target] = Copied(w, target) /\ present'[target] = present[target] \cup present[w]
    BY <2>1, <1>1, <1>2
  <2>5. ASSUME NEW t \in Seg
        PROVE  \/ disk'[target][t] = disk[target][t]
               \/ /\ Len(disk[target][t]) <= Len(disk[w][t])
                  /\ AgreeOnPrefix(disk[w][t], disk[target][t])
                  /\ \E m \in 0 .. Len(disk[w][t]) : disk'[target][t] = SubSeq(disk[w][t], 1, m)
    <3>1. disk'[target][t] = IF Len(disk[target][t]) < Len(disk[w][t]) THEN disk[w][t] ELSE disk[target][t]
      BY <2>4 DEF Copied
    <3>2. CASE Len(disk[target][t]) < Len(disk[w][t])
      <4>1. t \in present[w]
        BY <3>2, <1>3
      <4>2. AgreeOnPrefix(disk[w][t], disk[target][t])
        BY <4>1, <1>6, <2>1 DEF Agree
      <4>3. Len(disk[w][t]) \in 0 .. Len(disk[w][t]) /\ disk'[target][t] = SubSeq(disk[w][t], 1, Len(disk[w][t]))
        BY <3>1, <3>2, <1>3
      <4>. QED
        BY <4>2, <4>3, <3>2, <1>3
    <3>. QED
      BY <3>1, <3>2
  <2>6. ASSUME NEW t \in Seg, t \notin present'[target] PROVE disk'[target][t] = <<>>
    BY <2>4, <2>6, <1>3 DEF Copied
  <2>7. AbsentIsEmpty'
    BY <2>4, <2>6 DEF AbsentIsEmpty
  <2>. QED
    BY <1>1, <2>3, <2>4, <2>5, <2>7
<1>8. CASE \E s \in Seg : \E n \in 0 .. Len(disk[w][s]) : SeedCopyFail(w, s, n)
  <2>. PICK s \in Seg : \E n \in 0 .. Len(disk[w][s]) : SeedCopyFail(w, s, n)
    BY <1>8
  <2>. PICK n \in 0 .. Len(disk[w][s]) : SeedCopyFail(w, s, n)
    OBVIOUS
  <2>. DEFINE v == target
              reach == Mounted(w) /\ Mounted(v) /\ present[w] # {}
              same(t) == AgreeOnPrefix(disk[w][t], disk[v][t])
              cut == s \in present[w] /\ same(s) /\ Len(disk[v][s]) < Len(disk[w][s])
              file(t) == CASE t < s -> Copied(w, v)[t]
                           [] t = s /\ cut -> SubSeq(disk[w][s], 1, n)
                           [] OTHER -> disk[v][t]
              new == {t \in present[w] : t < s \/ (t = s /\ cut)}
  <2>1. /\ \A t \in present[w] : t < s => same(t)
        /\ disk' = IF ~reach THEN disk ELSE [disk EXCEPT ![v] = [t \in Seg |-> file(t)]]
        /\ present' = IF ~reach THEN present ELSE [present EXCEPT ![v] = @ \cup new]
    BY DEF SeedCopyFail
  <2>2. CASE ~reach
    <3>1. disk' = disk /\ present' = present
      BY <2>1, <2>2
    <3>. QED
      BY <3>1, <1>1, <1>2 DEF AbsentIsEmpty
  <2>3. CASE reach
    <3>1. disk' = [disk EXCEPT ![v] = [t \in Seg |-> file(t)]] /\ present' = [present EXCEPT ![v] = @ \cup new]
      BY <2>1, <2>3
    <3>2. ASSUME NEW t \in Seg
          PROVE  /\ file(t) \in File
                 /\ \/ file(t) = disk[v][t]
                    \/ /\ Len(disk[v][t]) <= Len(disk[w][t])
                       /\ same(t) /\ t \in new
                       /\ \E m \in 0 .. Len(disk[w][t]) : file(t) = SubSeq(disk[w][t], 1, m)
      <4>1. CASE t < s
        <5>0. file(t) = Copied(w, v)[t]
          <6>1. ~(t = s) /\ (t < s)
            BY <4>1 DEF Seg
          <6>. QED
            BY <6>1
        <5>1. file(t) = IF Len(disk[v][t]) < Len(disk[w][t]) THEN disk[w][t] ELSE disk[v][t]
          BY <5>0 DEF Copied
        <5>2. CASE Len(disk[v][t]) < Len(disk[w][t])
          <6>1. t \in present[w] /\ same(t)
            BY <5>2, <4>1, <2>1, <1>3
          <6>2. Len(disk[w][t]) \in 0 .. Len(disk[w][t]) /\ file(t) = SubSeq(disk[w][t], 1, Len(disk[w][t]))
            <7>. HIDE DEF file
            <7>1. file(t) = disk[w][t]
              BY <5>1, <5>2
            <7>. QED
              BY <7>1, <1>3
          <6>3. file(t) \in File /\ Len(disk[v][t]) <= Len(disk[w][t])
            BY <5>1, <5>2, <1>3
          <6>. QED
            BY <6>1, <6>2, <6>3, <4>1
        <5>. QED
          BY <5>1, <5>2, <1>3
      <4>2. CASE t = s /\ cut
        <5>0. ~(t < s)
          BY <4>2 DEF Seg
        <5>1. file(t) = SubSeq(disk[w][t], 1, n) /\ n \in 0 .. Len(disk[w][t])
          BY <4>2, <5>0
        <5>2. file(t) \in File
          <6>. HIDE DEF file
          <6>1. disk[w][t] \in File
            BY <1>3
          <6>. QED
            BY <6>1, <5>1, PrefixFacts
        <5>. QED
          BY <5>1, <5>2, <4>2, <1>3
      <4>3. CASE ~(t < s) /\ ~(t = s /\ cut)
        BY <4>3, <1>3
      <4>. QED
        BY <4>1, <4>2, <4>3
    <3>. HIDE DEF file, new
    <3>3. [t \in Seg |-> file(t)] \in [Seg -> File] /\ new \subseteq Seg
      BY <3>2, <1>2, <1>1 DEF new
    <3>4. /\ disk' \in [Vol -> [Seg -> File]] /\ present' \in [Vol -> SUBSET Seg]
          /\ \A u \in Vol : u # v => disk'[u] = disk[u] /\ present'[u] = present[u]
          /\ \A t \in Seg : disk'[v][t] = file(t)
          /\ present'[v] = present[v] \cup new
      BY <3>1, <3>3, <1>1, <1>2
    <3>5. ASSUME NEW t \in Seg, t \notin present'[v] PROVE disk'[v][t] = <<>>
      BY <3>4, <3>5, <3>2, <1>3
    <3>6. AbsentIsEmpty'
      BY <3>4, <3>5 DEF AbsentIsEmpty
    <3>. QED
      BY <1>1, <3>4, <3>2, <3>6
  <2>. QED
    BY <2>2, <2>3
<1>. QED
  BY <1>7, <1>8

\* A nonempty set of segments has a greatest.
LEMMA Greatest ==
    ASSUME NEW S, S \subseteq Seg, S # {}
    PROVE  \E s \in S : \A t \in S : t <= s
<1>. DEFINE T == {MaxSegment - s : s \in S}
<1>1. MaxSegment \in Nat /\ \A s \in S : s \in Int /\ s <= MaxSegment
  BY JournalAssumption DEF Seg
<1>2. T \subseteq Nat /\ T # {}
  BY <1>1
<1>. HIDE DEF T
<1>3. \E m \in T : \A n \in T : ~(<<n, m>> \in OpToRel(<, Nat))
  BY <1>2, NatLessThanWellFounded, WFMin, Zenon
<1>4. PICK m \in T : \A n \in T : m <= n
  <2>1. \E m \in T : \A n \in T : ~(n < m)
    BY <1>2, <1>3 DEF OpToRel
  <2>. QED
    BY <1>2, <2>1
<1>5. PICK s \in S : m = MaxSegment - s
  BY DEF T
<1>6. \A t \in S : MaxSegment - t \in T
  BY DEF T
<1>7. \A t \in S : t <= s
  BY <1>1, <1>4, <1>5, <1>6
<1>. QED
  BY <1>7

\* The newest segment found is one of the listed.
LEMMA TopSegmentIn ==
    ASSUME TypeOK
    PROVE  TopSegment \in Seg
<1>. DEFINE named == UNION {present[v] : v \in {w \in sources : Mounted(w)}}
            S == named \cup {segment}
<1>1. S \subseteq Seg /\ S # {}
  BY DEF TypeOK
<1>. HIDE DEF S
<1>2. \E s \in S : \A t \in S : t <= s
  BY <1>1, Greatest
<1>3. (CHOOSE s \in S : \A t \in S : t <= s) \in S
  BY <1>2
<1>4. TopSegment = CHOOSE s \in S : \A t \in S : t <= s
  BY DEF TopSegment, S
<1>. QED
  BY <1>1, <1>3, <1>4

\* An election ends, or stops without having touched a file.
LEMMA OrderedEnd ==
    ASSUME Ordered, EndElection,
           UNCHANGED <<diskVars, fleetVars, mode, segment, queueVars, flushVars, queued, reelectionNeeded>>,
           replicas' \in SUBSET Vol, open' \in SUBSET replicas', open' = {} \/ open' = open, fphase = "idle",
           faults' \in Nat, crashes' \in Nat, moves' \in Nat
    PROVE  Ordered'
<1>0. TypeOK /\ AbsentIsEmpty /\ OpenExists /\ Quiet /\ Seeding /\ InQueue /\ Flushing
  BY DEF Ordered
<1>1. /\ ephase' = "idle" /\ chosen' = {} /\ listed' = {} /\ sources' = {} /\ lineage' = {}
      /\ todo' = {} /\ target' = None /\ from' = {} /\ adopted' = {}
  BY DEF EndElection
<1>2. TypeOK'
  BY <1>0, <1>1 DEF TypeOK, diskVars, fleetVars, queueVars, flushVars
<1>3. AbsentIsEmpty' /\ OpenExists' /\ Quiet' /\ Seeding' /\ Flushing'
  BY <1>0, <1>1 DEF diskVars, flushVars, AbsentIsEmpty, OpenExists, Quiet, Seeding,
      Flushing
<1>4. InQueue'
  BY <1>0 DEF queueVars, flushVars, InQueue
<1>. QED
  BY <1>2, <1>3, <1>4 DEF Ordered

\* A fault that is counted stays in its budget.
LEMMA FaultTyped ==
    ASSUME TypeOK, NEW S, S \subseteq Vol, Fault(Cardinality(S)) \/ Fault(1) \/ UNCHANGED budgets
    PROVE  faults' \in Nat /\ crashes' \in Nat /\ moves' \in Nat
<1>1. faults \in Nat /\ crashes \in Nat /\ moves \in Nat
  BY DEF TypeOK
<1>2. PICK n \in Nat : Fault(n) \/ UNCHANGED budgets
  BY FleetFinite
<1>. QED
  BY <1>1, <1>2 DEF Fault, budgets

\* Steps of an election before it has a set: they only change its own variables, and may close handles.
LEMMA OrderedScan ==
    ASSUME Ordered, \/ ElectBegin \/ ElectScanEmpty \/ ElectLineage
                    \/ \E c \in SUBSET Vol : ElectChoose(c)
                    \/ \E bad \in SUBSET listed : ElectScan(bad)
    PROVE  Ordered'
<1>0. TypeOK /\ AbsentIsEmpty /\ OpenExists /\ Quiet /\ Seeding /\ InQueue /\ Flushing
  BY DEF Ordered
<1>1. CASE ElectBegin
  BY <1>0, <1>1 DEF ElectBegin, Ordered, TypeOK, AbsentIsEmpty, OpenExists, Quiet,
      Seeding, InQueue, Flushing,
     diskVars, fleetVars, setVars, queueVars, flushVars, seedVars, budgets
<1>2. CASE ElectScanEmpty
  BY <1>0, <1>2 DEF ElectScanEmpty, Ordered, TypeOK, AbsentIsEmpty, OpenExists,
      Quiet, Seeding, InQueue, Flushing,
     diskVars, fleetVars, setVars, queueVars, flushVars, budgets
<1>3. CASE ElectLineage
  <2>1. lineage' \subseteq Seg
    BY <1>0, <1>3 DEF ElectLineage, TypeOK
  <2>. QED
    BY <1>0, <1>3, <2>1 DEF ElectLineage, Ordered, TypeOK, AbsentIsEmpty,
        OpenExists, Quiet, Seeding, InQueue, Flushing,
       diskVars, fleetVars, setVars, queueVars, flushVars, budgets
<1>4. CASE \E c \in SUBSET Vol : ElectChoose(c)
  <2>. PICK c \in SUBSET Vol : ElectChoose(c)
    BY <1>4
  <2>1. /\ ephase = "drain" /\ fphase = "idle" /\ pending = <<>> /\ chosen' = c
        /\ open' = {v \in open : Mounted(v)} /\ ephase' \in {"scan", "lineage"}
        /\ UNCHANGED <<diskVars, fleetVars, mode, replicas, segment, queueVars,
                   flushVars, queued, reelectionNeeded, lineage, todo, target,
                   from, adopted, budgets>>
    BY DEF ElectChoose
  <2>2. open' \subseteq open
    BY <2>1
  <2>3. listed' \subseteq Vol /\ sources' \subseteq Vol
    BY <2>2, <1>0 DEF ElectChoose, TypeOK
  <2>4. TypeOK'
    BY <2>1, <2>2, <2>3, <1>0 DEF TypeOK, diskVars, fleetVars, queueVars, flushVars,
        budgets
  <2>5. AbsentIsEmpty' /\ OpenExists' /\ Quiet' /\ Seeding' /\ Flushing'
    BY <2>1, <2>2, <1>0 DEF AbsentIsEmpty, OpenExists, Quiet, Seeding, Flushing,
        diskVars, queueVars, flushVars
  <2>6. InQueue'
    BY <2>1, <1>0 DEF InQueue, queueVars, flushVars
  <2>. QED
    BY <2>4, <2>5, <2>6 DEF Ordered
<1>5. CASE \E bad \in SUBSET listed : ElectScan(bad)
  <2>. PICK bad \in SUBSET listed : ElectScan(bad)
    BY <1>5
  <2>1. /\ ephase = "scan" /\ Unlistable(bad) /\ ephase' = "lineage" /\ listed' = {}
        /\ UNCHANGED <<diskVars, fleetVars, mode, setVars, queueVars, flushVars,
                   queued, reelectionNeeded, chosen, lineage, todo, target, from, adopted>>
    BY DEF ElectScan
  <2>2. sources' \subseteq Vol
    <3>1. PICK f \in Lineages({v \in listed \ bad : HasHistory(v)}) : \E v \in DOMAIN f : sources' = Class(f, v)
      BY DEF ElectScan
    <3>. QED
      BY <3>1, <1>0 DEF Lineages, Class, TypeOK
  <2>3. faults' \in Nat /\ crashes' \in Nat /\ moves' \in Nat
    BY <2>1, <1>0, FaultTyped DEF Unlistable, TypeOK
  <2>4. TypeOK'
    BY <2>1, <2>2, <2>3, <1>0 DEF TypeOK, diskVars, fleetVars, setVars, queueVars,
        flushVars
  <2>5. AbsentIsEmpty' /\ OpenExists' /\ Quiet' /\ Seeding' /\ Flushing'
    BY <2>1, <1>0 DEF AbsentIsEmpty, OpenExists, Quiet, Seeding, Flushing, diskVars,
        setVars, queueVars, flushVars
  <2>6. InQueue'
    BY <2>1, <1>0 DEF InQueue, queueVars, flushVars
  <2>. QED
    BY <2>4, <2>5, <2>6 DEF Ordered
<1>. QED
  BY <1>1, <1>2, <1>3, <1>4, <1>5

\* Steps that end an election without opening a file.
LEMMA OrderedGiveUp ==
    ASSUME Ordered, \/ ElectLineageFails \/ ElectKeep \/ ElectOpenFails
                    \/ \E bad \in SUBSET listed : ElectAmbiguous(bad)
    PROVE  Ordered'
<1>0. TypeOK /\ Quiet
  BY DEF Ordered
<1>1. CASE ElectLineageFails
  <2>1. faults' \in Nat /\ crashes' \in Nat /\ moves' \in Nat /\ fphase = "idle"
    BY <1>0, <1>1 DEF ElectLineageFails, Fault, TypeOK, Quiet
  <2>. QED
    BY <2>1, <1>0, <1>1, OrderedEnd DEF ElectLineageFails, setVars, TypeOK
<1>2. CASE ElectKeep
  <2>1. /\ UNCHANGED <<diskVars, fleetVars, mode, open, segment, queueVars, flushVars, queued, reelectionNeeded, budgets>>
        /\ EndElection /\ replicas' = Survivors /\ ephase = "seed" /\ NextSet = {}
    BY <1>2 DEF ElectKeep
  <2>2. open' = open /\ open \subseteq Survivors /\ Survivors \subseteq Vol
    BY <2>1, <1>0 DEF Survivors, NextSet, TypeOK
  <2>3. faults' \in Nat /\ crashes' \in Nat /\ moves' \in Nat /\ fphase = "idle"
    BY <2>1, <1>0 DEF budgets, TypeOK, Quiet
  <2>. QED
    BY <2>1, <2>2, <2>3, OrderedEnd
<1>3. CASE ElectOpenFails
  <2>1. faults' \in Nat /\ crashes' \in Nat /\ moves' \in Nat /\ fphase = "idle"
    BY <1>0, <1>3 DEF ElectOpenFails, Fault, TypeOK, Quiet
  <2>. QED
    BY <2>1, <1>3, OrderedEnd DEF ElectOpenFails
<1>4. CASE \E bad \in SUBSET listed : ElectAmbiguous(bad)
  <2>. PICK bad \in SUBSET listed : ElectAmbiguous(bad)
    BY <1>4
  <2>1. faults' \in Nat /\ crashes' \in Nat /\ moves' \in Nat
    BY <1>0, FaultTyped DEF ElectAmbiguous, Unlistable, TypeOK
  <2>2. fphase = "idle"
    BY <1>0 DEF ElectAmbiguous, Quiet
  <2>. QED
    BY <2>1, <2>2, OrderedEnd DEF ElectAmbiguous
<1>. QED
  BY <1>1, <1>2, <1>3, <1>4

\* Seeding writes the target only, which is not open.
LEMMA OrderedSeed ==
    ASSUME Ordered, \/ SeedAdopt
                    \/ \E v \in todo : SeedRefuse(v) \/ SeedBegin(v)
                    \/ \E w \in from : SeedCopy(w)
                    \/ \E w \in from : \E s \in Seg : \E n \in 0 .. Len(disk[w][s]) : SeedCopyFail(w, s, n)
    PROVE  Ordered'
<1>0. TypeOK /\ AbsentIsEmpty /\ OpenExists /\ Quiet /\ Seeding /\ InQueue /\ Flushing
  BY DEF Ordered
<1>1. CASE SeedAdopt
  BY <1>0, <1>1 DEF SeedAdopt, Ordered, TypeOK, AbsentIsEmpty, OpenExists, Quiet,
      Seeding, InQueue, Flushing,
     diskVars, fleetVars, setVars, queueVars, flushVars, budgets
<1>2. CASE \E v \in todo : SeedBegin(v)
  BY <1>0, <1>2 DEF SeedBegin, Ordered, TypeOK, AbsentIsEmpty, OpenExists, Quiet,
      Seeding, InQueue, Flushing,
     diskVars, fleetVars, setVars, queueVars, flushVars, budgets
<1>3. CASE \E v \in todo : SeedRefuse(v)
  <2>. PICK v \in todo : SeedRefuse(v)
    BY <1>3
  <2>1. faults' \in Nat /\ crashes' \in Nat /\ moves' \in Nat
    BY <1>0 DEF SeedRefuse, Fault, TypeOK, budgets
  <2>. QED
    BY <1>0, <2>1 DEF SeedRefuse, Ordered, TypeOK, AbsentIsEmpty, OpenExists, Quiet,
        Seeding, InQueue, Flushing,
       diskVars, fleetVars, setVars, queueVars, flushVars
<1>4. CASE \E w \in from : SeedCopy(w) \/ \E s \in Seg : \E n \in 0 .. Len(disk[w][s]) : SeedCopyFail(w, s, n)
  <2>. PICK w \in from : SeedCopy(w) \/ \E s \in Seg : \E n \in 0 .. Len(disk[w][s]) : SeedCopyFail(w, s, n)
    BY <1>4
  <2>1. /\ target \in Vol /\ (ephase = "seed" => target \notin open)
        /\ disk' \in [Vol -> [Seg -> File]] /\ present' \in [Vol -> SUBSET Seg]
        /\ \A u \in Vol : u # target => disk'[u] = disk[u] /\ present'[u] = present[u]
        /\ present[target] \subseteq present'[target]
        /\ AbsentIsEmpty'
    BY <1>0, CopyCells
  <2>2. /\ UNCHANGED <<fleetVars, mode, setVars, queueVars, flushVars, ephase, queued, chosen, listed, sources,
                       lineage, todo, adopted>>
        /\ \/ target' = target /\ from' = from \ {w}
           \/ target' = None /\ from' = {}
        /\ reelectionNeeded' \in BOOLEAN
        /\ faults' \in Nat /\ crashes' \in Nat /\ moves' \in Nat
        /\ ephase = "seed"
    <3>0. reelectionNeeded \in BOOLEAN /\ faults \in Nat /\ crashes \in Nat /\ moves \in Nat
      BY <1>0 DEF TypeOK
    <3>1. CASE SeedCopy(w)
      BY <3>0, <3>1 DEF SeedCopy, budgets
    <3>2. CASE \E s \in Seg : \E n \in 0 .. Len(disk[w][s]) : SeedCopyFail(w, s, n)
      <4>. PICK s \in Seg : \E n \in 0 .. Len(disk[w][s]) : SeedCopyFail(w, s, n)
        BY <3>2
      <4>. PICK n \in 0 .. Len(disk[w][s]) : SeedCopyFail(w, s, n)
        OBVIOUS
      <4>1. Fault(1) \/ UNCHANGED budgets
        BY DEF SeedCopyFail
      <4>2. faults' \in Nat /\ crashes' \in Nat /\ moves' \in Nat
        BY <4>1, <3>0 DEF Fault, budgets
      <4>. QED
        BY <4>2 DEF SeedCopyFail
    <3>. QED
      BY <3>1, <3>2
  <2>3. TypeOK'
    BY <2>1, <2>2, <1>0 DEF TypeOK, fleetVars, setVars, queueVars, flushVars
  <2>4. OpenExists' /\ Quiet' /\ Seeding' /\ Flushing'
    BY <2>1, <2>2, <1>0 DEF TypeOK, OpenExists, Quiet, Seeding, Flushing, setVars,
        queueVars, flushVars
  <2>5. InQueue'
    BY <2>2, <1>0 DEF InQueue, queueVars, flushVars
  <2>. QED
    BY <2>1, <2>3, <2>4, <2>5 DEF Ordered
<1>. QED
  BY <1>1, <1>2, <1>3, <1>4

\* Opening the replicas keeps Ordered.
LEMMA OrderedOpen ==
    ASSUME Ordered, LinesEverywhere, NEW bad \in SUBSET NextSet, ElectOpen(bad)
    PROVE  Ordered'
<1>0. TypeOK /\ AbsentIsEmpty /\ OpenExists /\ Quiet /\ Seeding /\ InQueue /\ Flushing
  BY DEF Ordered
<1>. DEFINE opening == IF TopSegment = segment THEN NextSet \ open ELSE NextSet
<1>1. /\ ephase' = "idle" /\ chosen' = {} /\ listed' = {} /\ sources' = {} /\ lineage' = {}
      /\ todo' = {} /\ target' = None /\ from' = {} /\ adopted' = {} /\ ephase = "seed"
      /\ UNCHANGED <<fleetVars, mode, queueVars, flushVars, queued>>
  BY DEF ElectOpen, EndElection
<1>2. NextSet \subseteq Vol /\ fphase = "idle"
  BY <1>0, <1>1 DEF NextSet, TypeOK, Quiet
<1>3. TopSegment \in Seg
  BY <1>0, TopSegmentIn
<1>4. CASE mode = "stopping"
  <2>1. replicas' = NextSet /\ open' = NextSet \cap open /\ UNCHANGED <<diskVars, segment, reelectionNeeded, budgets>>
    BY <1>4 DEF ElectOpen
  <2>2. TypeOK'
    BY <2>1, <1>0, <1>1, <1>2 DEF TypeOK, diskVars, fleetVars, queueVars, flushVars,
        budgets
  <2>3. AbsentIsEmpty' /\ OpenExists' /\ Quiet' /\ Seeding' /\ Flushing'
    BY <2>1, <1>0, <1>1, <1>2 DEF diskVars, flushVars, AbsentIsEmpty, OpenExists,
        Quiet, Seeding, Flushing
  <2>4. InQueue'
    BY <1>0, <1>1 DEF queueVars, flushVars, InQueue
  <2>. QED
    BY <2>2, <2>3, <2>4 DEF Ordered
<1>5. CASE mode # "stopping"
  <2>1. /\ bad \subseteq opening /\ Fault(Cardinality({v \in bad : Mounted(v)}))
        /\ OpenSegments(opening, bad, TopSegment)
        /\ segment' = TopSegment
        /\ replicas' = NextSet \ bad /\ open' = NextSet \ bad
        /\ reelectionNeeded' = (reelectionNeeded \/ bad # {})
    BY <1>5 DEF ElectOpen
  <2>2. /\ disk' \in [Vol -> [Seg -> File]] /\ present' \in [Vol -> SUBSET Seg]
        /\ \A v \in Vol : TopSegment \in present'[v] \/ (v \notin opening \ bad)
        /\ \A v \in Vol : present[v] \subseteq present'[v]
        /\ AbsentIsEmpty'
    <3>. HIDE DEF opening
    <3>. QED
      BY <2>1, <1>0, <1>3, OpenedFiles
  <2>3. faults' \in Nat /\ crashes' \in Nat /\ moves' \in Nat
    <3>1. {v \in bad : Mounted(v)} \subseteq Vol
      BY <1>2
    <3>. QED
      BY <2>1, <1>0, <3>1, FaultTyped
  <2>4. reelectionNeeded' \in BOOLEAN
    BY <2>1, <1>0 DEF TypeOK
  <2>5. TypeOK'
    <3>. HIDE DEF opening
    <3>. QED
      BY <2>1, <2>2, <2>3, <2>4, <1>0, <1>1, <1>2, <1>3 DEF TypeOK, fleetVars,
          queueVars, flushVars
  <2>6. OpenExists'
    <3>1. ASSUME NEW v \in open' PROVE segment' \in present'[v]
      <4>1. v \in NextSet /\ v \notin bad /\ v \in Vol
        BY <2>1, <1>2
      <4>2. CASE v \in opening
        BY <4>1, <4>2, <2>1, <2>2
      <4>3. CASE v \notin opening
        BY <4>1, <4>3, <2>1, <2>2, <1>0 DEF OpenExists
      <4>. QED
        BY <4>2, <4>3
    <3>. QED
      BY <3>1 DEF OpenExists
  <2>7. Quiet' /\ Seeding' /\ Flushing'
    BY <1>0, <1>1, <1>2 DEF flushVars, Quiet, Seeding, Flushing
  <2>8. InQueue'
    BY <1>0, <1>1 DEF queueVars, flushVars, InQueue
  <2>. QED
    BY <2>2, <2>5, <2>6, <2>7, <2>8 DEF Ordered
<1>. QED
  BY <1>4, <1>5

\* Starts, stops, crashes, fleet changes and removals keep Ordered.
LEMMA OrderedFleet ==
    ASSUME Ordered, FleetNext
    PROVE  Ordered'
<1>0. TypeOK /\ AbsentIsEmpty /\ OpenExists /\ Quiet /\ Seeding /\ InQueue /\ Flushing
  BY DEF Ordered
<1>1. CASE Stopped \/ Crash
  <2>1. Forget
    BY <1>1 DEF Stopped, Crash
  <2>2. /\ mode' = "down" /\ replicas' = {} /\ open' = {} /\ segment' = 0
        /\ pending' = <<>> /\ batch' = <<>> /\ left' = {} /\ durable' = {}
        /\ rec' = [r \in Rec |-> IF rec[r] \in {"waiting", "pending"} THEN "lost" ELSE rec[r]]
        /\ fphase' = "idle" /\ before' = [v \in Vol |-> 0]
        /\ ephase' = "idle" /\ chosen' = {} /\ listed' = {} /\ sources' = {} /\ lineage' = {}
        /\ todo' = {} /\ target' = None /\ from' = {} /\ adopted' = {}
        /\ queued' = FALSE /\ reelectionNeeded' = FALSE
        /\ hook' = FALSE /\ cleared' = None /\ crashes' = crashes + 1
        /\ UNCHANGED <<diskVars, status, log, faults, moves>>
    BY <2>1 DEF Forget, EndElection
  <2>3. /\ rec' \in [Rec -> RecStatus] /\ before' \in [Vol -> Nat] /\ crashes' \in Nat
        /\ pending' \in Seq(Rec) /\ batch' \in Seq(Rec) /\ Len(pending') = 0 /\ Len(batch') = 0
        /\ segment' \in Seg
    BY <2>2, <1>0, JournalAssumption DEF TypeOK, RecStatus, Seg
  <2>4. TypeOK'
    BY <2>2, <2>3, <1>0 DEF TypeOK, diskVars
  <2>5. AbsentIsEmpty' /\ OpenExists' /\ Quiet' /\ Seeding' /\ Flushing' /\ InQueue'
    BY <2>2, <2>3, <1>0 DEF AbsentIsEmpty, OpenExists, Quiet, Seeding, Flushing,
        InQueue, diskVars
  <2>. QED
    BY <2>4, <2>5 DEF Ordered
<1>2. ASSUME mode' \in {"down", "starting", "up", "stopping"}, status' \in [Vol -> Status], hook' \in BOOLEAN,
             cleared' \in Vol \cup {None}, queued' \in BOOLEAN, moves' \in Nat,
             UNCHANGED <<diskVars, setVars, queueVars, flushVars, ephase, reelectionNeeded, seedVars, faults, crashes>>
      PROVE  Ordered'
  <2>1. TypeOK'
    BY <1>0, <1>2 DEF TypeOK, diskVars, setVars, queueVars, flushVars, seedVars
  <2>2. AbsentIsEmpty' /\ OpenExists' /\ Quiet' /\ Seeding' /\ Flushing'
    BY <1>0, <1>2 DEF AbsentIsEmpty, OpenExists, Quiet, Seeding, Flushing, diskVars,
        setVars, queueVars, flushVars, seedVars
  <2>3. InQueue'
    BY <1>0, <1>2 DEF InQueue, queueVars, flushVars
  <2>. QED
    BY <2>1, <2>2, <2>3 DEF Ordered
<1>a. /\ mode \in {"down", "starting", "up", "stopping"} /\ status \in [Vol -> Status] /\ hook \in BOOLEAN
      /\ cleared \in Vol \cup {None} /\ queued \in BOOLEAN /\ moves \in Nat
  BY <1>0 DEF TypeOK
<1>3. CASE Start \/ Started \/ Stop
  BY <1>a, <1>2, <1>3 DEF Start, Started, Stop, fleetVars, electVars, budgets
<1>4. CASE OnFleetChange
  BY <1>a, <1>2, <1>4 DEF OnFleetChange, budgets
<1>5. CASE \E v \in Vol, s \in Status : FleetMove(v, s)
  BY <1>a, <1>2, <1>5 DEF FleetMove, electVars
<1>6. CASE \E v \in Vol : RemoveCheck(v)
  BY <1>a, <1>2, <1>6 DEF RemoveCheck, electVars
<1>7. CASE RemoveCommit
  <2>1. status' \in [Vol -> Status]
    BY <1>a, <1>7 DEF RemoveCommit, Status
  <2>. QED
    BY <2>1, <1>a, <1>2, <1>7 DEF RemoveCommit, electVars, budgets
<1>. QED
  BY <1>1, <1>3, <1>4, <1>5, <1>6, <1>7 DEF FleetNext

\* Nothing changes.
LEMMA OrderedStutter ==
    ASSUME Ordered, UNCHANGED vars
    PROVE  Ordered'
<1>1. TypeOK'
  BY DEF Ordered, TypeOK, vars, diskVars, fleetVars, setVars, queueVars, flushVars,
      electVars, seedVars, budgets
<1>2. AbsentIsEmpty' /\ OpenExists' /\ Quiet' /\ Seeding' /\ Flushing'
  BY DEF Ordered, AbsentIsEmpty, OpenExists, Quiet, Seeding, Flushing, vars,
      diskVars, setVars, queueVars, flushVars, electVars, seedVars
<1>3. InQueue'
  BY DEF Ordered, InQueue, vars, queueVars, flushVars
<1>. QED
  BY <1>1, <1>2, <1>3 DEF Ordered

\* Every step keeps Ordered, over files of whole lines.
LEMMA OrderedStep ==
    ASSUME Ordered, LinesEverywhere, [Next]_vars
    PROVE  Ordered'
  BY OrderedAppend, OrderedFlush, OrderedFleet, OrderedScan, OrderedGiveUp,
      OrderedSeed, OrderedOpen, OrderedStutter
     DEF Next, ElectNext

\* The initial states are Ordered.
LEMMA OrderedInit ==
    ASSUME Init
    PROVE  Ordered
<1>1. ASSUME NEW v \in Vol, NEW s \in Seg, s \in Kept(v)
      PROVE  s + 1 \in 1 .. Len(History) /\ History[s + 1] \in Rec /\ Body(<<History[s + 1]>>) \in File
  <2>1. s + 1 \in 1 .. Len(History)
    BY <1>1, JournalAssumption, LenProperties DEF Kept, Seg
  <2>2. History[s + 1] \in Rec
    BY <2>1, JournalAssumption, ElementOfSeq
  <2>3. <<History[s + 1]>> \in Seq(Rec)
    BY <2>2
  <2>. QED
    BY <2>1, <2>2, <2>3, BodyFacts
<1>2. ASSUME NEW v \in Vol PROVE Kept(v) \subseteq Seg
  BY JournalAssumption, LenProperties DEF Kept, Seg
<1>3. <<>> \in File /\ <<>> \in Seq(Rec) /\ Len(<<>>) = 0
  BY DEF File
<1>4. disk \in [Vol -> [Seg -> File]] /\ present \in [Vol -> SUBSET Seg]
  BY <1>1, <1>2, <1>3 DEF Init
<1>5. status \in [Vol -> Status]
  BY DEF Init, Status
<1>6. rec \in [Rec -> RecStatus]
  BY DEF Init, RecStatus
<1>7. 0 \in Seg /\ before \in [Vol -> Nat]
  BY JournalAssumption DEF Init, Seg
<1>8. TypeOK
  BY <1>3, <1>4, <1>5, <1>6, <1>7, JournalAssumption DEF Init, TypeOK
<1>9. AbsentIsEmpty /\ OpenExists /\ Quiet /\ Seeding /\ Flushing /\ InQueue
  BY <1>3 DEF Init, AbsentIsEmpty, OpenExists, Quiet, Seeding, Flushing, InQueue
<1>. QED
  BY <1>8, <1>9 DEF Ordered

-----------------------------------------------------------------------------
\* Steps that write no file keep Whole.
LEMMA WholeKept ==
    ASSUME Whole, UNCHANGED <<disk, segment, flushVars>>, open' \subseteq open
    PROVE  Whole'
<1>1. LinesEverywhere' /\ OpenWhole'
  BY DEF Whole, LinesEverywhere, OpenWhole, flushVars
<1>2. Written' /\ Landing'
  BY DEF Whole, Written, Landing, flushVars
<1>. QED
  BY <1>1, <1>2 DEF Whole

\* Closing all files keeps Whole.
LEMMA WholeClosed ==
    ASSUME Whole, disk' = disk, fphase' = "idle", open' = {}
    PROVE  Whole'
  BY DEF Whole, LinesEverywhere, OpenWhole, Written, Landing

\* Opening a segment leaves it ending with a newline.
LEMMA WholeOpened ==
    ASSUME TypeOK, AbsentIsEmpty, Whole, NEW vs, NEW bad, NEW s \in Seg, OpenSegments(vs, bad, s),
           fphase' = "idle", segment' = s, open' \subseteq Vol,
           \A v \in open' : v \in vs \ bad \/ (s = segment /\ v \in open /\ fphase = "idle")
    PROVE  Whole'
<1>1. \A v \in Vol, t \in Seg :
         disk'[v][t] = IF v \in vs \ bad /\ t = s THEN RollBackTornTail(disk[v][t]) ELSE disk[v][t]
  BY OpenedFiles DEF Whole
<1>2. ASSUME NEW v \in Vol
      PROVE  Lines(RollBackTornTail(disk[v][s])) /\ Len(RollBackTornTail(disk[v][s])) % 2 = 0
  <2>1. disk[v][s] \in File /\ Lines(disk[v][s])
    BY DEF TypeOK, Whole, LinesEverywhere
  <2>2. PICK n \in 0 .. Len(disk[v][s]) : RollBackTornTail(disk[v][s]) = SubSeq(disk[v][s], 1, n) /\ n % 2 = 0
    BY <2>1, TornTailFacts
  <2>. QED
    BY <2>1, <2>2, PrefixFacts, LinesPrefix
<1>3. LinesEverywhere'
  BY <1>1, <1>2 DEF LinesEverywhere, Whole
<1>4. ASSUME NEW v \in open' PROVE Len(disk'[v][s]) % 2 = 0
  <2>1. v \in Vol
    OBVIOUS
  <2>2. CASE v \in vs \ bad
    BY <2>1, <2>2, <1>1, <1>2
  <2>3. CASE v \notin vs \ bad
    <3>1. disk'[v][s] = disk[v][segment] /\ v \in open /\ fphase = "idle"
      BY <2>1, <2>3, <1>1
    <3>. QED
      BY <3>1 DEF Whole, OpenWhole
  <2>. QED
    BY <2>2, <2>3
<1>. QED
  BY <1>3, <1>4 DEF Whole, OpenWhole, Written, Landing

\* A flush writes whole lines, or a rollback takes its bytes back before anyone appends.
LEMMA WholeFlush ==
    ASSUME Ordered, Whole, FlushNext
    PROVE  Whole'
<1>0. TypeOK /\ AbsentIsEmpty /\ Flushing
  BY DEF Ordered
<1>a. LinesEverywhere /\ OpenWhole /\ Written /\ Landing
  BY DEF Whole
<1>b. /\ Body(batch) \in File /\ Len(Body(batch)) = 2 * Len(batch) /\ Lines(Body(batch))
      /\ \A i \in 1 .. 2 * Len(batch) : \E j \in 1 .. Len(batch) : Body(batch)[i][1] = batch[j]
      /\ Len(batch) \in Nat
  BY <1>0, BodyFacts, LenProperties DEF TypeOK
<1>c. segment \in Seg /\ \A v \in Vol : /\ disk[v][segment] \in File /\ Len(disk[v][segment]) \in Nat
                                        /\ Lines(disk[v][segment]) /\ before[v] \in Nat
  BY <1>0, <1>a, FileFacts DEF TypeOK, LinesEverywhere
<1>1. CASE FlushStart
  <2>1. /\ disk' = disk /\ segment' = segment /\ open' = open /\ fphase' = "write" /\ fphase = "idle"
        /\ left' = open /\ durable' = {} /\ before' = [v \in Vol |-> Len(disk[v][segment])]
    BY <1>1 DEF FlushStart, diskVars, setVars
  <2>2. LinesEverywhere' /\ OpenWhole'
    BY <2>1, <1>a DEF LinesEverywhere, OpenWhole
  <2>3. Written'
    <3>1. ASSUME NEW v \in Vol
          PROVE  before'[v] = Len(disk'[v][segment']) /\ before'[v] \in Nat
      BY <2>1, <1>c
    <3>. QED
      BY <3>1 DEF Written
  <2>4. Landing'
    <3>1. open \subseteq Vol
      BY <1>0 DEF TypeOK
    <3>. QED
      BY <2>1, <1>a, <3>1 DEF Landing, OpenWhole
  <2>. QED
    BY <2>2, <2>3, <2>4 DEF Whole
<1>2. CASE \E v \in Vol : FlushWrite(v)
  <2>. PICK v \in Vol : FlushWrite(v)
    BY <1>2
  <2>g. PICK g \in File : g = disk[v][segment] \o Body(batch)
    BY <1>b, <1>c, ConcatFacts
  <2>1. /\ disk' = [disk EXCEPT ![v][segment] = g] /\ fphase = "write" /\ v \in left
        /\ left' = left \ {v} /\ durable' = durable \cup {v}
        /\ UNCHANGED <<segment, open, fphase, batch, before>>
    BY <2>g DEF FlushWrite, setVars
  <2>2. /\ disk'[v][segment] = g
        /\ \A w \in Vol, t \in Seg : w # v \/ t # segment => disk'[w][t] = disk[w][t]
    BY <1>0, <1>c, <2>1 DEF TypeOK
  <2>3. Len(disk[v][segment]) = before[v] /\ before[v] % 2 = 0 /\ left \subseteq Vol /\ open \subseteq Vol
        /\ durable \subseteq Vol /\ left \cap durable = {} /\ v \in open
    BY <2>1, <1>0, <1>a DEF Landing, Flushing, TypeOK
  <2>4. Lines(g)
    BY <2>g, <2>3, <1>b, <1>c, LinesConcat
  <2>5. LinesEverywhere'
    BY <2>2, <2>4, <1>a DEF LinesEverywhere
  <2>6. /\ Len(g) = before[v] + 2 * Len(batch)
        /\ \A i \in 1 .. 2 * Len(batch) : g[before[v] + i] = Body(batch)[i]
        /\ \A i \in before[v] + 1 .. Len(g) : i - before[v] \in 1 .. 2 * Len(batch) /\ g[i] = Body(batch)[i - before[v]]
    <3>. DEFINE f == disk[v][segment]
    <3>1. f \in File /\ Len(f) = before[v]
      BY <2>3, <1>c
    <3>2. /\ Len(f \o Body(batch)) = Len(f) + Len(Body(batch))
          /\ \A i \in 1 .. Len(Body(batch)) : (f \o Body(batch))[Len(f) + i] = Body(batch)[i]
          /\ \A i \in Len(f) + 1 .. Len(f) + Len(Body(batch)) :
                i - Len(f) \in 1 .. Len(Body(batch)) /\ (f \o Body(batch))[i] = Body(batch)[i - Len(f)]
      BY <3>1, <1>b, ConcatFacts
    <3>. QED
      BY <3>1, <3>2, <2>g, <1>b
  <2>7. Written'
    <3>1. ASSUME NEW w \in Vol
          PROVE  /\ before[w] <= Len(disk'[w][segment])
                 /\ \A i \in before[w] + 1 .. Len(disk'[w][segment]) :
                       \E j \in 1 .. Len(batch) : disk'[w][segment][i][1] = batch[j]
      <4>1. CASE w = v
        <5>1. before[v] <= Len(g)
          BY <2>6, <1>b, <1>c
        <5>. QED
          BY <4>1, <5>1, <2>2, <2>6, <1>b
      <4>2. CASE w # v
        BY <4>2, <2>1, <2>2, <1>a, <1>c DEF Written
      <4>. QED
        BY <4>1, <4>2
    <3>. QED
      BY <3>1, <2>1 DEF Written
  <2>8. Landing'
    <3>1. \A w \in open : before[w] % 2 = 0
      BY <2>1, <1>a DEF Landing
    <3>2. \A w \in left' : Len(disk'[w][segment]) = before[w]
      BY <2>1, <2>2, <2>3, <1>a, <1>c DEF Landing
    <3>3. ASSUME NEW w \in durable'
          PROVE  /\ Len(disk'[w][segment]) = before[w] + 2 * Len(batch)
                 /\ \A i \in 1 .. 2 * Len(batch) : disk'[w][segment][before[w] + i] = Body(batch)[i]
      <4>1. CASE w = v
        BY <4>1, <2>2, <2>6
      <4>2. CASE w # v
        <5>1. w \in durable /\ disk'[w][segment] = disk[w][segment]
          BY <4>2, <2>1, <2>2, <2>3, <1>c
        <5>. QED
          BY <5>1, <2>1, <1>a DEF Landing
      <4>. QED
        BY <4>1, <4>2
    <3>. QED
      BY <3>1, <3>2, <3>3, <2>1 DEF Landing
  <2>9. OpenWhole'
    BY <2>1 DEF OpenWhole
  <2>. QED
    BY <2>5, <2>7, <2>8, <2>9 DEF Whole
<1>3. CASE \E v \in left : \E n \in 0 .. 2 * Len(batch) : FlushFail(v, n)
  <2>. PICK v \in left, n \in 0 .. 2 * Len(batch) : FlushFail(v, n)
    BY <1>3
  <2>a. /\ SubSeq(Body(batch), 1, n) \in File /\ Len(SubSeq(Body(batch), 1, n)) = n /\ n \in Nat
        /\ Lines(SubSeq(Body(batch), 1, n))
        /\ \A i \in 1 .. n : SubSeq(Body(batch), 1, n)[i] = Body(batch)[i] /\ i \in 1 .. 2 * Len(batch)
    <3>1. n \in 0 .. Len(Body(batch)) /\ n \in Nat
      BY <1>b
    <3>2. \A i \in 1 .. n : i \in 1 .. 2 * Len(batch)
      BY <1>b
    <3>. QED
      BY <3>1, <3>2, <1>b, PrefixFacts, LinesPrefix
  <2>v. v \in Vol
    BY <1>0 DEF TypeOK
  <2>g. PICK g \in File : g = disk[v][segment] \o SubSeq(Body(batch), 1, n)
    BY <1>c, <2>a, <2>v, ConcatFacts
  <2>1. /\ disk' = [disk EXCEPT ![v][segment] = g] /\ fphase = "write"
        /\ left' = left \ {v} /\ open' = open \ {v}
        /\ UNCHANGED <<segment, fphase, batch, before, durable>>
    BY <2>g DEF FlushFail
  <2>2. /\ disk'[v][segment] = g
        /\ \A w \in Vol, t \in Seg : w # v \/ t # segment => disk'[w][t] = disk[w][t]
    BY <1>0, <1>c, <2>1, <2>v DEF TypeOK
  <2>3. Len(disk[v][segment]) = before[v] /\ before[v] % 2 = 0 /\ left \subseteq Vol /\ open \subseteq Vol
        /\ durable \subseteq Vol /\ left \cap durable = {}
    BY <2>1, <1>0, <1>a DEF Landing, Flushing, TypeOK
  <2>4. Lines(g)
    BY <2>g, <2>a, <2>v, <2>3, <1>c, LinesConcat
  <2>5. LinesEverywhere'
    BY <2>2, <2>4, <1>a DEF LinesEverywhere
  <2>6. /\ Len(g) = before[v] + n
        /\ \A i \in before[v] + 1 .. Len(g) : i - before[v] \in 1 .. n /\ g[i] = Body(batch)[i - before[v]]
    <3>. DEFINE f == disk[v][segment]
                h == SubSeq(Body(batch), 1, n)
    <3>1. f \in File /\ Len(f) = before[v] /\ h \in File /\ Len(h) = n /\ \A i \in 1 .. n : h[i] = Body(batch)[i]
      BY <2>3, <2>a, <2>v, <1>c
    <3>. HIDE DEF h
    <3>2. /\ Len(f \o h) = Len(f) + Len(h)
          /\ \A i \in Len(f) + 1 .. Len(f) + Len(h) :
                i - Len(f) \in 1 .. Len(h) /\ (f \o h)[i] = h[i - Len(f)]
      BY <3>1, ConcatFacts
    <3>3. g = f \o h
      BY <2>g DEF h
    <3>. QED
      BY <3>1, <3>2, <3>3
  <2>7. Written'
    <3>1. ASSUME NEW w \in Vol
          PROVE  /\ before[w] <= Len(disk'[w][segment])
                 /\ \A i \in before[w] + 1 .. Len(disk'[w][segment]) :
                       \E j \in 1 .. Len(batch) : disk'[w][segment][i][1] = batch[j]
      <4>1. CASE w = v
        <5>1. before[v] <= Len(g)
          BY <2>6, <2>a, <2>v, <1>c
        <5>. QED
          <6>1. ASSUME NEW i \in before[v] + 1 .. Len(g) PROVE \E j \in 1 .. Len(batch) : g[i][1] = batch[j]
            <7>1. i - before[v] \in 1 .. n /\ g[i] = Body(batch)[i - before[v]]
              BY <2>6
            <7>2. i - before[v] \in 1 .. 2 * Len(batch)
              BY <7>1, <2>a
            <7>. QED
              BY <7>1, <7>2, <1>b
          <6>. QED
            BY <4>1, <5>1, <6>1, <2>2
      <4>2. CASE w # v
        BY <4>2, <2>1, <2>2, <1>a, <1>c DEF Written
      <4>. QED
        BY <4>1, <4>2
    <3>. QED
      BY <3>1, <2>1 DEF Written
  <2>8. Landing'
    <3>1. \A w \in open' : before[w] % 2 = 0
      BY <2>1, <1>a DEF Landing
    <3>2. \A w \in left' \cup durable : disk'[w][segment] = disk[w][segment]
      BY <2>1, <2>2, <2>3, <1>c
    <3>. QED
      BY <3>1, <3>2, <2>1, <1>a DEF Landing
  <2>9. OpenWhole'
    BY <2>1 DEF OpenWhole
  <2>. QED
    BY <2>5, <2>7, <2>8, <2>9 DEF Whole
<1>4. CASE FlushAck
  <2>1. /\ fphase = "write" /\ left = {} /\ fphase' = "idle" /\ UNCHANGED <<disk, segment, open>>
    BY <1>4 DEF FlushAck, FlushEnd, diskVars, setVars
  <2>2. ASSUME NEW v \in open PROVE Len(disk[v][segment]) % 2 = 0
    <3>1. v \in durable /\ v \in Vol
      BY <2>1, <1>0 DEF Flushing, TypeOK
    <3>2. Len(disk[v][segment]) = before[v] + 2 * Len(batch) /\ before[v] % 2 = 0 /\ before[v] \in Nat
      BY <3>1, <2>1, <1>a, <1>c DEF Landing
    <3>3. ASSUME NEW m \in Nat, NEW k \in Nat, m % 2 = 0 PROVE (m + 2 * k) % 2 = 0
      BY <3>3
    <3>. QED
      BY <3>2, <3>3, <1>b
  <2>. QED
    BY <2>1, <2>2, <1>a DEF Whole, LinesEverywhere, OpenWhole, Written, Landing
<1>5. CASE FlushRejected
  BY <1>5, <1>0, WholeClosed DEF FlushRejected, FlushEnd, Flushing, diskVars,
      setVars
<1>6. CASE \E bad \in SUBSET replicas : FlushAckRotate(bad)
  <2>. PICK bad \in SUBSET replicas : FlushAckRotate(bad)
    BY <1>6
  <2>1. CASE mode = "stopping"
    BY <2>1, WholeClosed DEF FlushAckRotate, FlushEnd, diskVars
  <2>2. CASE mode # "stopping"
    <3>1. /\ OpenSegments(replicas, bad, segment + 1) /\ open' = replicas \ bad
          /\ segment' = segment + 1 /\ fphase' = "idle" /\ segment < MaxSegment
      BY <2>2 DEF FlushAckRotate, FlushEnd
    <3>2. segment + 1 \in Seg /\ open' \subseteq Vol
      BY <3>1, <1>0, JournalAssumption DEF TypeOK, Seg
    <3>. QED
      BY <3>1, <3>2, <1>0, WholeOpened
  <2>. QED
    BY <2>1, <2>2
<1>7. CASE FlushReject
  BY <1>7, <1>a DEF FlushReject, diskVars, setVars, Whole, LinesEverywhere,
      OpenWhole, Written, Landing
<1>8. CASE \E v \in Vol : RollbackStuck(v)
  BY <1>8, <1>a DEF RollbackStuck, diskVars, setVars, Whole, LinesEverywhere,
      OpenWhole, Written, Landing
<1>9. CASE \E v \in Vol : Rollback(v)
  <2>. PICK v \in Vol : Rollback(v)
    BY <1>9
  <2>1. /\ fphase = "rollback" /\ UNCHANGED <<segment, open, fphase, batch, before, durable>>
        /\ disk' = disk \/ disk' = [disk EXCEPT ![v][segment] = TruncateTo(disk[v][segment], before[v])]
    BY DEF Rollback, setVars
  <2>2. CASE disk' = disk
    BY <2>1, <2>2, <1>a DEF Whole, LinesEverywhere, OpenWhole, Written, Landing
  <2>3. CASE disk' = [disk EXCEPT ![v][segment] = TruncateTo(disk[v][segment], before[v])]
    <3>1. PICK m \in 0 .. Len(disk[v][segment]) :
            /\ TruncateTo(disk[v][segment], before[v]) = SubSeq(disk[v][segment], 1, m)
            /\ m <= before[v] /\ m >= before[v]
      <4>1. before[v] <= Len(disk[v][segment])
        BY <2>1, <1>a DEF Written
      <4>2. CASE Len(disk[v][segment]) <= before[v]
        <5>1. SubSeq(disk[v][segment], 1, Len(disk[v][segment])) = disk[v][segment]
          BY <1>c, SubSeqFull DEF File
        <5>. QED
          BY <4>1, <4>2, <5>1, <1>c DEF TruncateTo
      <4>3. CASE ~(Len(disk[v][segment]) <= before[v])
        BY <4>1, <4>3, <1>c DEF TruncateTo
      <4>. QED
        BY <4>2, <4>3
    <3>2. PICK g \in File : g = SubSeq(disk[v][segment], 1, m)
      BY <1>c, PrefixFacts
    <3>3. /\ disk'[v][segment] = g
          /\ \A w \in Vol, t \in Seg : w # v \/ t # segment => disk'[w][t] = disk[w][t]
      BY <1>0, <1>c, <2>3, <3>1, <3>2 DEF TypeOK
    <3>4. Lines(g) /\ Len(g) = m
      BY <3>2, <1>c, PrefixFacts, LinesPrefix
    <3>5. LinesEverywhere'
      BY <3>3, <3>4, <1>a DEF LinesEverywhere
    <3>6. Written'
      <4>1. ASSUME NEW w \in Vol
            PROVE  /\ before[w] <= Len(disk'[w][segment])
                   /\ \A i \in before[w] + 1 .. Len(disk'[w][segment]) :
                         \E j \in 1 .. Len(batch) : disk'[w][segment][i][1] = batch[j]
        <5>1. CASE w = v
          <6>1. Len(disk'[w][segment]) = before[w] /\ before[w] \in Nat
            BY <5>1, <3>1, <3>3, <3>4, <1>c
          <6>. QED
            BY <6>1
        <5>2. CASE w # v
          <6>1. disk'[w][segment] = disk[w][segment] /\ fphase # "idle"
            BY <5>2, <2>1, <3>3, <1>c
          <6>. QED
            BY <6>1, <1>a DEF Written
        <5>. QED
          BY <5>1, <5>2
      <4>. QED
        BY <4>1, <2>1 DEF Written
    <3>. QED
      BY <3>5, <3>6, <2>1 DEF Whole, OpenWhole, Landing
  <2>. QED
    BY <2>1, <2>2, <2>3
<1>. QED
  BY <1>1, <1>2, <1>3, <1>4, <1>5, <1>6, <1>7, <1>8, <1>9 DEF FlushNext

\* A discovery keeps Whole: a copy is a prefix of a file of lines.
LEMMA WholeElect ==
    ASSUME Ordered, Whole, ElectNext
    PROVE  Whole'
<1>0. TypeOK /\ AbsentIsEmpty /\ Quiet /\ Seeding
  BY DEF Ordered
<1>a. LinesEverywhere /\ OpenWhole
  BY DEF Whole
<1>1. CASE \/ ElectBegin \/ ElectScanEmpty \/ ElectLineage \/ ElectLineageFails
           \/ SeedAdopt \/ ElectKeep \/ ElectOpenFails
  <2>1. UNCHANGED <<disk, segment, flushVars>> /\ open' \subseteq open
    BY <1>1 DEF ElectBegin, ElectScanEmpty, ElectLineage, ElectLineageFails,
        SeedAdopt, ElectKeep, ElectOpenFails,
       diskVars, setVars
  <2>. QED
    BY <2>1, WholeKept
<1>2. CASE \/ \E c \in SUBSET Vol : ElectChoose(c)
           \/ \E bad \in SUBSET listed : ElectScan(bad) \/ ElectAmbiguous(bad)
           \/ \E v \in todo : SeedRefuse(v) \/ SeedBegin(v)
  <2>1. UNCHANGED <<disk, segment, flushVars>> /\ open' \subseteq open
    BY <1>2 DEF ElectChoose, ElectScan, ElectAmbiguous, SeedRefuse, SeedBegin,
        diskVars, setVars
  <2>. QED
    BY <2>1, WholeKept
<1>3. CASE \/ \E w \in from : SeedCopy(w)
           \/ \E w \in from : \E s \in Seg : \E n \in 0 .. Len(disk[w][s]) : SeedCopyFail(w, s, n)
  <2>. PICK w \in from : SeedCopy(w) \/ \E s \in Seg : \E n \in 0 .. Len(disk[w][s]) : SeedCopyFail(w, s, n)
    BY <1>3
  <2>1. /\ target \in Vol /\ w \in Vol
        /\ (ephase = "seed" => target \notin open)
        /\ \A u \in Vol : u # target => disk'[u] = disk[u]
        /\ \A t \in Seg : \/ disk'[target][t] = disk[target][t]
                          \/ \E m \in 0 .. Len(disk[w][t]) : disk'[target][t] = SubSeq(disk[w][t], 1, m)
    BY <1>0, CopyCells
  <2>2. UNCHANGED <<segment, open, fphase>> /\ ephase = "seed" /\ fphase = "idle"
    BY <1>0 DEF SeedCopy, SeedCopyFail, setVars, flushVars, Quiet
  <2>3. ASSUME NEW t \in Seg, NEW m \in 0 .. Len(disk[w][t]) PROVE Lines(SubSeq(disk[w][t], 1, m))
    <3>1. disk[w][t] \in File /\ Lines(disk[w][t])
      BY <2>1, <1>0, <1>a DEF TypeOK, LinesEverywhere
    <3>. QED
      BY <3>1, LinesPrefix
  <2>4. LinesEverywhere'
    <3>1. ASSUME NEW u \in Vol, NEW t \in Seg PROVE Lines(disk'[u][t])
      BY <2>1, <2>3, <1>a DEF LinesEverywhere
    <3>. QED
      BY <3>1 DEF LinesEverywhere
  <2>5. OpenWhole'
    BY <2>1, <2>2, <1>0, <1>a DEF OpenWhole, TypeOK
  <2>. QED
    BY <2>2, <2>4, <2>5 DEF Whole, Written, Landing
<1>4. CASE \E bad \in SUBSET NextSet : ElectOpen(bad)
  <2>. PICK bad \in SUBSET NextSet : ElectOpen(bad)
    BY <1>4
  <2>1. CASE mode = "stopping"
    <3>1. UNCHANGED <<disk, segment, flushVars>> /\ open' \subseteq open
      BY <2>1 DEF ElectOpen, diskVars
    <3>. QED
      BY <3>1, WholeKept
  <2>2. CASE mode # "stopping"
    <3>. DEFINE opening == IF TopSegment = segment THEN NextSet \ open ELSE NextSet
    <3>1. /\ OpenSegments(opening, bad, TopSegment) /\ segment' = TopSegment /\ open' = NextSet \ bad
          /\ UNCHANGED flushVars /\ ephase = "seed"
      BY <2>2 DEF ElectOpen
    <3>2. TopSegment \in Seg /\ NextSet \subseteq Vol /\ fphase = "idle" /\ fphase' = "idle"
      BY <3>1, <1>0, TopSegmentIn DEF NextSet, TypeOK, Quiet, flushVars
    <3>3. \A v \in open' : v \in opening \ bad \/ (TopSegment = segment /\ v \in open /\ fphase = "idle")
      BY <3>1, <3>2
    <3>4. open' \subseteq Vol
      BY <3>1, <3>2
    <3>. HIDE DEF opening
    <3>. QED
      BY <3>1, <3>2, <3>3, <3>4, <1>0, WholeOpened
  <2>. QED
    BY <2>1, <2>2
<1>. QED
  BY <1>1, <1>2, <1>3, <1>4 DEF ElectNext

\* Every step keeps Whole.
LEMMA WholeStep ==
    ASSUME Ordered, Whole, [Next]_vars
    PROVE  Whole'
<1>1. CASE AppendNext
  <2>1. UNCHANGED <<disk, segment, flushVars>> /\ open' \subseteq open
    BY <1>1 DEF AppendNext, AppendSkipped, AppendQueue, AppendWait, AppendRefuse,
        diskVars, setVars
  <2>. QED
    BY <2>1, WholeKept
<1>2. CASE Stopped \/ Crash
  BY <1>2, WholeClosed DEF Stopped, Crash, Forget, diskVars
<1>3. CASE \/ Start \/ Started \/ Stop \/ OnFleetChange
           \/ \E v \in Vol, s \in Status : FleetMove(v, s)
           \/ \E v \in Vol : RemoveCheck(v)
           \/ RemoveCommit
  <2>1. UNCHANGED <<disk, segment, flushVars>> /\ open' \subseteq open
    BY <1>3 DEF Start, Started, Stop, OnFleetChange, FleetMove, RemoveCheck,
        RemoveCommit, diskVars, setVars
  <2>. QED
    BY <2>1, WholeKept
<1>4. CASE UNCHANGED vars
  <2>1. UNCHANGED <<disk, segment, flushVars>> /\ open' \subseteq open
    BY <1>4 DEF vars, diskVars, setVars
  <2>. QED
    BY <2>1, WholeKept
<1>. QED
  BY <1>1, <1>2, <1>3, <1>4, WholeFlush, WholeElect DEF Next, FleetNext

\* A recorded history is whole lines.
LEMMA WholeInit ==
    ASSUME Init
    PROVE  Whole
<1>1. ASSUME NEW v \in Vol, NEW s \in Seg PROVE Lines(disk[v][s])
  <2>1. CASE s \in Kept(v)
    <3>1. s + 1 \in 1 .. Len(History)
      BY <2>1, JournalAssumption, LenProperties DEF Kept, Seg
    <3>2. History[s + 1] \in Rec
      BY <3>1, JournalAssumption, ElementOfSeq
    <3>3. <<History[s + 1]>> \in Seq(Rec)
      BY <3>2
    <3>4. Lines(Body(<<History[s + 1]>>))
      BY <3>3, BodyFacts
    <3>. QED
      BY <2>1, <3>4 DEF Init
  <2>2. CASE s \notin Kept(v)
    <3>1. disk[v][s] = <<>> /\ Len(<<>>) = 0
      BY <2>2 DEF Init
    <3>. QED
      BY <3>1 DEF Lines
  <2>. QED
    BY <2>1, <2>2
<1>. QED
  BY <1>1 DEF Init, Whole, LinesEverywhere, OpenWhole, Written, Landing

-----------------------------------------------------------------------------
\* A record stays in a file that grows at its end.
LEMMA HoldsGrown ==
    ASSUME NEW f \in File, NEW g \in File, NEW r \in Rec, Holds(f, r), Len(f) <= Len(g),
           \A i \in 1 .. Len(f) : g[i] = f[i]
    PROVE  Holds(g, r)
<1>1. Len(f) \in Nat /\ Len(g) \in Nat
  BY FileFacts
<1>2. PICK i \in 1 .. Len(f) : f[i] = <<r, "newline">>
  BY DEF Holds
<1>3. i \in 1 .. Len(g) /\ g[i] = <<r, "newline">>
  BY <1>1, <1>2
<1>. QED
  BY <1>3 DEF Holds

\* Cutting a torn tail takes no complete record.
LEMMA HoldsTorn ==
    ASSUME NEW f \in File, Lines(f), NEW r \in Rec, Holds(f, r)
    PROVE  Holds(RollBackTornTail(f), r)
<1>1. PICK n \in 0 .. Len(f) : /\ RollBackTornTail(f) = SubSeq(f, 1, n)
                               /\ \A i \in n + 1 .. Len(f) : f[i][2] # "newline"
  BY TornTailFacts
<1>2. Len(f) \in Nat
  BY FileFacts
<1>3. PICK i \in 1 .. Len(f) : f[i] = <<r, "newline">>
  BY DEF Holds
<1>4. f[i][2] = "newline"
  BY <1>3
<1>5. i \in 1 .. n
  BY <1>1, <1>2, <1>4
<1>6. SubSeq(f, 1, n)[i] = <<r, "newline">> /\ Len(SubSeq(f, 1, n)) = n
  BY <1>3, <1>5, PrefixFacts
<1>. QED
  BY <1>1, <1>5, <1>6 DEF Holds

\* A longer file that agrees on the prefix holds what the shorter holds.
LEMMA HoldsLonger ==
    ASSUME NEW f \in File, NEW g \in File, NEW r \in Rec, Holds(f, r), Len(f) <= Len(g),
           AgreeOnPrefix(f, g) \/ AgreeOnPrefix(g, f)
    PROVE  Holds(g, r)
<1>1. Len(f) \in Nat /\ Len(g) \in Nat
  BY FileFacts
<1>2. Smaller(Len(f), Len(g)) = Len(f) /\ Smaller(Len(g), Len(f)) = Len(f)
  BY <1>1 DEF Smaller
<1>3. \A i \in 1 .. Len(f) : g[i] = f[i]
  BY <1>2 DEF AgreeOnPrefix
<1>. QED
  BY <1>1, <1>3, HoldsGrown

\* A record is on a volume when one of its segments holds it.
LEMMA OnDiskHolds ==
    ASSUME NEW v \in Vol, NEW r \in Rec
    PROVE  OnDisk(v, r) <=> \E s \in Seg : Holds(disk[v][s], r)
  BY DEF OnDisk, Holds

\* No step loses a record that is acknowledged from all platters.
Survives == \A r \in Rec : rec[r] = "acked" /\ (\E v \in Vol : OnDisk(v, r)) => (\E v \in Vol : OnDisk(v, r)')

\* Opening a segment loses no record.
LEMMA SurviveOpened ==
    ASSUME TypeOK, AbsentIsEmpty, LinesEverywhere, NEW vs, NEW bad, NEW s \in Seg, OpenSegments(vs, bad, s)
    PROVE  \A r \in Rec, v \in Vol : OnDisk(v, r) => OnDisk(v, r)'
<1>1. \A v \in Vol, t \in Seg :
         disk'[v][t] = IF v \in vs \ bad /\ t = s THEN RollBackTornTail(disk[v][t]) ELSE disk[v][t]
  BY OpenedFiles
<1>2. ASSUME NEW r \in Rec, NEW v \in Vol, OnDisk(v, r) PROVE OnDisk(v, r)'
  <2>1. PICK t \in Seg : Holds(disk[v][t], r)
    BY <1>2, OnDiskHolds
  <2>2. disk[v][t] \in File /\ Lines(disk[v][t])
    BY DEF TypeOK, LinesEverywhere
  <2>3. Holds(disk'[v][t], r)
    BY <1>1, <2>1, <2>2, HoldsTorn
  <2>. QED
    BY <2>3 DEF OnDisk, Holds
<1>. QED
  BY <1>2

\* Steps that write no file lose no record.
LEMMA SurviveKept ==
    ASSUME disk' = disk
    PROVE  Survives
  BY DEF Survives, OnDisk

\* A file that grows keeps its lines, and has no others than those that were added.
LEMMA GrownHolds ==
    ASSUME TypeOK, NEW v \in Vol, NEW h \in File, disk' = [disk EXCEPT ![v][segment] = disk[v][segment] \o h]
    PROVE  \A r \in Rec, w \in Vol :
              /\ OnDisk(w, r) => OnDisk(w, r)'
              /\ OnDisk(w, r)' => OnDisk(w, r) \/ Holds(h, r)
<1>0. segment \in Seg /\ disk[v][segment] \in File /\ Len(disk[v][segment]) \in Nat /\ Len(h) \in Nat
  BY FileFacts DEF TypeOK
<1>1. PICK g \in File : g = disk[v][segment] \o h
  BY <1>0, ConcatFacts
<1>2. /\ disk'[v][segment] = g
      /\ \A w \in Vol, t \in Seg : w # v \/ t # segment => disk'[w][t] = disk[w][t]
  <2>1. disk \in [Vol -> [Seg -> File]]
    BY DEF TypeOK
  <2>. QED
    BY <2>1, <1>0, <1>1
<1>3. /\ Len(g) = Len(disk[v][segment]) + Len(h)
      /\ \A i \in 1 .. Len(disk[v][segment]) : g[i] = disk[v][segment][i]
      /\ \A i \in Len(disk[v][segment]) + 1 .. Len(g) :
            i - Len(disk[v][segment]) \in 1 .. Len(h) /\ g[i] = h[i - Len(disk[v][segment])]
  BY <1>0, <1>1, ConcatFacts
<1>4. ASSUME NEW r \in Rec, NEW w \in Vol, OnDisk(w, r) PROVE OnDisk(w, r)'
  <2>1. PICK t \in Seg : Holds(disk[w][t], r)
    BY <1>4, OnDiskHolds
  <2>2. Holds(disk'[w][t], r)
    <3>1. CASE w = v /\ t = segment
      <4>1. Len(disk[v][segment]) <= Len(g)
        BY <1>0, <1>3
      <4>. QED
        BY <4>1, <3>1, <2>1, <1>0, <1>2, <1>3, HoldsGrown
    <3>2. CASE ~(w = v /\ t = segment)
      BY <3>2, <2>1, <1>2
    <3>. QED
      BY <3>1, <3>2
  <2>. QED
    BY <2>2 DEF OnDisk, Holds
<1>5. ASSUME NEW r \in Rec, NEW w \in Vol, OnDisk(w, r)' PROVE OnDisk(w, r) \/ Holds(h, r)
  <2>1. PICK t \in Seg : Holds(disk'[w][t], r)
    BY <1>5 DEF OnDisk, Holds
  <2>2. CASE w = v /\ t = segment
    <3>1. PICK i \in 1 .. Len(g) : g[i] = <<r, "newline">>
      BY <2>1, <2>2, <1>2 DEF Holds
    <3>2. CASE i <= Len(disk[v][segment])
      <4>1. i \in 1 .. Len(disk[v][segment]) /\ disk[v][segment][i] = <<r, "newline">>
        BY <3>1, <3>2, <1>0, <1>3
      <4>. QED
        BY <4>1, <2>2 DEF OnDisk
    <3>3. CASE ~(i <= Len(disk[v][segment]))
      <4>1. i \in Len(disk[v][segment]) + 1 .. Len(g)
        BY <3>3, <1>0, <1>3
      <4>. QED
        BY <4>1, <3>1, <1>3 DEF Holds
    <3>. QED
      BY <3>2, <3>3
  <2>3. CASE ~(w = v /\ t = segment)
    BY <2>1, <2>3, <1>2, OnDiskHolds
  <2>. QED
    BY <2>2, <2>3
<1>. QED
  BY <1>4, <1>5

\* A rollback cuts its own batch only, which is not acknowledged.
LEMMA SurviveFlush ==
    ASSUME Ordered, Whole, FlushNext
    PROVE  Survives
<1>0. TypeOK /\ AbsentIsEmpty /\ InQueue
  BY DEF Ordered
<1>a. LinesEverywhere /\ Written
  BY DEF Whole
<1>b. /\ segment \in Seg
      /\ \A v \in Vol : disk[v][segment] \in File /\ Len(disk[v][segment]) \in Nat /\ before[v] \in Nat
      /\ Body(batch) \in File /\ Len(Body(batch)) = 2 * Len(batch)
  BY <1>0, FileFacts, BodyFacts DEF TypeOK
<1>1. CASE \/ FlushStart \/ FlushAck \/ FlushReject \/ FlushRejected
           \/ \E v \in Vol : RollbackStuck(v)
  BY <1>1, SurviveKept DEF FlushStart, FlushAck, FlushReject, FlushRejected,
      RollbackStuck, diskVars
<1>2. CASE \E bad \in SUBSET replicas : FlushAckRotate(bad)
  <2>. PICK bad \in SUBSET replicas : FlushAckRotate(bad)
    BY <1>2
  <2>1. CASE mode = "stopping"
    BY <2>1, SurviveKept DEF FlushAckRotate, diskVars
  <2>2. CASE mode # "stopping"
    <3>1. OpenSegments(replicas, bad, segment + 1) /\ segment < MaxSegment
      BY <2>2 DEF FlushAckRotate
    <3>2. segment + 1 \in Seg
      BY <3>1, <1>0, JournalAssumption DEF TypeOK, Seg
    <3>. QED
      BY <3>1, <3>2, <1>0, <1>a, SurviveOpened DEF Survives
  <2>. QED
    BY <2>1, <2>2
<1>3. ASSUME NEW v \in Vol, NEW h \in File, disk' = [disk EXCEPT ![v][segment] = disk[v][segment] \o h]
      PROVE  Survives
  BY <1>0, <1>3, GrownHolds DEF Survives
<1>4. CASE \E v \in Vol : FlushWrite(v)
  BY <1>3, <1>4, <1>b DEF FlushWrite
<1>5. CASE \E v \in left : \E n \in 0 .. 2 * Len(batch) : FlushFail(v, n)
  <2>. PICK v \in left, n \in 0 .. 2 * Len(batch) : FlushFail(v, n)
    BY <1>5
  <2>1. PICK h \in File : h = SubSeq(Body(batch), 1, n)
    BY <1>b, PrefixFacts
  <2>2. v \in Vol /\ disk' = [disk EXCEPT ![v][segment] = disk[v][segment] \o h]
    BY <2>1, <1>0 DEF FlushFail, TypeOK
  <2>. QED
    BY <2>2, <1>3
<1>6. CASE \E v \in Vol : Rollback(v)
  <2>. PICK v \in Vol : Rollback(v)
    BY <1>6
  <2>1. /\ fphase = "rollback"
        /\ \/ disk' = disk
           \/ disk' = [disk EXCEPT ![v][segment] = TruncateTo(disk[v][segment], before[v])]
    BY DEF Rollback
  <2>0. /\ before[v] <= Len(disk[v][segment])
        /\ \A i \in before[v] + 1 .. Len(disk[v][segment]) :
              \E j \in 1 .. Len(batch) : disk[v][segment][i][1] = batch[j]
    <3>1. fphase # "idle"
      BY DEF Rollback
    <3>. QED
      BY <3>1, <1>a DEF Written
  <2>2. CASE disk' = [disk EXCEPT ![v][segment] = TruncateTo(disk[v][segment], before[v])]
    <3>1. PICK m \in 0 .. Len(disk[v][segment]) :
            /\ TruncateTo(disk[v][segment], before[v]) = SubSeq(disk[v][segment], 1, m) /\ m = before[v]
      <4>1. before[v] <= Len(disk[v][segment])
        BY <2>0
      <4>2. CASE Len(disk[v][segment]) <= before[v]
        <5>1. SubSeq(disk[v][segment], 1, Len(disk[v][segment])) = disk[v][segment]
          BY <1>b, SubSeqFull DEF File
        <5>. QED
          BY <4>1, <4>2, <5>1, <1>b DEF TruncateTo
      <4>3. CASE ~(Len(disk[v][segment]) <= before[v])
        BY <4>1, <4>3, <1>b DEF TruncateTo
      <4>. QED
        BY <4>2, <4>3
    <3>2. PICK g \in File : /\ g = SubSeq(disk[v][segment], 1, m) /\ Len(g) = m
                            /\ \A i \in 1 .. m : g[i] = disk[v][segment][i]
      BY <1>b, PrefixFacts
    <3>3. /\ disk'[v][segment] = g
          /\ \A w \in Vol, t \in Seg : w # v \/ t # segment => disk'[w][t] = disk[w][t]
      BY <1>0, <1>b, <2>2, <3>1, <3>2 DEF TypeOK
    <3>4. ASSUME NEW r \in Rec, rec[r] = "acked", NEW w \in Vol, OnDisk(w, r) PROVE OnDisk(w, r)'
      <4>1. PICK t \in Seg : Holds(disk[w][t], r)
        BY <3>4, OnDiskHolds
      <4>2. CASE w = v /\ t = segment
        <5>1. PICK i \in 1 .. Len(disk[v][segment]) : disk[v][segment][i] = <<r, "newline">>
          BY <4>1, <4>2 DEF Holds
        <5>2. i \in 1 .. m
          <6>1. ASSUME i \notin 1 .. m PROVE FALSE
            <7>1. i \in before[v] + 1 .. Len(disk[v][segment])
              BY <6>1, <3>1, <1>b
            <7>2. PICK j \in 1 .. Len(batch) : disk[v][segment][i][1] = batch[j]
              BY <7>1, <2>0
            <7>3. disk[v][segment][i][1] = r
              BY <5>1
            <7>. QED
              BY <7>2, <7>3, <3>4, <1>0 DEF InQueue
          <6>. QED
            BY <6>1
        <5>3. Holds(disk'[w][t], r)
          BY <5>1, <5>2, <4>2, <3>2, <3>3 DEF Holds
        <5>. QED
          BY <5>3 DEF OnDisk, Holds
      <4>3. CASE ~(w = v /\ t = segment)
        <5>1. Holds(disk'[w][t], r)
          BY <4>1, <4>3, <3>3
        <5>. QED
          BY <5>1 DEF OnDisk, Holds
      <4>. QED
        BY <4>2, <4>3
    <3>. QED
      BY <3>4 DEF Survives
  <2>. QED
    BY <2>1, <2>2, SurviveKept
<1>. QED
  BY <1>1, <1>2, <1>4, <1>5, <1>6 DEF FlushNext

\* A copy replaces a file by one that holds what it held.
LEMMA SurviveElect ==
    ASSUME Ordered, Whole, ElectNext
    PROVE  Survives
<1>0. TypeOK /\ AbsentIsEmpty /\ Seeding
  BY DEF Ordered
<1>a. LinesEverywhere
  BY DEF Whole
<1>1. CASE \/ ElectBegin \/ ElectScanEmpty \/ ElectLineage \/ ElectLineageFails
           \/ SeedAdopt \/ ElectKeep \/ ElectOpenFails
           \/ \E c \in SUBSET Vol : ElectChoose(c)
           \/ \E bad \in SUBSET listed : ElectScan(bad) \/ ElectAmbiguous(bad)
           \/ \E v \in todo : SeedRefuse(v) \/ SeedBegin(v)
  <2>1. disk' = disk
    BY <1>1 DEF ElectBegin, ElectScanEmpty, ElectLineage, ElectLineageFails,
        SeedAdopt, ElectKeep, ElectOpenFails,
       ElectChoose, ElectScan, ElectAmbiguous, SeedRefuse, SeedBegin, diskVars
  <2>. QED
    BY <2>1, SurviveKept
<1>2. CASE \/ \E w \in from : SeedCopy(w)
           \/ \E w \in from : \E s \in Seg : \E n \in 0 .. Len(disk[w][s]) : SeedCopyFail(w, s, n)
  <2>. PICK w \in from : SeedCopy(w) \/ \E s \in Seg : \E n \in 0 .. Len(disk[w][s]) : SeedCopyFail(w, s, n)
    BY <1>2
  <2>1. /\ target \in Vol /\ w \in Vol /\ w # target
        /\ \A u \in Vol : u # target => disk'[u] = disk[u]
        /\ \A t \in Seg :
                 \/ disk'[target][t] = disk[target][t]
                 \/ /\ Len(disk[target][t]) <= Len(disk[w][t])
                    /\ AgreeOnPrefix(disk[w][t], disk[target][t])
    BY <1>0, CopyCells
  <2>2. ASSUME NEW r \in Rec, NEW u \in Vol, OnDisk(u, r) PROVE \E x \in Vol : OnDisk(x, r)'
    <3>1. PICK t \in Seg : Holds(disk[u][t], r)
      BY <2>2, OnDiskHolds
    <3>2. CASE disk'[u][t] = disk[u][t]
      <4>1. Holds(disk'[u][t], r)
        BY <3>1, <3>2
      <4>2. OnDisk(u, r)'
        BY <4>1 DEF OnDisk, Holds
      <4>. QED
        BY <4>2
    <3>3. CASE disk'[u][t] # disk[u][t]
      <4>1. u = target /\ Len(disk[u][t]) <= Len(disk[w][t]) /\ AgreeOnPrefix(disk[w][t], disk[u][t])
        BY <3>3, <2>1
      <4>2. disk[u][t] \in File /\ disk[w][t] \in File
        BY <1>0, <2>1 DEF TypeOK
      <4>3. Holds(disk[w][t], r)
        BY <3>1, <4>1, <4>2, HoldsLonger
      <4>4. disk'[w][t] = disk[w][t]
        BY <2>1
      <4>5. OnDisk(w, r)'
        BY <4>3, <4>4 DEF OnDisk, Holds
      <4>. QED
        BY <4>5, <2>1
    <3>. QED
      BY <3>2, <3>3
  <2>. QED
    BY <2>2 DEF Survives
<1>3. CASE \E bad \in SUBSET NextSet : ElectOpen(bad)
  <2>. PICK bad \in SUBSET NextSet : ElectOpen(bad)
    BY <1>3
  <2>1. disk' = disk \/ \E vs : OpenSegments(vs, bad, TopSegment)
    BY DEF ElectOpen, diskVars
  <2>. QED
    BY <2>1, <1>0, <1>a, TopSegmentIn, SurviveOpened, SurviveKept DEF Survives
<1>. QED
  BY <1>1, <1>2, <1>3 DEF ElectNext

\* Every step keeps the acknowledged records on some platter.
LEMMA SurviveStep ==
    ASSUME Ordered, Whole, [Next]_vars
    PROVE  Survives
<1>1. CASE AppendNext \/ FleetNext \/ UNCHANGED vars
  <2>1. disk' = disk
    BY <1>1 DEF AppendNext, AppendSkipped, AppendQueue, AppendWait, AppendRefuse,
        FleetNext, Stopped, Crash, Forget,
       Start, Started, Stop, OnFleetChange, FleetMove, RemoveCheck, RemoveCommit,
           diskVars, vars
  <2>. QED
    BY <2>1, SurviveKept
<1>. QED
  BY <1>1, SurviveFlush, SurviveElect DEF Next

\* A discovery answers no record and clears no volume for removal.
LEMMA ElectKeepsQueue ==
    ASSUME ElectNext
    PROVE  rec' = rec /\ cleared' = cleared /\ log' = log /\ pending' = pending /\ batch' = batch
<1>1. CASE \/ ElectBegin \/ ElectScanEmpty \/ ElectLineage \/ ElectLineageFails
           \/ SeedAdopt \/ ElectKeep \/ ElectOpenFails
           \/ \E c \in SUBSET Vol : ElectChoose(c)
           \/ \E bad \in SUBSET listed : ElectScan(bad) \/ ElectAmbiguous(bad)
           \/ \E v \in todo : SeedRefuse(v) \/ SeedBegin(v)
  BY <1>1 DEF ElectBegin, ElectScanEmpty, ElectLineage, ElectLineageFails,
      SeedAdopt, ElectKeep, ElectOpenFails,
     ElectChoose, ElectScan, ElectAmbiguous, SeedRefuse, SeedBegin, queueVars,
     flushVars, fleetVars
<1>2. CASE \E w \in from : SeedCopy(w)
  BY <1>2 DEF SeedCopy, queueVars, flushVars, fleetVars
<1>3. ASSUME NEW w \in from, NEW s \in Seg, NEW n \in 0 .. Len(disk[w][s]), SeedCopyFail(w, s, n)
      PROVE  rec' = rec /\ cleared' = cleared /\ log' = log /\ pending' = pending /\ batch' = batch
  BY <1>3 DEF SeedCopyFail, queueVars, flushVars, fleetVars
<1>4. CASE \E bad \in SUBSET NextSet : ElectOpen(bad)
  BY <1>4 DEF ElectOpen, queueVars, flushVars, fleetVars
<1>. QED
  BY <1>1, <1>2, <1>3, <1>4 DEF ElectNext

\* What a replica has written and synced is on its platter.
LEMMA BatchOnDisk ==
    ASSUME Ordered, Whole, fphase = "write", durable # {}, NEW j \in 1 .. Len(batch)
    PROVE  \E v \in Vol : OnDisk(v, batch[j])
<1>0. TypeOK
  BY DEF Ordered
<1>1. PICK v \in Vol : v \in durable
  BY <1>0 DEF TypeOK
<1>2. /\ Len(disk[v][segment]) = before[v] + 2 * Len(batch)
      /\ \A i \in 1 .. 2 * Len(batch) : disk[v][segment][before[v] + i] = Body(batch)[i]
  BY <1>1 DEF Whole, Landing
<1>3. 2 * j \in 1 .. 2 * Len(batch) /\ Body(batch)[2 * j] = <<batch[j], "newline">>
  BY <1>0, BodyFacts DEF TypeOK
<1>4. before[v] \in Nat /\ segment \in Seg /\ Len(batch) \in Nat
  BY <1>0, LenProperties DEF TypeOK
<1>5. disk[v][segment][before[v] + 2 * j] = <<batch[j], "newline">>
  BY <1>2, <1>3
<1>6. before[v] + 2 * j \in 1 .. Len(disk[v][segment])
  BY <1>2, <1>3, <1>4
<1>. QED
  BY <1>4, <1>5, <1>6 DEF OnDisk

\* A record becomes acknowledged when it is on a platter.
LEMMA AckedWhere ==
    ASSUME Ordered, Whole, [Next]_vars, NEW r \in Rec, rec'[r] = "acked", rec[r] # "acked"
    PROVE  \E v \in Vol : OnDisk(v, r)'
<1>0. TypeOK /\ AbsentIsEmpty /\ LinesEverywhere
  BY DEF Ordered, Whole
<1>1. CASE FlushAck \/ \E bad \in SUBSET replicas : FlushAckRotate(bad)
  <2>1. /\ fphase = "write" /\ durable # {}
        /\ rec' = [x \in Rec |-> IF \E i \in 1 .. Len(batch) : batch[i] = x THEN "acked" ELSE rec[x]]
    BY <1>1 DEF FlushAck, FlushAckRotate, FlushEnd
  <2>2. PICK j \in 1 .. Len(batch) : batch[j] = r
    BY <2>1
  <2>9. PICK v \in Vol : OnDisk(v, r)
    BY <2>1, <2>2, BatchOnDisk
  <2>10. CASE disk' = disk
    <3>1. OnDisk(v, r)'
      BY <2>9, <2>10 DEF OnDisk
    <3>. QED
      BY <3>1
  <2>11. CASE disk' # disk
    <3>1. PICK bad \in SUBSET replicas : FlushAckRotate(bad) /\ mode # "stopping"
      BY <1>1, <2>11 DEF FlushAck, FlushAckRotate, diskVars
    <3>2. OpenSegments(replicas, bad, segment + 1) /\ segment < MaxSegment
      BY <3>1 DEF FlushAckRotate
    <3>3. segment + 1 \in Seg
      BY <3>2, <1>0, JournalAssumption DEF TypeOK, Seg
    <3>. QED
      BY <3>2, <3>3, <2>9, <1>0, SurviveOpened
  <2>. QED
    BY <2>10, <2>11
<1>2. CASE ~(FlushAck \/ \E bad \in SUBSET replicas : FlushAckRotate(bad))
  <2>1. CASE AppendNext
    BY <2>1, <1>0 DEF AppendNext, AppendSkipped, AppendQueue, AppendWait,
        AppendRefuse, TypeOK
  <2>2. CASE FlushNext
    BY <1>2, <2>2, <1>0 DEF FlushNext, FlushStart, FlushReject, FlushRejected,
        FlushEnd, FlushWrite, Rollback,
       RollbackStuck, FlushFail, queueVars, TypeOK
  <2>3. CASE ElectNext
    BY <2>3, ElectKeepsQueue
  <2>4. CASE FleetNext
    BY <2>4 DEF FleetNext, Stopped, Crash, Forget, Start, Started, Stop,
        OnFleetChange, FleetMove, RemoveCheck,
       RemoveCommit, queueVars
  <2>5. CASE UNCHANGED vars
    BY <2>5 DEF vars, queueVars
  <2>. QED
    BY <2>1, <2>2, <2>3, <2>4, <2>5 DEF Next
<1>. QED
  BY <1>1, <1>2

\* Every step keeps AckedDurable.
LEMMA AckedStep ==
    ASSUME Ordered, Whole, AckedDurable, [Next]_vars
    PROVE  AckedDurable'
<1>1. ASSUME NEW r \in Rec, rec'[r] = "acked" PROVE \E v \in Vol : OnDisk(v, r)'
  <2>1. CASE rec[r] = "acked"
    BY <2>1, SurviveStep DEF AckedDurable, Survives
  <2>2. CASE rec[r] # "acked"
    BY <1>1, <2>2, AckedWhere
  <2>. QED
    BY <2>1, <2>2
<1>. QED
  BY <1>1 DEF AckedDurable

\* The recorded history is on the volumes that hold it.
LEMMA AckedInit ==
    ASSUME Init
    PROVE  AckedDurable
<1>1. ASSUME NEW r \in Rec, rec[r] = "acked" PROVE \E v \in Vol : OnDisk(v, r)
  <2>1. r \in Old
    BY <1>1 DEF Init
  <2>2. PICK i \in 1 .. Len(History) : History[i] = r
    BY <2>1 DEF Old
  <2>3. Len(History) \in Nat /\ History # <<>>
    BY JournalAssumption, LenProperties
  <2>4. PICK v \in Vol : v \in Holders
    BY <2>3, JournalAssumption
  <2>5. i - 1 \in Seg /\ i - 1 \in Kept(v) /\ (i - 1) + 1 = i
    BY <2>3, <2>4, JournalAssumption DEF Seg, Kept
  <2>6. disk[v][i - 1] = Body(<<r>>)
    BY <2>2, <2>5 DEF Init
  <2>7. <<r>> \in Seq(Rec) /\ Len(<<r>>) = 1 /\ <<r>>[1] = r
    OBVIOUS
  <2>8. /\ Len(Body(<<r>>)) = 2 /\ Body(<<r>>)[2] = <<r, "newline">>
    <3>1. 1 \in 1 .. Len(<<r>>)
      BY <2>7
    <3>2. Len(Body(<<r>>)) = 2 * Len(<<r>>) /\ Body(<<r>>)[2 * 1] = <<<<r>>[1], "newline">>
      BY <2>7, <3>1, BodyFacts
    <3>. QED
      BY <2>7, <3>2
  <2>. QED
    BY <2>4, <2>5, <2>6, <2>8 DEF OnDisk
<1>. QED
  BY <1>1 DEF AckedDurable

\* A file of lines never reads two records as one.
LEMMA NotGlued ==
    ASSUME TypeOK, LinesEverywhere
    PROVE  NoGluedRecord
<1>1. ASSUME NEW v \in Vol, NEW s \in Seg, NEW i \in 1 .. Len(disk[v][s])
      PROVE  IF disk[v][s][i][2] = "text"
             THEN i = Len(disk[v][s]) \/ disk[v][s][i + 1] = <<disk[v][s][i][1], "newline">>
             ELSE i > 1 /\ disk[v][s][i - 1] = <<disk[v][s][i][1], "text">>
  <2>. DEFINE f == disk[v][s]
  <2>1. f \in File /\ Lines(f) /\ Len(f) \in Nat
    BY FileFacts DEF TypeOK, LinesEverywhere
  <2>. HIDE DEF f
  <2>2. ASSUME NEW j \in 1 .. Len(f)
        PROVE  /\ f[j] = <<f[j][1], f[j][2]>>
               /\ f[j][2] = IF j % 2 = 1 THEN "text" ELSE "newline"
               /\ j % 2 = 0 => f[j][1] = f[j - 1][1]
    BY <2>1, FileFacts DEF Lines
  <2>3. CASE f[i][2] = "text"
    <3>1. i % 2 = 1
      BY <2>2, <2>3 DEF f
    <3>2. ASSUME i # Len(f) PROVE f[i + 1] = <<f[i][1], "newline">>
      <4>1. i + 1 \in 1 .. Len(f) /\ (i + 1) % 2 = 0 /\ (i + 1) - 1 = i
        BY <3>1, <3>2, <2>1 DEF f
      <4>2. (i + 1) % 2 # 1
        BY <4>1
      <4>. QED
        BY <4>1, <4>2, <2>2
    <3>. QED
      BY <2>3, <3>2 DEF f
  <2>4. CASE f[i][2] # "text"
    <3>1. i % 2 # 1 /\ i \in Nat /\ i >= 1
      BY <2>2, <2>4 DEF f
    <3>2. i % 2 = 0 /\ i > 1 /\ (i - 1) % 2 = 1
      BY <3>1
    <3>3. i - 1 \in 1 .. Len(f) /\ i \in 1 .. Len(f)
      BY <3>2, <2>1 DEF f
    <3>4. f[i - 1] = <<f[i][1], "text">>
      BY <3>2, <3>3, <2>2
    <3>. QED
      BY <2>4, <3>2, <3>4 DEF f
  <2>. QED
    BY <2>3, <2>4
<1>. QED
  BY <1>1 DEF NoGluedRecord

\* The inductive invariant.
JournalInv == Ordered /\ Whole /\ AckedDurable

\* The inductive invariant holds.
LEMMA InductiveInvariant == Spec => []JournalInv
<1>1. Init => JournalInv
  BY OrderedInit, WholeInit, AckedInit DEF JournalInv
<1>2. JournalInv /\ [Next]_vars => JournalInv'
  <2>1. ASSUME JournalInv, [Next]_vars PROVE Ordered' /\ Whole' /\ AckedDurable'
    <3>1. Ordered /\ Whole /\ AckedDurable /\ LinesEverywhere
      BY <2>1 DEF JournalInv, Whole
    <3>. QED
      BY <2>1, <3>1, OrderedStep, WholeStep, AckedStep
  <2>. QED
    BY <2>1 DEF JournalInv
<1>. QED
  BY <1>1, <1>2, PTL DEF Spec

\* appendAndWait() acknowledges only records that some platter keeps for good, and
\* no file ever reads two records glued to one, through failed and short writes,
\* rollbacks, crashes, seedings and elections, for any fleet and any budgets of faults.
THEOREM LogIsSound == Spec => []LogSound
<1>1. JournalInv => LogSound
  BY NotGlued DEF JournalInv, Ordered, Whole, LogSound
<1>. QED
  BY <1>1, InductiveInvariant, PTL

\* checkRemoval() compares the segments of the volume with those of the others.
LEMMA RemovalStep ==
    ASSUME JournalInv, [Next]_vars, cleared' # cleared, cleared' # None, Mounted(cleared')
    PROVE  \A r \in Rec : rec[r] = "acked" /\ OnDisk(cleared', r) =>
              \E w \in Vol \ {cleared'} : status[w] # "deleted" /\ OnDisk(w, r)
<1>0. TypeOK /\ AbsentIsEmpty
  BY DEF JournalInv, Ordered
<1>1. PICK v \in Vol : RemoveCheck(v)
  <2>1. CASE AppendNext
    BY <2>1 DEF AppendNext, AppendSkipped, AppendQueue, AppendWait, AppendRefuse,
        fleetVars
  <2>2. CASE FlushNext
    BY <2>2 DEF FlushNext, FlushStart, FlushAck, FlushAckRotate, FlushReject,
        FlushRejected, FlushWrite, Rollback,
       RollbackStuck, FlushFail, fleetVars
  <2>3. CASE ElectNext
    BY <2>3, ElectKeepsQueue
  <2>4. CASE FleetNext
    BY <2>4 DEF FleetNext, Stopped, Crash, Forget, Start, Started, Stop,
        OnFleetChange, FleetMove, RemoveCommit,
       fleetVars
  <2>5. CASE UNCHANGED vars
    BY <2>5 DEF vars, fleetVars
  <2>. QED
    BY <2>1, <2>2, <2>3, <2>4, <2>5 DEF Next
<1>2. cleared' = v /\ NotLastCopy(v) /\ Mounted(v)
  BY <1>1 DEF RemoveCheck
<1>3. ASSUME NEW r \in Rec, OnDisk(v, r)
      PROVE  \E w \in Vol \ {v} : status[w] # "deleted" /\ OnDisk(w, r)
  <2>1. PICK s \in Seg : Holds(disk[v][s], r)
    BY <1>3, OnDiskHolds
  <2>2. s \in present[v]
    <3>1. ASSUME s \notin present[v] PROVE FALSE
      <4>1. disk[v][s] = <<>> /\ Len(<<>>) = 0
        BY <3>1, <1>0 DEF AbsentIsEmpty
      <4>. QED
        BY <4>1, <2>1 DEF Holds
    <3>. QED
      BY <3>1
  <2>3. PICK w \in Vol \ {v} : /\ Mounted(w) /\ Len(disk[w][s]) >= Len(disk[v][s])
                              /\ AgreeOnPrefix(disk[v][s], disk[w][s])
    BY <2>2, <1>2 DEF NotLastCopy
  <2>4. disk[v][s] \in File /\ disk[w][s] \in File
    BY <1>0 DEF TypeOK
  <2>5. Len(disk[v][s]) <= Len(disk[w][s])
    BY <2>3, <2>4, FileFacts
  <2>6. Holds(disk[w][s], r)
    BY <2>1, <2>3, <2>4, <2>5, HoldsLonger
  <2>7. OnDisk(w, r) /\ status[w] # "deleted"
    BY <2>3, <2>6, OnDiskHolds DEF Mounted
  <2>. QED
    BY <2>7
<1>. QED
  BY <1>2, <1>3

\* A volume that checkRemoval() clears is not the last to hold an acknowledged
\* record: another volume that is not deleted holds it too.
THEOREM RemovalsKeepTheLog == Spec => RemovalCheckSound
<1>1. JournalInv /\ [Next]_vars =>
         [cleared' # cleared /\ cleared' # None /\ Mounted(cleared') =>
             \A r \in Rec : rec[r] = "acked" /\ OnDisk(cleared', r) =>
                \E w \in Vol \ {cleared'} : status[w] # "deleted" /\ OnDisk(w, r)]_vars
  BY RemovalStep
<1>. QED
  BY <1>1, InductiveInvariant, PTL DEF Spec, RemovalCheckSound
-----------------------------------------------------------------------------
(***************************************************************************)
(* Lockstep and replay order, on steady disks: none is unmounted or        *)
(* removed, every directory can be listed, and what fails, fails between   *)
(* records.  Then all platters carry one history:                          *)
(*                                                                         *)
(*   Aligned     any two platters agree where both have bytes; a segment   *)
(*               behind another is complete; what is open has everything   *)
(*               that anybody has, and an election finds it all again;     *)
(*   Sequenced   a record lies at one place, and the places of the         *)
(*               acknowledged ones are in the order of the log.            *)
(***************************************************************************)
SteadyDisks == ~ShortWrites /\ ~Unmounts /\ ~ListingFails /\ ~Removals

\* Nobody has more of the segment than volume v.
Longest(v, s) == \A u \in Vol : Len(disk[u][s]) <= Len(disk[v][s])

\* No platter has a segment behind the active one.
Within == \A u \in Vol : present[u] \subseteq 0 .. segment

\* Every volume stays in service.
AllMounted == cleared = None /\ \A v \in Vol : status[v] \in {"rw", "ro"}

\* No record is cut in two.
EvenFiles == (\A v \in Vol, s \in Seg : Len(disk[v][s]) % 2 = 0) /\ \A v \in Vol : before[v] % 2 = 0

\* The set is what is open; only stop() keeps replicas without a handle.
Handles == mode # "stopping" => replicas = open

\* One history: platters agree where both have bytes.
Agreed == \A v, w \in Vol, s \in Seg : AgreeOnPrefix(disk[v][s], disk[w][s])

\* What lies before a segment is there, and complete.
Sealed ==
    \A v \in Vol : \A t \in present[v] : \A s \in 0 .. t - 1 :
        s \in present[v] /\ disk[v][s] # <<>> /\ Longest(v, s)

\* The segment before the one in memory was written and is complete.
Reached ==
    segment > 0 =>
        \E u \in Vol : /\ segment - 1 \in present[u] /\ disk[u][segment - 1] # <<>>
                       /\ Longest(u, segment - 1)

\* Between flushes an open volume has all there is.
OpenLongest == fphase = "idle" => \A v \in open : Within /\ Longest(v, segment)

\* A flush appends its batch at one offset, and whoever has bytes there has the batch's.
Appending ==
    fphase = "write" =>
        /\ batch # <<>>
        /\ \A v, w \in open : before[v] = before[w]
        /\ \A v \in open, u \in Vol :
              /\ Within
              /\ Len(disk[u][segment]) <= before[v] + 2 * Len(batch)
              /\ \A i \in before[v] + 1 .. Len(disk[u][segment]) :
                    disk[u][segment][i] = Body(batch)[i - before[v]]

\* What a rollback takes back is the end of the history.
Undoing == fphase # "idle" => \A v \in Vol : before[v] < Len(disk[v][segment]) => Within

\* Only a seeding has a target, and only a first start or restart searches the platters.
Resting == ephase # "seed" => from = {} /\ target = None /\ adopted = {}
Scanning == ephase = "scan" => listed = Vol /\ open = {}

\* The sources have together what anybody has.
Sourced ==
    ephase \in {"lineage", "seed"} =>
        \A u \in Vol :
            /\ \A t \in present[u] : t = 0 \/ \E w \in sources : t \in present[w]
            /\ \A s \in Seg : disk[u][s] # <<>> => \E w \in sources : Len(disk[u][s]) <= Len(disk[w][s])

\* A target has what it was copied so far, an adopted volume everything.
Copying ==
    ephase = "seed" =>
        /\ from \subseteq sources
        /\ \A v \in adopted, s \in Seg : Longest(v, s)
        /\ target # None =>
              \A w \in sources \ from, s \in Seg : Len(disk[w][s]) <= Len(disk[target][s])

OneHistory == AllMounted /\ EvenFiles /\ Agreed /\ Sealed /\ Reached
OneWriter  == Handles /\ OpenLongest /\ Appending /\ Undoing
OneSource  == Resting /\ Scanning /\ Sourced /\ Copying
Aligned    == OneHistory /\ OneWriter /\ OneSource

-----------------------------------------------------------------------------
\* The files and their lengths.
LEMMA DiskFiles ==
    ASSUME TypeOK
    PROVE  /\ \A v \in Vol, s \in Seg : disk[v][s] \in File /\ Len(disk[v][s]) \in Nat
           /\ \A v \in Vol, s \in Seg : Len(disk[v][s]) = 0 <=> disk[v][s] = <<>>
           /\ segment \in Seg /\ segment \in Nat /\ \A s \in Seg : s \in Nat
<1>1. ASSUME NEW v \in Vol, NEW s \in Seg PROVE disk[v][s] \in File /\ disk[v][s] \in Seq(Byte)
  BY DEF TypeOK, File
<1>2. \A v \in Vol, s \in Seg : Len(disk[v][s]) \in Nat
  BY <1>1, FileFacts
<1>3. \A v \in Vol, s \in Seg : Len(disk[v][s]) = 0 <=> disk[v][s] = <<>>
  BY <1>1, EmptySeq
<1>. QED
  BY <1>1, <1>2, <1>3 DEF TypeOK, Seg

\* Agreement, byte by byte.
LEMMA AgreeFacts ==
    ASSUME NEW f \in File, NEW g \in File
    PROVE  /\ AgreeOnPrefix(f, g) <=> \A i \in Nat : i \in 1 .. Len(f) /\ i \in 1 .. Len(g) => f[i] = g[i]
           /\ AgreeOnPrefix(f, g) /\ Len(f) = Len(g) => f = g
<1>1. Len(f) \in Nat /\ Len(g) \in Nat
  BY FileFacts
<1>2. AgreeOnPrefix(f, g) <=> \A i \in Nat : i \in 1 .. Len(f) /\ i \in 1 .. Len(g) => f[i] = g[i]
  BY <1>1 DEF AgreeOnPrefix, Smaller
<1>3. ASSUME AgreeOnPrefix(f, g), Len(f) = Len(g) PROVE f = g
  <2>1. \A i \in 1 .. Len(f) : f[i] = g[i]
    BY <1>1, <1>2, <1>3
  <2>2. f \in Seq(Byte) /\ g \in Seq(Byte)
    BY DEF File
  <2>. QED
    BY <2>1, <2>2, <1>3, SeqEqual
<1>. QED
  BY <1>2, <1>3

\* Where platters agree, a byte both have is the same.
LEMMA AgreedCells ==
    ASSUME TypeOK, Agreed, NEW v \in Vol, NEW w \in Vol, NEW s \in Seg, NEW i \in Nat,
           i \in 1 .. Len(disk[v][s]), i \in 1 .. Len(disk[w][s])
    PROVE  disk[v][s][i] = disk[w][s][i]
<1>1. disk[v][s] \in File /\ disk[w][s] \in File /\ AgreeOnPrefix(disk[v][s], disk[w][s])
  BY DiskFiles DEF Agreed
<1>. QED
  BY <1>1, AgreeFacts

\* Steps outside a discovery keep what an election knows.
LEMMA SourceKept ==
    ASSUME OneSource, ephase' \notin {"scan", "lineage", "seed"},
           \/ ephase' = ephase /\ from' = from /\ target' = target /\ adopted' = adopted
           \/ from' = {} /\ target' = None /\ adopted' = {}
    PROVE  OneSource'
  BY DEF OneSource, Resting, Scanning, Sourced, Copying

\* A step that only touches the active segment leaves the sealed ones as they are.
LEMMA EarlierKept ==
    ASSUME TypeOK, OneHistory, Within, present' = present, segment' = segment,
           \A u \in Vol, s \in Seg : s # segment => disk'[u][s] = disk[u][s]
    PROVE  Sealed' /\ Reached'
<1>0. segment \in Nat /\ present \in [Vol -> SUBSET Seg] /\ \A s \in Seg : s \in Nat
  BY DiskFiles DEF TypeOK
<1>1. ASSUME NEW w \in Vol, NEW t \in present[w], NEW s \in 0 .. t - 1
      PROVE  s \in present[w] /\ disk'[w][s] # <<>> /\ \A u \in Vol : Len(disk'[u][s]) <= Len(disk'[w][s])
  <2>1. t \in Nat /\ t <= segment /\ s \in Nat /\ s # segment
    BY <1>0 DEF Within
  <2>2. s \in present[w] /\ disk[w][s] # <<>> /\ \A u \in Vol : Len(disk[u][s]) <= Len(disk[w][s])
    BY DEF OneHistory, Sealed, Longest
  <2>3. s \in Seg
    BY <2>2, <1>0
  <2>. QED
    BY <2>1, <2>2, <2>3
<1>2. ASSUME segment > 0
      PROVE  \E u \in Vol : /\ segment - 1 \in present[u] /\ disk'[u][segment - 1] # <<>>
                            /\ \A x \in Vol : Len(disk'[x][segment - 1]) <= Len(disk'[u][segment - 1])
  <2>1. PICK u \in Vol : /\ segment - 1 \in present[u] /\ disk[u][segment - 1] # <<>>
                         /\ \A x \in Vol : Len(disk[x][segment - 1]) <= Len(disk[u][segment - 1])
    BY <1>2 DEF OneHistory, Reached, Longest
  <2>2. segment - 1 \in Seg /\ segment - 1 # segment
    BY <2>1, <1>0
  <2>. QED
    BY <2>1, <2>2
<1>. QED
  BY <1>1, <1>2 DEF Sealed, Reached, Longest

\* The file behind one replica's write: what was there, then the batch's first n bytes.
LEMMA GrownCells ==
    ASSUME TypeOK, NEW v \in Vol, Len(disk[v][segment]) = before[v], NEW n \in 0 .. 2 * Len(batch),
           disk' = [disk EXCEPT ![v][segment] = @ \o SubSeq(Body(batch), 1, n)]
    PROVE  /\ \A u \in Vol, s \in Seg : u # v \/ s # segment => disk'[u][s] = disk[u][s]
           /\ disk'[v][segment] \in File /\ Len(disk'[v][segment]) = before[v] + n
           /\ \A i \in 1 .. before[v] : disk'[v][segment][i] = disk[v][segment][i]
           /\ \A i \in before[v] + 1 .. before[v] + n : disk'[v][segment][i] = Body(batch)[i - before[v]]
<1>. DEFINE f == disk[v][segment]
            g == SubSeq(Body(batch), 1, n)
            b == before[v]
<1>1. /\ Body(batch) \in File /\ Len(Body(batch)) = 2 * Len(batch) /\ n \in Nat
      /\ g \in File /\ Len(g) = n /\ \A i \in 1 .. n : g[i] = Body(batch)[i]
  BY LenProperties, BodyFacts, PrefixFacts DEF TypeOK
<1>2. f \in File /\ Len(f) = b /\ b \in Nat
  BY DiskFiles DEF TypeOK
<1>. HIDE DEF g
<1>3. /\ disk'[v][segment] = f \o g
      /\ \A u \in Vol, s \in Seg : u # v \/ s # segment => disk'[u][s] = disk[u][s]
  BY DEF TypeOK, g
<1>. HIDE DEF f, b
<1>4. /\ f \o g \in File /\ Len(f \o g) = b + n
      /\ \A i \in 1 .. b : (f \o g)[i] = f[i]
      /\ \A i \in b + 1 .. b + n : i - b \in 1 .. n /\ (f \o g)[i] = g[i - b]
  <2>1. n \in Nat /\ g \in File /\ Len(g) = n
    BY <1>1
  <2>2. /\ f \o g \in File /\ Len(f \o g) = Len(f) + Len(g)
        /\ \A i \in 1 .. Len(f) : (f \o g)[i] = f[i]
        /\ \A i \in Len(f) + 1 .. Len(f) + Len(g) : i - Len(f) \in 1 .. Len(g) /\ (f \o g)[i] = g[i - Len(f)]
    BY <2>1, <1>2, ConcatFacts
  <2>. QED
    BY <2>1, <2>2, <1>2
<1>5. /\ \A i \in 1 .. b : disk'[v][segment][i] = f[i]
      /\ \A i \in b + 1 .. b + n : disk'[v][segment][i] = Body(batch)[i - b]
  BY <1>1, <1>3, <1>4
<1>. QED
  BY <1>3, <1>4, <1>5 DEF f, b

\* One replica's write, whole or cut between records, extends the one history.
LEMMA AlignedGrown ==
    ASSUME Ordered, Whole, Aligned, fphase = "write", fphase' = fphase,
           NEW v \in left, NEW n \in 0 .. 2 * Len(batch), n % 2 = 0,
           disk' = [disk EXCEPT ![v][segment] = @ \o SubSeq(Body(batch), 1, n)],
           UNCHANGED <<present, fleetVars, mode, segment, batch, before, ephase, from, target, adopted>>,
           open' \subseteq open, Handles'
    PROVE  Aligned'
<1>0. TypeOK /\ OneHistory /\ OneWriter /\ OneSource
  BY DEF Ordered, Aligned
<1>1. /\ Landing /\ Appending /\ v \in open /\ open \subseteq Vol /\ batch \in Seq(Rec) /\ Len(batch) \in Nat
      /\ ephase \notin {"scan", "lineage", "seed"} /\ before \in [Vol -> Nat] /\ v \in Vol
  BY <1>0, LenProperties DEF Ordered, Quiet, Flushing, Whole, OneWriter, TypeOK
<1>. DEFINE b == before[v]
<1>2. n \in Nat
  BY <1>1
<1>3. /\ Len(disk[v][segment]) = b /\ b \in Nat /\ b % 2 = 0
      /\ \A u \in Vol : /\ Len(disk[u][segment]) <= b + 2 * Len(batch)
                        /\ \A i \in b + 1 .. Len(disk[u][segment]) : disk[u][segment][i] = Body(batch)[i - b]
      /\ Within
  BY <1>1 DEF Landing, Appending
<1>4. /\ \A u \in Vol, s \in Seg : disk[u][s] \in File /\ Len(disk[u][s]) \in Nat
      /\ segment \in Seg /\ segment \in Nat /\ \A s \in Seg : s \in Nat
  BY <1>0, DiskFiles
<1>5. \A u \in Vol, s \in Seg : u # v \/ s # segment => disk'[u][s] = disk[u][s]
  BY <1>0, <1>1, <1>3, GrownCells
<1>6. /\ disk'[v][segment] \in File /\ Len(disk'[v][segment]) = b + n
      /\ \A i \in 1 .. b : disk'[v][segment][i] = disk[v][segment][i]
      /\ \A i \in b + 1 .. b + n : disk'[v][segment][i] = Body(batch)[i - b]
  BY <1>0, <1>1, <1>3, GrownCells
<1>. HIDE DEF b
<1>7. ASSUME NEW u \in Vol PROVE AgreeOnPrefix(disk'[v][segment], disk'[u][segment]) /\ AgreeOnPrefix(disk'[u][segment], disk'[v][segment])
  <2>1. AgreeOnPrefix(disk[v][segment], disk[u][segment])
    BY <1>0, <1>4, <1>1 DEF OneHistory, Agreed
  <2>2. CASE u = v
    BY <2>2, <1>6, AgreeFacts
  <2>3. CASE u # v
    <3>1. disk'[u][segment] = disk[u][segment] /\ disk[u][segment] \in File
      BY <2>3, <1>4, <1>5
    <3>2. ASSUME NEW i \in Nat, i \in 1 .. b + n, i \in 1 .. Len(disk[u][segment])
          PROVE  disk'[v][segment][i] = disk[u][segment][i]
      <4>1. CASE i <= b
        <5>1. i \in 1 .. Len(disk[v][segment]) /\ disk'[v][segment][i] = disk[v][segment][i]
          BY <4>1, <3>2, <1>3, <1>6
        <5>2. disk[v][segment][i] = disk[u][segment][i]
          <6>1. TypeOK /\ Agreed /\ segment \in Seg /\ v \in Vol
            BY <1>0, <1>1, <1>4 DEF OneHistory
          <6>. QED
            BY <6>1, <5>1, <3>2, AgreedCells
        <5>. QED
          BY <5>1, <5>2
      <4>2. CASE ~(i <= b)
        <5>1. i \in b + 1 .. b + n /\ i \in b + 1 .. Len(disk[u][segment])
          BY <4>2, <3>2, <1>3, <1>4
        <5>2. disk[u][segment][i] = Body(batch)[i - b]
          BY <5>1, <1>3
        <5>3. disk'[v][segment][i] = Body(batch)[i - b]
          BY <5>1, <1>6
        <5>. QED
          BY <5>2, <5>3
      <4>. QED
        BY <4>1, <4>2
    <3>3. AgreeOnPrefix(disk'[v][segment], disk[u][segment])
      BY <3>1, <3>2, <1>6, AgreeFacts
    <3>4. AgreeOnPrefix(disk[u][segment], disk'[v][segment])
      BY <3>1, <3>2, <1>6, AgreeFacts
    <3>. QED
      BY <3>1, <3>3, <3>4
  <2>. QED
    BY <2>2, <2>3
<1>8. Agreed'
  <2>1. ASSUME NEW u \in Vol, NEW w \in Vol, NEW s \in Seg
        PROVE  AgreeOnPrefix(disk'[u][s], disk'[w][s])
    <3>1. CASE s = segment /\ (u = v \/ w = v)
      BY <3>1, <1>7
    <3>2. CASE ~(s = segment /\ (u = v \/ w = v))
      BY <3>2, <1>5, <1>0 DEF OneHistory, Agreed
    <3>. QED
      BY <3>1, <3>2
  <2>. QED
    BY <2>1 DEF Agreed
<1>9. EvenFiles'
  <2>1. (b + n) % 2 = 0
    <3>1. b \in Nat /\ n \in Nat /\ b % 2 = 0
      BY <1>2, <1>3
    <3>. QED
      BY <3>1, EvenShift
  <2>2. \A u \in Vol, s \in Seg : Len(disk'[u][s]) % 2 = 0
    BY <2>1, <1>5, <1>6, <1>0 DEF OneHistory, EvenFiles
  <2>. QED
    BY <2>2, <1>0 DEF OneHistory, EvenFiles
<1>10. \A u \in Vol, s \in Seg : s # segment => disk'[u][s] = disk[u][s]
  BY <1>5
<1>11. Sealed' /\ Reached'
  BY <1>0, <1>3, <1>10, EarlierKept
<1>13. AllMounted'
  BY <1>0 DEF OneHistory, AllMounted, fleetVars
<1>14. Within'
  BY <1>3 DEF Within
<1>15. Appending'
  <2>1. \A x, w \in open' : before'[x] = before'[w]
    BY <1>1 DEF Appending
  <2>2. ASSUME NEW x \in open', NEW u \in Vol
        PROVE  /\ Len(disk'[u][segment]) <= before[x] + 2 * Len(batch)
               /\ \A i \in before[x] + 1 .. Len(disk'[u][segment]) : disk'[u][segment][i] = Body(batch)[i - before[x]]
    <3>1. before[x] = b
      BY <1>1 DEF Appending, b
    <3>2. CASE u = v
      <4>1. Len(disk'[u][segment]) = b + n /\ n <= 2 * Len(batch) /\ b \in Nat /\ n \in Nat
        BY <3>2, <1>6, <1>2, <1>3, <1>1
      <4>2. \A i \in b + 1 .. b + n : disk'[u][segment][i] = Body(batch)[i - b]
        BY <3>2, <1>6
      <4>3. \A i \in b + 1 .. Len(disk'[u][segment]) : disk'[u][segment][i] = Body(batch)[i - b]
        BY <4>1, <4>2
      <4>4. Len(disk'[u][segment]) <= b + 2 * Len(batch)
        BY <4>1, <1>1
      <4>. QED
        BY <3>1, <4>3, <4>4
    <3>3. CASE u # v
      BY <3>1, <3>3, <1>5, <1>3, <1>4
    <3>. QED
      BY <3>2, <3>3
  <2>. QED
    <3>1. batch' = batch /\ before' = before /\ segment' = segment /\ fphase' = fphase /\ batch # <<>>
      BY <1>1 DEF Appending
    <3>2. \A x \in open', u \in Vol :
            /\ Len(disk'[u][segment']) <= before'[x] + 2 * Len(batch')
            /\ \A i \in before'[x] + 1 .. Len(disk'[u][segment']) :
                  disk'[u][segment'][i] = Body(batch')[i - before'[x]]
      <4>1. Body(batch') = Body(batch)
        BY <3>1
      <4>2. ASSUME NEW x \in open', NEW u \in Vol
            PROVE  /\ Len(disk'[u][segment']) <= before'[x] + 2 * Len(batch')
                   /\ \A i \in before'[x] + 1 .. Len(disk'[u][segment']) :
                         disk'[u][segment'][i] = Body(batch')[i - before'[x]]
        <5>1. before'[x] = before[x] /\ Len(batch') = Len(batch) /\ disk'[u][segment'] = disk'[u][segment]
          BY <3>1
        <5>2. ASSUME NEW i \in before[x] + 1 .. Len(disk'[u][segment])
              PROVE  disk'[u][segment][i] = Body(batch')[i - before[x]]
          <6>1. /\ i \in before[x] + 1 .. Len(disk'[u][segment])
                /\ \A k \in before[x] + 1 .. Len(disk'[u][segment]) : disk'[u][segment][k] = Body(batch)[k - before[x]]
            BY <2>2
          <6>. QED
            BY <6>1, <4>1
        <5>3. Len(disk'[u][segment]) <= before[x] + 2 * Len(batch)
          BY <2>2
        <5>. QED
          BY <5>1, <5>2, <5>3
      <4>. QED
        BY <4>2
    <3>3. batch' # <<>>
      BY <3>1
    <3>. QED
      BY <2>1, <3>2, <3>3, <1>14 DEF Appending
<1>16. OpenLongest' /\ Undoing'
  BY <1>14 DEF OpenLongest, Undoing
<1>17. OneSource'
  <2>1. ephase' = ephase /\ ephase' \notin {"scan", "lineage", "seed"}
        /\ from' = from /\ target' = target /\ adopted' = adopted
    BY <1>1
  <2>. QED
    BY <2>1, <1>0, SourceKept
<1>. QED
  BY <1>8, <1>9, <1>11, <1>13, <1>15, <1>16, <1>17 DEF Aligned, OneHistory, OneWriter

\* A step that leaves platters, writer and discovery alone keeps them aligned.
LEMMA AlignedKept ==
    ASSUME Aligned, AllMounted', Handles',
           disk' = disk, present' = present, segment' = segment,
           fphase' = fphase, batch' = batch, before' = before, open' = open,
           OneSource'
    PROVE  Aligned'
<1>1. OneHistory /\ OneWriter
  BY DEF Aligned
<1>2. OneHistory'
  BY <1>1 DEF OneHistory, EvenFiles, Agreed, Sealed, Reached, Longest
<1>3. OneWriter'
  BY <1>1 DEF OneWriter, OpenLongest, Appending, Undoing, Within, Longest
<1>. QED
  BY <1>2, <1>3 DEF Aligned

\* What the platters say does not depend on the writer.
LEMMA HistoryKept ==
    ASSUME OneHistory, AllMounted', disk' = disk, present' = present, segment' = segment,
           before' = before \/ \A v \in Vol : before'[v] % 2 = 0
    PROVE  OneHistory'
  BY DEF OneHistory, EvenFiles, Agreed, Sealed, Reached, Longest

\* append() touches neither.
LEMMA AlignedAppend ==
    ASSUME Aligned, AppendNext
    PROVE  Aligned'
<1>. PICK r \in Rec : AppendSkipped(r) \/ AppendQueue(r) \/ AppendWait(r) \/ AppendRefuse(r)
  BY DEF AppendNext
<1>1. UNCHANGED <<diskVars, fleetVars, mode, setVars, flushVars, ephase, seedVars>>
  BY DEF AppendSkipped, AppendQueue, AppendWait, AppendRefuse, electVars
<1>2. AllMounted /\ Handles /\ OneSource
  BY DEF Aligned, OneHistory, OneWriter
<1>3. AllMounted' /\ Handles'
  BY <1>1, <1>2 DEF AllMounted, Handles, fleetVars, setVars
<1>4. OneSource'
  BY <1>1, <1>2 DEF OneSource, Resting, Scanning, Sourced, Copying, Longest, diskVars, setVars, seedVars
<1>. QED
  BY <1>1, <1>3, <1>4, AlignedKept DEF diskVars, setVars, flushVars

\* A flush takes the queue: the open volumes end at one offset.
LEMMA AlignedStart ==
    ASSUME Ordered, Whole, Aligned, FlushStart
    PROVE  Aligned'
<1>0. TypeOK /\ OneHistory /\ OneWriter /\ OneSource /\ Quiet
  BY DEF Ordered, Aligned
<1>1. /\ fphase = "idle" /\ pending # <<>> /\ fphase' = "write" /\ batch' = pending
      /\ before' = [v \in Vol |-> Len(disk[v][segment])]
      /\ UNCHANGED <<diskVars, fleetVars, mode, setVars, electVars>>
  BY DEF FlushStart
<1>2. /\ disk' = disk /\ present' = present /\ segment' = segment /\ open' = open /\ replicas' = replicas
      /\ mode' = mode /\ status' = status /\ cleared' = cleared /\ ephase' = ephase
      /\ from' = from /\ target' = target /\ adopted' = adopted
  BY <1>1 DEF diskVars, fleetVars, setVars, electVars, seedVars
<1>3. /\ \A v \in Vol : before'[v] = Len(disk[v][segment]) /\ before'[v] \in Nat
      /\ open \subseteq Vol /\ segment \in Seg /\ pending \in Seq(Rec) /\ Len(pending) \in Nat
  BY <1>0, <1>1, DiskFiles, LenProperties DEF TypeOK
<1>4. AllMounted' /\ Handles'
  BY <1>0, <1>2 DEF OneHistory, OneWriter, AllMounted, Handles
<1>5. OneHistory'
  <2>1. \A v \in Vol : before'[v] % 2 = 0
    BY <1>0, <1>3 DEF OneHistory, EvenFiles
  <2>. QED
    BY <2>1, <1>0, <1>2, <1>4, HistoryKept
<1>6. \A v \in open : Within /\ \A u \in Vol : Len(disk[u][segment]) <= before'[v]
  BY <1>0, <1>1, <1>3 DEF OneWriter, OpenLongest, Longest
<1>7. Appending'
  <2>1. ASSUME NEW v \in open, NEW w \in open PROVE before'[v] = before'[w]
    <3>1. before'[v] <= before'[w] /\ before'[w] <= before'[v]
      BY <1>3, <1>6
    <3>. QED
      BY <3>1, <1>3
  <2>2. ASSUME NEW v \in open, NEW u \in Vol
        PROVE  /\ Within /\ Len(disk[u][segment]) <= before'[v] + 2 * Len(pending)
               /\ before'[v] + 1 .. Len(disk[u][segment]) = {}
    BY <1>3, <1>6, <1>0, DiskFiles
  <2>. QED
    BY <2>1, <2>2, <1>1, <1>2 DEF Appending, Within
<1>8. OpenLongest' /\ Undoing'
  <2>1. \A v \in Vol : ~(before'[v] < Len(disk[v][segment]))
    BY <1>3
  <2>. QED
    BY <2>1, <1>1, <1>2 DEF OpenLongest, Undoing
<1>9. OneSource'
  <2>1. ephase' \notin {"scan", "lineage", "seed"}
    BY <1>0, <1>1, <1>2 DEF Quiet
  <2>. QED
    BY <2>1, <1>0, <1>2, SourceKept
<1>. QED
  BY <1>4, <1>5, <1>7, <1>8, <1>9 DEF Aligned, OneWriter

\* A file of whole records has no torn tail.
LEMMA WholeTail ==
    ASSUME NEW f \in File, Lines(f), Len(f) % 2 = 0
    PROVE  RollBackTornTail(f) = f
<1>1. Len(f) \in Nat /\ f \in Seq(Byte)
  BY FileFacts DEF File
<1>2. PICK n \in 0 .. Len(f) :
              /\ RollBackTornTail(f) = SubSeq(f, 1, n) /\ n % 2 = 0
              /\ \A i \in n + 1 .. Len(f) : f[i][2] # "newline"
  BY TornTailFacts
<1>3. n = Len(f)
  <2>1. ASSUME n # Len(f) PROVE FALSE
    <3>1. Len(f) \in n + 1 .. Len(f) /\ Len(f) \in 1 .. Len(f) /\ Len(f) % 2 # 1
      BY <1>1, <1>2, <2>1
    <3>2. f[Len(f)][2] = "newline"
      BY <3>1 DEF Lines
    <3>. QED
      BY <1>2, <3>1, <3>2
  <2>. QED
    BY <2>1
<1>. QED
  BY <1>1, <1>2, <1>3, SubSeqFull

\* Between records, opening a segment only creates it.
LEMMA OpenedWhole ==
    ASSUME TypeOK, LinesEverywhere, EvenFiles, NEW vs, NEW bad, NEW s \in Seg, OpenSegments(vs, bad, s)
    PROVE  /\ disk' = disk
           /\ \A v \in Vol : present'[v] = IF v \in vs \ bad THEN present[v] \cup {s} ELSE present[v]
<1>1. /\ disk' = [v \in Vol |->
                  IF v \in vs \ bad
                  THEN [disk[v] EXCEPT ![s] = RollBackTornTail(@)] ELSE disk[v]]
      /\ present' = [v \in Vol |->
                  IF v \in vs \ bad THEN present[v] \cup {s} ELSE present[v]]
  BY DEF OpenSegments
<1>2. disk \in [Vol -> [Seg -> File]]
  BY DEF TypeOK
<1>3. ASSUME NEW v \in Vol PROVE [disk[v] EXCEPT ![s] = RollBackTornTail(@)] = disk[v]
  <2>1. disk[v][s] \in File /\ Lines(disk[v][s]) /\ Len(disk[v][s]) % 2 = 0
    BY <1>2 DEF LinesEverywhere, EvenFiles
  <2>2. RollBackTornTail(disk[v][s]) = disk[v][s]
    BY <2>1, WholeTail
  <2>. QED
    BY <1>2, <2>2
<1>4. disk' = disk
  <2>1. disk' = [v \in Vol |-> disk[v]]
    BY <1>1, <1>3
  <2>. QED
    BY <2>1, <1>2
<1>. QED
  BY <1>1, <1>4

\* One replica's write.
LEMMA AlignedWrite ==
    ASSUME Ordered, Whole, Aligned, NEW v \in Vol, FlushWrite(v)
    PROVE  Aligned'
<1>0. TypeOK /\ OneWriter
  BY DEF Ordered, Aligned
<1>1. /\ fphase = "write" /\ v \in left /\ fphase' = fphase /\ open' = open
      /\ disk' = [disk EXCEPT ![v][segment] = @ \o Body(batch)]
      /\ UNCHANGED <<present, fleetVars, mode, replicas, segment, batch, before, ephase, from, target, adopted>>
  BY DEF FlushWrite, setVars, electVars, seedVars
<1>2. batch \in Seq(Rec) /\ Len(batch) \in Nat /\ Body(batch) \in Seq(Byte) /\ Len(Body(batch)) = 2 * Len(batch)
  BY <1>0, LenProperties, BodyFacts DEF TypeOK, File
<1>3. SubSeq(Body(batch), 1, 2 * Len(batch)) = Body(batch)
  BY <1>2, SubSeqFull
<1>4. 2 * Len(batch) \in 0 .. 2 * Len(batch) /\ (2 * Len(batch)) % 2 = 0
  BY <1>2
<1>5. Handles'
  BY <1>0, <1>1 DEF OneWriter, Handles
<1>6. disk' = [disk EXCEPT ![v][segment] = @ \o SubSeq(Body(batch), 1, 2 * Len(batch))]
  BY <1>1, <1>3
<1>. QED
  BY <1>1, <1>4, <1>5, <1>6, AlignedGrown

\* One replica's failure, between records.
LEMMA AlignedFail ==
    ASSUME Ordered, Whole, Aligned, SteadyDisks, NEW v \in left, NEW n \in 0 .. 2 * Len(batch), FlushFail(v, n)
    PROVE  Aligned'
<1>0. TypeOK /\ OneWriter
  BY DEF Ordered, Aligned
<1>1. /\ fphase = "write" /\ fphase' = fphase /\ open' \subseteq open /\ n % 2 = 0
      /\ replicas' = replicas \ {v} /\ open' = open \ {v}
      /\ disk' = [disk EXCEPT ![v][segment] = @ \o SubSeq(Body(batch), 1, n)]
      /\ UNCHANGED <<present, fleetVars, mode, segment, batch, before, ephase, from, target, adopted>>
  BY DEF FlushFail, SteadyDisks, seedVars
<1>2. Handles'
  BY <1>0, <1>1 DEF OneWriter, Handles
<1>. QED
  BY <1>1, <1>2, AlignedGrown

\* After the last write every open volume ends behind the batch, and nobody further.
LEMMA BatchLanded ==
    ASSUME Ordered, Whole, OneWriter, fphase = "write", left = {}
    PROVE  \A v \in open : v \in Vol /\ Within /\ Longest(v, segment)
<1>0. TypeOK /\ Flushing /\ Landing /\ Appending
  BY DEF Ordered, Whole, OneWriter
<1>1. open = durable /\ open \subseteq Vol /\ batch \in Seq(Rec) /\ Len(batch) \in Nat /\ before \in [Vol -> Nat]
  BY <1>0, LenProperties DEF Flushing, TypeOK
<1>2. ASSUME NEW v \in open PROVE v \in Vol /\ Within /\ Longest(v, segment)
  <2>1. Len(disk[v][segment]) = before[v] + 2 * Len(batch)
    BY <1>0, <1>1 DEF Landing
  <2>2. v \in Vol
    BY <1>1
  <2>3. Within /\ \A u \in Vol : Len(disk[u][segment]) <= before[v] + 2 * Len(batch)
    BY <1>0, <2>2 DEF Appending
  <2>. QED
    BY <2>1, <2>2, <2>3 DEF Longest
<1>. QED
  BY <1>2

\* The batch is acknowledged.
LEMMA AlignedAck ==
    ASSUME Ordered, Whole, Aligned, FlushAck
    PROVE  Aligned'
<1>0. TypeOK /\ OneHistory /\ OneWriter /\ OneSource /\ Quiet
  BY DEF Ordered, Aligned
<1>1. /\ fphase = "write" /\ left = {} /\ fphase' = "idle"
      /\ before' = [v \in Vol |-> 0]
      /\ UNCHANGED <<diskVars, fleetVars, mode, setVars, ephase, seedVars>>
  BY DEF FlushAck, FlushEnd
<1>2. /\ disk' = disk /\ present' = present /\ segment' = segment /\ open' = open /\ replicas' = replicas
      /\ mode' = mode /\ status' = status /\ cleared' = cleared /\ ephase' = ephase
      /\ from' = from /\ target' = target /\ adopted' = adopted
  BY <1>1 DEF diskVars, fleetVars, setVars, seedVars
<1>3. AllMounted' /\ Handles'
  BY <1>0, <1>2 DEF OneHistory, OneWriter, AllMounted, Handles
<1>4. OneHistory'
  <2>1. \A v \in Vol : before'[v] % 2 = 0
    BY <1>1
  <2>. QED
    BY <2>1, <1>0, <1>2, <1>3, HistoryKept
<1>5. OpenLongest' /\ Undoing' /\ Appending'
  BY <1>0, <1>1, <1>2, BatchLanded DEF OpenLongest, Undoing, Appending, Within, Longest
<1>6. OneSource'
  <2>1. ephase' \notin {"scan", "lineage", "seed"}
    BY <1>0, <1>1, <1>2 DEF Quiet
  <2>. QED
    BY <2>1, <1>0, <1>2, SourceKept
<1>. QED
  BY <1>3, <1>4, <1>5, <1>6 DEF Aligned, OneWriter

\* ... and the next segment opened on the replicas that have it.
LEMMA AlignedRotate ==
    ASSUME Ordered, Whole, Aligned, NEW bad \in SUBSET replicas, FlushAckRotate(bad)
    PROVE  Aligned'
<1>0. TypeOK /\ OneHistory /\ OneWriter /\ OneSource /\ Quiet /\ AbsentIsEmpty /\ OpenExists /\ LinesEverywhere
  BY DEF Ordered, Aligned, Whole
<1>1. /\ fphase = "write" /\ left = {} /\ fphase' = "idle" /\ segment' = segment + 1
      /\ before' = [v \in Vol |-> 0] /\ segment < MaxSegment /\ Full
      /\ UNCHANGED <<fleetVars, mode, ephase, seedVars>>
  BY DEF FlushAckRotate, FlushEnd
<1>2. /\ mode' = mode /\ status' = status /\ cleared' = cleared /\ ephase' = ephase
      /\ from' = from /\ target' = target /\ adopted' = adopted
  BY <1>1 DEF fleetVars, seedVars
<1>3. /\ \A u \in Vol, s \in Seg : Len(disk[u][s]) \in Nat /\ (Len(disk[u][s]) = 0 <=> disk[u][s] = <<>>)
      /\ segment \in Seg /\ segment \in Nat /\ \A s \in Seg : s \in Nat
  BY <1>0, DiskFiles
<1>4. segment + 1 \in Seg
  BY <1>1, <1>3, JournalAssumption DEF Seg
<1>5. /\ disk' = disk
      /\ mode # "stopping" => replicas' = open' /\ open' \subseteq open
      /\ mode = "stopping" => open' = {}
      /\ open' \subseteq Vol
      /\ \A u \in Vol : \/ present'[u] = present[u] /\ u \notin open'
                        \/ present'[u] = present[u] \cup {segment + 1} /\ u \in open'
  <2>1. CASE mode = "stopping"
    BY <2>1 DEF FlushAckRotate, diskVars
  <2>2. CASE mode # "stopping"
    <3>1. OpenSegments(replicas, bad, segment + 1) /\ replicas' = replicas \ bad /\ open' = replicas \ bad
      BY <2>2 DEF FlushAckRotate
    <3>2. replicas = open /\ replicas \subseteq Vol
      BY <2>2, <1>0 DEF OneWriter, Handles, TypeOK
    <3>3. EvenFiles
      BY <1>0 DEF OneHistory
    <3>4. /\ disk' = disk
          /\ \A v \in Vol : present'[v] = IF v \in replicas \ bad THEN present[v] \cup {segment + 1} ELSE present[v]
      BY <3>1, <3>3, <1>0, <1>4, OpenedWhole
    <3>. QED
      BY <2>2, <3>1, <3>2, <3>4
  <2>. QED
    BY <2>1, <2>2
<1>6. /\ open # {} /\ Within
      /\ \A v \in open : v \in Vol /\ Longest(v, segment) /\ segment \in present[v] /\ disk[v][segment] # <<>>
  <2>1. /\ \A v \in open : v \in Vol /\ Within /\ Longest(v, segment)
        /\ open # {}
    BY <1>0, <1>1, BatchLanded DEF Full
  <2>2. PICK w \in open : Len(disk[w][segment]) >= SegmentBytes
    BY <1>1 DEF Full
  <2>3. SegmentBytes \in Nat /\ SegmentBytes > 0
    BY JournalAssumption
  <2>4. ASSUME NEW v \in open PROVE disk[v][segment] # <<>> /\ segment \in present[v]
    <3>1. Len(disk[w][segment]) <= Len(disk[v][segment]) /\ v \in Vol /\ w \in Vol
      BY <2>1 DEF Longest
    <3>2. Len(disk[v][segment]) # 0
      BY <3>1, <2>2, <2>3, <1>3
    <3>. QED
      BY <3>1, <3>2, <1>3, <1>0 DEF OpenExists
  <2>. QED
    BY <2>1, <2>4
<1>7. AllMounted' /\ Handles'
  BY <1>0, <1>2, <1>5 DEF OneHistory, OneWriter, AllMounted, Handles
<1>8. EvenFiles' /\ Agreed'
  <2>1. \A v \in Vol : before'[v] % 2 = 0
    BY <1>1
  <2>2. EvenFiles'
    BY <2>1, <1>0, <1>5 DEF OneHistory, EvenFiles
  <2>. QED
    BY <2>2, <1>0, <1>5 DEF OneHistory, Agreed
<1>9. Sealed'
  <2>1. ASSUME NEW v \in Vol, NEW t \in present'[v], NEW s \in 0 .. t - 1
        PROVE  s \in present'[v] /\ disk[v][s] # <<>> /\ Longest(v, s)
    <3>1. CASE t \in present[v]
      BY <3>1, <1>0, <1>5 DEF OneHistory, Sealed
    <3>2. CASE t \notin present[v]
      <4>1. v \in open' /\ t = segment + 1 /\ v \in open
        BY <3>2, <1>5
      <4>2. CASE s = segment
        BY <4>1, <4>2, <1>5, <1>6
      <4>3. CASE s # segment
        <5>1. s \in 0 .. segment - 1 /\ segment \in present[v]
          BY <4>1, <4>3, <1>3, <1>6
        <5>. QED
          BY <5>1, <1>0, <1>5 DEF OneHistory, Sealed
      <4>. QED
        BY <4>2, <4>3
    <3>. QED
      BY <3>1, <3>2
  <2>. QED
    BY <2>1, <1>5 DEF Sealed, Longest
<1>10. Reached'
  <2>1. PICK u \in open : u \in Vol /\ Longest(u, segment) /\ segment \in present[u] /\ disk[u][segment] # <<>>
    BY <1>6
  <2>2. segment' - 1 = segment
    BY <1>1, <1>3
  <2>3. segment \in present'[u]
    BY <2>1, <1>5
  <2>. QED
    BY <2>1, <2>2, <2>3, <1>5 DEF Reached, Longest
<1>11. OpenLongest' /\ Undoing' /\ Appending'
  <2>1. \A u \in Vol : present[u] \subseteq 0 .. segment
    BY <1>6 DEF Within
  <2>2. Within'
    <3>1. \A u \in Vol : present'[u] \subseteq 0 .. segment + 1
      BY <2>1, <1>5, <1>3
    <3>. QED
      BY <3>1, <1>1 DEF Within
  <2>3. \A u \in Vol : Len(disk[u][segment + 1]) = 0
    <3>1. \A u \in Vol : segment + 1 \notin present[u]
      BY <2>1, <1>3
    <3>. QED
      BY <3>1, <1>0, <1>3, <1>4 DEF AbsentIsEmpty
  <2>4. \A v, u \in Vol : Len(disk'[u][segment']) <= Len(disk'[v][segment'])
    BY <2>3, <1>1, <1>5
  <2>5. OpenLongest'
    BY <2>2, <2>4, <1>1, <1>5 DEF OpenLongest, Longest
  <2>. QED
    BY <2>5, <1>1 DEF Undoing, Appending
<1>12. OneSource'
  <2>1. ephase' \notin {"scan", "lineage", "seed"}
    BY <1>0, <1>1, <1>2 DEF Quiet
  <2>. QED
    BY <2>1, <1>0, <1>2, SourceKept
<1>. QED
  BY <1>7, <1>8, <1>9, <1>10, <1>11, <1>12 DEF Aligned, OneHistory, OneWriter

\* A rollback takes bytes back from the end of the history.
LEMMA AlignedRollback ==
    ASSUME Ordered, Whole, Aligned, NEW v \in Vol, Rollback(v)
    PROVE  Aligned'
<1>0. TypeOK /\ OneHistory /\ OneWriter /\ OneSource /\ Quiet /\ Flushing
  BY DEF Ordered, Aligned
<1>1. /\ fphase = "rollback" /\ fphase' = fphase
      /\ disk' = disk \/ disk' = [disk EXCEPT ![v][segment] = TruncateTo(@, before[v])]
      /\ present' = present /\ status' = status /\ cleared' = cleared /\ mode' = mode
      /\ replicas' = replicas /\ open' = open /\ segment' = segment /\ batch' = batch /\ before' = before
      /\ ephase' = ephase /\ from' = from /\ target' = target /\ adopted' = adopted
  BY DEF Rollback, fleetVars, setVars, electVars, seedVars
<1>2. AllMounted' /\ Handles' /\ open = {}
  BY <1>0, <1>1 DEF OneHistory, OneWriter, AllMounted, Handles, Flushing
<1>3. OneSource'
  <2>1. ephase' \notin {"scan", "lineage", "seed"}
    BY <1>0, <1>1 DEF Quiet
  <2>. QED
    BY <2>1, <1>0, <1>1, SourceKept
<1>4. CASE disk' = disk
  <2>1. OneHistory'
    BY <1>0, <1>1, <1>2, <1>4, HistoryKept
  <2>2. OpenLongest' /\ Appending' /\ Undoing'
    BY <1>0, <1>1, <1>4 DEF OneWriter, OpenLongest, Appending, Undoing, Within
  <2>. QED
    BY <2>1, <2>2, <1>2, <1>3 DEF Aligned, OneWriter
<1>5. CASE disk' # disk
  <2>1. /\ \A u \in Vol, s \in Seg : disk[u][s] \in File /\ Len(disk[u][s]) \in Nat
        /\ segment \in Seg /\ segment \in Nat /\ \A s \in Seg : s \in Nat
        /\ before[v] \in Nat
    BY <1>0, DiskFiles DEF TypeOK
  <2>2. /\ disk'[v][segment] = TruncateTo(disk[v][segment], before[v])
        /\ \A u \in Vol, s \in Seg : u # v \/ s # segment => disk'[u][s] = disk[u][s]
    BY <1>1, <1>5, <1>0 DEF TypeOK
  <2>3. before[v] < Len(disk[v][segment])
    <3>1. ASSUME ~(before[v] < Len(disk[v][segment])) PROVE FALSE
      <4>1. TruncateTo(disk[v][segment], before[v]) = disk[v][segment]
        BY <3>1, <2>1 DEF TruncateTo
      <4>2. disk' = disk
        BY <4>1, <1>1, <1>0 DEF TypeOK
      <4>. QED
        BY <4>2, <1>5
    <3>. QED
      BY <3>1
  <2>4. /\ disk'[v][segment] \in File /\ Len(disk'[v][segment]) = before[v]
        /\ \A i \in 1 .. before[v] : disk'[v][segment][i] = disk[v][segment][i]
    <3>1. TruncateTo(disk[v][segment], before[v]) = SubSeq(disk[v][segment], 1, before[v])
      BY <2>1, <2>3 DEF TruncateTo
    <3>2. before[v] \in 0 .. Len(disk[v][segment])
      BY <2>1, <2>3
    <3>. QED
      BY <3>1, <3>2, <2>1, <2>2, PrefixFacts
  <2>5. Within
    BY <2>3, <1>0, <1>1 DEF OneWriter, Undoing
  <2>6. ASSUME NEW u \in Vol, NEW i \in Nat, i \in 1 .. Len(disk'[v][segment]), i \in 1 .. Len(disk'[u][segment])
        PROVE  disk'[v][segment][i] = disk'[u][segment][i]
    <3>1. CASE u = v
      BY <3>1
    <3>2. CASE u # v
      <4>1. disk'[u][segment] = disk[u][segment]
        BY <3>2, <2>1, <2>2
      <4>2. i \in 1 .. Len(disk[v][segment]) /\ i \in 1 .. Len(disk[u][segment]) /\ i \in 1 .. before[v]
        BY <4>1, <2>1, <2>3, <2>4, <2>6
      <4>3. disk[v][segment][i] = disk[u][segment][i]
        BY <4>2, <2>1, <1>0, AgreedCells DEF OneHistory
      <4>. QED
        BY <4>1, <4>2, <4>3, <2>4
    <3>. QED
      BY <3>1, <3>2
  <2>7. Agreed'
    <3>1. ASSUME NEW u \in Vol, NEW w \in Vol, NEW s \in Seg
          PROVE  AgreeOnPrefix(disk'[u][s], disk'[w][s])
      <4>1. disk'[u][s] \in File /\ disk'[w][s] \in File
        BY <2>1, <2>2, <2>4
      <4>2. CASE s = segment /\ u = v
        BY <4>1, <4>2, <2>6, AgreeFacts
      <4>3. CASE s = segment /\ w = v
        <5>1. \A i \in Nat : i \in 1 .. Len(disk'[u][s]) /\ i \in 1 .. Len(disk'[w][s]) => disk'[u][s][i] = disk'[w][s][i]
          BY <4>3, <2>6
        <5>. QED
          BY <4>1, <5>1, AgreeFacts
      <4>4. CASE ~(s = segment /\ (u = v \/ w = v))
        BY <4>4, <2>2, <1>0 DEF OneHistory, Agreed
      <4>. QED
        BY <4>2, <4>3, <4>4
    <3>. QED
      BY <3>1 DEF Agreed
  <2>8. EvenFiles'
    <3>1. before[v] % 2 = 0
      BY <1>0 DEF OneHistory, EvenFiles
    <3>2. \A u \in Vol, s \in Seg : Len(disk'[u][s]) % 2 = 0
      BY <3>1, <2>2, <2>4, <1>0 DEF OneHistory, EvenFiles
    <3>. QED
      BY <3>2, <1>0, <1>1 DEF OneHistory, EvenFiles
  <2>9. \A u \in Vol, s \in Seg : s # segment => disk'[u][s] = disk[u][s]
    BY <2>2
  <2>10. Sealed' /\ Reached'
    BY <2>5, <2>9, <1>0, <1>1, EarlierKept
  <2>12. OpenLongest' /\ Appending' /\ Undoing'
    BY <2>5, <1>1 DEF OpenLongest, Appending, Undoing, Within
  <2>. QED
    BY <2>7, <2>8, <2>10, <2>12, <1>2, <1>3 DEF Aligned, OneHistory, OneWriter
<1>. QED
  BY <1>4, <1>5

\* The rejection begins when nobody has the batch, and ends when it is settled.
LEMMA AlignedReject ==
    ASSUME Ordered, Whole, Aligned, FlushReject \/ FlushRejected \/ \E v \in Vol : RollbackStuck(v)
    PROVE  Aligned'
<1>0. TypeOK /\ OneHistory /\ OneWriter /\ OneSource /\ Quiet /\ Flushing
  BY DEF Ordered, Aligned
<1>1. /\ disk' = disk /\ present' = present /\ status' = status /\ cleared' = cleared /\ mode' = mode
      /\ replicas' = replicas /\ open' = open /\ segment' = segment
      /\ ephase' = ephase /\ from' = from /\ target' = target /\ adopted' = adopted
      /\ fphase # "idle" /\ open = {}
  BY <1>0 DEF FlushReject, FlushRejected, RollbackStuck, diskVars, fleetVars, setVars, electVars, seedVars, Flushing
<1>2. \/ before' = before /\ fphase' = "rollback"
      \/ before' = [v \in Vol |-> 0] /\ fphase' = "idle"
  BY DEF FlushReject, FlushRejected, RollbackStuck, FlushEnd
<1>3. AllMounted' /\ Handles'
  BY <1>0, <1>1 DEF OneHistory, OneWriter, AllMounted, Handles
<1>4. OneHistory'
  <2>1. before' = before \/ \A v \in Vol : before'[v] % 2 = 0
    BY <1>2
  <2>. QED
    BY <2>1, <1>0, <1>1, <1>3, HistoryKept
<1>5. OpenLongest' /\ Appending' /\ Undoing'
  BY <1>0, <1>1, <1>2 DEF OneWriter, OpenLongest, Appending, Undoing, Within
<1>6. OneSource'
  <2>1. ephase' \notin {"scan", "lineage", "seed"}
    BY <1>0, <1>1 DEF Quiet
  <2>. QED
    BY <2>1, <1>0, <1>1, SourceKept
<1>. QED
  BY <1>3, <1>4, <1>5, <1>6 DEF Aligned, OneWriter

\* Every step of a flush keeps the platters aligned.
LEMMA AlignedFlush ==
    ASSUME Ordered, Whole, Aligned, SteadyDisks, FlushNext
    PROVE  Aligned'
  BY AlignedStart, AlignedWrite, AlignedFail, AlignedAck, AlignedRotate, AlignedRollback, AlignedReject
     DEF FlushNext

\* A copy replaces a shorter file, and gets to a segment when it is through with those before.
LEMMA CopyShape ==
    ASSUME TypeOK, AbsentIsEmpty, Seeding, NEW w \in from,
           SeedCopy(w) \/ \E s \in Seg : \E n \in 0 .. Len(disk[w][s]) : SeedCopyFail(w, s, n)
    PROVE  /\ \A t \in Seg :
                 \/ disk'[target][t] = disk[target][t]
                 \/ /\ Len(disk[target][t]) < Len(disk[w][t])
                    /\ \E m \in 0 .. Len(disk[w][t]) :
                          /\ disk'[target][t] = SubSeq(disk[w][t], 1, m)
                          /\ SteadyDisks => m % 2 = 0 \/ m = Len(disk[w][t])
           /\ \A t \in present'[target] :
                 \/ t \in present[target]
                 \/ t \in present[w] /\ \A s \in 0 .. t - 1 : disk'[target][s] = Copied(w, target)[s]
           /\ SeedCopy(w) => \A t \in Seg : disk'[target][t] = Copied(w, target)[t]
<1>1. /\ target \in Vol /\ w \in Vol /\ w # target
      /\ disk' \in [Vol -> [Seg -> File]] /\ present' \in [Vol -> SUBSET Seg]
  BY CopyCells
<1>2. disk \in [Vol -> [Seg -> File]] /\ present \in [Vol -> SUBSET Seg]
  BY DEF TypeOK
<1>3. ASSUME NEW t \in Seg
      PROVE  /\ t \in Nat /\ disk[w][t] \in Seq(Byte)
             /\ Len(disk[w][t]) \in Nat /\ Len(disk[target][t]) \in Nat
             /\ SubSeq(disk[w][t], 1, Len(disk[w][t])) = disk[w][t]
             /\ Len(disk[w][t]) \in 0 .. Len(disk[w][t])
             /\ Copied(w, target)[t] = IF Len(disk[target][t]) < Len(disk[w][t]) THEN disk[w][t] ELSE disk[target][t]
  <2>0. disk[w][t] \in File /\ disk[target][t] \in File
    BY <1>1, <1>2
  <2>1. disk[w][t] \in Seq(Byte) /\ disk[w][t] \in File /\ disk[target][t] \in File /\ t \in Nat
    BY <2>0 DEF File, Seg
  <2>2. Len(disk[w][t]) \in Nat /\ Len(disk[target][t]) \in Nat
    BY <2>1, FileFacts
  <2>3. SubSeq(disk[w][t], 1, Len(disk[w][t])) = disk[w][t]
    BY <2>1, SubSeqFull
  <2>. QED
    BY <2>1, <2>2, <2>3 DEF Copied
<1>4. CASE SeedCopy(w)
  <2>1. /\ disk' = [disk EXCEPT ![target] = Copied(w, target)]
        /\ present' = [present EXCEPT ![target] = present[target] \cup present[w]]
    BY <1>4 DEF SeedCopy
  <2>2. disk'[target] = Copied(w, target) /\ present'[target] = present[target] \cup present[w]
    BY <2>1, <1>1, <1>2
  <2>3. ASSUME NEW t \in Seg
        PROVE  \/ disk'[target][t] = disk[target][t]
               \/ /\ Len(disk[target][t]) < Len(disk[w][t])
                  /\ disk'[target][t] = SubSeq(disk[w][t], 1, Len(disk[w][t]))
    BY <2>2, <1>3
  <2>. QED
    BY <2>2, <2>3, <1>3
<1>5. ASSUME NEW s \in Seg, NEW n \in 0 .. Len(disk[w][s]), SeedCopyFail(w, s, n)
      PROVE  /\ \A t \in Seg :
                   \/ disk'[target][t] = disk[target][t]
                   \/ /\ Len(disk[target][t]) < Len(disk[w][t])
                      /\ \E m \in 0 .. Len(disk[w][t]) :
                            /\ disk'[target][t] = SubSeq(disk[w][t], 1, m)
                            /\ SteadyDisks => m % 2 = 0 \/ m = Len(disk[w][t])
             /\ \A t \in present'[target] :
                   \/ t \in present[target]
                   \/ t \in present[w] /\ \A x \in 0 .. t - 1 : disk'[target][x] = Copied(w, target)[x]
             /\ ~SeedCopy(w) \/ disk' = disk
  <2>. DEFINE v == target
              reach == Mounted(w) /\ Mounted(v) /\ present[w] # {}
              same(t) == AgreeOnPrefix(disk[w][t], disk[v][t])
              cut == s \in present[w] /\ same(s) /\ Len(disk[v][s]) < Len(disk[w][s])
              file(t) == CASE t < s -> Copied(w, v)[t]
                           [] t = s /\ cut -> SubSeq(disk[w][s], 1, n)
                           [] OTHER -> disk[v][t]
              new == {t \in present[w] : t < s \/ (t = s /\ cut)}
  <2>1. /\ disk' = IF ~reach THEN disk ELSE [disk EXCEPT ![v] = [t \in Seg |-> file(t)]]
        /\ present' = IF ~reach THEN present ELSE [present EXCEPT ![v] = @ \cup new]
        /\ SteadyDisks => n % 2 = 0
        /\ target' = None /\ target # None
    BY <1>5 DEF SeedCopyFail, SteadyDisks
  <2>2. ~SeedCopy(w)
    BY <2>1 DEF SeedCopy
  <2>3. CASE ~reach
    BY <2>1, <2>2, <2>3
  <2>4. CASE reach
    <3>1. /\ \A t \in Seg : disk'[v][t] = file(t)
          /\ present'[v] = present[v] \cup new
      BY <2>1, <2>4, <1>1, <1>2
    <3>2. /\ \A t \in Seg : t < s => file(t) = Copied(w, v)[t]
          /\ cut => file(s) = SubSeq(disk[w][s], 1, n) /\ Len(disk[v][s]) < Len(disk[w][s])
          /\ \A t \in Seg : ~(t < s) /\ ~(t = s /\ cut) => file(t) = disk[v][t]
      BY <1>3
    <3>3. \A t \in new : t \in present[w] /\ t <= s
      BY <1>3, <1>2, <1>1
    <3>. HIDE DEF file, new, cut
    <3>4. ASSUME NEW t \in Seg
          PROVE  \/ disk'[v][t] = disk[v][t]
                 \/ /\ Len(disk[v][t]) < Len(disk[w][t])
                    /\ \E m \in 0 .. Len(disk[w][t]) :
                          /\ disk'[v][t] = SubSeq(disk[w][t], 1, m)
                          /\ SteadyDisks => m % 2 = 0 \/ m = Len(disk[w][t])
      <4>1. CASE t < s
        BY <4>1, <3>1, <3>2, <1>3
      <4>2. CASE t = s /\ cut
        BY <4>2, <3>1, <3>2, <2>1
      <4>3. CASE ~(t < s) /\ ~(t = s /\ cut)
        BY <4>3, <3>1, <3>2
      <4>. QED
        BY <4>1, <4>2, <4>3
    <3>5. ASSUME NEW t \in present'[v], t \notin present[v]
          PROVE  t \in present[w] /\ \A x \in 0 .. t - 1 : disk'[v][x] = Copied(w, v)[x]
      <4>1. t \in present[w] /\ t <= s /\ t \in Seg
        BY <3>1, <3>3, <3>5, <1>1, <1>2
      <4>2. \A x \in 0 .. t - 1 : x \in Seg /\ x < s
        BY <4>1, JournalAssumption DEF Seg
      <4>. QED
        BY <4>1, <4>2, <3>1, <3>2
    <3>. QED
      BY <3>4, <3>5, <2>2
  <2>. QED
    BY <2>3, <2>4
<1>6. CASE ~SeedCopy(w)
  BY <1>5, <1>6
<1>. QED
  BY <1>4, <1>6

\* A copy, whole or cut short, adds nothing to the history and takes nothing from it.
LEMMA AlignedCopied ==
    ASSUME Ordered, Aligned, SteadyDisks, ephase = "seed", segment' = segment, before' = before,
           AllMounted', NEW w \in from, w \in sources,
           SeedCopy(w) \/ \E s \in Seg : \E n \in 0 .. Len(disk[w][s]) : SeedCopyFail(w, s, n)
    PROVE  /\ OneHistory'
           /\ \A v \in Vol, s \in Seg : Longest(v, s) => Longest(v, s)'
           /\ Within => Within'
           /\ \A u \in Vol :
                 /\ \A t \in present'[u] : t = 0 \/ \E x \in sources : t \in present'[x]
                 /\ \A s \in Seg : disk'[u][s] # <<>> => \E x \in sources : Len(disk'[u][s]) <= Len(disk'[x][s])
           /\ SeedCopy(w) => \A s \in Seg : /\ Len(disk[target][s]) <= Len(disk'[target][s])
                                             /\ Len(disk[w][s]) <= Len(disk'[target][s])
<1>0. TypeOK /\ AbsentIsEmpty /\ Seeding /\ OneHistory /\ Sourced /\ sources \subseteq Vol
  BY DEF Ordered, Aligned, OneSource, TypeOK
<1>1. /\ target \in Vol /\ w \in Vol /\ w # target
      /\ disk' \in [Vol -> [Seg -> File]] /\ present' \in [Vol -> SUBSET Seg]
      /\ \A u \in Vol : u # target => disk'[u] = disk[u] /\ present'[u] = present[u]
      /\ present[target] \subseteq present'[target] /\ AbsentIsEmpty'
  BY <1>0, CopyCells
<1>2. /\ \A t \in Seg :
           \/ disk'[target][t] = disk[target][t]
           \/ /\ Len(disk[target][t]) < Len(disk[w][t])
              /\ \E m \in 0 .. Len(disk[w][t]) :
                    disk'[target][t] = SubSeq(disk[w][t], 1, m) /\ (m % 2 = 0 \/ m = Len(disk[w][t]))
      /\ \A t \in present'[target] :
           \/ t \in present[target]
           \/ t \in present[w] /\ \A s \in 0 .. t - 1 : disk'[target][s] = Copied(w, target)[s]
      /\ SeedCopy(w) => \A t \in Seg : disk'[target][t] = Copied(w, target)[t]
  BY <1>0, CopyShape
<1>3. /\ \A u \in Vol, s \in Seg : /\ disk[u][s] \in File /\ Len(disk[u][s]) \in Nat
                                   /\ Len(disk[u][s]) = 0 <=> disk[u][s] = <<>>
      /\ segment \in Seg /\ segment \in Nat /\ \A s \in Seg : s \in Nat
  BY <1>0, DiskFiles
<1>4. \A u \in Vol, s \in Seg : disk'[u][s] \in File /\ Len(disk'[u][s]) \in Nat
                                /\ (Len(disk'[u][s]) = 0 <=> disk'[u][s] = <<>>)
  <2>1. \A u \in Vol, s \in Seg : disk'[u][s] \in File
    BY <1>1
  <2>2. \A f \in File : f \in Seq(Byte) /\ Len(f) \in Nat /\ (Len(f) = 0 <=> f = <<>>)
    BY FileFacts, EmptySeq DEF File
  <2>. QED
    BY <2>1, <2>2
<1>5. ASSUME NEW t \in Seg, disk'[target][t] # disk[target][t]
      PROVE  /\ Len(disk[target][t]) < Len(disk[w][t]) /\ Len(disk'[target][t]) <= Len(disk[w][t])
             /\ Len(disk'[target][t]) % 2 = 0
             /\ \A i \in 1 .. Len(disk'[target][t]) : disk'[target][t][i] = disk[w][t][i]
  <2>1. PICK m \in 0 .. Len(disk[w][t]) :
           disk'[target][t] = SubSeq(disk[w][t], 1, m) /\ (m % 2 = 0 \/ m = Len(disk[w][t]))
    BY <1>2, <1>5
  <2>2. Len(disk'[target][t]) = m /\ \A i \in 1 .. m : disk'[target][t][i] = disk[w][t][i]
    BY <2>1, <1>1, <1>3, PrefixFacts
  <2>3. m % 2 = 0
    <3>1. Len(disk[w][t]) % 2 = 0
      BY <1>0, <1>1 DEF OneHistory, EvenFiles
    <3>. QED
      BY <3>1, <2>1
  <2>. QED
    BY <2>1, <2>2, <2>3, <1>2, <1>3, <1>1, <1>5
<1>6. ASSUME NEW u \in Vol, NEW s \in Seg
      PROVE  Len(disk'[u][s]) <= Len(disk[u][s]) \/ Len(disk'[u][s]) <= Len(disk[w][s])
  <2>1. CASE disk'[u][s] = disk[u][s]
    BY <2>1, <1>3
  <2>2. CASE disk'[u][s] # disk[u][s]
    BY <2>2, <1>1, <1>5
  <2>. QED
    BY <2>1, <2>2
<1>7. ASSUME NEW v \in Vol, NEW s \in Seg, Longest(v, s)
      PROVE  disk'[v][s] = disk[v][s] /\ \A u \in Vol : Len(disk'[u][s]) <= Len(disk'[v][s])
  <2>1. Len(disk[w][s]) <= Len(disk[v][s]) /\ \A u \in Vol : Len(disk[u][s]) <= Len(disk[v][s])
    BY <1>7, <1>1 DEF Longest
  <2>2. disk'[v][s] = disk[v][s]
    <3>1. CASE v # target
      BY <3>1, <1>1
    <3>2. CASE v = target
      <4>1. ~(Len(disk[target][s]) < Len(disk[w][s]))
        BY <3>2, <2>1, <1>1, <1>3
      <4>. QED
        BY <3>2, <4>1, <1>5
    <3>. QED
      BY <3>1, <3>2
  <2>3. ASSUME NEW u \in Vol PROVE Len(disk'[u][s]) <= Len(disk[v][s])
    <3>1. /\ Len(disk[u][s]) <= Len(disk[v][s]) /\ Len(disk[w][s]) <= Len(disk[v][s])
          /\ Len(disk[u][s]) \in Nat /\ Len(disk[w][s]) \in Nat /\ Len(disk[v][s]) \in Nat /\ Len(disk'[u][s]) \in Nat
      BY <2>1, <1>1, <1>3, <1>4
    <3>2. Len(disk'[u][s]) <= Len(disk[u][s]) \/ Len(disk'[u][s]) <= Len(disk[w][s])
      BY <1>6
    <3>. QED
      <4>1. CASE Len(disk'[u][s]) <= Len(disk[u][s])
        BY <3>1, <4>1
      <4>2. CASE Len(disk'[u][s]) <= Len(disk[w][s])
        BY <3>1, <4>2
      <4>. QED
        BY <3>2, <4>1, <4>2
  <2>. QED
    BY <2>2, <2>3
<1>8. EvenFiles'
  <2>1. ASSUME NEW u \in Vol, NEW s \in Seg PROVE Len(disk'[u][s]) % 2 = 0
    <3>1. CASE disk'[u][s] = disk[u][s]
      BY <3>1, <1>0 DEF OneHistory, EvenFiles
    <3>2. CASE disk'[u][s] # disk[u][s]
      BY <3>2, <1>1, <1>5
    <3>. QED
      BY <3>1, <3>2
  <2>. QED
    BY <2>1, <1>0 DEF OneHistory, EvenFiles
<1>9. ASSUME NEW u \in Vol, NEW s \in Seg, NEW i \in Nat,
             i \in 1 .. Len(disk'[target][s]), i \in 1 .. Len(disk'[u][s])
      PROVE  disk'[target][s][i] = disk'[u][s][i]
  <2>1. CASE u = target
    BY <2>1
  <2>2. CASE u # target
    <3>1. disk'[u][s] = disk[u][s] /\ i \in 1 .. Len(disk[u][s])
      BY <2>2, <1>1, <1>9
    <3>2. CASE disk'[target][s] = disk[target][s]
      <4>1. i \in 1 .. Len(disk[target][s])
        BY <3>2, <1>9
      <4>. QED
        BY <3>1, <3>2, <4>1, <1>0, <1>1, AgreedCells DEF OneHistory
    <3>3. CASE disk'[target][s] # disk[target][s]
      <4>1. i \in 1 .. Len(disk[w][s]) /\ disk'[target][s][i] = disk[w][s][i]
        <5>1. Len(disk'[target][s]) <= Len(disk[w][s]) /\ disk'[target][s][i] = disk[w][s][i]
          BY <3>3, <1>5, <1>9
        <5>2. Len(disk'[target][s]) \in Nat /\ Len(disk[w][s]) \in Nat
          BY <1>1, <1>3, <1>4
        <5>. QED
          BY <5>1, <5>2, <1>9
      <4>2. disk[w][s][i] = disk[u][s][i]
        BY <3>1, <4>1, <1>0, <1>1, AgreedCells DEF OneHistory
      <4>. QED
        BY <3>1, <4>1, <4>2
    <3>. QED
      BY <3>2, <3>3
  <2>. QED
    BY <2>1, <2>2
<1>10. Agreed'
  <2>1. ASSUME NEW u \in Vol, NEW x \in Vol, NEW s \in Seg
        PROVE  AgreeOnPrefix(disk'[u][s], disk'[x][s])
    <3>1. disk'[u][s] \in File /\ disk'[x][s] \in File
      BY <1>4
    <3>2. CASE u = target \/ x = target
      <4>1. \A i \in Nat : i \in 1 .. Len(disk'[u][s]) /\ i \in 1 .. Len(disk'[x][s]) => disk'[u][s][i] = disk'[x][s][i]
        BY <3>2, <1>9
      <4>. QED
        BY <3>1, <4>1, AgreeFacts
    <3>3. CASE u # target /\ x # target
      BY <3>3, <1>1, <1>0 DEF OneHistory, Agreed
    <3>. QED
      BY <3>2, <3>3
  <2>. QED
    BY <2>1 DEF Agreed
<1>11. Sealed'
  <2>1. ASSUME NEW v \in Vol, NEW t \in present'[v], NEW s \in 0 .. t - 1
        PROVE  s \in present'[v] /\ disk'[v][s] # <<>> /\ \A u \in Vol : Len(disk'[u][s]) <= Len(disk'[v][s])
    <3>1. CASE t \in present[v]
      <4>1. s \in present[v] /\ disk[v][s] # <<>> /\ Longest(v, s)
        BY <3>1, <1>0 DEF OneHistory, Sealed
      <4>2. s \in Seg /\ s \in present'[v]
        BY <4>1, <1>0, <1>1 DEF TypeOK
      <4>. QED
        BY <4>1, <4>2, <1>7
    <3>2. CASE t \notin present[v]
      <4>1. v = target /\ t \in present[w] /\ disk'[target][s] = Copied(w, target)[s]
        BY <3>2, <1>1, <1>2
      <4>2. s \in present[w] /\ disk[w][s] # <<>> /\ Longest(w, s)
        BY <4>1, <1>0, <1>1 DEF OneHistory, Sealed
      <4>3. s \in Seg
        BY <4>2, <1>0, <1>1 DEF TypeOK
      <4>4. Len(disk[w][s]) <= Len(disk'[target][s])
        BY <4>1, <4>3, <1>1, <1>3 DEF Copied
      <4>5. \A u \in Vol : Len(disk'[u][s]) <= Len(disk[w][s])
        BY <4>2, <4>3, <1>1, <1>7
      <4>6. disk'[target][s] # <<>>
        BY <4>2, <4>3, <4>4, <1>1, <1>3, <1>4
      <4>7. s \in present'[target]
        BY <4>6, <4>3, <1>1 DEF AbsentIsEmpty
      <4>8. \A u \in Vol : Len(disk'[u][s]) <= Len(disk'[target][s])
        BY <4>3, <4>4, <4>5, <1>1, <1>3, <1>4
      <4>. QED
        BY <4>1, <4>6, <4>7, <4>8
    <3>. QED
      BY <3>1, <3>2
  <2>. QED
    BY <2>1 DEF Sealed, Longest
<1>12. Reached'
  <2>1. ASSUME segment > 0
        PROVE  \E u \in Vol : /\ segment - 1 \in present'[u] /\ disk'[u][segment - 1] # <<>>
                              /\ \A x \in Vol : Len(disk'[x][segment - 1]) <= Len(disk'[u][segment - 1])
    <3>1. PICK u \in Vol : /\ segment - 1 \in present[u] /\ disk[u][segment - 1] # <<>>
                           /\ Longest(u, segment - 1)
      BY <2>1, <1>0 DEF OneHistory, Reached
    <3>2. segment - 1 \in Seg /\ segment - 1 \in present'[u]
      BY <3>1, <1>0, <1>1 DEF TypeOK
    <3>. QED
      BY <3>1, <3>2, <1>7
  <2>. QED
    BY <2>1 DEF Reached, Longest
<1>13. \A v \in Vol, s \in Seg : Longest(v, s) => Longest(v, s)'
  BY <1>7 DEF Longest
<1>14. Within => Within'
  <2>1. ASSUME Within, NEW u \in Vol, NEW t \in present'[u] PROVE t \in 0 .. segment
    BY <2>1, <1>1, <1>2 DEF Within
  <2>. QED
    BY <2>1 DEF Within
<1>15. ASSUME NEW u \in Vol, NEW t \in present'[u], t # 0 PROVE \E x \in sources : t \in present'[x]
  <2>1. t \in present[u] \/ t \in present[w]
    BY <1>15, <1>1, <1>2
  <2>2. \E x \in sources : t \in present[x]
    BY <2>1, <1>15, <1>0 DEF Sourced
  <2>. QED
    BY <2>2, <1>0, <1>1
<1>16. ASSUME NEW u \in Vol, NEW s \in Seg, disk'[u][s] # <<>>
       PROVE  \E x \in sources : Len(disk'[u][s]) <= Len(disk'[x][s])
  <2>1. \E x \in sources : Len(disk'[u][s]) <= Len(disk[x][s])
    <3>1. CASE disk'[u][s] = disk[u][s]
      BY <3>1, <1>16, <1>0 DEF Sourced
    <3>2. CASE disk'[u][s] # disk[u][s]
      BY <3>2, <1>1, <1>5
    <3>. QED
      BY <3>1, <3>2
  <2>2. PICK x \in sources : Len(disk'[u][s]) <= Len(disk[x][s])
    BY <2>1
  <2>3. CASE disk'[x][s] = disk[x][s]
    BY <2>2, <2>3
  <2>4. CASE disk'[x][s] # disk[x][s]
    <3>1. Len(disk[x][s]) < Len(disk[w][s]) /\ disk'[w][s] = disk[w][s] /\ x \in Vol
      BY <2>4, <1>0, <1>1, <1>5
    <3>2. Len(disk'[u][s]) <= Len(disk'[w][s])
      BY <2>2, <3>1, <1>1, <1>3, <1>4
    <3>. QED
      BY <3>2
  <2>. QED
    BY <2>3, <2>4
<1>17. ASSUME SeedCopy(w), NEW s \in Seg
       PROVE  Len(disk[target][s]) <= Len(disk'[target][s]) /\ Len(disk[w][s]) <= Len(disk'[target][s])
  BY <1>17, <1>1, <1>2, <1>3 DEF Copied
<1>18. OneHistory'
  BY <1>8, <1>10, <1>11, <1>12 DEF OneHistory
<1>. QED
  BY <1>13, <1>14, <1>15, <1>16, <1>17, <1>18

\* What is open between flushes has all of every segment.
LEMMA OpenCovers ==
    ASSUME TypeOK, AbsentIsEmpty, OpenExists, OneHistory, OpenLongest, fphase = "idle", NEW v \in open
    PROVE  /\ v \in Vol /\ Within /\ \A s \in Seg : Longest(v, s)
           /\ \A s \in 0 .. segment : s \in present[v]
<1>1. /\ \A u \in Vol, s \in Seg : Len(disk[u][s]) \in Nat /\ (Len(disk[u][s]) = 0 <=> disk[u][s] = <<>>)
      /\ segment \in Seg /\ segment \in Nat /\ \A s \in Seg : s \in Nat
  BY DiskFiles
<1>2. v \in Vol /\ segment \in present[v] /\ Within /\ Longest(v, segment)
  BY DEF TypeOK, OpenExists, OpenLongest
<1>3. \A s \in 0 .. segment - 1 : s \in present[v] /\ Longest(v, s)
  BY <1>2 DEF OneHistory, Sealed
<1>4. ASSUME NEW s \in Seg, ~(s <= segment) PROVE Longest(v, s)
  <2>1. \A u \in Vol : s \notin present[u]
    BY <1>1, <1>2, <1>4 DEF Within
  <2>2. \A u \in Vol : Len(disk[u][s]) = 0
    BY <2>1, <1>1 DEF AbsentIsEmpty
  <2>. QED
    BY <2>2, <1>2 DEF Longest
<1>5. \A s \in Seg : s \in 0 .. segment - 1 \/ s = segment \/ ~(s <= segment)
  BY <1>1
<1>6. \A s \in 0 .. segment : s \in 0 .. segment - 1 \/ s = segment
  BY <1>1
<1>. QED
  BY <1>2, <1>3, <1>4, <1>5, <1>6

\* A discovery reads the platters; it may close handles.
LEMMA SetKept ==
    ASSUME OneHistory, OneWriter, AllMounted', Handles', open' \subseteq open,
           disk' = disk, present' = present, segment' = segment,
           fphase' = fphase, batch' = batch, before' = before
    PROVE  OneHistory' /\ OneWriter'
<1>1. OneHistory'
  BY HistoryKept
<1>2. OpenLongest' /\ Undoing'
  BY DEF OneWriter, OpenLongest, Undoing, Within, Longest
<1>3. Appending'
  BY DEF OneWriter, Appending, Within
<1>. QED
  BY <1>1, <1>2, <1>3 DEF OneWriter

\* The platters that testify are all those with a first segment: they agree.
LEMMA OneLineage ==
    ASSUME TypeOK, OneHistory, NEW found, found \subseteq Vol, NEW f \in Lineages(found), NEW v \in DOMAIN f
    PROVE  Class(f, v) = found
<1>1. f \in [found -> found] /\ \A x, w \in found : f[x] # f[w] => ~SameLineage(f[x], f[w])
  BY DEF Lineages
<1>2. 0 \in Seg
  BY JournalAssumption DEF Seg
<1>3. \A x, w \in found : SameLineage(f[x], f[w])
  BY <1>1, <1>2 DEF SameLineage, OneHistory, Agreed
<1>. QED
  BY <1>1, <1>3 DEF Class

\* Beginning, choosing and listing.
LEMMA AlignedChoose ==
    ASSUME Ordered, Aligned, ElectBegin \/ ElectLineage \/ \E c \in SUBSET Vol : ElectChoose(c)
    PROVE  Aligned'
<1>0. TypeOK /\ AbsentIsEmpty /\ OpenExists /\ OneHistory /\ OneWriter /\ OneSource /\ Quiet
  BY DEF Ordered, Aligned
<1>1. /\ disk' = disk /\ present' = present /\ status' = status /\ cleared' = cleared /\ mode' = mode
      /\ replicas' = replicas /\ segment' = segment /\ fphase' = fphase /\ batch' = batch /\ before' = before
      /\ open' = open
  <2>1. \A v \in open : Mounted(v)
    BY <1>0 DEF OneHistory, AllMounted, Mounted, TypeOK
  <2>2. open' = open
    BY <2>1 DEF ElectBegin, ElectLineage, ElectChoose, setVars
  <2>. QED
    BY <2>2 DEF ElectBegin, ElectLineage, ElectChoose, diskVars, fleetVars, setVars, flushVars
<1>2. AllMounted' /\ Handles'
  BY <1>0, <1>1 DEF OneHistory, OneWriter, AllMounted, Handles
<1>3. OneHistory' /\ OneWriter'
  BY <1>0, <1>1, <1>2, SetKept
<1>4. OneSource'
  <2>1. CASE ElectBegin
    BY <2>1, <1>0 DEF ElectBegin, OneSource, Resting, Scanning, Sourced, Copying, seedVars
  <2>2. CASE ElectLineage
    <3>1. /\ ephase = "lineage" /\ ephase' = "seed" /\ from' = {} /\ target' = None /\ adopted' = {}
          /\ sources' = sources
      BY <2>2 DEF ElectLineage
    <3>2. Sourced'
      BY <3>1, <1>0, <1>1 DEF OneSource, Sourced
    <3>3. Resting' /\ Scanning' /\ Copying'
      BY <3>1 DEF Resting, Scanning, Copying
    <3>. QED
      BY <3>2, <3>3 DEF OneSource
  <2>3. ASSUME NEW c \in SUBSET Vol, ElectChoose(c) PROVE OneSource'
    <3>1. /\ ephase = "drain" /\ fphase = "idle"
          /\ from' = from /\ target' = target /\ adopted' = adopted
          /\ IF open' # {} THEN ephase' = "lineage" /\ \E v \in open' : sources' = {v}
             ELSE ephase' = "scan" /\ listed' = {v \in Vol : Mounted(v)}
      BY <2>3 DEF ElectChoose
    <3>2. Resting' /\ Copying'
      BY <3>1, <1>0 DEF OneSource, Resting, Copying
    <3>3. CASE open # {}
      <4>1. PICK v \in open : sources' = {v} /\ ephase' = "lineage"
        BY <3>1, <3>3, <1>1
      <4>2. /\ v \in Vol /\ Within /\ \A s \in Seg : Longest(v, s)
            /\ \A s \in 0 .. segment : s \in present[v]
        BY <3>1, <1>0, OpenCovers DEF OneWriter
      <4>3. Sourced'
        BY <4>1, <4>2, <1>1 DEF Sourced, Within, Longest
      <4>. QED
        BY <4>1, <4>3, <3>2 DEF OneSource, Scanning
    <3>4. CASE open = {}
      <4>1. ephase' = "scan" /\ listed' = Vol /\ open' = {}
        BY <3>1, <3>4, <1>0, <1>1 DEF OneHistory, AllMounted, Mounted
      <4>. QED
        BY <4>1, <3>2 DEF OneSource, Scanning, Sourced
    <3>. QED
      BY <3>3, <3>4
  <2>. QED
    BY <2>1, <2>2, <2>3
<1>. QED
  BY <1>3, <1>4 DEF Aligned

\* The search finds every platter with bytes.
LEMMA AlignedSearch ==
    ASSUME Ordered, Aligned, SteadyDisks, ElectScanEmpty \/ \E bad \in SUBSET listed : ElectScan(bad)
    PROVE  Aligned'
<1>0. TypeOK /\ AbsentIsEmpty /\ OneHistory /\ OneWriter /\ OneSource /\ Quiet
  BY DEF Ordered, Aligned
<1>1. /\ disk' = disk /\ present' = present /\ status' = status /\ cleared' = cleared /\ mode' = mode
      /\ replicas' = replicas /\ segment' = segment /\ fphase' = fphase /\ batch' = batch /\ before' = before
      /\ open' = open /\ ephase = "scan" /\ ephase' = "lineage"
      /\ from' = from /\ target' = target /\ adopted' = adopted
  BY DEF ElectScanEmpty, ElectScan, diskVars, fleetVars, setVars, flushVars
<1>2. AllMounted' /\ Handles'
  BY <1>0, <1>1 DEF OneHistory, OneWriter, AllMounted, Handles
<1>3. OneHistory' /\ OneWriter'
  BY <1>0, <1>1, <1>2, SetKept
<1>4. listed = Vol /\ \A v \in Vol : Mounted(v)
  BY <1>0, <1>1 DEF OneSource, Scanning, OneHistory, AllMounted, Mounted
<1>5. \A v \in Vol : HasHistory(v) => v \in sources'
  <2>1. CASE ElectScanEmpty
    BY <2>1, <1>4 DEF ElectScanEmpty
  <2>2. ASSUME NEW bad \in SUBSET listed, ElectScan(bad) PROVE \A v \in Vol : HasHistory(v) => v \in sources'
    <3>. DEFINE found == {v \in listed \ bad : HasHistory(v)}
    <3>1. PICK f \in Lineages(found) : \E v \in DOMAIN f : sources' = Class(f, v)
      BY <2>2 DEF ElectScan
    <3>2. bad = {}
      BY <2>2 DEF ElectScan, Unlistable, SteadyDisks
    <3>3. found \subseteq Vol
      BY <1>4
    <3>. HIDE DEF found
    <3>4. sources' = found
      BY <3>1, <3>3, <1>0, OneLineage
    <3>. QED
      BY <3>2, <3>4, <1>4 DEF found
  <2>. QED
    BY <2>1, <2>2
<1>6. ASSUME NEW u \in Vol, NEW t \in Seg, t \in present[u], t # 0 \/ disk[u][t] # <<>> PROVE HasHistory(u)
  <2>1. CASE t = 0
    BY <2>1, <1>4, <1>6 DEF HasHistory
  <2>2. CASE t # 0
    <3>1. 0 \in 0 .. t - 1 /\ 0 \in Seg
      BY <2>2, JournalAssumption DEF Seg
    <3>2. 0 \in present[u] /\ disk[u][0] # <<>>
      BY <3>1, <1>6, <1>0 DEF OneHistory, Sealed
    <3>. QED
      BY <3>1, <3>2, <1>4 DEF HasHistory
  <2>. QED
    BY <2>1, <2>2
<1>7. Sourced'
  <2>1. ASSUME NEW u \in Vol, NEW t \in present[u], t # 0 PROVE \E x \in sources' : t \in present[x]
    BY <2>1, <1>0, <1>5, <1>6 DEF TypeOK
  <2>2. ASSUME NEW u \in Vol, NEW s \in Seg, disk[u][s] # <<>>
        PROVE  \E x \in sources' : Len(disk[u][s]) <= Len(disk[x][s])
    <3>1. s \in present[u] /\ Len(disk[u][s]) \in Nat
      BY <2>2, <1>0, DiskFiles DEF AbsentIsEmpty
    <3>2. u \in sources'
      BY <2>2, <3>1, <1>5, <1>6
    <3>. QED
      BY <3>1, <3>2
  <2>. QED
    BY <2>1, <2>2, <1>1 DEF Sourced
<1>8. Resting' /\ Scanning' /\ Copying'
  BY <1>0, <1>1 DEF OneSource, Resting, Scanning, Copying
<1>. QED
  BY <1>3, <1>7, <1>8 DEF Aligned, OneSource

\* An election gives up: the set is as it was, or empty.
LEMMA AlignedGiveUp ==
    ASSUME Ordered, Aligned, SteadyDisks,
           ElectKeep \/ ElectLineageFails \/ ElectOpenFails \/ \E bad \in SUBSET listed : ElectAmbiguous(bad)
    PROVE  Aligned'
<1>0. TypeOK /\ OneHistory /\ OneWriter /\ OneSource
  BY DEF Ordered, Aligned
<1>1. ElectKeep \/ \E bad \in SUBSET listed : ElectAmbiguous(bad)
  BY DEF ElectLineageFails, ElectOpenFails, SteadyDisks
<1>2. /\ disk' = disk /\ present' = present /\ status' = status /\ cleared' = cleared /\ mode' = mode
      /\ segment' = segment /\ fphase' = fphase /\ batch' = batch /\ before' = before
      /\ ephase' = "idle" /\ from' = {} /\ target' = None /\ adopted' = {}
  BY <1>1 DEF ElectKeep, ElectAmbiguous, EndElection, diskVars, fleetVars, flushVars
<1>3. replicas' = open' /\ open' \subseteq open
  BY <1>1 DEF ElectKeep, ElectAmbiguous, Survivors, NextSet
<1>4. AllMounted' /\ Handles'
  BY <1>0, <1>2, <1>3 DEF OneHistory, AllMounted, Handles
<1>5. OneHistory' /\ OneWriter'
  BY <1>0, <1>2, <1>3, <1>4, SetKept
<1>6. OneSource'
  BY <1>0, <1>2, SourceKept
<1>. QED
  BY <1>5, <1>6 DEF Aligned

\* Seeding, volume by volume.
LEMMA AlignedSeed ==
    ASSUME Ordered, Aligned, SteadyDisks,
           \/ SeedAdopt
           \/ \E v \in todo : SeedRefuse(v) \/ SeedBegin(v)
           \/ \E w \in from : SeedCopy(w)
           \/ \E w \in from : \E s \in Seg : \E n \in 0 .. Len(disk[w][s]) : SeedCopyFail(w, s, n)
    PROVE  Aligned'
<1>0. TypeOK /\ AbsentIsEmpty /\ OneHistory /\ OneWriter /\ OneSource /\ Quiet
  BY DEF Ordered, Aligned
<1>1. /\ ephase = "seed" /\ ephase' = "seed" /\ sources' = sources
      /\ status' = status /\ cleared' = cleared /\ mode' = mode /\ segment' = segment
      /\ replicas' = replicas /\ open' = open /\ fphase' = fphase /\ batch' = batch /\ before' = before
  BY DEF SeedAdopt, SeedRefuse, SeedBegin, SeedCopy, SeedCopyFail, fleetVars, setVars, flushVars
<1>2. AllMounted' /\ Handles' /\ fphase = "idle" /\ adopted \subseteq Vol /\ sources \subseteq Vol
  BY <1>0, <1>1 DEF OneHistory, OneWriter, AllMounted, Handles, Quiet, TypeOK
<1>3. Copying /\ Sourced
  BY <1>0 DEF OneSource
<1>4. /\ \A u \in Vol, s \in Seg : Len(disk[u][s]) \in Nat /\ (Len(disk[u][s]) = 0 <=> disk[u][s] = <<>>)
      /\ segment \in Seg
  BY <1>0, DiskFiles
<1>5. CASE SeedAdopt \/ \E v \in todo : SeedRefuse(v) \/ SeedBegin(v)
  <2>1. disk' = disk /\ present' = present
    BY <1>5 DEF SeedAdopt, SeedRefuse, SeedBegin, diskVars
  <2>2. OneHistory' /\ OneWriter'
    BY <2>1, <1>0, <1>1, <1>2, SetKept
  <2>3. Resting' /\ Scanning' /\ Sourced'
    BY <2>1, <1>1, <1>3 DEF Resting, Scanning, Sourced
  <2>4. Copying'
    <3>1. CASE \E v \in todo : SeedRefuse(v)
      <4>1. from' = from /\ target' = target /\ adopted' = adopted
        BY <3>1 DEF SeedRefuse
      <4>. QED
        BY <4>1, <2>1, <1>1, <1>3 DEF Copying, Longest
    <3>2. ASSUME NEW v \in todo, SeedBegin(v) PROVE Copying'
      <4>1. from' = sources \ {v} /\ target' = v /\ adopted' = adopted /\ v \in Vol
        BY <3>2, <1>0 DEF SeedBegin, TypeOK
      <4>2. \A w \in sources \ from', s \in Seg : Len(disk[w][s]) <= Len(disk[v][s])
        BY <4>1, <1>4
      <4>. QED
        BY <4>1, <4>2, <2>1, <1>1, <1>3 DEF Copying, Longest
    <3>3. CASE SeedAdopt
      <4>1. from = {} /\ from' = from /\ target' = None /\ adopted' = adopted \cup {target} /\ target \in Vol
        BY <3>3, <1>0 DEF SeedAdopt, TypeOK
      <4>2. ASSUME NEW s \in Seg, NEW u \in Vol PROVE Len(disk[u][s]) <= Len(disk[target][s])
        <5>1. CASE disk[u][s] = <<>>
          BY <5>1, <4>1, <1>4
        <5>2. CASE disk[u][s] # <<>>
          <6>1. PICK w \in sources : Len(disk[u][s]) <= Len(disk[w][s])
            BY <5>2, <1>1, <1>3 DEF Sourced
          <6>2. Len(disk[w][s]) <= Len(disk[target][s])
            BY <4>1, <3>3, <1>1, <1>3 DEF Copying, SeedAdopt
          <6>. QED
            BY <6>1, <6>2, <4>1, <1>2, <1>4
        <5>. QED
          BY <5>1, <5>2
      <4>3. \A v \in adopted', s \in Seg : Longest(v, s)
        BY <4>1, <4>2, <1>1, <1>3 DEF Copying, Longest
      <4>. QED
        BY <4>1, <4>3, <2>1, <1>1, <1>3 DEF Copying, Longest
    <3>. QED
      BY <3>1, <3>2, <3>3, <1>5
  <2>. QED
    BY <2>2, <2>3, <2>4 DEF Aligned, OneSource
<1>6. ASSUME NEW w \in from,
             SeedCopy(w) \/ \E s \in Seg : \E n \in 0 .. Len(disk[w][s]) : SeedCopyFail(w, s, n)
      PROVE  Aligned'
  <2>0. w \in sources /\ from \subseteq sources
    BY <1>1, <1>3 DEF Copying
  <2>1. /\ OneHistory'
        /\ \A v \in Vol, s \in Seg : Longest(v, s) => Longest(v, s)'
        /\ Within => Within'
        /\ \A u \in Vol :
              /\ \A t \in present'[u] : t = 0 \/ \E x \in sources : t \in present'[x]
              /\ \A s \in Seg : disk'[u][s] # <<>> => \E x \in sources : Len(disk'[u][s]) <= Len(disk'[x][s])
        /\ SeedCopy(w) => \A s \in Seg : /\ Len(disk[target][s]) <= Len(disk'[target][s])
                                          /\ Len(disk[w][s]) <= Len(disk'[target][s])
    BY <2>0, <1>1, <1>2, <1>6, AlignedCopied
  <2>2. OneWriter'
    <3>1. OpenLongest'
      <4>1. ASSUME NEW v \in open PROVE Within' /\ \A u \in Vol : Len(disk'[u][segment]) <= Len(disk'[v][segment])
        <5>1. Within /\ Longest(v, segment) /\ v \in Vol
          BY <1>0, <1>2 DEF OneWriter, OpenLongest, TypeOK
        <5>2. Within' /\ \A s \in Seg : s = segment => Longest(v, s)'
          BY <5>1, <2>1, <1>4
        <5>. QED
          BY <5>2, <1>4 DEF Longest
      <4>. QED
        BY <4>1, <1>1 DEF OpenLongest, Longest
    <3>. QED
      BY <3>1, <1>1, <1>2 DEF OneWriter, Appending, Undoing
  <2>3. Sourced' /\ Resting' /\ Scanning'
    BY <2>1, <1>1 DEF Sourced, Resting, Scanning
  <2>4. adopted' = adopted /\ \A v \in adopted', s \in Seg : Longest(v, s)'
    <3>1. adopted' = adopted
      BY <1>6 DEF SeedCopy, SeedCopyFail
    <3>. QED
      BY <3>1, <2>1, <1>1, <1>2, <1>3 DEF Copying
  <2>5. Copying'
    <3>1. CASE SeedCopy(w)
      <4>1. from' = from \ {w} /\ target' = target /\ target # None
        BY <3>1 DEF SeedCopy
      <4>a. /\ target \in Vol
            /\ \A u \in Vol : u # target => disk'[u] = disk[u]
            /\ disk' \in [Vol -> [Seg -> File]]
        BY <1>0, <3>1, CopyCells DEF Ordered
      <4>b. \A f \in File : Len(f) \in Nat
        BY FileFacts
      <4>2. ASSUME NEW x \in sources \ from', NEW s \in Seg PROVE Len(disk'[x][s]) <= Len(disk'[target][s])
        <5>0. x \in Vol /\ Len(disk'[target][s]) \in Nat
          BY <4>a, <4>b, <1>2
        <5>1. CASE x = target
          BY <5>0, <5>1
        <5>2. CASE x # target /\ x = w
          BY <5>0, <5>2, <4>a, <2>1, <3>1
        <5>3. CASE x # target /\ x # w
          <6>1. Len(disk[x][s]) <= Len(disk[target][s]) /\ disk'[x] = disk[x]
            BY <5>0, <5>3, <4>1, <4>a, <1>1, <1>3 DEF Copying
          <6>2. Len(disk[target][s]) <= Len(disk'[target][s])
            BY <2>1, <3>1
          <6>. QED
            BY <6>1, <6>2, <5>0, <4>a, <1>4
        <5>. QED
          BY <5>1, <5>2, <5>3
      <4>. QED
        BY <4>1, <4>2, <2>0, <2>4, <1>1 DEF Copying, Longest
    <3>2. CASE ~SeedCopy(w)
      <4>1. from' = {} /\ target' = None
        BY <3>2, <1>6 DEF SeedCopyFail
      <4>. QED
        BY <4>1, <2>4, <1>1 DEF Copying, Longest
    <3>. QED
      BY <3>1, <3>2
  <2>. QED
    BY <2>1, <2>2, <2>3, <2>5 DEF Aligned, OneSource
<1>. QED
  BY <1>5, <1>6

\* The active segment is the highest there is.
LEMMA TopSegmentMax ==
    ASSUME TypeOK, \A v \in Vol : Mounted(v)
    PROVE  /\ TopSegment \in Seg /\ segment <= TopSegment
           /\ \A v \in sources, t \in Seg : t \in present[v] => t <= TopSegment
           /\ TopSegment = segment \/ \E v \in sources : TopSegment \in present[v]
<1>. DEFINE named == UNION {present[v] : v \in {w \in sources : Mounted(w)}}
            S == named \cup {segment}
<1>0. sources \subseteq Vol
  BY DEF TypeOK
<1>1. S \subseteq Seg /\ S # {}
  BY DEF TypeOK
<1>2. \A t \in S : t = segment \/ \E v \in sources : t \in present[v]
  OBVIOUS
<1>3. segment \in S /\ \A v \in sources, t \in Seg : t \in present[v] => t \in S
  BY <1>0
<1>. HIDE DEF S
<1>4. \E s \in S : \A t \in S : t <= s
  BY <1>1, Greatest
<1>5. TopSegment = CHOOSE s \in S : \A t \in S : t <= s
  BY DEF TopSegment, S
<1>6. TopSegment \in S /\ \A t \in S : t <= TopSegment
  BY <1>4, <1>5
<1>. QED
  BY <1>1, <1>2, <1>3, <1>6

\* The election ends: what it opens has everything, at the highest segment there is.
LEMMA AlignedOpen ==
    ASSUME Ordered, Whole, Aligned, NEW bad \in SUBSET NextSet, ElectOpen(bad)
    PROVE  Aligned'
<1>0. TypeOK /\ AbsentIsEmpty /\ OpenExists /\ LinesEverywhere /\ OneHistory /\ OneWriter /\ OneSource /\ Quiet
  BY DEF Ordered, Whole, Aligned
<1>. DEFINE s == TopSegment
            opening == IF s = segment THEN NextSet \ open ELSE NextSet
<1>1. /\ ephase = "seed" /\ ephase' = "idle" /\ target' = None /\ from' = {} /\ adopted' = {}
      /\ status' = status /\ cleared' = cleared /\ mode' = mode
      /\ fphase' = fphase /\ batch' = batch /\ before' = before /\ fphase = "idle"
  BY <1>0 DEF ElectOpen, EndElection, fleetVars, flushVars, Quiet
<1>2. OneSource' /\ AllMounted'
  BY <1>0, <1>1, SourceKept DEF OneHistory, AllMounted
<1>3. CASE mode = "stopping"
  <2>1. disk' = disk /\ present' = present /\ segment' = segment /\ open' = NextSet \cap open
    BY <1>3 DEF ElectOpen, diskVars
  <2>2. open' \subseteq open /\ Handles'
    BY <2>1, <1>1, <1>3 DEF Handles
  <2>3. OneHistory' /\ OneWriter'
    BY <2>1, <2>2, <1>0, <1>1, <1>2, SetKept
  <2>. QED
    BY <2>3, <1>2 DEF Aligned
<1>4. CASE mode # "stopping"
  <2>1. /\ OpenSegments(opening, bad, s) /\ segment' = s
        /\ replicas' = NextSet \ bad /\ open' = NextSet \ bad
    BY <1>4 DEF ElectOpen
  <2>2. /\ \A u \in Vol, t \in Seg : Len(disk[u][t]) \in Nat /\ (Len(disk[u][t]) = 0 <=> disk[u][t] = <<>>)
        /\ segment \in Seg /\ segment \in Nat /\ \A t \in Seg : t \in Nat
    BY <1>0, DiskFiles
  <2>3. \A v \in Vol : Mounted(v)
    BY <1>0 DEF OneHistory, AllMounted, Mounted
  <2>4. /\ s \in Seg /\ s \in Nat /\ segment <= s /\ sources \subseteq Vol
        /\ \A v \in sources, t \in Seg : t \in present[v] => t <= s
        /\ s = segment \/ \E v \in sources : s \in present[v]
    BY <2>2, <2>3, <1>0, TopSegmentMax DEF TypeOK
  <2>5. NextSet \subseteq Vol
    BY <1>0 DEF NextSet, TypeOK
  <2>6. /\ disk' = disk
        /\ \A v \in Vol : present'[v] = IF v \in opening \ bad THEN present[v] \cup {s} ELSE present[v]
    BY <2>1, <2>4, <1>0, OpenedWhole DEF OneHistory
  <2>. HIDE DEF s
  <2>7. \A v \in NextSet, t \in Seg : Longest(v, t)
    <3>1. ASSUME NEW v \in open PROVE \A t \in Seg : Longest(v, t)
      BY <1>0, <1>1, OpenCovers DEF OneWriter
    <3>2. \A v \in adopted, t \in Seg : Longest(v, t)
      BY <1>0, <1>1 DEF OneSource, Copying
    <3>. QED
      BY <3>1, <3>2 DEF NextSet
  <2>8. \A u \in Vol, t \in Seg : t \in present[u] => t <= s
    <3>1. ASSUME NEW u \in Vol, NEW t \in Seg, t \in present[u] PROVE t <= s
      <4>1. t = 0 \/ \E w \in sources : t \in present[w]
        BY <3>1, <1>0, <1>1 DEF OneSource, Sourced
      <4>. QED
        BY <4>1, <2>4
    <3>. QED
      BY <3>1
  <2>9. s > 0 => \E u \in Vol : /\ s - 1 \in present[u] /\ disk[u][s - 1] # <<>> /\ Longest(u, s - 1)
                                /\ \A t \in 0 .. s - 2 : disk[u][t] # <<>>
    <3>1. ASSUME s > 0, s = segment
          PROVE  \E u \in Vol : /\ s - 1 \in present[u] /\ disk[u][s - 1] # <<>> /\ Longest(u, s - 1)
                                /\ \A t \in 0 .. s - 2 : disk[u][t] # <<>>
      <4>1. PICK u \in Vol : s - 1 \in present[u] /\ disk[u][s - 1] # <<>> /\ Longest(u, s - 1)
        BY <3>1, <1>0 DEF OneHistory, Reached
      <4>2. \A t \in 0 .. (s - 1) - 1 : disk[u][t] # <<>>
        BY <4>1, <1>0 DEF OneHistory, Sealed
      <4>3. (s - 1) - 1 = s - 2
        BY <2>4
      <4>. QED
        BY <4>1, <4>2, <4>3
    <3>2. ASSUME s > 0, NEW u \in sources, s \in present[u]
          PROVE  /\ u \in Vol /\ s - 1 \in present[u] /\ disk[u][s - 1] # <<>> /\ Longest(u, s - 1)
                 /\ \A t \in 0 .. s - 2 : disk[u][t] # <<>>
      <4>1. u \in Vol /\ \A t \in 0 .. s - 1 : t \in present[u] /\ disk[u][t] # <<>> /\ Longest(u, t)
        BY <3>2, <2>4, <1>0 DEF OneHistory, Sealed
      <4>2. s - 1 \in 0 .. s - 1 /\ \A t \in 0 .. s - 2 : t \in 0 .. s - 1
        BY <3>2, <2>4
      <4>. QED
        BY <4>1, <4>2
    <3>. QED
      BY <3>1, <3>2, <2>4
  <2>10. ASSUME NEW v \in NextSet, NEW t \in 0 .. s - 1 PROVE t \in present[v] /\ disk[v][t] # <<>> /\ Longest(v, t)
    <3>1. t \in Seg /\ s > 0 /\ (t = s - 1 \/ t \in 0 .. s - 2)
      BY <2>4, JournalAssumption DEF Seg
    <3>2. PICK u \in Vol : disk[u][t] # <<>>
      BY <2>9, <3>1
    <3>3. Len(disk[u][t]) <= Len(disk[v][t]) /\ v \in Vol
      BY <2>5, <2>7, <3>1 DEF Longest
    <3>4. disk[v][t] # <<>>
      BY <3>1, <3>2, <3>3, <2>2
    <3>. QED
      BY <3>1, <3>3, <3>4, <2>7, <1>0 DEF AbsentIsEmpty
  <2>11. \A u \in Vol : present[u] \subseteq present'[u]
    BY <2>6
  <2>12. Sealed'
    <3>1. ASSUME NEW v \in Vol, NEW t \in present'[v], NEW x \in 0 .. t - 1
          PROVE  x \in present'[v] /\ disk[v][x] # <<>> /\ Longest(v, x)
      <4>1. CASE t \in present[v]
        BY <4>1, <2>11, <1>0 DEF OneHistory, Sealed
      <4>2. CASE t \notin present[v]
        <5>1. v \in NextSet /\ t = s
          BY <4>2, <2>6
        <5>. QED
          BY <5>1, <2>10, <2>11
      <4>. QED
        BY <4>1, <4>2
    <3>. QED
      BY <3>1, <2>6 DEF Sealed, Longest
  <2>13. Reached'
    BY <2>1, <2>6, <2>9, <2>11 DEF Reached, Longest
  <2>14. OneHistory'
    <3>1. EvenFiles' /\ Agreed'
      BY <2>6, <1>0, <1>1 DEF OneHistory, EvenFiles, Agreed
    <3>. QED
      BY <3>1, <2>12, <2>13, <1>2 DEF OneHistory
  <2>15. Within'
    <3>1. ASSUME NEW u \in Vol, NEW t \in present'[u] PROVE t \in 0 .. s
      <4>1. t \in Seg
        BY <2>4, <2>6, <1>0 DEF TypeOK
      <4>2. t <= s
        BY <4>1, <2>4, <2>6, <2>8
      <4>. QED
        BY <4>1, <4>2, <2>2, <2>4
    <3>. QED
      BY <3>1, <2>1 DEF Within
  <2>16. OneWriter'
    <3>1. \A v \in NextSet : \A u \in Vol : Len(disk[u][s]) <= Len(disk[v][s])
      BY <2>4, <2>7 DEF Longest
    <3>2. OpenLongest'
      BY <3>1, <2>1, <2>6, <2>15 DEF OpenLongest, Longest
    <3>. QED
      BY <3>2, <2>1, <1>1 DEF OneWriter, Handles, Appending, Undoing
  <2>. QED
    BY <2>14, <2>16, <1>2 DEF Aligned
<1>. QED
  BY <1>3, <1>4

\* Every step of an election keeps the platters aligned.
LEMMA AlignedElect ==
    ASSUME Ordered, Whole, Aligned, SteadyDisks, ElectNext
    PROVE  Aligned'
  BY AlignedChoose, AlignedSearch, AlignedGiveUp, AlignedSeed, AlignedOpen DEF ElectNext

\* The process comes and goes, volumes become writable or read-only.
LEMMA AlignedFleet ==
    ASSUME Ordered, Aligned, SteadyDisks, FleetNext
    PROVE  Aligned'
<1>0. TypeOK /\ OneHistory /\ OneWriter /\ OneSource
  BY DEF Ordered, Aligned
<1>1. CASE Stopped \/ Crash
  <2>1. Forget
    BY <1>1 DEF Stopped, Crash
  <2>2. /\ disk' = disk /\ present' = present /\ status' = status /\ cleared' = None
        /\ replicas' = {} /\ open' = {} /\ segment' = 0 /\ fphase' = "idle"
        /\ before' = [v \in Vol |-> 0]
        /\ ephase' = "idle" /\ from' = {} /\ target' = None /\ adopted' = {}
    BY <2>1 DEF Forget, EndElection, diskVars
  <2>3. AllMounted' /\ OneSource'
    BY <2>2, <1>0, SourceKept DEF OneHistory, AllMounted
  <2>4. OneHistory'
    <3>1. \A v \in Vol : before'[v] % 2 = 0
      BY <2>2
    <3>2. EvenFiles' /\ Agreed' /\ Sealed'
      BY <3>1, <2>2, <1>0 DEF OneHistory, EvenFiles, Agreed, Sealed, Longest
    <3>3. Reached'
      <4>1. ~(0 > 0)
        OBVIOUS
      <4>. QED
        BY <4>1, <2>2 DEF Reached
    <3>. QED
      BY <3>2, <3>3, <2>3 DEF OneHistory
  <2>5. OneWriter'
    BY <2>2 DEF OneWriter, Handles, OpenLongest, Appending, Undoing
  <2>. QED
    BY <2>3, <2>4, <2>5 DEF Aligned
<1>2. CASE \/ Start \/ Started \/ Stop \/ OnFleetChange
           \/ \E v \in Vol, s \in Status : FleetMove(v, s)
           \/ \E v \in Vol : RemoveCheck(v)
           \/ RemoveCommit
  <2>1. \/ Start \/ Started \/ Stop \/ OnFleetChange
        \/ \E v \in Vol, s \in Status : FleetMove(v, s)
    BY <1>2, <1>0 DEF RemoveCheck, RemoveCommit, SteadyDisks, OneHistory, AllMounted
  <2>2. /\ disk' = disk /\ present' = present /\ segment' = segment /\ open' = open /\ replicas' = replicas
        /\ fphase' = fphase /\ batch' = batch /\ before' = before
        /\ ephase' = ephase /\ from' = from /\ target' = target /\ adopted' = adopted
        /\ sources' = sources /\ listed' = listed /\ cleared' = cleared
        /\ mode # "stopping" \/ mode' = mode
    BY <2>1 DEF Start, Started, Stop, OnFleetChange, FleetMove,
                diskVars, fleetVars, setVars, flushVars, electVars, seedVars
  <2>3. \A v \in Vol : status'[v] \in {"rw", "ro"}
    <3>1. CASE \E v \in Vol, s \in Status : FleetMove(v, s)
      <4>1. PICK v \in Vol, s \in {"rw", "ro"} : status' = [status EXCEPT ![v] = s]
        BY <3>1 DEF FleetMove, SteadyDisks
      <4>. QED
        BY <4>1, <1>0 DEF OneHistory, AllMounted, TypeOK
    <3>2. CASE Start \/ Started \/ Stop \/ OnFleetChange
      <4>1. status' = status
        BY <3>2 DEF Start, Started, Stop, OnFleetChange, fleetVars
      <4>. QED
        BY <4>1, <1>0 DEF OneHistory, AllMounted
    <3>. QED
      BY <3>1, <3>2, <2>1
  <2>4. AllMounted' /\ Handles'
    BY <2>2, <2>3, <1>0 DEF OneHistory, OneWriter, AllMounted, Handles
  <2>5. OneSource'
    BY <2>2, <1>0 DEF OneSource, Resting, Scanning, Sourced, Copying, Longest
  <2>. QED
    BY <2>2, <2>4, <2>5, AlignedKept
<1>. QED
  BY <1>1, <1>2 DEF FleetNext

\* Every step keeps the platters aligned.
LEMMA AlignedStep ==
    ASSUME Ordered, Whole, Aligned, SteadyDisks, [Next]_vars
    PROVE  Aligned'
<1>1. CASE UNCHANGED vars
  <2>1. /\ disk' = disk /\ present' = present /\ segment' = segment /\ open' = open /\ replicas' = replicas
        /\ fphase' = fphase /\ batch' = batch /\ before' = before /\ mode' = mode
        /\ ephase' = ephase /\ from' = from /\ target' = target /\ adopted' = adopted
        /\ sources' = sources /\ listed' = listed /\ cleared' = cleared /\ status' = status
    BY <1>1 DEF vars, diskVars, fleetVars, setVars, flushVars, electVars, seedVars
  <2>2. AllMounted' /\ Handles'
    BY <2>1 DEF Aligned, OneHistory, OneWriter, AllMounted, Handles
  <2>3. OneSource'
    BY <2>1 DEF Aligned, OneSource, Resting, Scanning, Sourced, Copying, Longest
  <2>. QED
    BY <2>1, <2>2, <2>3, AlignedKept
<1>. QED
  BY <1>1, AlignedAppend, AlignedFlush, AlignedElect, AlignedFleet DEF Next

\* What an earlier process left is one history.
LEMMA AlignedInit ==
    ASSUME Init
    PROVE  Aligned
<1>. DEFINE n == Len(History)
<1>1. /\ n \in Nat /\ n <= MaxSegment + 1 /\ MaxSegment \in Nat
      /\ \A i \in 1 .. n : History[i] \in Rec
  BY JournalAssumption, LenProperties
<1>2. /\ disk = [v \in Vol |-> [s \in Seg |-> IF s \in Kept(v) THEN Body(<<History[s + 1]>>) ELSE <<>>]]
      /\ present = [v \in Vol |-> Kept(v)]
      /\ open = {} /\ replicas = {} /\ segment = 0 /\ fphase = "idle" /\ ephase = "idle" /\ cleared = None
      /\ before = [v \in Vol |-> 0] /\ target = None /\ from = {} /\ adopted = {}
      /\ \E W \in Fleets : status = [v \in Vol |-> IF v \in W THEN "rw" ELSE "ro"]
  BY DEF Init
<1>3. \A v \in Vol : Kept(v) = {} \/ (v \in Holders /\ Kept(v) = 0 .. n - 1)
  BY DEF Kept
<1>4. ASSUME NEW s \in 0 .. n - 1
      PROVE  /\ s \in Seg /\ Body(<<History[s + 1]>>) \in File /\ Len(Body(<<History[s + 1]>>)) = 2
  <2>1. s + 1 \in 1 .. n /\ s \in Seg
    BY <1>1 DEF Seg
  <2>2. <<History[s + 1]>> \in Seq(Rec) /\ Len(<<History[s + 1]>>) = 1
    BY <1>1, <2>1
  <2>3. Body(<<History[s + 1]>>) \in File /\ Len(Body(<<History[s + 1]>>)) = 2 * 1
    BY <2>2, BodyFacts
  <2>. QED
    BY <2>1, <2>3
<1>5. \A s \in Seg, v \in Vol : \/ s \in Kept(v) /\ s \in 0 .. n - 1 /\ disk[v][s] = Body(<<History[s + 1]>>)
                                \/ s \notin Kept(v) /\ disk[v][s] = <<>>
  BY <1>2, <1>3
<1>6. Len(<<>>) = 0 /\ 0 % 2 = 0 /\ 2 % 2 = 0 /\ <<>> \in File
  BY DEF File
<1>7. \A s \in Seg, v \in Vol :
         /\ disk[v][s] \in File /\ Len(disk[v][s]) % 2 = 0
         /\ Len(disk[v][s]) = (IF s \in Kept(v) THEN 2 ELSE 0)
  BY <1>4, <1>5, <1>6
<1>7a. ASSUME NEW v \in Vol, NEW s \in Seg, s \in Kept(v) PROVE disk[v][s] # <<>> /\ Longest(v, s)
  <2>1. Len(disk[v][s]) = 2
    BY <1>7, <1>7a
  <2>2. ASSUME NEW u \in Vol PROVE Len(disk[u][s]) <= Len(disk[v][s])
    <3>1. CASE s \in Kept(u)
      <4>1. Len(disk[u][s]) = 2
        BY <3>1, <1>7
      <4>. QED
        BY <4>1, <2>1
    <3>2. CASE s \notin Kept(u)
      <4>1. Len(disk[u][s]) = 0
        BY <3>2, <1>7
      <4>. QED
        BY <4>1, <2>1
    <3>. QED
      BY <3>1, <3>2
  <2>3. Len(disk[v][s]) # 0
    BY <2>1
  <2>4. disk[v][s] # <<>>
    BY <2>3, <1>6
  <2>. QED
    BY <2>2, <2>4 DEF Longest
<1>8. EvenFiles /\ AllMounted
  BY <1>2, <1>6, <1>7 DEF EvenFiles, AllMounted
<1>9. Agreed
  <2>1. ASSUME NEW v \in Vol, NEW w \in Vol, NEW s \in Seg PROVE AgreeOnPrefix(disk[v][s], disk[w][s])
    <3>1. CASE s \in Kept(v) /\ s \in Kept(w)
      <4>1. disk[v][s] = disk[w][s]
        BY <3>1, <1>5
      <4>. QED
        BY <4>1, <1>7, AgreeFacts
    <3>2. CASE s \notin Kept(v) \/ s \notin Kept(w)
      <4>1. Len(disk[v][s]) = 0 \/ Len(disk[w][s]) = 0
        BY <3>2, <1>7
      <4>2. \A i \in Nat : ~(i \in 1 .. Len(disk[v][s]) /\ i \in 1 .. Len(disk[w][s]))
        BY <4>1
      <4>. QED
        BY <4>2, <1>7, AgreeFacts
    <3>. QED
      BY <3>1, <3>2
  <2>. QED
    BY <2>1 DEF Agreed
<1>10. Sealed
  <2>1. ASSUME NEW v \in Vol, NEW t \in Kept(v), NEW s \in 0 .. t - 1
        PROVE  s \in Kept(v) /\ disk[v][s] # <<>> /\ Longest(v, s)
    <3>1. v \in Holders /\ Kept(v) = 0 .. n - 1 /\ t \in 0 .. n - 1
      BY <1>3
    <3>2. s \in 0 .. n - 1
      BY <3>1, <1>1
    <3>3. s \in Kept(v) /\ s \in Seg
      BY <3>1, <3>2, <1>4
    <3>. QED
      BY <3>3, <1>7a
  <2>. QED
    BY <2>1, <1>2 DEF Sealed
<1>11. Reached /\ OneWriter /\ OneSource
  BY <1>2 DEF Reached, OneWriter, Handles, OpenLongest, Appending, Undoing,
              OneSource, Resting, Scanning, Sourced, Copying
<1>. QED
  BY <1>8, <1>9, <1>10, <1>11 DEF Aligned, OneHistory

\* Platters that agree, with everything open, are copies of each other.
LEMMA InLockstep ==
    ASSUME JournalInv, Aligned
    PROVE  Lockstep
<1>0. /\ TypeOK /\ AbsentIsEmpty /\ OpenExists /\ OneHistory /\ OpenLongest /\ Appending /\ AckedDurable
      /\ disk \in [Vol -> [Seg -> File]] /\ present \in [Vol -> SUBSET Seg] /\ segment \in Nat
  BY DiskFiles DEF JournalInv, Ordered, Aligned, OneWriter, TypeOK
<1>1. ASSUME fphase = "idle", NEW v \in open, NEW w \in open
      PROVE  v \in Vol /\ disk[v] = disk[w] /\ present[v] = present[w]
  <2>1. /\ v \in Vol /\ w \in Vol /\ Within
        /\ \A s \in Seg : Longest(v, s) /\ Longest(w, s)
        /\ \A s \in 0 .. segment : s \in present[v] /\ s \in present[w]
    BY <1>0, <1>1, OpenCovers
  <2>2. present[v] = 0 .. segment /\ present[w] = 0 .. segment
    BY <2>1 DEF Within
  <2>3. ASSUME NEW s \in Seg PROVE disk[v][s] = disk[w][s]
    <3>1. Len(disk[v][s]) <= Len(disk[w][s]) /\ Len(disk[w][s]) <= Len(disk[v][s])
      BY <2>1 DEF Longest
    <3>2. /\ disk[v][s] \in File /\ disk[w][s] \in File /\ Len(disk[v][s]) \in Nat /\ Len(disk[w][s]) \in Nat
          /\ AgreeOnPrefix(disk[v][s], disk[w][s])
      BY <2>1, <1>0, DiskFiles DEF OneHistory, Agreed
    <3>3. Len(disk[v][s]) = Len(disk[w][s])
      BY <3>1, <3>2
    <3>. QED
      BY <3>2, <3>3, AgreeFacts
  <2>4. disk[v] = disk[w]
    BY <2>1, <2>3, <1>0
  <2>. QED
    BY <2>1, <2>2, <2>4
<1>2. ASSUME fphase = "idle", NEW r \in Rec, rec[r] = "acked", NEW v \in open PROVE OnDisk(v, r)
  <2>1. /\ v \in Vol /\ \A s \in Seg : Longest(v, s)
    BY <1>0, <1>2, OpenCovers
  <2>2. PICK u \in Vol : OnDisk(u, r)
    BY <1>0, <1>2 DEF AckedDurable
  <2>3. PICK s \in Seg : Holds(disk[u][s], r)
    BY <2>2, OnDiskHolds
  <2>4. /\ disk[u][s] \in File /\ disk[v][s] \in File /\ Len(disk[u][s]) <= Len(disk[v][s])
        /\ AgreeOnPrefix(disk[u][s], disk[v][s])
    BY <2>1, <1>0 DEF OneHistory, Agreed, Longest
  <2>5. Holds(disk[v][s], r)
    BY <2>3, <2>4, HoldsLonger
  <2>. QED
    BY <2>1, <2>5, OnDiskHolds
<1>. QED
  BY <1>1, <1>2 DEF Lockstep, LiveReplicasAgree, AckedOnLiveReplicas, Settled

-----------------------------------------------------------------------------
\* A byte of record r is at offset k of segment s.
Lies(r, s, k) == \E v \in Vol : k \in 1 .. Len(disk[v][s]) /\ disk[v][s][k][1] = r

\* The record is in the queue.
Queued(r) == \E i \in 1 .. Len(pending) : pending[i] = r

\* What has not been flushed is on no platter.
Unwritten ==
    \A r \in Rec : rec[r] \in {"new", "waiting"} \/ Queued(r) => \A s \in Seg, k \in Nat : ~Lies(r, s, k)

\* A record is queued, and flushed, once.
NoRepeats ==
    /\ \A i, j \in 1 .. Len(pending) : pending[i] = pending[j] => i = j
    /\ \A i, j \in 1 .. Len(batch) : batch[i] = batch[j] => i = j

\* A record of the batch is only where this flush puts it.
InFlight ==
    fphase = "write" =>
        \A j \in 1 .. Len(batch), s \in Seg, k \in Nat :
            Lies(batch[j], s, k) =>
                s = segment /\ \A v \in open : k = before[v] + 2 * j - 1 \/ k = before[v] + 2 * j

\* The log is made of acknowledged records.
LogAcked == \A i \in 1 .. Len(log) : rec[log[i]] = "acked"

\* One place comes before another.
Behind(s1, k1, s2, k2) == s1 < s2 \/ (s1 = s2 /\ k1 < k2)

\* The places of the acknowledged records are in the order of the log.
InOrder ==
    \A i, j \in 1 .. Len(log) : i < j =>
        \A s1, s2 \in Seg, k1, k2 \in Nat :
            Lies(log[i], s1, k1) /\ Lies(log[j], s2, k2) => Behind(s1, k1, s2, k2)

Sequenced == Unwritten /\ NoRepeats /\ InFlight /\ LogAcked /\ InOrder

\* The step puts no record where it was not.
NothingNew == \A r \in Rec, s \in Seg, k \in Nat : Lies(r, s, k)' => Lies(r, s, k)

\* What is not written anew keeps its order.
LEMMA InOrderKept ==
    ASSUME TypeOK, InOrder, NothingNew, log' = log
    PROVE  InOrder'
<1>1. \A i \in 1 .. Len(log) : log[i] \in Rec
  BY LenProperties DEF TypeOK
<1>2. ASSUME NEW i \in 1 .. Len(log), NEW j \in 1 .. Len(log), i < j,
             NEW s1 \in Seg, NEW s2 \in Seg, NEW k1 \in Nat, NEW k2 \in Nat,
             Lies(log[i], s1, k1)', Lies(log[j], s2, k2)'
      PROVE  Behind(s1, k1, s2, k2)
  <2>1. Lies(log[i], s1, k1) /\ Lies(log[j], s2, k2)
    BY <1>2, <1>1 DEF NothingNew
  <2>. QED
    BY <1>2, <2>1 DEF InOrder
<1>. QED
  BY <1>2 DEF InOrder

\* A step that writes nothing new and acknowledges nothing keeps the order.
LEMMA SequencedKept ==
    ASSUME TypeOK, Sequenced, NothingNew,
           fphase' = "write" => /\ fphase = "write" /\ segment' = segment /\ before' = before
                                /\ open' \subseteq open,
           log' = log, pending' = pending \/ pending' = <<>>, batch' = batch \/ batch' = <<>>,
           \A r \in Rec : rec'[r] \in {"new", "waiting"} => rec[r] \in {"new", "waiting"},
           \A r \in Rec : rec[r] = "acked" => rec'[r] = "acked"
    PROVE  Sequenced'
<1>0. /\ Unwritten /\ NoRepeats /\ InFlight /\ LogAcked /\ InOrder
      /\ pending \in Seq(Rec) /\ batch \in Seq(Rec) /\ log \in Seq(Rec)
  BY DEF Sequenced, TypeOK
<1>1. /\ \A i \in 1 .. Len(log) : log[i] \in Rec
      /\ \A i \in 1 .. Len(batch) : batch[i] \in Rec
      /\ Len(<<>>) = 0 /\ 1 .. 0 = {}
  BY <1>0, LenProperties
<1>2. Unwritten'
  <2>1. ASSUME NEW r \in Rec, rec'[r] \in {"new", "waiting"} \/ Queued(r)', NEW s \in Seg, NEW k \in Nat
        PROVE  ~Lies(r, s, k)'
    <3>1. Queued(r)' => Queued(r)
      BY <1>1 DEF Queued
    <3>2. ~Lies(r, s, k)
      BY <2>1, <3>1, <1>0 DEF Unwritten
    <3>. QED
      BY <3>2 DEF NothingNew
  <2>. QED
    BY <2>1 DEF Unwritten
<1>3. NoRepeats'
  BY <1>0, <1>1 DEF NoRepeats
<1>4. InFlight'
  <2>1. ASSUME fphase' = "write", batch' = batch, NEW j \in 1 .. Len(batch), NEW s \in Seg, NEW k \in Nat, Lies(batch[j], s, k)'
        PROVE  s = segment /\ \A v \in open : k = before[v] + 2 * j - 1 \/ k = before[v] + 2 * j
    <3>1. Lies(batch[j], s, k)
      BY <2>1, <1>1 DEF NothingNew
    <3>. QED
      BY <2>1, <3>1, <1>0 DEF InFlight
  <2>. QED
    BY <2>1, <1>1 DEF InFlight
<1>5. LogAcked'
  BY <1>0, <1>1 DEF LogAcked
<1>6. InOrder'
  BY <1>0, InOrderKept
<1>. QED
  BY <1>2, <1>3, <1>4, <1>5, <1>6 DEF Sequenced

\* Files that stay, or lose their end, hold nothing new.
LEMMA NothingNewKept ==
    ASSUME disk' = disk
    PROVE  NothingNew
  BY DEF NothingNew, Lies

\* A copy and a rollback write nothing that was not there.
LEMMA NothingNewMoved ==
    ASSUME TypeOK, AbsentIsEmpty, Seeding,
           \/ \E v \in Vol : Rollback(v)
           \/ \E w \in from : SeedCopy(w) \/ \E s \in Seg : \E n \in 0 .. Len(disk[w][s]) : SeedCopyFail(w, s, n)
    PROVE  NothingNew
<1>1. ASSUME NEW u \in Vol, NEW s \in Seg
      PROVE  \/ disk'[u][s] = disk[u][s]
             \/ \E w \in Vol : \E m \in 0 .. Len(disk[w][s]) : disk'[u][s] = SubSeq(disk[w][s], 1, m)
  <2>1. ASSUME NEW v \in Vol, Rollback(v)
        PROVE  \/ disk'[u][s] = disk[u][s]
               \/ \E m \in 0 .. Len(disk[u][s]) : disk'[u][s] = SubSeq(disk[u][s], 1, m)
    <3>1. disk' = disk \/ disk' = [disk EXCEPT ![v][segment] = TruncateTo(@, before[v])]
      BY <2>1 DEF Rollback
    <3>2. \/ disk'[u][s] = disk[u][s]
          \/ u = v /\ s = segment /\ disk'[u][s] = TruncateTo(disk[u][s], before[v])
      BY <3>1 DEF TypeOK
    <3>3. Len(disk[u][s]) \in Nat /\ before[v] \in Nat
      BY DiskFiles DEF TypeOK
    <3>4. CASE u = v /\ s = segment /\ before[v] < Len(disk[u][s])
      <4>1. before[v] \in 0 .. Len(disk[u][s])
        BY <3>3, <3>4
      <4>2. TruncateTo(disk[u][s], before[v]) = SubSeq(disk[u][s], 1, before[v])
        BY <3>3, <3>4 DEF TruncateTo
      <4>. QED
        BY <3>2, <4>1, <4>2
    <3>5. CASE ~(before[v] < Len(disk[u][s]))
      <4>1. TruncateTo(disk[u][s], before[v]) = disk[u][s]
        BY <3>3, <3>5 DEF TruncateTo
      <4>. QED
        BY <3>2, <4>1
    <3>. QED
      BY <3>2, <3>4, <3>5
  <2>2. ASSUME NEW w \in from,
               SeedCopy(w) \/ \E t \in Seg : \E n \in 0 .. Len(disk[w][t]) : SeedCopyFail(w, t, n)
        PROVE  \/ disk'[u][s] = disk[u][s]
               \/ \E m \in 0 .. Len(disk[w][s]) : disk'[u][s] = SubSeq(disk[w][s], 1, m)
    <3>1. CASE u # target
      BY <3>1, <2>2, CopyCells
    <3>2. CASE u = target
      BY <3>2, <2>2, CopyShape
    <3>. QED
      BY <3>1, <3>2
  <2>3. \A w \in from : w \in Vol
    BY DEF TypeOK
  <2>. QED
    BY <2>1, <2>2, <2>3
<1>2. ASSUME NEW r \in Rec, NEW s \in Seg, NEW k \in Nat, NEW u \in Vol,
             k \in 1 .. Len(disk'[u][s]), disk'[u][s][k][1] = r
      PROVE  Lies(r, s, k)
  <2>1. CASE disk'[u][s] = disk[u][s]
    BY <2>1, <1>2 DEF Lies
  <2>2. ASSUME NEW w \in Vol, NEW m \in 0 .. Len(disk[w][s]), disk'[u][s] = SubSeq(disk[w][s], 1, m)
        PROVE  Lies(r, s, k)
    <3>1. disk[w][s] \in File /\ Len(disk[w][s]) \in Nat
      BY DiskFiles
    <3>2. k \in 1 .. m /\ disk'[u][s][k] = disk[w][s][k] /\ k \in 1 .. Len(disk[w][s])
      BY <3>1, <2>2, <1>2, PrefixFacts
    <3>. QED
      BY <3>2, <1>2 DEF Lies
  <2>. QED
    BY <1>1, <2>1, <2>2
<1>. QED
  BY <1>2 DEF NothingNew, Lies

\* A call of append() queues a record that is nowhere yet.
LEMMA SequencedAppend ==
    ASSUME Ordered, Sequenced, AppendNext
    PROVE  Sequenced'
<1>0. TypeOK /\ InQueue /\ pending \in Seq(Rec) /\ Len(pending) \in Nat
  BY LenProperties DEF Ordered, TypeOK
<1>. PICK r \in Rec : AppendSkipped(r) \/ AppendQueue(r) \/ AppendWait(r) \/ AppendRefuse(r)
  BY DEF AppendNext
<1>1. /\ disk' = disk /\ segment' = segment /\ log' = log /\ batch' = batch
      /\ fphase' = fphase /\ before' = before /\ open' = open
  BY DEF AppendSkipped, AppendQueue, AppendWait, AppendRefuse, diskVars, setVars, flushVars
<1>2. rec[r] \in {"new", "waiting"} /\ \E x \in RecStatus : x # "new" /\ rec' = [rec EXCEPT ![r] = x]
  BY DEF AppendSkipped, AppendQueue, AppendWait, AppendRefuse, RecStatus
<1>3. \A x \in Rec : /\ rec'[x] \in {"new", "waiting"} => rec[x] \in {"new", "waiting"}
                     /\ rec[x] = "acked" => rec'[x] = "acked"
  BY <1>0, <1>2 DEF TypeOK
<1>4. NothingNew
  BY <1>1, NothingNewKept
<1>5. CASE pending' = pending
  BY <1>0, <1>1, <1>3, <1>4, <1>5, SequencedKept
<1>6. CASE pending' # pending
  <2>1. pending' = Append(pending, r)
    BY <1>6 DEF AppendSkipped, AppendQueue, AppendWait, AppendRefuse
  <2>2. /\ pending' \in Seq(Rec) /\ Len(pending') = Len(pending) + 1
        /\ \A i \in 1 .. Len(pending) : pending'[i] = pending[i] /\ pending[i] # r
        /\ pending'[Len(pending) + 1] = r
    BY <2>1, <1>0, <1>2, AppendProperties DEF InQueue
  <2>3. /\ Unwritten /\ NoRepeats /\ InFlight /\ LogAcked /\ InOrder
    BY DEF Sequenced
  <2>4. Unwritten'
    <3>1. ASSUME NEW x \in Rec, rec'[x] \in {"new", "waiting"} \/ Queued(x)'
          PROVE  rec[x] \in {"new", "waiting"} \/ Queued(x)
      BY <3>1, <2>2, <1>0, <1>2, <1>3 DEF Queued
    <3>2. ASSUME NEW x \in Rec, rec'[x] \in {"new", "waiting"} \/ Queued(x)', NEW s \in Seg, NEW k \in Nat
          PROVE  ~Lies(x, s, k)'
      BY <3>1, <3>2, <2>3, <1>1 DEF Unwritten, Lies
    <3>. QED
      BY <3>2 DEF Unwritten
  <2>5. NoRepeats'
    <3>1. ASSUME NEW i \in 1 .. Len(pending) + 1, NEW j \in 1 .. Len(pending) + 1, pending'[i] = pending'[j]
          PROVE  i = j
      <4>1. (i \in 1 .. Len(pending) \/ i = Len(pending) + 1) /\ (j \in 1 .. Len(pending) \/ j = Len(pending) + 1)
        BY <1>0
      <4>. QED
        BY <4>1, <3>1, <2>2, <2>3 DEF NoRepeats
    <3>. QED
      BY <3>1, <2>2, <2>3, <1>1 DEF NoRepeats
  <2>6. InFlight'
    BY <2>3, <1>1 DEF InFlight, Lies
  <2>7. LogAcked'
    <3>1. \A i \in 1 .. Len(log) : log[i] \in Rec
      BY <1>0, LenProperties DEF TypeOK
    <3>. QED
      BY <3>1, <2>3, <1>1, <1>3 DEF LogAcked
  <2>8. InOrder'
    BY <2>3, <1>0, <1>1, <1>4, InOrderKept
  <2>. QED
    BY <2>4, <2>5, <2>6, <2>7, <2>8 DEF Sequenced
<1>. QED
  BY <1>5, <1>6

\* A flush takes the queue: its batch is on no platter.
LEMMA SequencedStart ==
    ASSUME Ordered, Sequenced, FlushStart
    PROVE  Sequenced'
<1>0. /\ Unwritten /\ NoRepeats /\ LogAcked /\ InOrder
      /\ pending \in Seq(Rec) /\ \A i \in 1 .. Len(pending) : pending[i] \in Rec
  BY LenProperties DEF Ordered, TypeOK, Sequenced
<1>1. /\ disk' = disk /\ log' = log /\ rec' = rec /\ pending' = <<>> /\ batch' = pending
  BY DEF FlushStart, diskVars
<1>2. Len(<<>>) = 0 /\ 1 .. 0 = {}
  OBVIOUS
<1>3. Unwritten'
  BY <1>0, <1>1, <1>2 DEF Unwritten, Queued, Lies
<1>4. NoRepeats'
  BY <1>0, <1>1, <1>2 DEF NoRepeats
<1>5. InFlight'
  <2>1. ASSUME NEW j \in 1 .. Len(pending), NEW s \in Seg, NEW k \in Nat PROVE ~Lies(batch[j], s, k)'
    <3>1. pending[j] \in Rec /\ Queued(pending[j])
      BY <1>0 DEF Queued
    <3>2. ~Lies(pending[j], s, k)
      BY <3>1, <1>0 DEF Unwritten
    <3>. QED
      BY <3>2, <1>1 DEF Lies
  <2>. QED
    BY <2>1, <1>1 DEF InFlight
<1>6. LogAcked' /\ InOrder'
  BY <1>0, <1>1 DEF LogAcked, InOrder, Lies
<1>. QED
  BY <1>3, <1>4, <1>5, <1>6 DEF Sequenced

\* The line a byte belongs to.
LEMMA LineOf ==
    ASSUME NEW i \in Nat
    PROVE  i = 2 * ((i + 1) \div 2) - 1 \/ i = 2 * ((i + 1) \div 2)
  OBVIOUS

\* One replica's write, whole or cut, puts every record of the batch at its own place.
LEMMA SequencedGrown ==
    ASSUME Ordered, Whole, Aligned, Sequenced, fphase = "write", fphase' = fphase,
           NEW v \in left, NEW n \in 0 .. 2 * Len(batch),
           disk' = [disk EXCEPT ![v][segment] = @ \o SubSeq(Body(batch), 1, n)],
           segment' = segment, batch' = batch, before' = before, log' = log, rec' = rec, pending' = pending,
           open' \subseteq open
    PROVE  Sequenced'
<1>0. TypeOK /\ InQueue /\ Unwritten /\ NoRepeats /\ InFlight /\ LogAcked /\ InOrder
  BY DEF Ordered, Sequenced
<1>1. /\ Landing /\ Appending /\ v \in open /\ open \subseteq Vol /\ v \in Vol /\ before[v] \in Nat
      /\ batch \in Seq(Rec) /\ Len(batch) \in Nat /\ \A j \in 1 .. Len(batch) : batch[j] \in Rec
      /\ \A i \in 1 .. Len(pending) : pending[i] \in Rec
      /\ \A i \in 1 .. Len(log) : log[i] \in Rec
  BY <1>0, LenProperties DEF Ordered, Flushing, Whole, Aligned, OneWriter, TypeOK
<1>. DEFINE b == before[v]
<1>2. Len(disk[v][segment]) = b
  BY <1>1 DEF Landing
<1>3. /\ \A u \in Vol, s \in Seg : u # v \/ s # segment => disk'[u][s] = disk[u][s]
      /\ disk'[v][segment] \in File /\ Len(disk'[v][segment]) = b + n
      /\ \A i \in 1 .. b : disk'[v][segment][i] = disk[v][segment][i]
      /\ \A i \in b + 1 .. b + n : disk'[v][segment][i] = Body(batch)[i - b]
  BY <1>0, <1>1, <1>2, GrownCells
<1>. HIDE DEF b
<1>4. ASSUME NEW i \in 1 .. 2 * Len(batch)
      PROVE  \E j \in 1 .. Len(batch) : Body(batch)[i][1] = batch[j] /\ (i = 2 * j - 1 \/ i = 2 * j)
  <2>1. (i + 1) \div 2 \in 1 .. Len(batch)
    BY <1>1, Halves
  <2>2. i = 2 * ((i + 1) \div 2) - 1 \/ i = 2 * ((i + 1) \div 2)
    <3>1. i \in Nat
      BY <1>1
    <3>. QED
      BY <3>1, LineOf
  <2>3. Body(batch)[i][1] = batch[(i + 1) \div 2]
    BY DEF Body
  <2>. QED
    BY <2>1, <2>2, <2>3
<1>5. ASSUME NEW r \in Rec, NEW s \in Seg, NEW k \in Nat, Lies(r, s, k)', ~Lies(r, s, k)
      PROVE  s = segment /\ \E j \in 1 .. Len(batch) : r = batch[j] /\ (k = b + 2 * j - 1 \/ k = b + 2 * j)
  <2>1. PICK u \in Vol : k \in 1 .. Len(disk'[u][s]) /\ disk'[u][s][k][1] = r
    BY <1>5 DEF Lies
  <2>2. ~(k \in 1 .. Len(disk[u][s]) /\ disk[u][s][k][1] = r)
    BY <1>5 DEF Lies
  <2>3. u = v /\ s = segment
    BY <2>1, <2>2, <1>3
  <2>4. b \in Nat /\ n \in Nat /\ n <= 2 * Len(batch)
    BY <1>1 DEF b
  <2>5. ~(k <= b)
    BY <2>1, <2>2, <2>3, <2>4, <1>2, <1>3
  <2>6. k \in b + 1 .. b + n /\ k - b \in 1 .. 2 * Len(batch) /\ Body(batch)[k - b][1] = r
    <3>1. k \in 1 .. b + n
      BY <2>1, <2>3, <1>3
    <3>2. k \in b + 1 .. b + n /\ k - b \in 1 .. 2 * Len(batch)
      BY <3>1, <2>4, <2>5, <1>1
    <3>3. disk'[v][segment][k] = Body(batch)[k - b]
      BY <3>2, <1>3
    <3>. QED
      BY <3>2, <3>3, <2>1, <2>3
  <2>7. PICK j \in 1 .. Len(batch) : r = batch[j] /\ (k - b = 2 * j - 1 \/ k - b = 2 * j)
    BY <2>6, <1>4
  <2>8. k = b + 2 * j - 1 \/ k = b + 2 * j
    <3>1. k - b = 2 * j - 1 \/ k - b = 2 * j
      BY <2>7
    <3>2. j \in Int
      BY <1>1
    <3>3. k \in Int /\ b \in Int
      BY <2>4
    <3>. QED
      BY <3>1, <3>2, <3>3
  <2>. QED
    BY <2>3, <2>7, <2>8
<1>6. Unwritten'
  <2>1. ASSUME NEW r \in Rec, rec[r] \in {"new", "waiting"} \/ Queued(r), NEW s \in Seg, NEW k \in Nat, Lies(r, s, k)'
        PROVE  FALSE
    <3>1. ~Lies(r, s, k)
      BY <2>1, <1>0 DEF Unwritten
    <3>2. PICK j \in 1 .. Len(batch) : r = batch[j]
      BY <2>1, <3>1, <1>5
    <3>. QED
      BY <2>1, <3>2, <1>0 DEF InQueue, Queued
  <2>2. \A r \in Rec : Queued(r)' <=> Queued(r)
    BY DEF Queued
  <2>. QED
    BY <2>1, <2>2 DEF Unwritten
<1>7. InFlight'
  <2>1. ASSUME NEW j \in 1 .. Len(batch), NEW s \in Seg, NEW k \in Nat, Lies(batch[j], s, k)', NEW x \in open
        PROVE  s = segment /\ (k = before[x] + 2 * j - 1 \/ k = before[x] + 2 * j)
    <3>1. Lies(batch[j], s, k)' <=> \E u \in Vol : k \in 1 .. Len(disk'[u][s]) /\ disk'[u][s][k][1] = batch[j]
      BY DEF Lies
    <3>2. CASE Lies(batch[j], s, k)
      BY <3>2, <1>0 DEF InFlight
    <3>3. CASE ~Lies(batch[j], s, k)
      <4>1. PICK i \in 1 .. Len(batch) : /\ batch[j] = batch[i] /\ s = segment
                                         /\ k = b + 2 * i - 1 \/ k = b + 2 * i
        BY <2>1, <3>3, <1>1, <1>5
      <4>2. i = j
        BY <4>1, <1>0 DEF NoRepeats
      <4>3. before[x] = b
        BY <1>1 DEF Appending, b
      <4>. QED
        BY <4>1, <4>2, <4>3
    <3>. QED
      BY <3>2, <3>3
  <2>2. ASSUME NEW j \in 1 .. Len(batch), NEW s \in Seg, NEW k \in Nat, Lies(batch[j], s, k)'
        PROVE  s = segment /\ \A x \in open : k = before[x] + 2 * j - 1 \/ k = before[x] + 2 * j
    BY <2>1, <2>2, <1>1
  <2>. QED
    BY <2>2 DEF InFlight
<1>8. InOrder'
  <2>1. ASSUME NEW i \in 1 .. Len(log), NEW s \in Seg, NEW k \in Nat, Lies(log[i], s, k)' PROVE Lies(log[i], s, k)
    <3>1. ASSUME ~Lies(log[i], s, k) PROVE FALSE
      <4>1. PICK j \in 1 .. Len(batch) : log[i] = batch[j]
        BY <2>1, <3>1, <1>1, <1>5
      <4>. QED
        BY <4>1, <1>0 DEF InQueue, LogAcked
    <3>. QED
      BY <3>1
  <2>. QED
    BY <2>1, <1>0 DEF InOrder
<1>9. NoRepeats' /\ LogAcked'
  BY <1>0 DEF NoRepeats, LogAcked
<1>. QED
  BY <1>6, <1>7, <1>8, <1>9 DEF Sequenced

\* The two bytes of a line behind an offset.
LEMMA WithinLine ==
    ASSUME NEW b \in Nat, NEW j \in Nat, j >= 1, NEW k \in Nat, k = b + 2 * j - 1 \/ k = b + 2 * j
    PROVE  b < k
  OBVIOUS

\* The bytes of one line come before those of a later one.
LEMMA LinesApart ==
    ASSUME NEW b \in Nat, NEW i \in Nat, NEW j \in Nat, i < j, NEW k1 \in Nat, NEW k2 \in Nat,
           k1 = b + 2 * i - 1 \/ k1 = b + 2 * i, k2 = b + 2 * j - 1 \/ k2 = b + 2 * j
    PROVE  k1 < k2
  OBVIOUS

\* The batch is acknowledged: every record of the log lies before where it lies.
LEMMA SequencedAck ==
    ASSUME Ordered, Whole, Aligned, Sequenced, fphase = "write", left = {}, durable # {},
           disk' = disk, pending' = pending, log' = log \o batch, FlushEnd("acked")
    PROVE  Sequenced'
<1>0. /\ TypeOK /\ AbsentIsEmpty /\ InQueue /\ Unwritten /\ NoRepeats /\ InFlight /\ LogAcked /\ InOrder
      /\ Appending /\ Flushing
  BY DEF Ordered, Sequenced, Aligned, OneWriter
<1>1. /\ batch \in Seq(Rec) /\ Len(batch) \in Nat /\ \A j \in 1 .. Len(batch) : batch[j] \in Rec
      /\ log \in Seq(Rec) /\ Len(log) \in Nat /\ \A i \in 1 .. Len(log) : log[i] \in Rec
      /\ \A i \in 1 .. Len(pending) : pending[i] \in Rec
  BY <1>0, LenProperties DEF TypeOK
<1>2. /\ fphase' = "idle" /\ batch' = <<>> /\ Len(<<>>) = 0
      /\ rec' = [r \in Rec |-> IF \E i \in 1 .. Len(batch) : batch[i] = r THEN "acked" ELSE rec[r]]
  BY DEF FlushEnd
<1>. DEFINE m == Len(log)
<1>3. /\ Len(log') = m + Len(batch) /\ m \in Nat
      /\ \A i \in 1 .. m : log'[i] = log[i]
      /\ \A i \in m + 1 .. m + Len(batch) : i - m \in 1 .. Len(batch) /\ log'[i] = batch[i - m]
      /\ \A i \in 1 .. m + Len(batch) : i \in 1 .. m \/ i \in m + 1 .. m + Len(batch)
  BY <1>1, ConcatProperties
<1>4. \A r \in Rec, s \in Seg, k \in Nat : Lies(r, s, k)' <=> Lies(r, s, k)
  BY DEF Lies
<1>. HIDE DEF m
<1>5. PICK v \in Vol : v \in open
  <2>1. open = durable /\ open \subseteq Vol
    BY <1>0 DEF Flushing, TypeOK
  <2>. QED
    BY <2>1
<1>6. /\ before[v] \in Nat /\ Within /\ segment \in Seg /\ segment \in Nat
      /\ \A u \in Vol, s \in Seg : disk[u][s] \in File /\ Len(disk[u][s]) \in Nat
      /\ \A u \in Vol : /\ Len(disk[u][segment]) <= before[v] + 2 * Len(batch)
                        /\ \A i \in before[v] + 1 .. Len(disk[u][segment]) :
                              disk[u][segment][i] = Body(batch)[i - before[v]]
  BY <1>0, <1>5, DiskFiles DEF Appending, TypeOK
<1>7. ASSUME NEW i \in 1 .. Len(log), NEW s \in Seg, NEW k \in Nat, Lies(log[i], s, k)
      PROVE  s < segment \/ (s = segment /\ k <= before[v])
  <2>1. PICK u \in Vol : k \in 1 .. Len(disk[u][s]) /\ disk[u][s][k][1] = log[i]
    BY <1>7 DEF Lies
  <2>2. s \in present[u]
    <3>1. ASSUME s \notin present[u] PROVE FALSE
      <4>1. Len(disk[u][s]) = 0
        BY <3>1, <1>0, DiskFiles DEF AbsentIsEmpty
      <4>. QED
        BY <4>1, <2>1
    <3>. QED
      BY <3>1
  <2>3. s \in 0 .. segment
    BY <2>2, <1>6 DEF Within
  <2>4. ASSUME s = segment, ~(k <= before[v]) PROVE FALSE
    <3>1. k \in before[v] + 1 .. Len(disk[u][segment]) /\ k - before[v] \in 1 .. 2 * Len(batch)
      <4>1. k \in Nat /\ k <= Len(disk[u][segment])
        BY <2>1, <2>4, <1>6
      <4>2. Len(disk[u][segment]) <= before[v] + 2 * Len(batch) /\ Len(disk[u][segment]) \in Nat
        BY <1>6
      <4>. QED
        BY <4>1, <4>2, <2>4, <1>1, <1>6
    <3>2. Body(batch)[k - before[v]][1] = log[i]
      BY <3>1, <2>1, <2>4, <1>6
    <3>3. PICK j \in 1 .. Len(batch) : Body(batch)[k - before[v]][1] = batch[j]
      BY <3>1, <1>1, BodyFacts
    <3>. QED
      BY <3>2, <3>3, <1>0, <1>7 DEF InQueue, LogAcked
  <2>. QED
    BY <2>3, <2>4, <1>6
<1>8. ASSUME NEW j \in 1 .. Len(batch), NEW s \in Seg, NEW k \in Nat, Lies(batch[j], s, k)
      PROVE  s = segment /\ (k = before[v] + 2 * j - 1 \/ k = before[v] + 2 * j)
  BY <1>0, <1>5, <1>8 DEF InFlight
<1>9. InOrder'
  <2>1. ASSUME NEW i \in 1 .. m + Len(batch), NEW j \in 1 .. m + Len(batch), i < j,
               NEW s1 \in Seg, NEW s2 \in Seg, NEW k1 \in Nat, NEW k2 \in Nat,
               Lies(log'[i], s1, k1), Lies(log'[j], s2, k2)
        PROVE  Behind(s1, k1, s2, k2)
    <3>1. CASE i \in 1 .. m /\ j \in 1 .. m
      <4>1. Lies(log[i], s1, k1) /\ Lies(log[j], s2, k2)
        BY <3>1, <2>1, <1>3
      <4>. QED
        BY <4>1, <3>1, <2>1, <1>0 DEF InOrder, m
    <3>2. CASE i \in 1 .. m /\ j \in m + 1 .. m + Len(batch)
      <4>1. Lies(log[i], s1, k1) /\ Lies(batch[j - m], s2, k2) /\ j - m \in 1 .. Len(batch)
        BY <3>2, <2>1, <1>3
      <4>2. s1 < segment \/ (s1 = segment /\ k1 <= before[v])
        BY <4>1, <3>2, <1>7 DEF m
      <4>3. s2 = segment /\ (k2 = before[v] + 2 * (j - m) - 1 \/ k2 = before[v] + 2 * (j - m))
        BY <4>1, <1>8
      <4>4. before[v] < k2
        <5>1. j - m \in Nat /\ j - m >= 1
          BY <4>1, <1>1
        <5>. QED
          BY <5>1, <4>3, <1>6, WithinLine
      <4>5. s1 = segment => k1 < k2
        BY <4>2, <4>4, <1>6
      <4>. QED
        BY <4>2, <4>3, <4>5 DEF Behind
    <3>3. CASE i \in m + 1 .. m + Len(batch) /\ j \in m + 1 .. m + Len(batch)
      <4>1. /\ Lies(batch[i - m], s1, k1) /\ i - m \in 1 .. Len(batch)
            /\ Lies(batch[j - m], s2, k2) /\ j - m \in 1 .. Len(batch)
        BY <3>3, <2>1, <1>3
      <4>2. /\ s1 = segment /\ (k1 = before[v] + 2 * (i - m) - 1 \/ k1 = before[v] + 2 * (i - m))
            /\ s2 = segment /\ (k2 = before[v] + 2 * (j - m) - 1 \/ k2 = before[v] + 2 * (j - m))
        BY <4>1, <1>8
      <4>3. k1 < k2
        <5>1. /\ i - m \in Nat /\ i - m >= 1 /\ j - m \in Nat /\ j - m >= 1
              /\ i - m < j - m
          <6>1. i \in Int /\ j \in Int /\ m \in Int /\ i < j
            BY <3>3, <2>1, <1>1, <1>3
          <6>2. i - m \in Nat /\ i - m >= 1 /\ j - m \in Nat /\ j - m >= 1
            BY <4>1, <1>1
          <6>. QED
            BY <6>1, <6>2
        <5>. QED
          BY <5>1, <4>2, <1>6, LinesApart
      <4>. QED
        BY <4>2, <4>3 DEF Behind
    <3>. QED
      BY <3>1, <3>2, <3>3, <2>1, <1>1, <1>3
  <2>2. \A i \in 1 .. m + Len(batch), s \in Seg, k \in Nat : Lies(log[i], s, k)' <=> Lies(log'[i], s, k)
    BY DEF Lies
  <2>. QED
    BY <2>1, <2>2, <1>3 DEF InOrder
<1>10. LogAcked'
  <2>1. ASSUME NEW i \in 1 .. m + Len(batch) PROVE rec'[log'[i]] = "acked"
    <3>1. CASE i \in 1 .. m
      BY <3>1, <1>0, <1>1, <1>2, <1>3 DEF LogAcked, m
    <3>2. CASE i \in m + 1 .. m + Len(batch)
      <4>1. log'[i] = batch[i - m] /\ i - m \in 1 .. Len(batch)
        BY <3>2, <1>3
      <4>. QED
        BY <4>1, <1>1, <1>2
    <3>. QED
      BY <3>1, <3>2, <2>1, <1>3
  <2>. QED
    BY <2>1, <1>3 DEF LogAcked
<1>11. Unwritten'
  <2>1. ASSUME NEW r \in Rec, rec'[r] \in {"new", "waiting"} \/ Queued(r)'
        PROVE  rec[r] \in {"new", "waiting"} \/ Queued(r)
    BY <2>1, <1>2 DEF Queued
  <2>2. ASSUME NEW r \in Rec, rec'[r] \in {"new", "waiting"} \/ Queued(r)', NEW s \in Seg, NEW k \in Nat
        PROVE  ~Lies(r, s, k)'
    BY <2>1, <2>2, <1>0, <1>4 DEF Unwritten
  <2>. QED
    BY <2>2 DEF Unwritten
<1>12. NoRepeats' /\ InFlight'
  BY <1>0, <1>2 DEF NoRepeats, InFlight
<1>. QED
  BY <1>9, <1>10, <1>11, <1>12 DEF Sequenced

\* Every step of a flush keeps the order.
LEMMA SequencedFlush ==
    ASSUME Ordered, Whole, Aligned, Sequenced, FlushNext
    PROVE  Sequenced'
<1>0. TypeOK /\ AbsentIsEmpty /\ Seeding /\ InQueue /\ LinesEverywhere /\ EvenFiles
  BY DEF Ordered, Whole, Aligned, OneHistory
<1>1. CASE FlushStart
  BY <1>1, SequencedStart
<1>2. ASSUME NEW v \in Vol, FlushWrite(v) PROVE Sequenced'
  <2>1. /\ fphase = "write" /\ v \in left /\ fphase' = fphase /\ open' = open
        /\ disk' = [disk EXCEPT ![v][segment] = @ \o Body(batch)]
        /\ segment' = segment /\ batch' = batch /\ before' = before /\ log' = log /\ rec' = rec /\ pending' = pending
    BY <1>2 DEF FlushWrite, setVars, queueVars
  <2>2. batch \in Seq(Rec) /\ Len(batch) \in Nat /\ Body(batch) \in Seq(Byte) /\ Len(Body(batch)) = 2 * Len(batch)
    BY <1>0, LenProperties, BodyFacts DEF TypeOK, File
  <2>3. SubSeq(Body(batch), 1, 2 * Len(batch)) = Body(batch) /\ 2 * Len(batch) \in 0 .. 2 * Len(batch)
    BY <2>2, SubSeqFull
  <2>4. disk' = [disk EXCEPT ![v][segment] = @ \o SubSeq(Body(batch), 1, 2 * Len(batch))]
    BY <2>1, <2>3
  <2>. QED
    BY <2>1, <2>3, <2>4, SequencedGrown
<1>3. ASSUME NEW v \in left, NEW n \in 0 .. 2 * Len(batch), FlushFail(v, n) PROVE Sequenced'
  <2>1. /\ fphase = "write" /\ fphase' = fphase /\ open' \subseteq open
        /\ disk' = [disk EXCEPT ![v][segment] = @ \o SubSeq(Body(batch), 1, n)]
        /\ segment' = segment /\ batch' = batch /\ before' = before /\ log' = log /\ rec' = rec /\ pending' = pending
    BY <1>3 DEF FlushFail, queueVars
  <2>. QED
    BY <2>1, SequencedGrown
<1>4. CASE FlushAck
  <2>1. /\ fphase = "write" /\ left = {} /\ durable # {} /\ FlushEnd("acked")
        /\ disk' = disk /\ pending' = pending /\ log' = log \o batch
    BY <1>4 DEF FlushAck, diskVars
  <2>. QED
    BY <2>1, SequencedAck
<1>5. ASSUME NEW bad \in SUBSET replicas, FlushAckRotate(bad) PROVE Sequenced'
  <2>1. /\ fphase = "write" /\ left = {} /\ durable # {} /\ FlushEnd("acked")
        /\ pending' = pending /\ log' = log \o batch /\ segment < MaxSegment
        /\ UNCHANGED diskVars \/ OpenSegments(replicas, bad, segment + 1)
    BY <1>5 DEF FlushAckRotate
  <2>2. segment + 1 \in Seg
    BY <2>1, <1>0, JournalAssumption DEF TypeOK, Seg
  <2>3. disk' = disk
    BY <2>1, <2>2, <1>0, OpenedWhole DEF diskVars
  <2>. QED
    BY <2>1, <2>3, SequencedAck
<1>6. CASE FlushReject \/ \E v \in Vol : Rollback(v) \/ RollbackStuck(v)
  <2>1. /\ fphase' = "rollback" /\ log' = log /\ pending' = pending /\ batch' = batch /\ rec' = rec
    BY <1>6 DEF FlushReject, Rollback, RollbackStuck, queueVars
  <2>2. NothingNew
    <3>1. CASE FlushReject \/ \E v \in Vol : RollbackStuck(v)
      <4>1. disk' = disk
        BY <3>1 DEF FlushReject, RollbackStuck, diskVars
      <4>. QED
        BY <4>1, NothingNewKept
    <3>2. CASE \E v \in Vol : Rollback(v)
      BY <3>2, <1>0, NothingNewMoved
    <3>. QED
      BY <3>1, <3>2, <1>6
  <2>. QED
    BY <2>1, <2>2, <1>0, SequencedKept
<1>7. CASE FlushRejected
  <2>1. /\ fphase' = "idle" /\ log' = log /\ pending' = pending /\ batch' = <<>> /\ disk' = disk
        /\ rec' = [r \in Rec |-> IF \E i \in 1 .. Len(batch) : batch[i] = r THEN "rejected" ELSE rec[r]]
    BY <1>7 DEF FlushRejected, FlushEnd, diskVars
  <2>2. NothingNew
    BY <2>1, NothingNewKept
  <2>3. \A r \in Rec : /\ rec'[r] \in {"new", "waiting"} => rec[r] \in {"new", "waiting"}
                       /\ rec[r] = "acked" => rec'[r] = "acked"
    BY <2>1, <1>0 DEF InQueue
  <2>. QED
    BY <2>1, <2>2, <2>3, <1>0, SequencedKept
<1>. QED
  BY <1>1, <1>2, <1>3, <1>4, <1>5, <1>6, <1>7 DEF FlushNext

\* An election writes copies only, and answers nobody.
LEMMA SequencedElect ==
    ASSUME Ordered, Whole, Aligned, Sequenced, ElectNext
    PROVE  Sequenced'
<1>0. TypeOK /\ AbsentIsEmpty /\ Seeding /\ Quiet /\ LinesEverywhere /\ EvenFiles
  BY DEF Ordered, Whole, Aligned, OneHistory
<1>1. CASE \/ ElectBegin \/ ElectScanEmpty \/ ElectLineage \/ ElectLineageFails
           \/ SeedAdopt \/ ElectKeep \/ ElectOpenFails
           \/ \E c \in SUBSET Vol : ElectChoose(c)
           \/ \E bad \in SUBSET listed : ElectScan(bad) \/ ElectAmbiguous(bad)
           \/ \E v \in todo : SeedRefuse(v) \/ SeedBegin(v)
  <2>1. /\ disk' = disk /\ segment' = segment /\ open' \subseteq open /\ rec' = rec /\ log' = log /\ pending' = pending
        /\ fphase' = fphase /\ batch' = batch /\ before' = before
    BY <1>1 DEF ElectBegin, ElectScanEmpty, ElectLineage, ElectLineageFails, SeedAdopt, ElectKeep, ElectOpenFails,
                ElectChoose, ElectScan, ElectAmbiguous, SeedRefuse, SeedBegin, diskVars, setVars, queueVars, flushVars
  <2>. QED
    BY <2>1, <1>0, NothingNewKept, SequencedKept
<1>2. ASSUME NEW w \in from, SeedCopy(w) \/ \E s \in Seg : \E n \in 0 .. Len(disk[w][s]) : SeedCopyFail(w, s, n)
      PROVE  Sequenced'
  <2>1. /\ segment' = segment /\ open' = open /\ rec' = rec /\ log' = log /\ pending' = pending
        /\ fphase' = fphase /\ batch' = batch /\ before' = before
    BY <1>2 DEF SeedCopy, SeedCopyFail, setVars, queueVars, flushVars
  <2>2. NothingNew
    BY <1>0, <1>2, NothingNewMoved
  <2>. QED
    BY <2>1, <2>2, <1>0, SequencedKept
<1>3. ASSUME NEW bad \in SUBSET NextSet, ElectOpen(bad) PROVE Sequenced'
  <2>1. /\ rec' = rec /\ log' = log /\ pending' = pending /\ batch' = batch /\ fphase' = "idle"
    BY <1>3, <1>0 DEF ElectOpen, queueVars, flushVars, Quiet
  <2>2. disk' = disk \/ \E vs : OpenSegments(vs, bad, TopSegment)
    BY <1>3 DEF ElectOpen, diskVars
  <2>3. disk' = disk
    BY <2>2, <1>0, TopSegmentIn, OpenedWhole
  <2>. QED
    BY <2>1, <2>3, <1>0, NothingNewKept, SequencedKept
<1>. QED
  BY <1>1, <1>2, <1>3 DEF ElectNext

\* The process and the fleet write nothing.
LEMMA SequencedFleet ==
    ASSUME Ordered, Sequenced, FleetNext \/ UNCHANGED vars
    PROVE  Sequenced'
<1>0. TypeOK
  BY DEF Ordered
<1>1. CASE Stopped \/ Crash
  <2>1. /\ disk' = disk /\ log' = log /\ fphase' = "idle" /\ batch' = <<>> /\ pending' = <<>>
        /\ rec' = [r \in Rec |-> IF rec[r] \in {"waiting", "pending"} THEN "lost" ELSE rec[r]]
    BY <1>1 DEF Stopped, Crash, Forget, diskVars
  <2>2. \A r \in Rec : /\ rec'[r] \in {"new", "waiting"} => rec[r] \in {"new", "waiting"}
                       /\ rec[r] = "acked" => rec'[r] = "acked"
    BY <2>1
  <2>. QED
    BY <2>1, <2>2, <1>0, NothingNewKept, SequencedKept
<1>2. CASE ~(Stopped \/ Crash)
  <2>1. /\ disk' = disk /\ segment' = segment /\ open' = open /\ rec' = rec /\ log' = log /\ pending' = pending
        /\ fphase' = fphase /\ batch' = batch /\ before' = before
    BY <1>2 DEF FleetNext, Start, Started, Stop, OnFleetChange, FleetMove, RemoveCheck, RemoveCommit,
                vars, diskVars, setVars, queueVars, flushVars
  <2>. QED
    BY <2>1, <1>0, NothingNewKept, SequencedKept
<1>. QED
  BY <1>1, <1>2

\* Every step keeps the order.
LEMMA SequencedStep ==
    ASSUME Ordered, Whole, Aligned, Sequenced, [Next]_vars
    PROVE  Sequenced'
  BY SequencedAppend, SequencedFlush, SequencedElect, SequencedFleet DEF Next

\* In the beginning a platter holds the records of earlier processes, one a segment.
LEMMA InitLies ==
    ASSUME Init, NEW r \in Rec, NEW s \in Seg, NEW k \in Nat, Lies(r, s, k)
    PROVE  s + 1 \in 1 .. Len(History) /\ r = History[s + 1]
<1>1. /\ Len(History) \in Nat /\ \A i \in 1 .. Len(History) : History[i] \in Rec
  BY JournalAssumption, LenProperties
<1>2. disk = [v \in Vol |-> [t \in Seg |-> IF t \in Kept(v) THEN Body(<<History[t + 1]>>) ELSE <<>>]] /\ Len(<<>>) = 0
  BY DEF Init
<1>3. PICK v \in Vol : k \in 1 .. Len(disk[v][s]) /\ disk[v][s][k][1] = r
  BY DEF Lies
<1>4. s \in Kept(v) /\ disk[v][s] = Body(<<History[s + 1]>>)
  BY <1>2, <1>3
<1>5. s + 1 \in 1 .. Len(History)
  BY <1>1, <1>4 DEF Kept
<1>6. <<History[s + 1]>> \in Seq(Rec) /\ Len(<<History[s + 1]>>) = 1 /\ <<History[s + 1]>>[1] = History[s + 1]
  BY <1>1, <1>5
<1>7. k \in 1 .. 2 * Len(<<History[s + 1]>>)
  BY <1>3, <1>4, <1>6, BodyFacts
<1>8. PICK j \in 1 .. Len(<<History[s + 1]>>) : Body(<<History[s + 1]>>)[k][1] = <<History[s + 1]>>[j]
  BY <1>6, <1>7, BodyFacts
<1>9. j = 1
  BY <1>6, <1>8
<1>. QED
  BY <1>3, <1>4, <1>5, <1>6, <1>8, <1>9

\* The records of an earlier process lie one per segment, in their order.
LEMMA SequencedInit ==
    ASSUME Init
    PROVE  Sequenced
<1>. DEFINE n == Len(History)
<1>1. /\ n \in Nat /\ \A i \in 1 .. n : History[i] \in Rec
      /\ \A i, j \in 1 .. n : History[i] = History[j] => i = j
  BY JournalAssumption, LenProperties
<1>2. /\ disk = [v \in Vol |-> [s \in Seg |-> IF s \in Kept(v) THEN Body(<<History[s + 1]>>) ELSE <<>>]]
      /\ rec = [r \in Rec |-> IF r \in Old THEN "acked" ELSE "new"]
      /\ fphase = "idle" /\ pending = <<>> /\ batch = <<>> /\ log = History /\ Len(<<>>) = 0
  BY DEF Init
<1>3. ASSUME NEW r \in Rec, NEW s \in Seg, NEW k \in Nat, Lies(r, s, k)
      PROVE  s + 1 \in 1 .. n /\ r = History[s + 1]
  BY <1>3, InitLies
<1>4. Unwritten
  <2>1. ASSUME NEW r \in Rec, rec[r] \in {"new", "waiting"} \/ Queued(r), NEW s \in Seg, NEW k \in Nat, Lies(r, s, k)
        PROVE  FALSE
    <3>1. r \in Old
      BY <2>1, <1>3 DEF Old
    <3>. QED
      BY <2>1, <3>1, <1>2 DEF Queued
  <2>. QED
    BY <2>1 DEF Unwritten
<1>5. InOrder
  <2>1. ASSUME NEW i \in 1 .. n, NEW j \in 1 .. n, i < j, NEW s1 \in Seg, NEW s2 \in Seg,
               NEW k1 \in Nat, NEW k2 \in Nat, Lies(History[i], s1, k1), Lies(History[j], s2, k2)
        PROVE  s1 < s2
    <3>1. s1 + 1 = i /\ s2 + 1 = j
      BY <2>1, <1>1, <1>3
    <3>. QED
      BY <3>1, <2>1 DEF Seg
  <2>. QED
    BY <2>1, <1>2 DEF InOrder, Behind
<1>6. LogAcked
  BY <1>1, <1>2 DEF LogAcked, Old
<1>7. NoRepeats /\ InFlight
  BY <1>2 DEF NoRepeats, InFlight
<1>. QED
  BY <1>4, <1>5, <1>6, <1>7 DEF Sequenced

\* What lies in order is replayed in order.
LEMMA ReplayedInOrder ==
    ASSUME TypeOK, InOrder
    PROVE  ReplayOrder
<1>1. \A i \in 1 .. Len(log) : log[i] \in Rec
  BY LenProperties DEF TypeOK
<1>2. ASSUME NEW i \in 1 .. Len(log), NEW j \in 1 .. Len(log), i < j, NEW v \in Vol, Precedes(v, log[j], log[i])
      PROVE  FALSE
  <2>1. PICK s1 \in Seg, s2 \in Seg :
          \E k1 \in 1 .. Len(disk[v][s1]), k2 \in 1 .. Len(disk[v][s2]) :
            /\ disk[v][s1][k1] = <<log[j], "newline">> /\ disk[v][s2][k2] = <<log[i], "newline">>
            /\ s1 < s2 \/ (s1 = s2 /\ k1 < k2)
    BY <1>2 DEF Precedes
  <2>2. PICK k1 \in 1 .. Len(disk[v][s1]), k2 \in 1 .. Len(disk[v][s2]) :
            /\ disk[v][s1][k1] = <<log[j], "newline">> /\ disk[v][s2][k2] = <<log[i], "newline">>
            /\ s1 < s2 \/ (s1 = s2 /\ k1 < k2)
    BY <2>1
  <2>3. Lies(log[j], s1, k1) /\ Lies(log[i], s2, k2)
    BY <2>2 DEF Lies
  <2>4. s1 \in Int /\ s2 \in Int /\ k1 \in Nat /\ k2 \in Nat
    BY <2>2 DEF Seg
  <2>5. s2 < s1 \/ (s2 = s1 /\ k2 < k1)
    BY <2>3, <2>4, <1>2 DEF InOrder, Behind
  <2>. QED
    BY <2>2, <2>4, <2>5
<1>. QED
  BY <1>2 DEF ReplayOrder

\* On steady disks the alignment and the order are inductive, over what holds of any disks.
SteadyInv == JournalInv /\ Aligned /\ Sequenced

\* The inductive invariant of steady disks holds.
LEMMA SteadyInvariant ==
    ASSUME SteadyDisks
    PROVE  Spec => []SteadyInv
<1>1. Init => SteadyInv
  BY OrderedInit, WholeInit, AckedInit, AlignedInit, SequencedInit DEF JournalInv, SteadyInv
<1>2. SteadyInv /\ [Next]_vars => SteadyInv'
  <2>1. ASSUME SteadyInv, [Next]_vars PROVE Ordered' /\ Whole' /\ AckedDurable' /\ Aligned' /\ Sequenced'
    <3>1. Ordered /\ Whole /\ AckedDurable /\ Aligned /\ Sequenced /\ LinesEverywhere
      BY <2>1 DEF SteadyInv, JournalInv, Whole
    <3>. QED
      BY <2>1, <3>1, OrderedStep, WholeStep, AckedStep, AlignedStep, SequencedStep
  <2>. QED
    BY <2>1 DEF SteadyInv, JournalInv
<1>. QED
  BY <1>1, <1>2, PTL DEF Spec

\* On disks that stay mounted and fail between records, the open replicas are byte for
\* byte the same journal between flushes and elections, and hold every record ever
\* acknowledged: reconfigure() may seed a new replica from any of them.
THEOREM ReplicasInLockstep ==
    ASSUME SteadyDisks
    PROVE  Spec => []Lockstep
<1>1. SteadyInv => Lockstep
  BY InLockstep DEF SteadyInv
<1>. QED
  BY <1>1, SteadyInvariant, PTL

\* The replica platters never tell a story in another order: on disks that stay mounted
\* and fail between records, a replay of any platter, open or long closed, meets the
\* acknowledged records in the order flush() acknowledged them, whatever writes failed,
\* rollbacks got stuck, copies stopped half-way, and whoever was elected.
THEOREM ReplaysInOrder ==
    ASSUME SteadyDisks
    PROVE  Spec => []ReplayOrder
<1>1. SteadyInv => ReplayOrder
  BY ReplayedInOrder DEF SteadyInv, JournalInv, Ordered, Sequenced
<1>. QED
  BY <1>1, SteadyInvariant, PTL

-----------------------------------------------------------------------------
(***************************************************************************)
(* The refinement: what Journal maps to the log of AppendLog.  Disks that  *)
(* fail in any way are meant again.                                        *)
(***************************************************************************)
Asked  == {r \in Rec : rec[r] \notin {"new", "waiting"}}
Queue  == batch \o pending
Stored == {r \in Rec : \E v \in Vol : OnDisk(v, r)}

\* Opening a segment leaves the records that are on a platter as they are.
LEMMA OpenedStored ==
    ASSUME TypeOK, AbsentIsEmpty, LinesEverywhere, NEW vs, NEW bad, NEW s \in Seg, OpenSegments(vs, bad, s)
    PROVE  Stored' = Stored
<1>1. \A v \in Vol, t \in Seg :
         disk'[v][t] = IF v \in vs \ bad /\ t = s THEN RollBackTornTail(disk[v][t]) ELSE disk[v][t]
  BY OpenedFiles
<1>2. ASSUME NEW r \in Rec, NEW v \in Vol, OnDisk(v, r)' PROVE OnDisk(v, r)
  <2>1. PICK t \in Seg : Holds(disk'[v][t], r)
    BY <1>2 DEF OnDisk, Holds
  <2>2. disk[v][t] \in File /\ Lines(disk[v][t]) /\ Len(disk[v][t]) \in Nat
    BY FileFacts DEF TypeOK, LinesEverywhere
  <2>3. ASSUME Holds(RollBackTornTail(disk[v][t]), r) PROVE Holds(disk[v][t], r)
    <3>1. PICK n \in 0 .. Len(disk[v][t]) : RollBackTornTail(disk[v][t]) = SubSeq(disk[v][t], 1, n)
      BY <2>2, TornTailFacts
    <3>2. Len(SubSeq(disk[v][t], 1, n)) = n /\ \A i \in 1 .. n : SubSeq(disk[v][t], 1, n)[i] = disk[v][t][i]
      BY <2>2, PrefixFacts
    <3>3. PICK i \in 1 .. n : SubSeq(disk[v][t], 1, n)[i] = <<r, "newline">>
      BY <2>3, <3>1, <3>2 DEF Holds
    <3>4. i \in 1 .. Len(disk[v][t]) /\ disk[v][t][i] = <<r, "newline">>
      BY <3>2, <3>3, <2>2
    <3>. QED
      BY <3>4 DEF Holds
  <2>4. Holds(disk[v][t], r)
    BY <1>1, <2>1, <2>3
  <2>. QED
    BY <2>4, OnDiskHolds
<1>. QED
  BY <1>2, SurviveOpened DEF Stored

\* A step that puts no byte where there was none of the record brings no record.
LEMMA NothingStored ==
    ASSUME TypeOK, TypeOK', LinesEverywhere, LinesEverywhere', NothingNew
    PROVE  Stored' \subseteq Stored
<1>1. ASSUME NEW r \in Rec, NEW v \in Vol, OnDisk(v, r)' PROVE \E u \in Vol : OnDisk(u, r)
  <2>1. PICK s \in Seg : \E i \in 1 .. Len(disk'[v][s]) : disk'[v][s][i] = <<r, "newline">>
    BY <1>1 DEF OnDisk
  <2>2. PICK i \in 1 .. Len(disk'[v][s]) : disk'[v][s][i] = <<r, "newline">>
    BY <2>1
  <2>3. i \in Nat /\ disk'[v][s][i][1] = r /\ disk'[v][s][i][2] = "newline"
    BY <2>2
  <2>4. disk'[v][s][i][2] = IF i % 2 = 1 THEN "text" ELSE "newline"
    BY <2>2 DEF LinesEverywhere, Lines
  <2>5. i % 2 # 1
    BY <2>3, <2>4
  <2>6. Lies(r, s, i)'
    BY <2>2, <2>3 DEF Lies
  <2>7. Lies(r, s, i)
    BY <2>3, <2>6 DEF NothingNew
  <2>8. PICK u \in Vol : i \in 1 .. Len(disk[u][s]) /\ disk[u][s][i][1] = r
    BY <2>7 DEF Lies
  <2>9. disk[u][s][i][2] = "newline"
    BY <2>5, <2>8 DEF LinesEverywhere, Lines
  <2>10. disk[u][s] \in File
    BY DEF TypeOK
  <2>11. disk[u][s][i] = <<r, "newline">>
    <3>1. disk[u][s][i] \in Byte
      BY <2>10, <2>8, FileFacts
    <3>. QED
      BY <3>1, <2>8, <2>9 DEF Byte
  <2>. QED
    BY <2>8, <2>11 DEF OnDisk
<1>. QED
  BY <1>1 DEF Stored

\* The log grows by what is acknowledged, and stays acknowledged.
LEMMA LogAckedStep ==
    ASSUME Ordered, LogAcked, [Next]_vars
    PROVE  LogAcked'
<1>0. TypeOK /\ InQueue /\ log \in Seq(Rec) /\ batch \in Seq(Rec) /\ rec \in [Rec -> RecStatus]
  BY DEF Ordered, TypeOK
<1>1. /\ Len(log) \in Nat /\ Len(batch) \in Nat
      /\ \A i \in 1 .. Len(log) : log[i] \in Rec
      /\ \A i \in 1 .. Len(batch) : batch[i] \in Rec
  BY <1>0, LenProperties
<1>2. CASE FlushAck \/ \E bad \in SUBSET replicas : FlushAckRotate(bad)
  <2>1. /\ log' = log \o batch
        /\ rec' = [r \in Rec |-> IF \E i \in 1 .. Len(batch) : batch[i] = r THEN "acked" ELSE rec[r]]
    BY <1>2 DEF FlushAck, FlushAckRotate, FlushEnd
  <2>2. /\ Len(log') = Len(log) + Len(batch)
        /\ \A i \in 1 .. Len(log') : log'[i] = IF i <= Len(log) THEN log[i] ELSE batch[i - Len(log)]
    BY <2>1, <1>0, ConcatProperties
  <2>3. ASSUME NEW i \in 1 .. Len(log') PROVE rec'[log'[i]] = "acked"
    <3>1. CASE i <= Len(log)
      <4>1. i \in 1 .. Len(log) /\ log'[i] = log[i]
        BY <3>1, <2>2, <1>1
      <4>. QED
        BY <4>1, <2>1, <1>1 DEF LogAcked
    <3>2. CASE ~(i <= Len(log))
      <4>1. i - Len(log) \in 1 .. Len(batch) /\ log'[i] = batch[i - Len(log)]
        BY <3>2, <2>2, <1>1
      <4>. QED
        BY <4>1, <2>1, <1>1
    <3>. QED
      BY <3>1, <3>2
  <2>. QED
    BY <2>3 DEF LogAcked
<1>3. CASE ~(FlushAck \/ \E bad \in SUBSET replicas : FlushAckRotate(bad))
  <2>1. CASE AppendNext
    BY <2>1, <1>0, <1>1 DEF LogAcked, AppendNext, AppendSkipped, AppendQueue, AppendWait, AppendRefuse
  <2>2. CASE FlushRejected
    <3>1. /\ log' = log
          /\ rec' = [r \in Rec |-> IF \E i \in 1 .. Len(batch) : batch[i] = r THEN "rejected" ELSE rec[r]]
      BY <2>2 DEF FlushRejected, FlushEnd
    <3>. QED
      BY <3>1, <1>0, <1>1 DEF LogAcked, InQueue
  <2>3. CASE FlushNext /\ ~FlushRejected
    <3>1. rec' = rec /\ log' = log
      BY <2>3, <1>3 DEF FlushNext, FlushStart, FlushReject, FlushWrite, Rollback, RollbackStuck, FlushFail, queueVars
    <3>. QED
      BY <3>1 DEF LogAcked
  <2>4. CASE ElectNext
    <3>1. rec' = rec /\ log' = log
      BY <2>4, ElectKeepsQueue
    <3>. QED
      BY <3>1 DEF LogAcked
  <2>5. CASE Stopped \/ Crash
    <3>1. log' = log /\ rec' = [r \in Rec |-> IF rec[r] \in {"waiting", "pending"} THEN "lost" ELSE rec[r]]
      BY <2>5 DEF Stopped, Crash, Forget
    <3>. QED
      BY <3>1, <1>1 DEF LogAcked
  <2>6. CASE (FleetNext /\ ~(Stopped \/ Crash)) \/ UNCHANGED vars
    <3>1. rec' = rec /\ log' = log
      BY <2>6 DEF FleetNext, Start, Started, Stop, OnFleetChange, FleetMove, RemoveCheck, RemoveCommit, vars, queueVars
    <3>. QED
      BY <3>1 DEF LogAcked
  <2>. QED
    BY <2>1, <2>2, <2>3, <2>4, <2>5, <2>6 DEF Next
<1>. QED
  BY <1>2, <1>3

\* Splitting a queue behind its first part.
LEMMA QueueSplit ==
    ASSUME NEW b \in Seq(Rec), NEW p \in Seq(Rec)
    PROVE  /\ b \o p \in Seq(Rec) /\ Len(b) \in Nat /\ Len(p) \in Nat /\ Len(b \o p) = Len(b) + Len(p)
           /\ SubSeq(b \o p, 1, Len(b)) = b
           /\ SubSeq(b \o p, Len(b) + 1, Len(b \o p)) = p
           /\ <<>> \o p = p
           /\ \A r \in Rec : b \o Append(p, r) = Append(b \o p, r)
           /\ \A i \in 1 .. Len(b) : \E j \in 1 .. Len(b \o p) : (b \o p)[j] = b[i]
<1>1. /\ b \o p \in Seq(Rec) /\ Len(b) \in Nat /\ Len(p) \in Nat /\ Len(b \o p) = Len(b) + Len(p)
      /\ \A i \in 1 .. Len(b) + Len(p) : (b \o p)[i] = IF i <= Len(b) THEN b[i] ELSE p[i - Len(b)]
  BY LenProperties, ConcatProperties
<1>2. SubSeq(b \o p, 1, Len(b)) = b
  <2>1. SubSeq(b \o p, 1, Len(b)) = SubSeq(b, 1, Len(b))
    BY <1>1, SubSeqOfConcat1
  <2>. QED
    BY <2>1, SubSeqFull
<1>3. SubSeq(b \o p, Len(b) + 1, Len(b \o p)) = p
  <2>1. SubSeq(b \o p, Len(b) + 1, Len(b \o p)) = SubSeq(p, Len(b) + 1 - Len(b), Len(b \o p) - Len(b))
    BY <1>1, SubSeqOfConcat2
  <2>2. Len(b) + 1 - Len(b) = 1 /\ Len(b \o p) - Len(b) = Len(p)
    BY <1>1
  <2>. QED
    BY <2>1, <2>2, SubSeqFull
<1>4. ASSUME NEW r \in Rec PROVE b \o Append(p, r) = Append(b \o p, r)
  <2>1. Append(p, r) = p \o <<r>> /\ Append(b \o p, r) = (b \o p) \o <<r>> /\ <<r>> \in Seq(Rec)
    BY <1>1, AppendIsConcat
  <2>. QED
    BY <2>1, ConcatAssociative
<1>5. ASSUME NEW i \in 1 .. Len(b) PROVE \E j \in 1 .. Len(b \o p) : (b \o p)[j] = b[i]
  <2>1. i \in 1 .. Len(b \o p) /\ (b \o p)[i] = b[i]
    BY <1>1
  <2>. QED
    BY <2>1
<1>6. <<>> \o p = p
  BY ConcatEmptySeq
<1>. QED
  BY <1>1, <1>2, <1>3, <1>4, <1>5, <1>6

\* A step that leaves the platters and the answers alone is none of the log's.
LEMMA LogStutter ==
    ASSUME disk' = disk, Asked' = Asked, Queue' = Queue, log' = log
    PROVE  UNCHANGED Log!vars
<1>1. Stored' = Stored
  BY DEF Stored, OnDisk
<1>. QED
  BY <1>1 DEF Log!vars, Asked, Queue, Stored

\* Bytes that go, but for those of acknowledged records, are discarded.
LEMMA LogDiscards ==
    ASSUME Ordered', LogAcked', AckedDurable', Stored' \subseteq Stored,
           rec' = rec, log' = log, pending' = pending, batch' = batch
    PROVE  Log!Next
<1>1. Asked' = Asked /\ Queue' = Queue
  BY DEF Asked, Queue
<1>2. \A i \in 1 .. Len(log) : log[i] \in Rec
  <2>1. log' \in Seq(Rec)
    BY DEF Ordered, TypeOK
  <2>. QED
    BY <2>1, LenProperties
<1>3. Log!Records(log) \subseteq Stored'
  BY <1>2 DEF Log!Records, LogAcked, AckedDurable, Stored
<1>4. Log!Discard
  BY <1>1, <1>3 DEF Log!Discard, Asked, Queue, Stored
<1>. QED
  BY <1>4 DEF Log!Next

\* append() puts a record at the end of the queue, or turns it away.
LEMMA LogAppends ==
    ASSUME Ordered, AppendNext
    PROVE  Log!Next \/ UNCHANGED Log!vars
<1>0. /\ batch \in Seq(Rec) /\ pending \in Seq(Rec) /\ rec \in [Rec -> RecStatus]
  BY DEF Ordered, TypeOK
<1>. PICK r \in Rec : AppendSkipped(r) \/ AppendQueue(r) \/ AppendWait(r) \/ AppendRefuse(r)
  BY DEF AppendNext
<1>1. disk' = disk /\ log' = log /\ batch' = batch /\ rec[r] \in {"new", "waiting"}
  BY DEF AppendSkipped, AppendQueue, AppendWait, AppendRefuse, diskVars, flushVars
<1>2. Stored' = Stored /\ r \notin Asked
  BY <1>1 DEF Stored, OnDisk, Asked
<1>3. CASE AppendSkipped(r) \/ AppendRefuse(r)
  <2>1. pending' = pending /\ \E x \in {"skipped", "refused"} : rec' = [rec EXCEPT ![r] = x]
    BY <1>3 DEF AppendSkipped, AppendRefuse
  <2>2. Asked' = Asked \cup {r} /\ Queue' = Queue
    BY <2>1, <1>0, <1>1 DEF Asked, Queue
  <2>3. Log!Refuse(r)
    BY <2>2, <1>1, <1>2 DEF Log!Refuse, Asked, Queue, Stored
  <2>. QED
    BY <2>3 DEF Log!Next
<1>4. CASE AppendWait(r)
  <2>1. pending' = pending /\ rec' = [rec EXCEPT ![r] = "waiting"]
    BY <1>4 DEF AppendWait
  <2>2. Asked' = Asked /\ Queue' = Queue
    BY <2>1, <1>0, <1>1 DEF Asked, Queue
  <2>. QED
    BY <2>2, <1>1, LogStutter
<1>5. CASE AppendQueue(r)
  <2>1. pending' = Append(pending, r) /\ rec' = [rec EXCEPT ![r] = "pending"]
    BY <1>5 DEF AppendQueue
  <2>2. Asked' = Asked \cup {r}
    BY <2>1, <1>0, <1>1 DEF Asked
  <2>3. Queue' = Append(Queue, r)
    BY <2>1, <1>0, <1>1, QueueSplit DEF Queue
  <2>4. Log!Ask(r)
    BY <2>2, <2>3, <1>1, <1>2 DEF Log!Ask, Asked, Queue, Stored
  <2>. QED
    BY <2>4 DEF Log!Next
<1>. QED
  BY <1>3, <1>4, <1>5

\* What a flush settles was at the head of the queue, and leaves it.
LEMMA SettledHead ==
    ASSUME Ordered, NEW x \in {"acked", "rejected"}, FlushEnd(x), pending' = pending
    PROVE  /\ Asked' = Asked /\ Queue' = SubSeq(Queue, Len(batch) + 1, Len(Queue))
           /\ SubSeq(Queue, 1, Len(batch)) = batch /\ Len(batch) \in Nat /\ Len(batch) <= Len(Queue)
           /\ batch = <<>> => Queue' = Queue
<1>0. /\ batch \in Seq(Rec) /\ pending \in Seq(Rec) /\ rec \in [Rec -> RecStatus] /\ InQueue
  BY DEF Ordered, TypeOK
<1>1. batch' = <<>> /\ rec' = [r \in Rec |-> IF \E i \in 1 .. Len(batch) : batch[i] = r THEN x ELSE rec[r]]
  BY DEF FlushEnd
<1>2. Asked' = Asked
  BY <1>0, <1>1 DEF Asked, InQueue
<1>3. Queue' = pending
  BY <1>0, <1>1, QueueSplit DEF Queue
<1>4. /\ SubSeq(Queue, 1, Len(batch)) = batch
      /\ SubSeq(Queue, Len(batch) + 1, Len(Queue)) = pending
      /\ Len(batch) \in Nat /\ Len(pending) \in Nat /\ Len(Queue) = Len(batch) + Len(pending)
  BY <1>0, QueueSplit DEF Queue
<1>5. Len(batch) <= Len(Queue)
  BY <1>4
<1>6. batch = <<>> => Queue = pending
  BY <1>0, QueueSplit DEF Queue
<1>. QED
  BY <1>2, <1>3, <1>4, <1>5, <1>6

\* A batch that some replica has is acknowledged, and a rotation changes no record.
LEMMA LogAcknowledges ==
    ASSUME Ordered, Whole, FlushAck \/ \E bad \in SUBSET replicas : FlushAckRotate(bad)
    PROVE  Log!Next \/ UNCHANGED Log!vars
<1>0. TypeOK /\ AbsentIsEmpty /\ LinesEverywhere /\ batch \in Seq(Rec)
  BY DEF Ordered, Whole, TypeOK
<1>1. fphase = "write" /\ durable # {} /\ FlushEnd("acked") /\ log' = log \o batch /\ pending' = pending
  BY DEF FlushAck, FlushAckRotate
<1>2. Stored' = Stored
  <2>1. CASE disk' = disk
    BY <2>1 DEF Stored, OnDisk
  <2>2. CASE disk' # disk
    <3>1. PICK bad \in SUBSET replicas : FlushAckRotate(bad) /\ mode # "stopping"
      BY <2>2 DEF FlushAck, FlushAckRotate, diskVars
    <3>2. OpenSegments(replicas, bad, segment + 1) /\ segment < MaxSegment
      BY <3>1 DEF FlushAckRotate
    <3>3. segment + 1 \in Seg
      BY <3>2, <1>0, JournalAssumption DEF TypeOK, Seg
    <3>. QED
      BY <3>2, <3>3, <1>0, OpenedStored
  <2>. QED
    BY <2>1, <2>2
<1>3. /\ Asked' = Asked /\ Queue' = SubSeq(Queue, Len(batch) + 1, Len(Queue))
      /\ SubSeq(Queue, 1, Len(batch)) = batch /\ Len(batch) \in Nat /\ Len(batch) <= Len(Queue)
      /\ batch = <<>> => Queue' = Queue
  <2>1. "acked" \in {"acked", "rejected"}
    OBVIOUS
  <2>. QED
    BY <2>1, <1>1, SettledHead
<1>4. CASE batch = <<>>
  <2>1. log' = log
    <3>1. log \in Seq(Rec)
      BY <1>0 DEF TypeOK
    <3>. QED
      <4>1. log \o <<>> = log
        BY <3>1, ConcatEmptySeq
      <4>. QED
        BY <4>1, <1>1, <1>4
  <2>. QED
    BY <2>1, <1>2, <1>3, <1>4 DEF Log!vars, Asked, Queue, Stored
<1>5. CASE batch # <<>>
  <2>. DEFINE n == Len(batch)
  <2>1. n \in 1 .. Len(Queue)
    <3>1. n # 0 /\ Len(Queue) \in Nat
      <4>1. Queue \in Seq(Rec)
        BY <1>0, QueueSplit DEF Queue, TypeOK
      <4>2. Len(batch) = 0 => batch = <<>>
        BY <1>0, EmptySeq
      <4>. QED
        BY <4>1, <4>2, <1>5, LenProperties
    <3>. QED
      BY <3>1, <1>3
  <2>2. Log!Records(SubSeq(Queue, 1, n)) \subseteq Stored
    <3>1. \A j \in 1 .. n : batch[j] \in Rec
      BY <1>0, LenProperties
    <3>. QED
      BY <3>1, <1>1, <1>3, BatchOnDisk DEF Log!Records, Stored
  <2>3. log' = log \o SubSeq(Queue, 1, n) /\ Queue' = SubSeq(Queue, n + 1, Len(Queue))
    BY <1>1, <1>3
  <2>. HIDE DEF n
  <2>4. Log!Acknowledge(n)
    BY <2>1, <2>2, <2>3, <1>2, <1>3 DEF Log!Acknowledge, Asked, Queue, Stored
  <2>. QED
    BY <2>1, <2>4 DEF Log!Next, Queue
<1>. QED
  BY <1>4, <1>5

\* A batch that no replica has is rejected once it is rolled back.
LEMMA LogRejects ==
    ASSUME Ordered, FlushRejected
    PROVE  Log!Next \/ UNCHANGED Log!vars
<1>0. batch \in Seq(Rec) /\ pending \in Seq(Rec)
  BY DEF Ordered, TypeOK
<1>1. FlushEnd("rejected") /\ log' = log /\ pending' = pending /\ disk' = disk
  BY DEF FlushRejected, diskVars
<1>2. Stored' = Stored
  BY <1>1 DEF Stored, OnDisk
<1>3. /\ Asked' = Asked /\ Queue' = SubSeq(Queue, Len(batch) + 1, Len(Queue))
      /\ Len(batch) \in Nat /\ Len(batch) <= Len(Queue)
      /\ batch = <<>> => Queue' = Queue
  BY <1>1, SettledHead
<1>4. CASE batch = <<>>
  BY <1>1, <1>3, <1>4, LogStutter
<1>5. CASE batch # <<>>
  <2>. DEFINE n == Len(batch)
  <2>1. n \in 1 .. Len(Queue)
    <3>1. Queue \in Seq(Rec)
      BY <1>0, QueueSplit DEF Queue
    <3>2. n # 0
      BY <1>0, <1>5, EmptySeq
    <3>3. Len(Queue) \in Nat
      BY <3>1, LenProperties
    <3>. QED
      BY <3>2, <3>3, <1>3
  <2>. HIDE DEF n
  <2>2. Log!Reject(n)
    BY <2>1, <1>1, <1>2, <1>3 DEF Log!Reject, Asked, Queue, Stored, n
  <2>. QED
    BY <2>1, <2>2 DEF Log!Next, Queue
<1>. QED
  BY <1>4, <1>5

\* A flush answers the head of the queue, writes what is in it, or takes that back.
LEMMA LogFlushes ==
    ASSUME Ordered, Ordered', Whole, Whole', LogAcked', AckedDurable', FlushNext
    PROVE  Log!Next \/ UNCHANGED Log!vars
<1>0. /\ TypeOK /\ TypeOK' /\ AbsentIsEmpty /\ Seeding /\ LinesEverywhere /\ LinesEverywhere'
      /\ batch \in Seq(Rec) /\ pending \in Seq(Rec) /\ Body(batch) \in File
  BY BodyFacts DEF Ordered, Whole, TypeOK
<1>1. CASE FlushStart
  <2>1. /\ batch = <<>> /\ batch' = pending /\ pending' = <<>>
        /\ disk' = disk /\ log' = log /\ rec' = rec
    BY <1>1 DEF FlushStart, diskVars, Ordered, Flushing
  <2>2. Queue' = Queue
    <3>1. pending \o <<>> = pending /\ <<>> \o pending = pending
      BY <1>0, ConcatEmptySeq
    <3>. QED
      BY <3>1, <2>1 DEF Queue
  <2>. QED
    BY <2>1, <2>2, LogStutter DEF Asked
<1>2. CASE FlushReject \/ \E v \in Vol : RollbackStuck(v)
  <2>1. disk' = disk /\ log' = log /\ rec' = rec /\ pending' = pending /\ batch' = batch
    BY <1>2 DEF FlushReject, RollbackStuck, diskVars, queueVars
  <2>. QED
    BY <2>1, LogStutter DEF Asked, Queue
<1>3. CASE \/ \E v \in Vol : FlushWrite(v)
           \/ \E v \in left : \E n \in 0 .. 2 * Len(batch) : FlushFail(v, n)
  <2>1. log' = log /\ rec' = rec /\ pending' = pending /\ batch' = batch
    BY <1>3 DEF FlushWrite, FlushFail, queueVars
  <2>2. PICK v \in Vol, h \in File :
          /\ disk' = [disk EXCEPT ![v][segment] = disk[v][segment] \o h]
          /\ \E n \in 0 .. Len(Body(batch)) : h = SubSeq(Body(batch), 1, n)
    <3>1. ASSUME NEW v \in Vol, FlushWrite(v)
          PROVE  /\ disk' = [disk EXCEPT ![v][segment] = disk[v][segment] \o Body(batch)]
                 /\ Body(batch) = SubSeq(Body(batch), 1, Len(Body(batch)))
                 /\ Len(Body(batch)) \in 0 .. Len(Body(batch))
      <4>1. Len(Body(batch)) \in Nat /\ Body(batch) = SubSeq(Body(batch), 1, Len(Body(batch)))
        BY <1>0, FileFacts, SubSeqFull DEF File
      <4>. QED
        BY <4>1, <3>1 DEF FlushWrite
    <3>2. ASSUME NEW v \in left, NEW n \in 0 .. 2 * Len(batch), FlushFail(v, n)
          PROVE  /\ disk' = [disk EXCEPT ![v][segment] = disk[v][segment] \o SubSeq(Body(batch), 1, n)]
                 /\ SubSeq(Body(batch), 1, n) \in File /\ n \in 0 .. Len(Body(batch)) /\ v \in Vol
      <4>1. n \in 0 .. Len(Body(batch)) /\ v \in Vol
        BY <1>0, BodyFacts DEF TypeOK
      <4>2. SubSeq(Body(batch), 1, n) \in File
        BY <4>1, <1>0, PrefixFacts
      <4>. QED
        BY <4>1, <4>2, <3>2 DEF FlushFail
    <3>. DEFINE P(v, h) == /\ disk' = [disk EXCEPT ![v][segment] = disk[v][segment] \o h]
                           /\ \E n \in 0 .. Len(Body(batch)) : h = SubSeq(Body(batch), 1, n)
    <3>3. CASE \E v \in Vol : FlushWrite(v)
      <4>1. PICK v \in Vol : FlushWrite(v)
        BY <3>3
      <4>2. P(v, Body(batch))
        BY <4>1, <3>1
      <4>. QED
        BY <4>2, <1>0
    <3>4. CASE \E v \in left : \E n \in 0 .. 2 * Len(batch) : FlushFail(v, n)
      <4>1. PICK v \in left, n \in 0 .. 2 * Len(batch) : FlushFail(v, n)
        BY <3>4
      <4>2. P(v, SubSeq(Body(batch), 1, n)) /\ v \in Vol /\ SubSeq(Body(batch), 1, n) \in File
        BY <4>1, <3>2
      <4>. QED
        BY <4>2
    <3>. QED
      BY <3>3, <3>4, <1>3
  <2>3. ASSUME NEW r \in Rec, Holds(h, r) PROVE r \in Log!Records(Queue)
    <3>1. PICK n \in 0 .. Len(Body(batch)) : h = SubSeq(Body(batch), 1, n)
      BY <2>2
    <3>2. Len(h) = n /\ \A i \in 1 .. n : h[i] = Body(batch)[i]
      BY <3>1, <1>0, PrefixFacts
    <3>3. PICK i \in 1 .. n : Body(batch)[i] = <<r, "newline">>
      BY <2>3, <3>2 DEF Holds
    <3>4. i \in 1 .. 2 * Len(batch)
      BY <1>0, <3>3, BodyFacts
    <3>5. PICK j \in 1 .. Len(batch) : Body(batch)[i][1] = batch[j]
      BY <1>0, <3>4, BodyFacts
    <3>6. batch[j] = r
      BY <3>3, <3>5
    <3>. QED
      BY <3>6, <1>0, QueueSplit DEF Log!Records, Queue
  <2>4. Stored \subseteq Stored' /\ Stored' \subseteq Stored \cup Log!Records(Queue)
    BY <2>2, <2>3, <1>0, GrownHolds DEF Stored
  <2>5. Log!Persist
    <3>1. Asked' = Asked /\ Queue' = Queue
      BY <2>1 DEF Asked, Queue
    <3>. QED
      BY <3>1, <2>1, <2>4 DEF Log!Persist, Asked, Queue, Stored
  <2>. QED
    BY <2>5 DEF Log!Next
<1>4. CASE \E v \in Vol : Rollback(v)
  <2>1. NothingNew
    BY <1>4, <1>0, NothingNewMoved
  <2>2. log' = log /\ rec' = rec /\ pending' = pending /\ batch' = batch
    BY <1>4 DEF Rollback, queueVars
  <2>3. Stored' \subseteq Stored
    BY <2>1, <1>0, NothingStored
  <2>. QED
    BY <2>2, <2>3, LogDiscards
<1>5. CASE FlushAck \/ \E bad \in SUBSET replicas : FlushAckRotate(bad)
  BY <1>5, LogAcknowledges
<1>6. CASE FlushRejected
  BY <1>6, LogRejects
<1>. QED
  BY <1>1, <1>2, <1>3, <1>4, <1>5, <1>6 DEF FlushNext

\* An election only copies, and discards what a copy or a rollback cuts off.
LEMMA LogElects ==
    ASSUME Ordered, Ordered', Whole, Whole', LogAcked', AckedDurable', ElectNext
    PROVE  Log!Next
<1>0. /\ TypeOK /\ TypeOK' /\ AbsentIsEmpty /\ Seeding /\ LinesEverywhere /\ LinesEverywhere'
  BY DEF Ordered, Whole
<1>1. Stored' \subseteq Stored
  <2>1. CASE \/ ElectBegin \/ ElectScanEmpty \/ ElectLineage \/ ElectLineageFails
             \/ SeedAdopt \/ ElectKeep \/ ElectOpenFails
             \/ \E c \in SUBSET Vol : ElectChoose(c)
             \/ \E bad \in SUBSET listed : ElectScan(bad) \/ ElectAmbiguous(bad)
             \/ \E v \in todo : SeedRefuse(v) \/ SeedBegin(v)
    <3>1. disk' = disk
      BY <2>1 DEF ElectBegin, ElectScanEmpty, ElectLineage, ElectLineageFails, SeedAdopt, ElectKeep, ElectOpenFails,
                  ElectChoose, ElectScan, ElectAmbiguous, SeedRefuse, SeedBegin, diskVars
    <3>. QED
      BY <3>1 DEF Stored, OnDisk
  <2>2. CASE \E w \in from : SeedCopy(w) \/ \E s \in Seg : \E n \in 0 .. Len(disk[w][s]) : SeedCopyFail(w, s, n)
    <3>1. NothingNew
      BY <2>2, <1>0, NothingNewMoved
    <3>. QED
      BY <3>1, <1>0, NothingStored
  <2>3. CASE \E bad \in SUBSET NextSet : ElectOpen(bad)
    <3>1. disk' = disk \/ \E vs, bad : OpenSegments(vs, bad, TopSegment)
      BY <2>3 DEF ElectOpen, diskVars
    <3>2. CASE disk' = disk
      BY <3>2 DEF Stored, OnDisk
    <3>3. CASE \E vs, bad : OpenSegments(vs, bad, TopSegment)
      <4>1. TopSegment \in Seg
        BY <1>0, TopSegmentIn
      <4>. QED
        BY <4>1, <3>3, <1>0, OpenedStored
    <3>. QED
      BY <3>1, <3>2, <3>3
  <2>. QED
    BY <2>1, <2>2, <2>3 DEF ElectNext
<1>. QED
  BY <1>1, ElectKeepsQueue, LogDiscards

\* When the process dies its queue is gone; nothing else of the fleet is the log's.
LEMMA LogFleet ==
    ASSUME Ordered, FleetNext \/ UNCHANGED vars
    PROVE  Log!Next \/ UNCHANGED Log!vars
<1>1. CASE Stopped \/ Crash
  <2>1. /\ disk' = disk /\ log' = log /\ batch' = <<>> /\ pending' = <<>>
        /\ rec' = [r \in Rec |-> IF rec[r] \in {"waiting", "pending"} THEN "lost" ELSE rec[r]]
    BY <1>1 DEF Stopped, Crash, Forget, diskVars
  <2>2. Queue' = <<>>
    <3>1. <<>> \o <<>> = <<>>
      BY EmptySeq, ConcatEmptySeq
    <3>. QED
      BY <3>1, <2>1 DEF Queue
  <2>3. Asked \subseteq Asked' /\ Asked' \subseteq Rec /\ Stored' = Stored
    BY <2>1 DEF Asked, Stored, OnDisk
  <2>4. Log!Crash
    BY <2>1, <2>2, <2>3 DEF Log!Crash, Asked, Queue, Stored
  <2>. QED
    BY <2>4 DEF Log!Next
<1>2. CASE ~(Stopped \/ Crash)
  <2>1. disk' = disk /\ rec' = rec /\ log' = log /\ pending' = pending /\ batch' = batch
    BY <1>2 DEF FleetNext, Start, Started, Stop, OnFleetChange, FleetMove, RemoveCheck, RemoveCommit,
                vars, diskVars, queueVars, flushVars
  <2>. QED
    BY <2>1, LogStutter DEF Asked, Queue
<1>. QED
  BY <1>1, <1>2

\* A journal starts as the log that earlier processes left.
LEMMA LogInit ==
    ASSUME Init, TypeOK, LogAcked, AckedDurable
    PROVE  Log!Init
<1>1. /\ rec = [r \in Rec |-> IF r \in Old THEN "acked" ELSE "new"]
      /\ pending = <<>> /\ batch = <<>>
  BY DEF Init
<1>2. Queue = <<>>
  <2>1. <<>> \o <<>> = <<>>
    BY EmptySeq, ConcatEmptySeq
  <2>. QED
    BY <2>1, <1>1 DEF Queue
<1>3. Stored \subseteq Asked
  <2>1. ASSUME NEW r \in Rec, NEW v \in Vol, OnDisk(v, r) PROVE r \in Old
    <3>1. PICK s \in Seg : \E i \in 1 .. Len(disk[v][s]) : disk[v][s][i] = <<r, "newline">>
      BY <2>1 DEF OnDisk
    <3>2. PICK i \in 1 .. Len(disk[v][s]) : disk[v][s][i] = <<r, "newline">>
      BY <3>1
    <3>3. i \in Nat /\ Lies(r, s, i)
      BY <3>2 DEF Lies
    <3>. QED
      BY <3>3, InitLies DEF Old
  <2>. QED
    BY <2>1, <1>1 DEF Stored, Asked
<1>4. log \in Seq(Rec) /\ Log!Records(log) \subseteq Stored
  <2>1. log \in Seq(Rec) /\ \A i \in 1 .. Len(log) : log[i] \in Rec
    BY LenProperties DEF TypeOK
  <2>. QED
    BY <2>1 DEF Log!Records, LogAcked, AckedDurable, Stored
<1>5. Asked \subseteq Rec
  BY DEF Asked
<1>. QED
  BY <1>2, <1>3, <1>4, <1>5 DEF Log!Init, Asked, Queue, Stored

\* For any fleet and any faults, Journal is the log its callers rely on: one queue,
\* answered in its order a batch at a time, nothing acknowledged that a replay would
\* miss, nothing acknowledged ever lost, and no record turning up that was answered or
\* given up without being on a platter.
THEOREM ImplementsAppendLog == Spec => ImplementsLog
<1>1. Init => LogAcked
  BY SequencedInit DEF Sequenced
<1>2. JournalInv /\ LogAcked /\ [Next]_vars => LogAcked'
  BY LogAckedStep DEF JournalInv
<1>3. Init /\ JournalInv /\ LogAcked => Log!Init
  BY LogInit DEF JournalInv, Ordered
<1>4. JournalInv /\ JournalInv' /\ LogAcked' /\ [Next]_vars => [Log!Next]_(Log!vars)
  <2>1. SUFFICES ASSUME JournalInv, JournalInv', LogAcked', [Next]_vars
                 PROVE  Log!Next \/ UNCHANGED Log!vars
    OBVIOUS
  <2>2. Ordered /\ Ordered' /\ Whole /\ Whole' /\ AckedDurable'
    BY <2>1 DEF JournalInv
  <2>3. CASE AppendNext
    BY <2>2, <2>3, LogAppends
  <2>4. CASE FlushNext
    BY <2>1, <2>2, <2>4, LogFlushes
  <2>5. CASE ElectNext
    BY <2>1, <2>2, <2>5, LogElects
  <2>6. CASE FleetNext \/ UNCHANGED vars
    BY <2>2, <2>6, LogFleet
  <2>. QED
    BY <2>1, <2>3, <2>4, <2>5, <2>6 DEF Next
<1>. QED
  BY <1>1, <1>2, <1>3, <1>4, InductiveInvariant, PTL DEF Spec, ImplementsLog, Log!Spec
=============================================================================
