----------------------- MODULE StorageStatsProofs -----------------------
(***************************************************************************)
(* What holds of StorageStats for any finite sets of objects and volumes,  *)
(* any placement width and any budgets.  Typed says which of the flush,    *)
(* the reconcile, stop() and the process are at work together.  Drift is   *)
(* then a sum over what the document, the pending deltas, the flush and    *)
(* the callers hold, less the rows: each step moves an amount from one     *)
(* place to the other, or is one of the steps MayDrift names.  Counting    *)
(* says that a reconcile has counted the rows as they are, unless a change *)
(* has marked it or is still to be counted.                                *)
(***************************************************************************)
EXTENDS StorageStats, TLAPS, FiniteSetTheorems

\* The document.
DocType == [doc : BOOLEAN, c : CountersType, known : SUBSET Volumes, seen : SUBSET (Volumes \cup {"unset"})]

\* The flush, the reconcile, the refresh, the jobs and the budgets.
FlightType == [on : BOOLEAN, delta : CountersType, applied : BOOLEAN, timer : BOOLEAN, rec : BOOLEAN,
               stop : {"no", "done", "late"}]
RecType == [pc : {"idle", "flush", "wait", "system", "volumes", "unavailable", "replace"},
            attempt : 0 .. MaxAttempts, moved : BOOLEAN, readable : SUBSET Volumes, snap : DocType,
            left : CountersType]
RefType == [pc : {"idle", "query", "write"}, readable : SUBSET Volumes, un : Int]
JobType == [pc : {"idle", "created", "loaded", "deleted"}, at : SUBSET Volumes]
UsedType == [ops : Nat, faults : Nat]

USE DEF FlightType, RecType, RefType, JobType, UsedType

\* What the tracker and the document are.
Shape ==
    /\ cache \in DocType /\ pending \in CountersType /\ timer \in BOOLEAN /\ periodic \in BOOLEAN
    /\ flight \in FlightType
    /\ rec \in RecType
    /\ ref \in RefType
    /\ up \in {"down", "up", "stopping"}
    /\ used \in UsedType

\* What the rows and their callers are; who creates or deletes knows where the slices are.
RowShape ==
    /\ content \in [Objects -> Placements \cup {{}}] /\ readable \subseteq Volumes
    /\ job \in [Objects -> JobType]
    /\ mover \in [from : SUBSET Volumes, to : SUBSET Volumes]
    /\ \A o \in Objects : job[o].pc # "idle" => job[o].at # {}

\* Who waits for whom: a reconcile that waits is recorded at its flush, a stop that made its last
\* flush ran after the reconcile and left nothing pending, a process that is down has nothing in memory.
Waits ==
    /\ rec.pc = "wait" <=> flight.rec
    /\ flight.rec => flight.on
    /\ up # "up" => ~timer
    /\ up = "down" => /\ flight = NoFlight /\ pending = Zero /\ rec = NoRec /\ ref = NoRef
                      /\ mover = NoMove /\ job = [o \in Objects |-> NoJob]
    /\ flight.stop # "no" => up = "stopping" /\ rec.pc = "idle"
    /\ flight.stop = "done" => pending = Zero

\* The first half of the inductive invariant.
Typed == Shape /\ RowShape /\ Waits

\* The second: a reconcile that has seen no change has counted the rows as they are.
Counting ==
    rec.pc \in {"system", "volumes", "unavailable", "replace"} =>
        /\ ~flight.on
        /\ up = "up" /\ ~rec.moved =>
              /\ pending = rec.left
              /\ Idle => /\ rec.pc # "system" => rec.snap.c.n = CountSystem
                         /\ rec.pc \in {"unavailable", "replace"} => rec.snap.c.vol = CountVolumes

-----------------------------------------------------------------------------
\* The initial values have their types.
LEMMA ZeroTyped ==
    /\ Zero \in CountersType /\ NoDoc \in DocType
    /\ NoFlight \in FlightType
    /\ NoRec \in RecType
    /\ NoRef \in RefType
<1>1. Zero \in CountersType
  BY DEF Zero, CountersType
<1>2. NoDoc \in DocType
  BY <1>1 DEF NoDoc, DocType
<1>3. 0 \in 0 .. MaxAttempts
  BY StatsAssumption
<1>. QED
  BY <1>1, <1>2, <1>3 DEF NoFlight, NoRec, NoRef

\* mergeStorageStatsDelta adds counter by counter.
LEMMA MergeTyped ==
    ASSUME NEW a \in CountersType, NEW b \in CountersType
    PROVE  /\ mergeStorageStatsDelta(a, b) \in CountersType
           /\ mergeStorageStatsDelta(a, b).n = a.n + b.n
           /\ mergeStorageStatsDelta(a, b).un = a.un + b.un
           /\ \A v \in Volumes : mergeStorageStatsDelta(a, b).vol[v] = a.vol[v] + b.vol[v]
  BY DEF mergeStorageStatsDelta, CountersType

\* The zero delta has zeros.
LEMMA ZeroCounts == Zero.n = 0 /\ Zero.un = 0 /\ \A v \in Volumes : Zero.vol[v] = 0
  BY DEF Zero

\* applyStorageStatsDelta adds the delta to the document.
LEMMA ApplyTyped ==
    ASSUME NEW c \in DocType, NEW delta \in CountersType
    PROVE  /\ applyDelta(c, delta) \in DocType
           /\ applyDelta(c, delta).c.n = c.c.n + delta.n
           /\ \A v \in Volumes : applyDelta(c, delta).c.vol[v] = c.c.vol[v] + delta.vol[v]
<1>1. CASE delta = Zero
  <2>1. applyDelta(c, delta) = c
    BY <1>1 DEF applyDelta
  <2>2. c.c \in CountersType
    BY DEF DocType
  <2>. QED
    BY <2>1, <2>2, <1>1, ZeroCounts DEF CountersType
<1>2. CASE delta # Zero
  <2>. DEFINE m == mergeStorageStatsDelta(c.c, delta)
  <2>1. c.c \in CountersType
    BY DEF DocType
  <2>2. applyDelta(c, delta) = [c EXCEPT !.doc = TRUE, !.c = m, !.known = @ \cup {v \in Volumes : delta.vol[v] # 0}]
    BY <1>2 DEF applyDelta
  <2>3. m \in CountersType /\ m.n = c.c.n + delta.n /\ \A v \in Volumes : m.vol[v] = c.c.vol[v] + delta.vol[v]
    BY <2>1, MergeTyped
  <2>. HIDE DEF m
  <2>4. applyDelta(c, delta) \in DocType
    BY <2>2, <2>3 DEF DocType
  <2>5. applyDelta(c, delta).c = m
    BY <2>2 DEF DocType
  <2>. QED
    BY <2>3, <2>4, <2>5
<1>. QED
  BY <1>1, <1>2

\* The delta of an object counts it once, and once on each of its volumes.
LEMMA BuildTyped ==
    ASSUME NEW at \in SUBSET Volumes, NEW dir \in {1, -1}, NEW avail
    PROVE  /\ buildStorageStatsDeltaForObject(at, dir, avail) \in CountersType
           /\ buildStorageStatsDeltaForObject(at, dir, avail).n = dir
           /\ \A v \in Volumes :
                 buildStorageStatsDeltaForObject(at, dir, avail).vol[v] = IF v \in at THEN dir ELSE 0
<1>. DEFINE u == IF objectIsUnavailable(at, avail) THEN dir ELSE 0
            m == [v \in Volumes |-> IF v \in at THEN dir ELSE 0]
<1>1. u \in Int
  OBVIOUS
<1>2. m \in [Volumes -> Int]
  OBVIOUS
<1>3. buildStorageStatsDeltaForObject(at, dir, avail) = [n |-> dir, un |-> u, vol |-> m]
  BY DEF buildStorageStatsDeltaForObject
<1>. HIDE DEF u
<1>. QED
  BY <1>1, <1>2, <1>3 DEF CountersType

\* The delta of a relocation only moves one slice.
LEMMA RelocationTyped ==
    ASSUME NEW from \in SUBSET Volumes, NEW to \in SUBSET Volumes
    PROVE  /\ buildStorageStatsDeltaForRelocation(from, to) \in CountersType
           /\ buildStorageStatsDeltaForRelocation(from, to).n = 0
           /\ \A v \in Volumes : buildStorageStatsDeltaForRelocation(from, to).vol[v]
                                 = (IF v \in to THEN 1 ELSE 0) - (IF v \in from THEN 1 ELSE 0)
  BY DEF buildStorageStatsDeltaForRelocation, CountersType, Zero

\* Two sets of objects that agree but for one object.
LEMMA OneMore ==
    ASSUME NEW A \in SUBSET Objects, NEW B \in SUBSET Objects, NEW o \in Objects,
           \A p \in Objects \ {o} : p \in A <=> p \in B
    PROVE  /\ Cardinality(A) \in Nat /\ Cardinality(B) \in Nat
           /\ Cardinality(B) - Cardinality(A) = (IF o \in B THEN 1 ELSE 0) - (IF o \in A THEN 1 ELSE 0)
<1>1. IsFiniteSet(A) /\ IsFiniteSet(B)
  BY StatsAssumption, FS_Subset
<1>2. Cardinality(A) \in Nat /\ Cardinality(B) \in Nat
  BY <1>1, FS_CardinalityType
<1>3. CASE o \in A /\ o \notin B
  <2>1. A = B \cup {o}
    BY <1>3
  <2>2. Cardinality(A) = Cardinality(B) + 1
    BY <2>1, <1>1, <1>3, FS_AddElement
  <2>. QED
    BY <2>2, <1>2, <1>3
<1>4. CASE o \notin A /\ o \in B
  <2>1. B = A \cup {o}
    BY <1>4
  <2>2. Cardinality(B) = Cardinality(A) + 1
    BY <2>1, <1>1, <1>4, FS_AddElement
  <2>. QED
    BY <2>2, <1>2, <1>4
<1>5. CASE o \in A <=> o \in B
  <2>1. A = B
    BY <1>5
  <2>. QED
    BY <2>1, <1>2
<1>. QED
  BY <1>2, <1>3, <1>4, <1>5

\* A set of objects has a number of objects.
LEMMA Counted == ASSUME NEW A \in SUBSET Objects PROVE Cardinality(A) \in Nat
  BY StatsAssumption, FS_Subset, FS_CardinalityType

\* The database's counts are natural numbers.
LEMMA CountsTyped ==
    CountSystem \in Nat /\ CountVolumes \in [Volumes -> Nat]
    /\ \A known, avail : computeUnavailableStorageStats(known, avail) \in Nat
<1>1. CountSystem \in Nat
  BY Counted DEF CountSystem, Rows
<1>2. ASSUME NEW v \in Volumes PROVE Cardinality({o \in Rows : v \in content[o]}) \in Nat
  BY Counted DEF Rows
<1>3. ASSUME NEW known, NEW avail PROVE computeUnavailableStorageStats(known, avail) \in Nat
  BY Counted DEF computeUnavailableStorageStats, Rows
<1>. QED
  BY <1>1, <1>2, <1>3 DEF CountVolumes

-----------------------------------------------------------------------------
\* recordDelta adds to what is pending while the tracker runs, and marks the reconcile; otherwise nothing.
LEMMA DeltaRecorded ==
    ASSUME Typed, NEW delta \in CountersType, recordDelta(delta)
    PROVE  /\ pending' \in CountersType /\ timer' \in BOOLEAN
           /\ rec' = [rec EXCEPT !.moved = rec'.moved] /\ rec'.moved \in BOOLEAN
           /\ up = "up" => /\ pending' = mergeStorageStatsDelta(pending, delta)
                           /\ rec.pc # "idle" => rec'.moved
           /\ up # "up" => pending' = pending /\ timer' = timer /\ rec' = rec
<1>1. CASE up = "up"
  <2>1. /\ pending' = mergeStorageStatsDelta(pending, delta) /\ timer' = TRUE
        /\ rec' = [rec EXCEPT !.moved = rec.pc # "idle"]
    BY <1>1 DEF recordDelta
  <2>2. pending' \in CountersType
    BY <2>1, MergeTyped DEF Typed, Shape
  <2>3. rec'.moved = (rec.pc # "idle")
    BY <2>1 DEF Typed, Shape
  <2>. QED
    BY <1>1, <2>1, <2>2, <2>3
<1>2. CASE up # "up"
  <2>1. pending' = pending /\ timer' = timer /\ rec' = rec
    BY <1>2 DEF recordDelta
  <2>2. rec = [rec EXCEPT !.moved = rec.moved] /\ rec.moved \in BOOLEAN
    BY DEF Typed, Shape
  <2>. QED
    BY <1>2, <2>1, <2>2 DEF Typed, Shape
<1>. QED
  BY <1>1, <1>2

\* A budget that is used.
LEMMA OnceMore ==
    ASSUME Typed, NEW kind \in {"ops", "faults"}, Use(kind)
    PROVE  used' \in UsedType /\ used'[kind] = used[kind] + 1
  BY DEF Use, Typed, Shape

\* A flip of one reference to a volume not used yet keeps a placement a placement.
LEMMA PlacementsTyped ==
    /\ \A at \in Placements : at \in SUBSET Volumes /\ at # {}
    /\ \A at \in Placements : \A from \in at, to \in Volumes \ at : (at \ {from}) \cup {to} \in Placements
<1>1. ASSUME NEW at \in Placements PROVE at \in SUBSET Volumes /\ at # {} /\ IsFiniteSet(at) /\ Cardinality(at) = Width
  <2>1. at \in SUBSET Volumes /\ Cardinality(at) = Width
    BY DEF Placements, kSubset
  <2>2. Width # 0
    BY StatsAssumption
  <2>. QED
    BY <2>1, <2>2, StatsAssumption, FS_EmptySet, FS_Subset
<1>2. ASSUME NEW at \in Placements, NEW from \in at, NEW to \in Volumes \ at
      PROVE  (at \ {from}) \cup {to} \in Placements
  <2>1. IsFiniteSet(at \ {from}) /\ Cardinality(at \ {from}) = Width - 1
    BY <1>1, FS_RemoveElement
  <2>2. Cardinality((at \ {from}) \cup {to}) = Width - 1 + 1
    BY <2>1, FS_AddElement
  <2>3. Width - 1 + 1 = Width
    BY StatsAssumption, FS_CardinalityType
  <2>4. (at \ {from}) \cup {to} \in SUBSET Volumes
    BY <1>1
  <2>. QED
    BY <2>2, <2>3, <2>4 DEF Placements, kSubset
<1>. QED
  BY <1>1, <1>2

\* createObjectRecord keeps the types.
LEMMA CreateTyped ==
    ASSUME Typed, NEW o \in Objects, NEW at \in Placements, createObjectRecord(o, at)
    PROVE  Typed'
<1>1. at \in SUBSET Volumes /\ at # {}
  BY PlacementsTyped
<1>2. /\ up = "up" /\ used' \in UsedType
      /\ content' = [content EXCEPT ![o] = at] /\ job' = [job EXCEPT ![o] = [pc |-> "created", at |-> at]]
      /\ UNCHANGED <<readable, cache, pending, timer, flight, rec, ref, mover, up, periodic>>
  BY OnceMore DEF createObjectRecord
<1>3. Shape'
  BY <1>2 DEF Typed, Shape
<1>4. RowShape'
  BY <1>1, <1>2 DEF Typed, RowShape
<1>5. Waits'
  BY <1>2 DEF Typed, Waits
<1>. QED
  BY <1>3, <1>4, <1>5 DEF Typed

\* loadForDelete keeps the types.
LEMMA LoadTyped ==
    ASSUME Typed, NEW o \in Objects, loadForDelete(o)
    PROVE  Typed'
<1>1. content[o] \in SUBSET Volumes
  BY PlacementsTyped DEF Typed, RowShape
<1>2. /\ up = "up" /\ used' \in UsedType /\ content[o] # {}
      /\ job' = [job EXCEPT ![o] = [pc |-> "loaded", at |-> content[o]]]
      /\ UNCHANGED <<content, readable, cache, pending, timer, flight, rec, ref, mover, up, periodic>>
  BY OnceMore DEF loadForDelete
<1>3. Shape'
  BY <1>2 DEF Typed, Shape
<1>4. RowShape'
  BY <1>1, <1>2 DEF Typed, RowShape
<1>5. Waits'
  BY <1>2 DEF Typed, Waits
<1>. QED
  BY <1>3, <1>4, <1>5 DEF Typed

\* deleteObjectById keeps the types.
LEMMA DeleteTyped ==
    ASSUME Typed, NEW o \in Objects, deleteObjectById(o)
    PROVE  Typed'
<1>2. /\ job[o].pc = "loaded" /\ content' = [content EXCEPT ![o] = {}] /\ job' = [job EXCEPT ![o].pc = "deleted"]
      /\ UNCHANGED <<readable, cache, pending, timer, flight, rec, ref, mover, up, periodic, used>>
  BY DEF deleteObjectById
<1>3. Shape'
  BY <1>2 DEF Typed, Shape
<1>4. RowShape'
  BY <1>2 DEF Typed, RowShape
<1>6. up # "down"
  BY <1>2 DEF Typed, Waits, NoJob
<1>5. Waits'
  BY <1>2, <1>6 DEF Typed, Waits
<1>. QED
  BY <1>3, <1>4, <1>5 DEF Typed

\* A change that is counted keeps the types.
LEMMA RecordTyped ==
    ASSUME Typed, NEW delta \in CountersType, recordDelta(delta), up # "down", RowShape',
           UNCHANGED <<cache, flight, ref, up, periodic, used>>
    PROVE  Typed'
<1>1. /\ pending' \in CountersType /\ timer' \in BOOLEAN
      /\ rec' = [rec EXCEPT !.moved = rec'.moved] /\ rec'.moved \in BOOLEAN
      /\ up # "up" => pending' = pending /\ timer' = timer /\ rec' = rec
  BY DeltaRecorded
<1>2. rec'.pc = rec.pc
  BY <1>1 DEF Typed, Shape
<1>3. Shape'
  BY <1>1 DEF Typed, Shape
<1>4. Waits'
  BY <1>1, <1>2 DEF Typed, Waits
<1>. QED
  BY <1>3, <1>4 DEF Typed

\* recordCreated and recordDeleted keep the types; there is a process.
LEMMA RecordStep ==
    ASSUME Typed, NEW o \in Objects, recordCreated(o) \/ recordDeleted(o)
    PROVE  Typed' /\ up # "down"
<1>1. job[o].pc \in {"created", "deleted"} /\ job' = [job EXCEPT ![o] = NoJob] /\ job[o].at \in SUBSET Volumes
  BY DEF recordCreated, recordDeleted, Typed, RowShape
<1>2. up # "down"
  BY <1>1 DEF Typed, Waits, NoJob
<1>3. RowShape'
  <2>1. content' = content /\ readable' = readable /\ mover' = mover
    BY DEF recordCreated, recordDeleted
  <2>2. NoJob \in JobType /\ NoJob.pc = "idle"
    BY DEF NoJob
  <2>. QED
    BY <1>1, <2>1, <2>2 DEF Typed, RowShape
<1>4. PICK dir \in {1, -1} : recordDelta(buildStorageStatsDeltaForObject(job[o].at, dir, readable))
  BY DEF recordCreated, recordDeleted
<1>5. UNCHANGED <<cache, flight, ref, up, periodic, used>>
  BY DEF recordCreated, recordDeleted
<1>6. buildStorageStatsDeltaForObject(job[o].at, dir, readable) \in CountersType
  BY <1>1, BuildTyped
<1>. QED
  BY <1>2, <1>3, <1>4, <1>5, <1>6, RecordTyped

\* A relocation and its count keep the types.
LEMMA RelocateTyped ==
    ASSUME Typed
    PROVE  /\ \A o \in Objects, from \in Volumes, to \in Volumes : replaceObjectVolumeRef(o, from, to) => Typed'
           /\ recordRelocated => Typed' /\ up # "down"
<1>1. ASSUME NEW o \in Objects, NEW from \in Volumes, NEW to \in Volumes, replaceObjectVolumeRef(o, from, to)
      PROVE  Typed'
  <2>1. /\ up = "up" /\ used' \in UsedType /\ from \in content[o] /\ to \notin content[o]
        /\ content' = [content EXCEPT ![o] = (@ \ {from}) \cup {to}]
        /\ mover' = [from |-> {from}, to |-> {to}]
        /\ UNCHANGED <<readable, cache, pending, timer, flight, rec, ref, job, up, periodic>>
    BY <1>1, OnceMore DEF replaceObjectVolumeRef
  <2>2. Shape'
    BY <2>1 DEF Typed, Shape
  <2>3. content[o] \in Placements /\ (content[o] \ {from}) \cup {to} \in Placements
    BY <2>1, PlacementsTyped DEF Typed, RowShape
  <2>4. RowShape'
    BY <2>1, <2>3 DEF Typed, RowShape
  <2>5. Waits'
    BY <2>1 DEF Typed, Waits
  <2>. QED
    BY <2>2, <2>4, <2>5 DEF Typed
<1>2. ASSUME recordRelocated PROVE Typed' /\ up # "down"
  <2>1. /\ mover # NoMove /\ mover' = NoMove /\ recordDelta(buildStorageStatsDeltaForRelocation(mover.from, mover.to))
        /\ UNCHANGED <<content, readable, cache, flight, ref, job, up, periodic, used>>
    BY <1>2 DEF recordRelocated
  <2>2. up # "down"
    BY <2>1 DEF Typed, Waits
  <2>3. mover' \in [from : SUBSET Volumes, to : SUBSET Volumes]
    BY <2>1 DEF NoMove
  <2>4. RowShape'
    BY <2>1, <2>3 DEF Typed, RowShape
  <2>5. buildStorageStatsDeltaForRelocation(mover.from, mover.to) \in CountersType
    <3>1. mover.from \in SUBSET Volumes /\ mover.to \in SUBSET Volumes
      BY DEF Typed, RowShape
    <3>. QED
      BY <3>1, RelocationTyped
  <2>. QED
    BY <2>1, <2>2, <2>4, <2>5, RecordTyped
<1>. QED
  BY <1>1, <1>2

-----------------------------------------------------------------------------
\* Steps that touch no row.
LEMMA RowsKept ==
    ASSUME Typed, UNCHANGED <<content, job, mover>>, readable' \subseteq Volumes
    PROVE  RowShape'
  BY DEF Typed, RowShape

\* The flush timer keeps the types.
LEMMA FlushTyped ==
    ASSUME Typed, flush
    PROVE  Typed'
<1>1. /\ timer /\ up = "up"
      /\ UNCHANGED <<content, readable, cache, rec, ref, job, mover, up, periodic, used>>
  BY DEF flush
<1>2. RowShape'
  BY <1>1, RowsKept DEF Typed, RowShape
<1>3. CASE UNCHANGED <<timer, flight, pending>>
  BY <1>1, <1>2, <1>3 DEF Typed, Shape, Waits
<1>4. CASE flight.on /\ timer' = FALSE /\ flight' = [flight EXCEPT !.timer = TRUE] /\ UNCHANGED pending
  BY <1>1, <1>2, <1>4 DEF Typed, Shape, Waits
<1>5. CASE /\ rec.pc = "idle" /\ ~flight.on /\ timer' = FALSE
           /\ IF pending = Zero THEN UNCHANGED <<flight, pending>> ELSE Launch([NoFlight EXCEPT !.timer = TRUE])
  <2>1. CASE UNCHANGED <<flight, pending>>
    BY <1>1, <1>2, <1>5, <2>1 DEF Typed, Shape, Waits
  <2>2. CASE Launch([NoFlight EXCEPT !.timer = TRUE])
    <3>1. /\ flight' = [NoFlight EXCEPT !.timer = TRUE, !.on = TRUE, !.delta = pending] /\ pending' = Zero
      BY <2>2 DEF Launch, NoFlight
    <3>2. flight' \in FlightType
      BY <3>1, ZeroTyped DEF Typed, Shape, NoFlight
    <3>3. ~flight'.rec /\ flight'.on /\ flight'.stop = "no"
      BY <3>1 DEF NoFlight
    <3>4. Shape'
      BY <1>1, <1>5, <3>1, <3>2, ZeroTyped DEF Typed, Shape
    <3>5. Waits'
      BY <1>1, <1>5, <3>1, <3>3 DEF Typed, Waits
    <3>. QED
      BY <1>2, <3>4, <3>5 DEF Typed
  <2>. QED
    BY <1>5, <2>1, <2>2
<1>. QED
  BY <1>3, <1>4, <1>5 DEF flush

\* applyStorageStatsDelta keeps the types.
LEMMA ApplyStepTyped ==
    ASSUME Typed, applyStorageStatsDelta
    PROVE  Typed'
<1>1. /\ flight.on /\ cache' = applyDelta(cache, flight.delta) /\ flight' = [flight EXCEPT !.applied = TRUE]
      /\ UNCHANGED <<content, readable, pending, timer, rec, ref, job, mover, up, periodic, used>>
  BY DEF applyStorageStatsDelta
<1>2. cache' \in DocType
  BY <1>1, ApplyTyped DEF Typed, Shape
<1>3. RowShape'
  BY <1>1, RowsKept DEF Typed, RowShape
<1>4. Shape'
  BY <1>1, <1>2 DEF Typed, Shape
<1>5. Waits'
  <2>1. up # "down"
    BY <1>1 DEF Typed, Waits, NoFlight
  <2>. QED
    BY <1>1, <2>1 DEF Typed, Shape, Waits
<1>. QED
  BY <1>3, <1>4, <1>5 DEF Typed

\* What becomes of the reconcile when the flush it awaited is over.
LEMMA AfterFlush ==
    ASSUME Typed, NEW ok \in BOOLEAN, RecAfterFlush(ok)
    PROVE  /\ rec' \in RecType
           /\ rec'.pc # "wait"
           /\ rec.pc = "idle" => rec' = rec
           /\ ~flight.rec => rec' = rec
           /\ flight.rec /\ ok => rec' = [rec EXCEPT !.pc = "system", !.moved = FALSE, !.readable = readable, !.left = pending]
           /\ flight.rec /\ ~ok => rec' = NoRec
<1>1. flight.rec \in BOOLEAN /\ (rec.pc = "wait" <=> flight.rec)
  BY DEF Typed, Shape, Waits
<1>2. CASE ~flight.rec
  <2>1. rec' = rec
    BY <1>2 DEF RecAfterFlush
  <2>. QED
    BY <1>1, <1>2, <2>1 DEF Typed, Shape
<1>3. CASE flight.rec /\ ok
  <2>1. rec' = [rec EXCEPT !.pc = "system", !.moved = FALSE, !.readable = readable, !.left = pending]
    BY <1>3 DEF RecAfterFlush
  <2>. QED
    BY <1>1, <1>3, <2>1 DEF Typed, Shape, RowShape
<1>4. CASE flight.rec /\ ~ok
  <2>1. rec' = NoRec
    BY <1>4 DEF RecAfterFlush
  <2>. QED
    BY <1>1, <1>4, <2>1, ZeroTyped DEF NoRec
<1>. QED
  BY <1>1, <1>2, <1>3, <1>4

\* A flush that ends releases who awaited it.
LEMMA FlushDoneTyped ==
    ASSUME Typed, flushDone
    PROVE  Typed'
<1>1. /\ flight.on /\ flight' = [NoFlight EXCEPT !.stop = flight.stop] /\ RecAfterFlush(TRUE)
      /\ UNCHANGED <<content, readable, cache, pending, timer, ref, job, mover, up, periodic, used>>
  BY DEF flushDone
<1>2. RowShape'
  BY <1>1, RowsKept DEF Typed, RowShape
<1>3. flight' \in FlightType
      /\ ~flight'.rec /\ flight'.stop = flight.stop
  BY <1>1, ZeroTyped DEF Typed, Shape, NoFlight
<1>4. Shape'
  BY <1>1, <1>3, AfterFlush DEF Typed, Shape
<1>5. up # "down"
  BY <1>1 DEF Typed, Waits, NoFlight
<1>6. Waits'
  BY <1>1, <1>3, <1>5, AfterFlush DEF Typed, Waits
<1>. QED
  BY <1>2, <1>4, <1>6 DEF Typed

\* A flush that fails rejects who awaited it.
LEMMA FlushFailsTyped ==
    ASSUME Typed, flushFails
    PROVE  Typed'
<1>. DEFINE s == IF flight.stop # "no" \/ (flight.rec /\ up = "stopping") THEN "late" ELSE "no"
<1>1. /\ flight.on /\ flight' = [NoFlight EXCEPT !.stop = s] /\ RecAfterFlush(FALSE)
      /\ used' \in UsedType
      /\ pending' = mergeStorageStatsDelta(pending, flight.delta)
      /\ timer' = (timer \/ (flight.timer /\ up = "up"))
      /\ UNCHANGED <<content, readable, cache, ref, job, mover, up, periodic>>
  BY OnceMore DEF flushFails
<1>2. RowShape'
  BY <1>1, RowsKept DEF Typed, RowShape
<1>3. flight' \in FlightType
      /\ ~flight'.rec /\ flight'.stop = s
  BY <1>1, ZeroTyped DEF Typed, Shape, NoFlight
<1>4. pending' \in CountersType
  BY <1>1, MergeTyped DEF Typed, Shape
<1>5. timer' \in BOOLEAN
  BY <1>1
<1>6. Shape'
  BY <1>1, <1>3, <1>4, <1>5, AfterFlush DEF Typed, Shape
<1>7. up # "down"
  BY <1>1 DEF Typed, Waits, NoFlight
<1>8. s # "no" => up = "stopping" /\ rec'.pc = "idle"
  <2>1. RecAfterFlush(FALSE) /\ FALSE \in BOOLEAN
    BY <1>1
  <2>2. (rec.pc = "idle" => rec' = rec) /\ (flight.rec => rec' = NoRec)
    BY <2>1, AfterFlush
  <2>3. flight.stop # "no" => up = "stopping" /\ rec.pc = "idle"
    BY DEF Typed, Waits
  <2>4. NoRec.pc = "idle"
    BY DEF NoRec
  <2>. QED
    BY <2>2, <2>3, <2>4
<1>9. Waits'
  BY <1>1, <1>3, <1>7, <1>8, AfterFlush DEF Typed, Waits
<1>. QED
  BY <1>2, <1>6, <1>9 DEF Typed

-----------------------------------------------------------------------------
\* A reconcile, or its next pass, starts with a flush.
LEMMA BeginningTyped ==
    /\ \A k \in 1 .. MaxAttempts :
         [Beginning EXCEPT !.attempt = k] \in RecType
    /\ \A k \in 1 .. MaxAttempts : [Beginning EXCEPT !.attempt = k].pc = "flush"
    /\ Beginning = [Beginning EXCEPT !.attempt = 1] /\ 1 \in 1 .. MaxAttempts
    /\ Beginning.pc = "flush"
<1>1. 1 \in 1 .. MaxAttempts
  BY StatsAssumption
<1>2. NoRec \in RecType
  BY ZeroTyped
<1>3. Beginning = [NoRec EXCEPT !.pc = "flush", !.attempt = 1]
  BY DEF Beginning
<1>4. Beginning.pc = "flush" /\ Beginning.attempt = 1
  BY <1>2, <1>3
<1>5. Beginning \in RecType
  <2>1. 1 \in 0 .. MaxAttempts
    BY StatsAssumption
  <2>. QED
    BY <1>2, <1>3, <2>1
<1>6. ASSUME NEW k \in 1 .. MaxAttempts
      PROVE  /\ [Beginning EXCEPT !.attempt = k] \in RecType
             /\ [Beginning EXCEPT !.attempt = k].pc = "flush"
  <2>1. k \in 0 .. MaxAttempts
    BY StatsAssumption
  <2>. QED
    BY <1>4, <1>5, <2>1
<1>. QED
  BY <1>1, <1>4, <1>5, <1>6

\* A step that only concerns the reconcile.
LEMMA ReconcileKept ==
    ASSUME Typed, up = "up",
           rec' \in RecType,
           rec'.pc # "wait", rec.pc # "wait", ref' = ref, cache' \in DocType,
           used' \in UsedType,
           UNCHANGED <<content, readable, pending, timer, flight, job, mover, up, periodic>>
    PROVE  Typed'
<1>1. RowShape'
  BY RowsKept DEF Typed, RowShape
<1>2. Shape'
  BY DEF Typed, Shape
<1>3. Waits'
  BY DEF Typed, Waits
<1>. QED
  BY <1>1, <1>2, <1>3 DEF Typed

\* The reconcile timer and the operator's request keep the types.
LEMMA BeginTyped ==
    ASSUME Typed, reconcileTick \/ handleStorageStatsReconcileRequest
    PROVE  Typed'
<1>1. /\ up = "up" /\ rec.pc = "idle" /\ rec' = Beginning
      /\ UNCHANGED <<content, readable, cache, pending, timer, flight, ref, job, mover, up, periodic>>
  BY DEF reconcileTick, handleStorageStatsReconcileRequest
<1>2. used' \in UsedType
  BY OnceMore DEF reconcileTick, handleStorageStatsReconcileRequest, Typed, Shape
<1>3. cache' \in DocType
  BY <1>1 DEF Typed, Shape
<1>4. rec' \in RecType /\ rec'.pc # "wait"
  BY <1>1, BeginningTyped
<1>. QED
  BY <1>1, <1>2, <1>3, <1>4, ReconcileKept

\* A reconcile that finds a flush awaits it.
LEMMA ReconcileFlushTyped ==
    ASSUME Typed, reconcileFlush
    PROVE  Typed'
<1>1. /\ rec.pc = "flush" /\ ~flight.rec /\ up # "down" /\ flight.stop = "no"
      /\ UNCHANGED <<content, readable, cache, ref, job, mover, up, periodic, used>>
  BY DEF reconcileFlush, Typed, Shape, Waits, NoRec
<1>2. RowShape'
  BY <1>1, RowsKept DEF Typed, RowShape
<1>3. CASE flight.on /\ flight' = [flight EXCEPT !.rec = TRUE] /\ rec' = [rec EXCEPT !.pc = "wait"]
           /\ UNCHANGED <<pending, timer>>
  <2>1. Shape'
    BY <1>1, <1>3 DEF Typed, Shape
  <2>2. rec'.pc = "wait" /\ flight'.rec /\ flight'.on /\ flight'.stop = flight.stop
    BY <1>3 DEF Typed, Shape
  <2>3. Waits'
    BY <1>1, <1>3, <2>2 DEF Typed, Waits
  <2>. QED
    BY <1>2, <2>1, <2>3 DEF Typed
<1>4. CASE /\ ~flight.on /\ pending = Zero /\ timer' = FALSE
           /\ rec' = [rec EXCEPT !.pc = "system", !.moved = FALSE, !.readable = readable, !.left = Zero]
           /\ UNCHANGED <<pending, flight>>
  <2>1. Shape'
    BY <1>1, <1>4, ZeroTyped DEF Typed, Shape, RowShape
  <2>2. rec'.pc = "system"
    BY <1>4 DEF Typed, Shape
  <2>3. Waits'
    BY <1>1, <1>4, <2>2 DEF Typed, Waits
  <2>. QED
    BY <1>2, <2>1, <2>3 DEF Typed
<1>5. CASE /\ ~flight.on /\ pending # Zero /\ timer' = FALSE /\ Launch([NoFlight EXCEPT !.rec = TRUE])
           /\ rec' = [rec EXCEPT !.pc = "wait"]
  <2>1. flight' = [NoFlight EXCEPT !.rec = TRUE, !.on = TRUE, !.delta = pending] /\ pending' = Zero
    BY <1>5 DEF Launch, NoFlight
  <2>2. flight' \in FlightType
        /\ flight'.rec /\ flight'.on /\ flight'.stop = "no"
    BY <2>1, ZeroTyped DEF Typed, Shape, NoFlight
  <2>3. Shape'
    BY <1>1, <1>5, <2>1, <2>2, ZeroTyped DEF Typed, Shape
  <2>4. rec'.pc = "wait"
    BY <1>5 DEF Typed, Shape
  <2>5. Waits'
    BY <1>1, <1>5, <2>1, <2>2, <2>4 DEF Typed, Waits
  <2>. QED
    BY <1>2, <2>3, <2>5 DEF Typed
<1>. QED
  BY <1>3, <1>4, <1>5 DEF reconcileFlush

\* A reconcile that runs, in a process that serves or stops.
LEMMA CountStepTyped ==
    ASSUME Typed, rec.pc \in {"system", "volumes", "unavailable", "replace"},
           rec' \in RecType,
           rec'.pc # "wait", cache' \in DocType, used' \in UsedType,
           flight' = flight \/ (up = "stopping" /\ rec'.pc = "idle" /\ flight' = [flight EXCEPT !.stop = "late"]),
           UNCHANGED <<content, readable, pending, timer, ref, job, mover, up, periodic>>
    PROVE  Typed'
<1>1. up # "down" /\ flight.stop = "no" /\ ~flight.rec
  BY DEF Typed, Shape, Waits, NoRec
<1>2. RowShape'
  BY RowsKept DEF Typed, RowShape
<1>3. Shape'
  BY DEF Typed, Shape
<1>4. flight'.rec = flight.rec /\ flight'.on = flight.on
      /\ (flight'.stop = "no" \/ (flight'.stop = "late" /\ up = "stopping" /\ rec'.pc = "idle"))
  <2>1. CASE flight' = flight
    BY <1>1, <2>1
  <2>2. CASE up = "stopping" /\ rec'.pc = "idle" /\ flight' = [flight EXCEPT !.stop = "late"]
    BY <2>2 DEF Typed, Shape
  <2>. QED
    BY <2>1, <2>2
<1>5. Waits'
  BY <1>1, <1>4 DEF Typed, Waits
<1>. QED
  BY <1>2, <1>3, <1>5 DEF Typed

\* computeStorageStats keeps the types, and neither the mark nor what was left pending.
LEMMA ComputeTyped ==
    ASSUME Typed, computeStorageStats
    PROVE  Typed' /\ rec'.moved = rec.moved /\ rec'.left = rec.left
<1>1. /\ UNCHANGED <<content, readable, cache, pending, timer, flight, ref, job, mover, up, periodic, used>>
      /\ rec.pc \in {"system", "volumes", "unavailable", "replace"}
  BY DEF computeStorageStats
<1>2. /\ rec' \in RecType
      /\ rec'.pc # "wait" /\ rec'.moved = rec.moved /\ rec'.left = rec.left
  <2>1. CASE rec.pc = "system"
    <3>. DEFINE d == [NoDoc EXCEPT !.doc = TRUE, !.c.n = CountSystem]
    <3>1. rec' = [rec EXCEPT !.pc = "volumes", !.snap = d]
      BY <2>1 DEF computeStorageStats
    <3>2. CountSystem \in Int
      BY CountsTyped
    <3>3. d \in DocType
      BY <3>2, ZeroTyped DEF NoDoc, DocType, CountersType
    <3>. HIDE DEF d
    <3>. QED
      BY <3>1, <3>3 DEF Typed, Shape
  <2>2. CASE rec.pc = "volumes"
    <3>. DEFINE d == [rec.snap EXCEPT !.c.vol = CountVolumes, !.known = {v \in Volumes : CountVolumes[v] > 0}]
    <3>1. rec' = [rec EXCEPT !.pc = "unavailable", !.snap = d]
      BY <2>2 DEF computeStorageStats, Typed, Shape, DocType
    <3>2. CountVolumes \in [Volumes -> Int]
      BY CountsTyped
    <3>3. rec.snap \in DocType
      BY DEF Typed, Shape
    <3>4. d \in DocType
      BY <3>2, <3>3 DEF DocType, CountersType
    <3>. HIDE DEF d
    <3>. QED
      BY <3>1, <3>4 DEF Typed, Shape
  <2>3. CASE rec.pc = "unavailable"
    <3>. DEFINE k == computeUnavailableStorageStats(rec.snap.known, rec.readable)
                d == [rec.snap EXCEPT !.c.un = k, !.seen = rec.readable]
    <3>1. rec' = [rec EXCEPT !.pc = "replace", !.snap = d]
      BY <2>3 DEF computeStorageStats, Typed, Shape, DocType
    <3>2. k \in Int
      BY CountsTyped
    <3>3. rec.snap \in DocType /\ rec.readable \in SUBSET Volumes
      BY DEF Typed, Shape
    <3>. HIDE DEF k
    <3>4. d \in DocType
      BY <3>2, <3>3 DEF DocType, CountersType
    <3>. HIDE DEF d
    <3>. QED
      BY <3>1, <3>4 DEF Typed, Shape
  <2>. QED
    BY <2>1, <2>2, <2>3 DEF computeStorageStats
<1>3. cache' \in DocType /\ used' \in UsedType
  BY <1>1 DEF Typed, Shape
<1>. QED
  BY <1>1, <1>2, <1>3, CountStepTyped

\* replaceStorageStats keeps the types.
LEMMA ReplaceTyped ==
    ASSUME Typed, replaceStorageStats
    PROVE  Typed'
<1>1. /\ UNCHANGED <<content, readable, pending, timer, flight, ref, job, mover, up, periodic, used>>
      /\ rec.pc = "replace" /\ cache' = rec.snap
      /\ rec' = IF rec.moved /\ rec.attempt < MaxAttempts
                THEN [Beginning EXCEPT !.attempt = rec.attempt + 1] ELSE NoRec
  BY DEF replaceStorageStats
<1>2. cache' \in DocType /\ used' \in UsedType /\ rec.attempt \in 0 .. MaxAttempts
  BY <1>1 DEF Typed, Shape
<1>3. /\ rec' \in RecType
      /\ rec'.pc # "wait"
  <2>1. CASE rec.moved /\ rec.attempt < MaxAttempts
    <3>1. rec.attempt + 1 \in 1 .. MaxAttempts
      BY <2>1, <1>2, StatsAssumption
    <3>2. rec' = [Beginning EXCEPT !.attempt = rec.attempt + 1]
      BY <2>1, <1>1
    <3>3. [Beginning EXCEPT !.attempt = rec.attempt + 1].pc = "flush"
      BY DEF Beginning, NoRec
    <3>. QED
      BY <3>1, <3>2, <3>3, BeginningTyped
  <2>2. CASE ~(rec.moved /\ rec.attempt < MaxAttempts)
    <3>1. rec' = NoRec /\ NoRec.pc = "idle"
      BY <2>2, <1>1 DEF NoRec
    <3>. QED
      BY <3>1, ZeroTyped
  <2>. QED
    BY <2>1, <2>2
<1>. QED
  BY <1>1, <1>2, <1>3, CountStepTyped

\* A reconcile that fails under a stop() that awaits it ends that stop().
LEMMA ReconcileFailsTyped ==
    ASSUME Typed, reconcileFails
    PROVE  Typed'
<1>1. /\ UNCHANGED <<content, readable, cache, pending, timer, ref, job, mover, up, periodic>>
      /\ rec.pc \in {"system", "volumes", "unavailable", "replace"} /\ rec' = NoRec
      /\ flight' = IF up = "stopping" THEN [flight EXCEPT !.stop = "late"] ELSE flight
  BY DEF reconcileFails
<1>2. cache' \in DocType /\ used' \in UsedType
  BY <1>1, OnceMore DEF reconcileFails, Typed, Shape
<1>3. NoRec.pc = "idle"
  BY DEF NoRec
<1>4. flight' = flight \/ (up = "stopping" /\ rec'.pc = "idle" /\ flight' = [flight EXCEPT !.stop = "late"])
  BY <1>1, <1>3
<1>5. /\ rec' \in RecType
      /\ rec'.pc # "wait"
  BY <1>1, <1>3, ZeroTyped
<1>. QED
  BY <1>1, <1>2, <1>4, <1>5, CountStepTyped

-----------------------------------------------------------------------------
\* refreshUnavailableIfNeeded keeps the type of the refresh.
LEMMA RefreshTyped ==
    ASSUME Typed, RefreshIfNeeded
    PROVE  ref' \in RefType
<1>1. readable \in SUBSET Volumes /\ ref \in RefType
  BY DEF Typed, Shape, RowShape
<1>2. [NoRef EXCEPT !.pc = "query", !.readable = readable] \in RefType
  BY <1>1, ZeroTyped
<1>3. ref' = [NoRef EXCEPT !.pc = "query", !.readable = readable] \/ ref' = ref
  BY DEF RefreshIfNeeded
<1>. QED
  BY <1>1, <1>2, <1>3

\* getSnapshot keeps the types.
LEMMA SnapshotTyped ==
    ASSUME Typed, getSnapshot
    PROVE  Typed'
<1>1. /\ up = "up" /\ RefreshIfNeeded
      /\ rec' = rec \/ (rec.pc = "idle" /\ rec' = Beginning)
      /\ UNCHANGED <<content, readable, cache, pending, timer, flight, job, mover, up, periodic, used>>
  BY DEF getSnapshot
<1>2. /\ rec' \in RecType
      /\ rec'.pc = "wait" <=> rec.pc = "wait"
      /\ flight.stop # "no" => rec'.pc = "idle"
  <2>1. CASE rec' = rec
    BY <1>1, <2>1 DEF Typed, Shape, Waits
  <2>2. CASE rec.pc = "idle" /\ rec' = Beginning
    BY <1>1, <2>2, BeginningTyped DEF Typed, Waits
  <2>. QED
    BY <1>1, <2>1, <2>2
<1>3. RowShape'
  BY <1>1, RowsKept DEF Typed, RowShape
<1>4. Shape'
  BY <1>1, <1>2, RefreshTyped DEF Typed, Shape
<1>5. Waits'
  BY <1>1, <1>2 DEF Typed, Waits
<1>. QED
  BY <1>3, <1>4, <1>5 DEF Typed

\* The refresh of the unavailable counter keeps the types.
LEMMA RefreshStepTyped ==
    ASSUME Typed, refreshQuery \/ updateUnavailable
    PROVE  Typed'
<1>1. /\ ref.pc # "idle" /\ UNCHANGED <<content, readable, pending, timer, flight, rec, job, mover, up, periodic, used>>
  BY DEF refreshQuery, updateUnavailable
<1>2. up # "down"
  BY <1>1 DEF Typed, Waits, NoRef
<1>3. cache' \in DocType /\ ref' \in RefType
  <2>1. CASE refreshQuery
    <3>. DEFINE k == computeUnavailableStorageStats(cache.known, ref.readable)
    <3>1. k \in Int
      BY CountsTyped
    <3>2. ref' = [ref EXCEPT !.pc = "write", !.un = k] /\ cache' = cache
      BY <2>1 DEF refreshQuery
    <3>. HIDE DEF k
    <3>. QED
      BY <3>1, <3>2 DEF Typed, Shape
  <2>2. CASE updateUnavailable
    <3>1. cache' = [cache EXCEPT !.c.un = ref.un, !.seen = ref.readable] /\ ref' = NoRef
      BY <2>2 DEF updateUnavailable
    <3>2. cache \in DocType /\ ref.un \in Int /\ ref.readable \in SUBSET Volumes
      BY DEF Typed, Shape
    <3>3. cache' \in DocType
      BY <3>1, <3>2 DEF DocType, CountersType
    <3>. QED
      BY <3>1, <3>3, ZeroTyped
  <2>. QED
    BY <2>1, <2>2
<1>4. RowShape'
  BY <1>1, RowsKept DEF Typed, RowShape
<1>5. Shape'
  BY <1>1, <1>3 DEF Typed, Shape
<1>6. Waits'
  BY <1>1, <1>2 DEF Typed, Waits
<1>. QED
  BY <1>4, <1>5, <1>6 DEF Typed

\* start keeps the types.
LEMMA StartTyped ==
    ASSUME Typed, start
    PROVE  Typed'
<1>1. /\ up = "down" /\ up' = "up" /\ (rec' = Beginning \/ rec' = NoRec)
      /\ UNCHANGED <<content, readable, cache, pending, timer, flight, job, mover, periodic, used>>
  BY DEF start
<1>2. ref' \in RefType
  BY RefreshTyped DEF start, Typed, Shape
<1>3. /\ rec' \in RecType
      /\ rec'.pc # "wait"
  <2>1. NoRec.pc = "idle"
    BY DEF NoRec
  <2>. QED
    BY <1>1, <2>1, BeginningTyped, ZeroTyped
<1>4. flight = NoFlight /\ ~flight.rec /\ flight.stop = "no" /\ pending = Zero
  BY <1>1 DEF Typed, Waits, NoFlight
<1>5. RowShape'
  BY <1>1, RowsKept DEF Typed, RowShape
<1>6. Shape'
  BY <1>1, <1>2, <1>3 DEF Typed, Shape
<1>7. Waits'
  BY <1>1, <1>3, <1>4 DEF Waits
<1>. QED
  BY <1>5, <1>6, <1>7 DEF Typed

\* stop keeps the types.
LEMMA StopTyped ==
    ASSUME Typed, stop
    PROVE  Typed'
<1>1. /\ up = "up" /\ up' = "stopping" /\ timer' = FALSE /\ used' \in UsedType
      /\ UNCHANGED <<content, readable, cache, pending, flight, rec, ref, job, mover, periodic>>
  BY OnceMore DEF stop
<1>2. RowShape'
  BY <1>1, RowsKept DEF Typed, RowShape
<1>3. Shape'
  <2>1. cache' \in DocType /\ pending' \in CountersType /\ timer' \in BOOLEAN /\ periodic' \in BOOLEAN
    BY <1>1 DEF Typed, Shape
  <2>2. flight' \in FlightType /\ rec' \in RecType /\ ref' \in RefType
    BY <1>1 DEF Typed, Shape
  <2>. QED
    BY <1>1, <2>1, <2>2 DEF Shape
<1>4. Waits'
  BY <1>1 DEF Typed, Waits
<1>. QED
  BY <1>2, <1>3, <1>4 DEF Typed

\* The last flush of stop() leaves nothing pending unless it came late.
LEMMA StopFlushTyped ==
    ASSUME Typed, stopFlush
    PROVE  Typed'
<1>1. /\ up = "stopping" /\ rec.pc = "idle" /\ flight.stop = "no" /\ ~flight.rec /\ ~timer
      /\ UNCHANGED <<content, readable, cache, timer, rec, ref, job, mover, up, periodic, used>>
  BY DEF stopFlush, Typed, Shape, Waits
<1>2. RowShape'
  BY <1>1, RowsKept DEF Typed, RowShape
<1>3. CASE flight.on \/ pending = Zero
  <2>. DEFINE s == IF flight.on THEN "late" ELSE "done"
  <2>1. flight' = [flight EXCEPT !.stop = s] /\ pending' = pending /\ s \in {"late", "done"}
    BY <1>3 DEF stopFlush
  <2>2. s = "done" => pending = Zero
    BY <1>3
  <2>. HIDE DEF s
  <2>3. /\ flight' \in FlightType
        /\ ~flight'.rec /\ flight'.stop = s
    BY <1>1, <2>1 DEF Typed, Shape
  <2>4. Shape'
    BY <1>1, <2>1, <2>3 DEF Typed, Shape
  <2>5. Waits'
    BY <1>1, <2>1, <2>2, <2>3 DEF Typed, Waits
  <2>. QED
    BY <1>2, <2>4, <2>5 DEF Typed
<1>4. CASE ~(flight.on \/ pending = Zero)
  <2>1. flight' = [NoFlight EXCEPT !.stop = "done", !.on = TRUE, !.delta = pending] /\ pending' = Zero
    BY <1>4 DEF stopFlush, Launch, NoFlight
  <2>2. /\ flight' \in FlightType
        /\ ~flight'.rec /\ flight'.on /\ flight'.stop = "done"
    BY <2>1, ZeroTyped DEF Typed, Shape, NoFlight
  <2>3. Shape'
    BY <1>1, <2>1, <2>2, ZeroTyped DEF Typed, Shape
  <2>4. Waits'
    BY <1>1, <2>1, <2>2 DEF Typed, Waits
  <2>. QED
    BY <1>2, <2>3, <2>4 DEF Typed
<1>. QED
  BY <1>3, <1>4

\* exit and crash leave nothing in memory.
LEMMA EndsTyped ==
    ASSUME Typed, exit \/ crash
    PROVE  Typed'
<1>1. /\ up' = "down" /\ pending' = Zero /\ timer' = FALSE /\ flight' = NoFlight /\ rec' = NoRec /\ ref' = NoRef
      /\ job' = [o \in Objects |-> NoJob] /\ mover' = NoMove
      /\ UNCHANGED <<content, readable, periodic, cache>>
  BY DEF exit, crash, ends
<1>2. used' \in UsedType
  BY OnceMore DEF exit, crash, Typed, Shape
<1>3. Shape'
  <2>1. cache' \in DocType /\ periodic' \in BOOLEAN
    BY <1>1 DEF Typed, Shape
  <2>2. pending' \in CountersType /\ timer' \in BOOLEAN
    BY <1>1, ZeroTyped
  <2>3. flight' \in FlightType
    BY <1>1, ZeroTyped
  <2>4. /\ rec' \in RecType
        /\ ref' \in RefType
    BY <1>1, ZeroTyped
  <2>. QED
    BY <1>1, <1>2, <2>1, <2>2, <2>3, <2>4 DEF Shape
<1>4. RowShape'
  <2>1. NoJob \in JobType /\ NoJob.pc = "idle"
    BY DEF NoJob
  <2>2. NoMove \in [from : SUBSET Volumes, to : SUBSET Volumes]
    BY DEF NoMove
  <2>. QED
    BY <1>1, <2>1, <2>2 DEF Typed, RowShape
<1>5. Waits'
  <2>1. rec'.pc = "idle" /\ ~flight'.rec /\ flight'.stop = "no"
    BY <1>1 DEF NoRec, NoFlight
  <2>. QED
    BY <1>1, <2>1 DEF Waits, NoRec, NoFlight, NoRef, NoJob, NoMove, Zero
<1>. QED
  BY <1>3, <1>4, <1>5 DEF Typed

\* A volume comes or goes.
LEMMA VolumeTyped ==
    ASSUME Typed, NEW v \in Volumes, volumeChanges(v)
    PROVE  Typed'
<1>1. /\ readable' \subseteq Volumes /\ used' \in UsedType
      /\ UNCHANGED <<content, cache, pending, timer, flight, rec, ref, job, mover, up, periodic>>
  BY OnceMore DEF volumeChanges, Typed, RowShape
<1>2. RowShape'
  BY <1>1, RowsKept
<1>3. Shape'
  BY <1>1 DEF Typed, Shape
<1>4. Waits'
  BY <1>1 DEF Typed, Waits
<1>. QED
  BY <1>2, <1>3, <1>4 DEF Typed

\* Nothing changes.
LEMMA IdleTyped ==
    ASSUME Typed, UNCHANGED vars
    PROVE  Typed'
<1>1. UNCHANGED <<content, readable, cache, pending, timer, flight, rec, ref, job, mover, up, periodic, used>>
  BY DEF vars
<1>2. RowShape'
  BY <1>1 DEF Typed, RowShape
<1>3. Shape'
  BY <1>1 DEF Typed, Shape
<1>4. Waits'
  BY <1>1 DEF Typed, Waits
<1>. QED
  BY <1>2, <1>3, <1>4 DEF Typed

\* Every step keeps Typed.
LEMMA TypedStep ==
    ASSUME Typed, [Next]_vars
    PROVE  Typed'
<1>1. CASE ClientNext
  BY <1>1, DeleteTyped, RecordStep, RelocateTyped DEF ClientNext
<1>2. CASE \E o \in Objects :
          \/ loadForDelete(o)
          \/ \E at \in Placements : createObjectRecord(o, at)
          \/ \E from, to \in Volumes : replaceObjectVolumeRef(o, from, to)
  BY <1>2, LoadTyped, CreateTyped, RelocateTyped
<1>3. CASE FlushNext \/ flushFails
  BY <1>3, FlushTyped, ApplyStepTyped, FlushDoneTyped, FlushFailsTyped DEF FlushNext
<1>4. CASE reconcileTick \/ handleStorageStatsReconcileRequest \/ ReconcileNext \/ reconcileFails
  BY <1>4, BeginTyped, ReconcileFlushTyped, ComputeTyped, ReplaceTyped,
      ReconcileFailsTyped DEF ReconcileNext
<1>5. CASE getSnapshot \/ RefreshNext
  BY <1>5, SnapshotTyped, RefreshStepTyped DEF RefreshNext
<1>6. CASE start \/ stop \/ StopNext \/ crash
  BY <1>6, StartTyped, StopTyped, StopFlushTyped, EndsTyped DEF StopNext
<1>7. CASE \E v \in Volumes : volumeChanges(v)
  BY <1>7, VolumeTyped
<1>8. CASE UNCHANGED vars
  BY <1>8, IdleTyped
<1>. QED
  BY <1>1, <1>2, <1>3, <1>4, <1>5, <1>6, <1>7, <1>8 DEF Next

\* The initial states are Typed.
LEMMA TypedInit ==
    ASSUME Init
    PROVE  Typed
<1>1. PICK o \in Objects, at \in Placements : content = [p \in Objects |-> IF p = o THEN at ELSE {}]
  BY DEF Init
<1>2. content \in [Objects -> Placements \cup {{}}]
  BY <1>1
<1>3. \A p \in Objects : content[p] \in SUBSET Volumes
  BY <1>2, PlacementsTyped
<1>4. cache \in DocType
  <2>1. ASSUME NEW v \in Volumes PROVE Cardinality({p \in Objects : v \in content[p]}) \in Int
    BY Counted
  <2>2. Cardinality({p \in Objects : content[p] # {}}) \in Int
    BY Counted
  <2>3. UNION {content[p] : p \in Objects} \in SUBSET Volumes
    BY <1>3
  <2>4. ExactDoc(content) \in DocType
    BY <2>1, <2>2, <2>3 DEF ExactDoc, DocType, CountersType
  <2>. QED
    BY <2>4, ZeroTyped DEF Init
<1>5. Shape
  BY <1>4, ZeroTyped DEF Init, Shape
<1>6. RowShape
  <2>1. NoJob \in JobType /\ NoJob.pc = "idle"
    BY DEF NoJob
  <2>2. NoMove \in [from : SUBSET Volumes, to : SUBSET Volumes]
    BY DEF NoMove
  <2>. QED
    BY <1>2, <2>1, <2>2 DEF Init, RowShape
<1>7. Waits
  <2>1. rec.pc = "idle" /\ ~flight.rec /\ flight.stop = "no"
    BY DEF Init, NoRec, NoFlight
  <2>. QED
    BY <2>1 DEF Init, Waits
<1>. QED
  BY <1>5, <1>6, <1>7 DEF Typed

\* Typed is an invariant.
LEMMA TypedAlways == Spec => []Typed
  BY TypedInit, TypedStep, PTL DEF Spec

\* The types, and who awaits a flush: a waiting reconcile is recorded at the flush it waits for, a
\* stopped tracker has no timer, a process that is down has nothing in flight or pending.
THEOREM TypeCorrect == Spec => []TypeOK
<1>1. Typed => TypeOK
  BY DEF Typed, Shape, RowShape, Waits, TypeOK, DocType
<1>. QED
  BY <1>1, TypedAlways, PTL

-----------------------------------------------------------------------------
\* The delta of a flush that is not applied yet.
Aloft == IF flight.on /\ ~flight.applied THEN flight.delta ELSE Zero

\* What callers still have to count, less what there is to count.
LateN == Uncounted.n - CountSystem
LateVol(v) == Uncounted.vol[v] - CountVolumes[v]

\* One object's part in it.
OneN(o) == (IF job[o].pc = "created" THEN 1 ELSE 0) - (IF job[o].pc = "deleted" THEN 1 ELSE 0)
             - (IF content[o] # {} THEN 1 ELSE 0)
OneVol(o, v) == (IF job[o].pc = "created" /\ v \in job[o].at THEN 1 ELSE 0)
                  - (IF job[o].pc = "deleted" /\ v \in job[o].at THEN 1 ELSE 0)
                  - (IF v \in content[o] THEN 1 ELSE 0)
Moving(v) == (IF v \in mover.to THEN 1 ELSE 0) - (IF v \in mover.from THEN 1 ELSE 0)

\* What a flush carries has the type of counters.
LEMMA AloftTyped == ASSUME Typed PROVE Aloft \in CountersType
  BY ZeroTyped DEF Aloft, Typed, Shape

\* What callers owe are integers.
LEMMA LateTyped ==
    /\ LateN \in Int /\ LateN = Uncounted.n - CountSystem /\ Uncounted.n \in Int
    /\ \A v \in Volumes : LateVol(v) \in Int /\ Uncounted.vol[v] \in Int
<1>. DEFINE created == {o \in Objects : job[o].pc = "created"}
            deleted == {o \in Objects : job[o].pc = "deleted"}
<1>1. Uncounted.n = Cardinality(created) - Cardinality(deleted)
  BY DEF Uncounted
<1>2. Cardinality(created) \in Nat /\ Cardinality(deleted) \in Nat
  BY Counted
<1>3. ASSUME NEW v \in Volumes PROVE LateVol(v) \in Int /\ Uncounted.vol[v] \in Int
  <2>1. Uncounted.vol[v] = Cardinality({o \in created : v \in job[o].at})
                             - Cardinality({o \in deleted : v \in job[o].at})
                             + (IF v \in mover.to THEN 1 ELSE 0) - (IF v \in mover.from THEN 1 ELSE 0)
    BY DEF Uncounted
  <2>2. /\ Cardinality({o \in created : v \in job[o].at}) \in Nat
        /\ Cardinality({o \in deleted : v \in job[o].at}) \in Nat
    BY Counted
  <2>3. CountVolumes[v] \in Nat
    BY CountsTyped
  <2>4. Uncounted.vol[v] \in Int
    BY <2>1, <2>2
  <2>. QED
    BY <2>3, <2>4 DEF LateVol
<1>. QED
  BY <1>1, <1>2, <1>3, CountsTyped DEF LateN

\* The document's distance from the rows, counter by counter.
\* Drift, counter by counter.
DriftSums ==
    /\ Drift.n = cache.c.n + pending.n + Aloft.n + LateN
    /\ \A v \in Volumes : Drift.vol[v] = cache.c.vol[v] + pending.vol[v] + Aloft.vol[v] + LateVol(v)
    /\ Drift = [n |-> Drift.n, vol |-> [v \in Volumes |-> Drift.vol[v]]]

\* Drift is what the document, the pending deltas and the flush hold and callers owe, less the rows.
LEMMA DriftIs == Typed => DriftSums
<1>. SUFFICES ASSUME Typed PROVE DriftSums
  OBVIOUS
<1>. DEFINE owed == mergeStorageStatsDelta(cache.c, mergeStorageStatsDelta(pending, Aloft))
<1>1. cache.c \in CountersType /\ pending \in CountersType /\ Aloft \in CountersType
  BY AloftTyped DEF Typed, Shape, DocType
<1>2. /\ mergeStorageStatsDelta(pending, Aloft) \in CountersType
      /\ mergeStorageStatsDelta(pending, Aloft).n = pending.n + Aloft.n
      /\ \A v \in Volumes : mergeStorageStatsDelta(pending, Aloft).vol[v] = pending.vol[v] + Aloft.vol[v]
  BY <1>1, MergeTyped
<1>3. /\ owed.n = cache.c.n + (pending.n + Aloft.n)
      /\ \A v \in Volumes : owed.vol[v] = cache.c.vol[v] + (pending.vol[v] + Aloft.vol[v])
  BY <1>1, <1>2, MergeTyped
<1>4. Drift = [n |-> owed.n + Uncounted.n - CountSystem,
               vol |-> [v \in Volumes |-> owed.vol[v] + Uncounted.vol[v] - CountVolumes[v]]]
  BY DEF Drift, Aloft
<1>. HIDE DEF owed
<1>5. Drift.n = owed.n + Uncounted.n - CountSystem
      /\ \A v \in Volumes : Drift.vol[v] = owed.vol[v] + Uncounted.vol[v] - CountVolumes[v]
  BY <1>4
<1>6. Drift.n = cache.c.n + pending.n + Aloft.n + LateN
  <2>1. cache.c.n \in Int /\ pending.n \in Int /\ Aloft.n \in Int
    BY <1>1 DEF CountersType
  <2>. QED
    BY <1>3, <1>5, <2>1, LateTyped, CountsTyped DEF LateN
<1>7. ASSUME NEW v \in Volumes
      PROVE  Drift.vol[v] = cache.c.vol[v] + pending.vol[v] + Aloft.vol[v] + LateVol(v)
  <2>1. cache.c.vol[v] \in Int /\ pending.vol[v] \in Int /\ Aloft.vol[v] \in Int
    BY <1>1 DEF CountersType
  <2>2. Uncounted.vol[v] \in Int /\ CountVolumes[v] \in Int
    BY LateTyped, CountsTyped
  <2>. QED
    BY <1>3, <1>5, <2>1, <2>2 DEF LateVol
<1>8. Drift = [n |-> Drift.n, vol |-> [v \in Volumes |-> Drift.vol[v]]]
  BY <1>4
<1>. QED
  BY <1>6, <1>7, <1>8 DEF DriftSums

\* A step keeps the distance when it keeps every counter's.
LEMMA DriftKept ==
    ASSUME Typed, Typed',
           cache'.c.n + pending'.n + Aloft'.n + LateN' = cache.c.n + pending.n + Aloft.n + LateN,
           \A v \in Volumes : cache'.c.vol[v] + pending'.vol[v] + Aloft'.vol[v] + LateVol(v)'
                              = cache.c.vol[v] + pending.vol[v] + Aloft.vol[v] + LateVol(v)
    PROVE  Drift' = Drift
<1>1. /\ Drift'.n = cache'.c.n + pending'.n + Aloft'.n + LateN'
      /\ \A v \in Volumes : Drift'.vol[v] = cache'.c.vol[v] + pending'.vol[v] + Aloft'.vol[v] + LateVol(v)'
      /\ Drift' = [n |-> Drift'.n, vol |-> [v \in Volumes |-> Drift'.vol[v]]]
  <2>1. (Typed => DriftSums)'
    BY DriftIs, PTL
  <2>. QED
    BY <2>1 DEF DriftSums
<1>2. /\ Drift.n = cache.c.n + pending.n + Aloft.n + LateN
      /\ \A v \in Volumes : Drift.vol[v] = cache.c.vol[v] + pending.vol[v] + Aloft.vol[v] + LateVol(v)
      /\ Drift = [n |-> Drift.n, vol |-> [v \in Volumes |-> Drift.vol[v]]]
  BY DriftIs DEF DriftSums
<1>3. Drift'.n = Drift.n /\ \A v \in Volumes : Drift'.vol[v] = Drift.vol[v]
  BY <1>1, <1>2
<1>. HIDE DEF Drift
<1>. QED
  BY <1>1, <1>2, <1>3

-----------------------------------------------------------------------------
\* The objects the callers have created, or deleted, and not counted yet; those with a slice on a volume.
Created == {p \in Objects : job[p].pc = "created"}
Deleted == {p \in Objects : job[p].pc = "deleted"}
CreatedOn(v) == {p \in Objects : job[p].pc = "created" /\ v \in job[p].at}
DeletedOn(v) == {p \in Objects : job[p].pc = "deleted" /\ v \in job[p].at}
RowsOn(v) == {p \in Objects : v \in content[p]}

\* What is owed, as numbers of objects.
LateSums ==
    /\ LateN = Cardinality(Created) - Cardinality(Deleted) - Cardinality(Rows)
    /\ \A v \in Volumes : LateVol(v) = Cardinality(CreatedOn(v)) - Cardinality(DeletedOn(v)) + Moving(v)
                                         - Cardinality(RowsOn(v))

\* What is owed counts objects.
LEMMA LateIs == LateSums
<1>1. LateN = Cardinality(Created) - Cardinality(Deleted) - Cardinality(Rows)
  BY DEF LateN, Uncounted, Created, Deleted, CountSystem
<1>2. ASSUME NEW v \in Volumes
      PROVE  LateVol(v) = Cardinality(CreatedOn(v)) - Cardinality(DeletedOn(v)) + Moving(v)
                            - Cardinality(RowsOn(v))
  <2>. DEFINE created == {o \in Objects : job[o].pc = "created"}
              deleted == {o \in Objects : job[o].pc = "deleted"}
  <2>1. /\ {o \in created : v \in job[o].at} = CreatedOn(v)
        /\ {o \in deleted : v \in job[o].at} = DeletedOn(v)
    BY DEF CreatedOn, DeletedOn
  <2>2. {o \in Rows : v \in content[o]} = RowsOn(v)
    BY DEF Rows, RowsOn
  <2>3. Uncounted.vol[v] = Cardinality({o \in created : v \in job[o].at})
                             - Cardinality({o \in deleted : v \in job[o].at})
                             + (IF v \in mover.to THEN 1 ELSE 0) - (IF v \in mover.from THEN 1 ELSE 0)
    BY DEF Uncounted
  <2>4. CountVolumes[v] = Cardinality({o \in Rows : v \in content[o]})
    BY DEF CountVolumes
  <2>5. /\ Cardinality(CreatedOn(v)) \in Nat /\ Cardinality(DeletedOn(v)) \in Nat
        /\ Cardinality(RowsOn(v)) \in Nat
    BY Counted DEF CreatedOn, DeletedOn, RowsOn
  <2>6. Uncounted.vol[v] = Cardinality(CreatedOn(v)) - Cardinality(DeletedOn(v))
                             + (IF v \in mover.to THEN 1 ELSE 0) - (IF v \in mover.from THEN 1 ELSE 0)
    BY <2>1, <2>3
  <2>7. CountVolumes[v] = Cardinality(RowsOn(v))
    BY <2>2, <2>4
  <2>. QED
    BY <2>5, <2>6, <2>7 DEF LateVol, Moving
<1>. QED
  BY <1>1, <1>2 DEF LateSums

\* A step that touches one object's row and job, and the relocation under way.
LEMMA OneObjectLate ==
    ASSUME Typed, Typed', NEW o \in Objects,
           \A p \in Objects \ {o} : content'[p] = content[p] /\ job'[p] = job[p]
    PROVE  /\ LateN' - LateN = OneN(o)' - OneN(o)
           /\ \A v \in Volumes : LateVol(v)' - LateVol(v) = OneVol(o, v)' - OneVol(o, v) + Moving(v)' - Moving(v)
<1>1. LateSums /\ LateSums'
  BY LateIs, PTL
<1>2. ASSUME NEW A \in SUBSET Objects, NEW B \in SUBSET Objects, \A p \in Objects \ {o} : p \in A <=> p \in B
      PROVE  /\ Cardinality(A) \in Nat /\ Cardinality(B) \in Nat
             /\ Cardinality(B) - Cardinality(A) = (IF o \in B THEN 1 ELSE 0) - (IF o \in A THEN 1 ELSE 0)
  BY <1>2, OneMore
<1>3. LateN' - LateN = OneN(o)' - OneN(o)
  <2>1. /\ Cardinality(Created) \in Nat /\ Cardinality(Created') \in Nat
        /\ Cardinality(Created') - Cardinality(Created)
             = (IF job'[o].pc = "created" THEN 1 ELSE 0) - (IF job[o].pc = "created" THEN 1 ELSE 0)
    <3>1. Created \in SUBSET Objects /\ Created' \in SUBSET Objects
          /\ \A p \in Objects \ {o} : p \in Created <=> p \in Created'
      BY DEF Created
    <3>2. (o \in Created' <=> job'[o].pc = "created") /\ (o \in Created <=> job[o].pc = "created")
      BY DEF Created
    <3>. QED
      BY <1>2, <3>1, <3>2
  <2>2. /\ Cardinality(Deleted) \in Nat /\ Cardinality(Deleted') \in Nat
        /\ Cardinality(Deleted') - Cardinality(Deleted)
             = (IF job'[o].pc = "deleted" THEN 1 ELSE 0) - (IF job[o].pc = "deleted" THEN 1 ELSE 0)
    <3>1. Deleted \in SUBSET Objects /\ Deleted' \in SUBSET Objects
          /\ \A p \in Objects \ {o} : p \in Deleted <=> p \in Deleted'
      BY DEF Deleted
    <3>2. (o \in Deleted' <=> job'[o].pc = "deleted") /\ (o \in Deleted <=> job[o].pc = "deleted")
      BY DEF Deleted
    <3>. QED
      BY <1>2, <3>1, <3>2
  <2>3. /\ Cardinality(Rows) \in Nat /\ Cardinality(Rows') \in Nat
        /\ Cardinality(Rows') - Cardinality(Rows)
             = (IF content'[o] # {} THEN 1 ELSE 0) - (IF content[o] # {} THEN 1 ELSE 0)
    <3>1. Rows \in SUBSET Objects /\ Rows' \in SUBSET Objects
          /\ \A p \in Objects \ {o} : p \in Rows <=> p \in Rows'
      BY DEF Rows
    <3>2. (o \in Rows' <=> content'[o] # {}) /\ (o \in Rows <=> content[o] # {})
      BY DEF Rows
    <3>. QED
      BY <1>2, <3>1, <3>2
  <2>4. /\ LateN' = Cardinality(Created') - Cardinality(Deleted') - Cardinality(Rows')
        /\ LateN = Cardinality(Created) - Cardinality(Deleted) - Cardinality(Rows)
    BY <1>1 DEF LateSums
  <2>. QED
    BY <2>1, <2>2, <2>3, <2>4 DEF OneN
<1>4. ASSUME NEW v \in Volumes
      PROVE  LateVol(v)' - LateVol(v) = OneVol(o, v)' - OneVol(o, v) + Moving(v)' - Moving(v)
  <2>1. /\ Cardinality(CreatedOn(v)) \in Nat /\ Cardinality(CreatedOn(v)') \in Nat
        /\ Cardinality(CreatedOn(v)') - Cardinality(CreatedOn(v))
             = (IF job'[o].pc = "created" /\ v \in job'[o].at THEN 1 ELSE 0)
                 - (IF job[o].pc = "created" /\ v \in job[o].at THEN 1 ELSE 0)
    <3>1. CreatedOn(v) \in SUBSET Objects /\ CreatedOn(v)' \in SUBSET Objects
          /\ \A p \in Objects \ {o} : p \in CreatedOn(v) <=> p \in CreatedOn(v)'
      BY DEF CreatedOn
    <3>2. /\ o \in CreatedOn(v)' <=> job'[o].pc = "created" /\ v \in job'[o].at
          /\ o \in CreatedOn(v) <=> job[o].pc = "created" /\ v \in job[o].at
      BY DEF CreatedOn
    <3>. QED
      BY <1>2, <3>1, <3>2
  <2>2. /\ Cardinality(DeletedOn(v)) \in Nat /\ Cardinality(DeletedOn(v)') \in Nat
        /\ Cardinality(DeletedOn(v)') - Cardinality(DeletedOn(v))
             = (IF job'[o].pc = "deleted" /\ v \in job'[o].at THEN 1 ELSE 0)
                 - (IF job[o].pc = "deleted" /\ v \in job[o].at THEN 1 ELSE 0)
    <3>1. DeletedOn(v) \in SUBSET Objects /\ DeletedOn(v)' \in SUBSET Objects
          /\ \A p \in Objects \ {o} : p \in DeletedOn(v) <=> p \in DeletedOn(v)'
      BY DEF DeletedOn
    <3>2. /\ o \in DeletedOn(v)' <=> job'[o].pc = "deleted" /\ v \in job'[o].at
          /\ o \in DeletedOn(v) <=> job[o].pc = "deleted" /\ v \in job[o].at
      BY DEF DeletedOn
    <3>. QED
      BY <1>2, <3>1, <3>2
  <2>3. /\ Cardinality(RowsOn(v)) \in Nat /\ Cardinality(RowsOn(v)') \in Nat
        /\ Cardinality(RowsOn(v)') - Cardinality(RowsOn(v))
             = (IF v \in content'[o] THEN 1 ELSE 0) - (IF v \in content[o] THEN 1 ELSE 0)
    <3>1. RowsOn(v) \in SUBSET Objects /\ RowsOn(v)' \in SUBSET Objects
          /\ \A p \in Objects \ {o} : p \in RowsOn(v) <=> p \in RowsOn(v)'
      BY DEF RowsOn
    <3>2. (o \in RowsOn(v)' <=> v \in content'[o]) /\ (o \in RowsOn(v) <=> v \in content[o])
      BY DEF RowsOn
    <3>. QED
      BY <1>2, <3>1, <3>2
  <2>4. /\ LateVol(v)' = Cardinality(CreatedOn(v)') - Cardinality(DeletedOn(v)') + Moving(v)'
                           - Cardinality(RowsOn(v)')
        /\ LateVol(v) = Cardinality(CreatedOn(v)) - Cardinality(DeletedOn(v)) + Moving(v)
                           - Cardinality(RowsOn(v))
    BY <1>1 DEF LateSums
  <2>5. Moving(v) \in Int /\ Moving(v)' \in Int
    BY DEF Moving
  <2>. QED
    BY <2>1, <2>2, <2>3, <2>4, <2>5 DEF OneVol
<1>. QED
  BY <1>3, <1>4

\* What is owed are integers.
LateAreInts == LateN \in Int /\ \A v \in Volumes : LateVol(v) \in Int

\* What callers owe are integers, in every state.
LEMMA LateInts == LateAreInts
  BY LateTyped DEF LateAreInts

\* A step that touches no row, job or relocation.
LEMMA RowsAlone ==
    ASSUME UNCHANGED <<content, job, mover>>
    PROVE  LateN' = LateN /\ \A v \in Volumes : LateVol(v)' = LateVol(v)
  BY DEF LateN, LateVol, Uncounted, CountSystem, CountVolumes, Rows

-----------------------------------------------------------------------------
\* What is held are integers.
LEMMA HeldTyped ==
    ASSUME Typed
    PROVE  /\ cache.c.n \in Int /\ pending.n \in Int /\ Aloft.n \in Int
           /\ \A v \in Volumes : cache.c.vol[v] \in Int /\ pending.vol[v] \in Int /\ Aloft.vol[v] \in Int
<1>1. cache.c \in CountersType /\ pending \in CountersType /\ Aloft \in CountersType
  BY AloftTyped DEF Typed, Shape, DocType
<1>. QED
  BY <1>1 DEF CountersType

\* A step that touches no row and keeps the sum of what is held keeps the drift.
LEMMA HeldDrift ==
    ASSUME Typed, Typed', UNCHANGED <<content, job, mover>>,
           cache'.c.n + pending'.n + Aloft'.n = cache.c.n + pending.n + Aloft.n,
           \A v \in Volumes : cache'.c.vol[v] + pending'.vol[v] + Aloft'.vol[v]
                              = cache.c.vol[v] + pending.vol[v] + Aloft.vol[v]
    PROVE  Drift' = Drift
<1>1. LateN' = LateN /\ \A v \in Volumes : LateVol(v)' = LateVol(v)
  BY RowsAlone
<1>2. cache'.c.n + pending'.n + Aloft'.n + LateN' = cache.c.n + pending.n + Aloft.n + LateN
  BY <1>1
<1>3. \A v \in Volumes : cache'.c.vol[v] + pending'.vol[v] + Aloft'.vol[v] + LateVol(v)'
                         = cache.c.vol[v] + pending.vol[v] + Aloft.vol[v] + LateVol(v)
  BY <1>1
<1>. QED
  BY <1>2, <1>3, DriftKept

\* A step that touches no row and nothing held keeps the drift.
LEMMA CalmDrift ==
    ASSUME Typed, Typed', UNCHANGED <<content, job, mover, pending>>, cache'.c.n = cache.c.n,
           cache'.c.vol = cache.c.vol, Aloft' = Aloft
    PROVE  Drift' = Drift
  BY HeldDrift

\* A flush that starts carries what was pending.
LEMMA LaunchDrift ==
    ASSUME Typed, Typed', UNCHANGED <<content, job, mover, cache>>, ~flight.on,
           pending' = Zero,
           flight'.on, ~flight'.applied, flight'.delta = pending
    PROVE  Drift' = Drift
<1>1. Aloft = Zero /\ Aloft' = pending
  BY DEF Aloft
<1>2. cache'.c.n + pending'.n + Aloft'.n = cache.c.n + pending.n + Aloft.n
  BY <1>1, HeldTyped, ZeroCounts
<1>3. \A v \in Volumes : cache'.c.vol[v] + pending'.vol[v] + Aloft'.vol[v]
                         = cache.c.vol[v] + pending.vol[v] + Aloft.vol[v]
  BY <1>1, HeldTyped, ZeroCounts
<1>. QED
  BY <1>2, <1>3, HeldDrift

\* The flush timer moves what is pending into the flush.
LEMMA FlushDrift ==
    ASSUME Typed, Typed', flush
    PROVE  Drift' = Drift
<1>1. UNCHANGED <<content, cache, job, mover>>
  BY DEF flush
<1>2. CASE UNCHANGED <<timer, flight, pending>>
  BY <1>1, <1>2, CalmDrift DEF Aloft
<1>3. CASE flight.on /\ flight' = [flight EXCEPT !.timer = TRUE] /\ UNCHANGED pending
  <2>1. Aloft' = Aloft
    BY <1>3 DEF Aloft, Typed, Shape
  <2>. QED
    BY <1>1, <1>3, <2>1, CalmDrift
<1>4. CASE ~flight.on /\ Launch([NoFlight EXCEPT !.timer = TRUE])
  <2>1. /\ flight' = [[NoFlight EXCEPT !.timer = TRUE] EXCEPT !.on = TRUE, !.delta = pending] /\ pending' = Zero
        /\ flight'.on /\ ~flight'.applied /\ flight'.delta = pending
    BY <1>4 DEF Launch, NoFlight
  <2>. QED
    BY <1>1, <1>4, <2>1, LaunchDrift
<1>5. CASE ~flight.on /\ UNCHANGED <<flight, pending>>
  BY <1>1, <1>5, CalmDrift DEF Aloft
<1>. QED
  BY <1>2, <1>3, <1>4, <1>5 DEF flush

\* The database adds what the flush carries, once.
LEMMA ApplyDrift ==
    ASSUME Typed, Typed', applyStorageStatsDelta
    PROVE  Drift' = Drift
<1>1. /\ flight.on /\ ~flight.applied /\ cache' = applyDelta(cache, flight.delta)
      /\ flight' = [flight EXCEPT !.applied = TRUE]
      /\ UNCHANGED <<content, job, mover, pending>>
  BY DEF applyStorageStatsDelta
<1>2. flight.delta \in CountersType /\ cache \in DocType
  BY DEF Typed, Shape
<1>3. Aloft = flight.delta /\ Aloft' = Zero
  BY <1>1 DEF Aloft, Typed, Shape
<1>4. cache'.c.n = cache.c.n + Aloft.n /\ \A v \in Volumes : cache'.c.vol[v] = cache.c.vol[v] + Aloft.vol[v]
  BY <1>1, <1>2, <1>3, ApplyTyped
<1>5. cache'.c.n + pending'.n + Aloft'.n = cache.c.n + pending.n + Aloft.n
  BY <1>1, <1>3, <1>4, HeldTyped, ZeroCounts
<1>6. \A v \in Volumes : cache'.c.vol[v] + pending'.vol[v] + Aloft'.vol[v]
                         = cache.c.vol[v] + pending.vol[v] + Aloft.vol[v]
  BY <1>1, <1>3, <1>4, HeldTyped, ZeroCounts
<1>. QED
  BY <1>1, <1>5, <1>6, HeldDrift

\* A flush that fails before it was applied puts back what it carries; after that, the answer was lost.
LEMMA FlushEndsDrift ==
    ASSUME Typed, Typed', flushDone \/ flushFails, Drift' # Drift
    PROVE  MayDrift
<1>1. CASE flushDone
  <2>1. /\ flight.on /\ flight.applied /\ flight' = [NoFlight EXCEPT !.stop = flight.stop]
        /\ UNCHANGED <<content, cache, job, mover, pending>>
    BY <1>1 DEF flushDone
  <2>2. Aloft = Zero /\ Aloft' = Zero
    BY <2>1 DEF Aloft, NoFlight
  <2>. QED
    BY <2>1, <2>2, CalmDrift
<1>2. CASE flushFails
  <2>1. /\ flight.on /\ ~flight'.on /\ pending' = mergeStorageStatsDelta(pending, flight.delta)
        /\ UNCHANGED <<content, cache, job, mover>> /\ Use("faults")
    BY <1>2 DEF flushFails, NoFlight
  <2>2. CASE flight.applied
    <3>1. used'.faults = used.faults + 1 /\ used.faults \in Nat
      BY <2>1, OnceMore DEF Typed, Shape
    <3>. QED
      BY <2>1, <2>2, <3>1 DEF MayDrift
  <2>3. CASE ~flight.applied
    <3>1. Aloft = flight.delta /\ Aloft' = Zero
      BY <2>1, <2>3 DEF Aloft
    <3>2. flight.delta \in CountersType /\ pending \in CountersType
      BY DEF Typed, Shape
    <3>3. pending'.n = pending.n + Aloft.n /\ \A v \in Volumes : pending'.vol[v] = pending.vol[v] + Aloft.vol[v]
      BY <2>1, <3>1, <3>2, MergeTyped
    <3>4. cache'.c.n + pending'.n + Aloft'.n = cache.c.n + pending.n + Aloft.n
      BY <2>1, <3>1, <3>3, HeldTyped, ZeroCounts
    <3>5. \A v \in Volumes : cache'.c.vol[v] + pending'.vol[v] + Aloft'.vol[v]
                             = cache.c.vol[v] + pending.vol[v] + Aloft.vol[v]
      BY <2>1, <3>1, <3>3, HeldTyped, ZeroCounts
    <3>. QED
      BY <2>1, <3>4, <3>5, HeldDrift
  <2>. QED
    BY <2>2, <2>3
<1>. QED
  BY <1>1, <1>2

\* A reconcile only moves the document when it writes it.
LEMMA ReconcileDrift ==
    ASSUME Typed, Typed', reconcileFlush \/ computeStorageStats \/ replaceStorageStats \/ reconcileFails
                          \/ reconcileTick \/ handleStorageStatsReconcileRequest, Drift' # Drift
    PROVE  MayDrift
<1>1. UNCHANGED <<content, job, mover>>
  BY DEF reconcileFlush, computeStorageStats, replaceStorageStats, reconcileFails,
      reconcileTick,
         handleStorageStatsReconcileRequest
<1>2. CASE reconcileFlush
  <2>1. UNCHANGED cache
    BY <1>2 DEF reconcileFlush
  <2>2. CASE flight.on /\ flight' = [flight EXCEPT !.rec = TRUE] /\ UNCHANGED pending
    <3>1. Aloft' = Aloft
      BY <2>2 DEF Aloft, Typed, Shape
    <3>. QED
      BY <1>1, <2>1, <2>2, <3>1, CalmDrift
  <2>3. CASE UNCHANGED <<pending, flight>>
    BY <1>1, <2>1, <2>3, CalmDrift DEF Aloft
  <2>4. CASE ~flight.on /\ Launch([NoFlight EXCEPT !.rec = TRUE])
    <3>1. /\ flight' = [[NoFlight EXCEPT !.rec = TRUE] EXCEPT !.on = TRUE, !.delta = pending] /\ pending' = Zero
          /\ flight'.on /\ ~flight'.applied /\ flight'.delta = pending
      BY <2>4 DEF Launch, NoFlight
    <3>. QED
      BY <1>1, <2>1, <2>4, <3>1, LaunchDrift
  <2>. QED
    BY <1>2, <2>2, <2>3, <2>4 DEF reconcileFlush
<1>3. CASE computeStorageStats \/ reconcileTick \/ handleStorageStatsReconcileRequest
  <2>1. UNCHANGED <<cache, pending, flight>>
    BY <1>3 DEF computeStorageStats, reconcileTick,
        handleStorageStatsReconcileRequest
  <2>. QED
    BY <1>1, <2>1, CalmDrift DEF Aloft
<1>4. CASE replaceStorageStats
  <2>1. UNCHANGED <<pending, flight>> /\ rec.pc = "replace"
    BY <1>4 DEF replaceStorageStats
  <2>2. CASE cache' = cache
    BY <1>1, <2>1, <2>2, CalmDrift DEF Aloft
  <2>. QED
    BY <2>1, <2>2 DEF MayDrift
<1>5. CASE reconcileFails
  <2>1. /\ UNCHANGED <<cache, pending>>
        /\ flight' = flight \/ flight' = [flight EXCEPT !.stop = "late"]
    BY <1>5 DEF reconcileFails
  <2>2. Aloft' = Aloft
    BY <2>1 DEF Aloft, Typed, Shape
  <2>. QED
    BY <1>1, <2>1, <2>2, CalmDrift
<1>. QED
  BY <1>2, <1>3, <1>4, <1>5

\* Readers, start, stop and the last flush lose nothing and count nothing twice.
LEMMA ReadersDrift ==
    ASSUME Typed, Typed',
           getSnapshot \/ refreshQuery \/ updateUnavailable \/ start \/ stop \/ stopFlush
             \/ (\E v \in Volumes : volumeChanges(v)) \/ UNCHANGED vars
    PROVE  Drift' = Drift
<1>1. UNCHANGED <<content, job, mover>>
  BY DEF getSnapshot, refreshQuery, updateUnavailable, start, stop, stopFlush,
      volumeChanges, vars
<1>2. CASE getSnapshot \/ refreshQuery \/ start \/ stop \/ (\E v \in Volumes : volumeChanges(v)) \/ UNCHANGED vars
  <2>1. UNCHANGED <<cache, pending, flight>>
    BY <1>2 DEF getSnapshot, refreshQuery, start, stop, volumeChanges, vars
  <2>. QED
    BY <1>1, <2>1, CalmDrift DEF Aloft
<1>3. CASE updateUnavailable
  <2>1. UNCHANGED <<pending, flight>> /\ cache' = [cache EXCEPT !.c.un = ref.un, !.seen = ref.readable]
    BY <1>3 DEF updateUnavailable
  <2>2. cache'.c.n = cache.c.n /\ cache'.c.vol = cache.c.vol
    BY <2>1 DEF Typed, Shape, DocType, CountersType
  <2>. QED
    BY <1>1, <2>1, <2>2, CalmDrift DEF Aloft
<1>4. CASE stopFlush
  <2>1. UNCHANGED cache
    BY <1>4 DEF stopFlush
  <2>2. CASE flight.on \/ pending = Zero
    <3>. DEFINE s == IF flight.on THEN "late" ELSE "done"
    <3>1. flight' = [flight EXCEPT !.stop = s] /\ pending' = pending
      BY <1>4, <2>2 DEF stopFlush
    <3>. HIDE DEF s
    <3>2. Aloft' = Aloft
      BY <3>1 DEF Aloft, Typed, Shape
    <3>. QED
      BY <1>1, <2>1, <3>1, <3>2, CalmDrift
  <2>3. CASE ~(flight.on \/ pending = Zero)
    <3>1. /\ flight' = [[NoFlight EXCEPT !.stop = "done"] EXCEPT !.on = TRUE, !.delta = pending] /\ pending' = Zero
          /\ flight'.on /\ ~flight'.applied /\ flight'.delta = pending
      BY <1>4, <2>3 DEF stopFlush, Launch, NoFlight
    <3>. QED
      BY <1>1, <2>1, <2>3, <3>1, LaunchDrift
  <2>. QED
    BY <2>2, <2>3
<1>. QED
  BY <1>2, <1>3, <1>4

\* A process that exits after a last flush that was not late has nothing in memory.
LEMMA EndsDrift ==
    ASSUME Typed, Typed', exit \/ crash, Drift' # Drift
    PROVE  MayDrift
<1>1. /\ up' = "down" /\ pending' = Zero /\ flight' = NoFlight
      /\ job' = [o \in Objects |-> NoJob] /\ mover' = NoMove
      /\ UNCHANGED <<content, cache>>
  BY DEF exit, crash, ends
<1>2. CASE crash
  <2>1. used'.faults = used.faults + 1 /\ used.faults \in Nat
    BY <1>2, OnceMore DEF crash, Typed, Shape
  <2>. QED
    BY <1>1, <2>1 DEF MayDrift
<1>3. CASE exit
  <2>. SUFFICES ASSUME Idle, flight.stop # "late" PROVE Drift' = Drift
    BY <1>1 DEF MayDrift
  <2>1. ~flight.on /\ pending = Zero
    BY <1>3 DEF exit, Typed, Shape, Waits
  <2>2. Aloft = Zero /\ Aloft' = Zero
    BY <1>1, <2>1 DEF Aloft, NoFlight
  <2>3. LateSums /\ LateSums'
    BY LateIs, PTL
  <2>4. /\ Created = {} /\ Created' = {} /\ Deleted = {} /\ Deleted' = {} /\ Rows' = Rows
    BY <1>1 DEF Created, Deleted, Rows, Idle, NoJob
  <2>5. LateN' = LateN
    BY <2>3, <2>4 DEF LateSums
  <2>6. ASSUME NEW v \in Volumes PROVE LateVol(v)' = LateVol(v)
    <3>1. /\ CreatedOn(v) = {} /\ CreatedOn(v)' = {} /\ DeletedOn(v) = {} /\ DeletedOn(v)' = {}
          /\ RowsOn(v)' = RowsOn(v)
      BY <1>1 DEF CreatedOn, DeletedOn, RowsOn, Idle, NoJob
    <3>2. Moving(v)' = Moving(v)
      BY <1>1 DEF Moving, Idle
    <3>. QED
      BY <2>3, <3>1, <3>2 DEF LateSums
  <2>. QED
    BY <1>1, <2>1, <2>2, <2>5, <2>6, DriftKept
<1>. QED
  BY <1>2, <1>3

-----------------------------------------------------------------------------
\* What callers owe are integers, before and after a step.
LEMMA LateIntsTwice ==
    LateN \in Int /\ LateN' \in Int /\ \A v \in Volumes : LateVol(v) \in Int /\ LateVol(v)' \in Int
<1>1. LateAreInts /\ LateAreInts'
  BY LateInts, PTL
<1>. QED
  BY <1>1 DEF LateAreInts

\* What callers owe does not change when the object's part of it does not.
LEMMA StillLate ==
    ASSUME NEW o, OneN(o)' = OneN(o), OneN(o) \in Int,
           \A v \in Volumes : OneVol(o, v)' = OneVol(o, v) /\ OneVol(o, v) \in Int,
           \A v \in Volumes : Moving(v)' = Moving(v) /\ Moving(v) \in Int,
           LateN' - LateN = OneN(o)' - OneN(o),
           \A v \in Volumes : LateVol(v)' - LateVol(v) = OneVol(o, v)' - OneVol(o, v) + Moving(v)' - Moving(v)
    PROVE  LateN' = LateN /\ \A v \in Volumes : LateVol(v)' = LateVol(v)
<1>1. LateN' = LateN
  <2>1. \A a, b, c \in Int : a - b = c - c => a = b
    OBVIOUS
  <2>2. LateN' - LateN = OneN(o) - OneN(o)
    OBVIOUS
  <2>. QED
    BY <2>1, <2>2, LateIntsTwice
<1>2. ASSUME NEW v \in Volumes PROVE LateVol(v)' = LateVol(v)
  <2>1. \A a, b, c, d \in Int : a - b = c - c + d - d => a = b
    OBVIOUS
  <2>2. LateVol(v)' - LateVol(v) = OneVol(o, v) - OneVol(o, v) + Moving(v) - Moving(v)
    OBVIOUS
  <2>3. LateVol(v) \in Int /\ LateVol(v)' \in Int
    BY LateIntsTwice
  <2>. QED
    BY <2>1, <2>2, <2>3
<1>. QED
  BY <1>1, <1>2

\* What is counted of an object is owed no more.
LEMMA LessLate ==
    ASSUME NEW o, NEW v \in Volumes, NEW d \in Int, OneVol(o, v)' - OneVol(o, v) = 0 - d,
           Moving(v)' = Moving(v), Moving(v) \in Int,
           LateVol(v)' - LateVol(v) = OneVol(o, v)' - OneVol(o, v) + Moving(v)' - Moving(v)
    PROVE  LateVol(v)' = LateVol(v) - d
<1>1. \A a, b, c, e, f, g \in Int : a - b = c - e + f - f /\ c - e = 0 - g => a = b - g
  OBVIOUS
<1>2. LateVol(v)' - LateVol(v) = OneVol(o, v)' - OneVol(o, v) + Moving(v) - Moving(v)
  OBVIOUS
<1>3. LateVol(v) \in Int /\ LateVol(v)' \in Int
  BY LateIntsTwice
<1>4. OneVol(o, v) \in Int /\ OneVol(o, v)' \in Int
  BY DEF OneVol
<1>. QED
  BY <1>1, <1>2, <1>3, <1>4

\* A row that is inserted is owed.
LEMMA CreateDrift ==
    ASSUME Typed, Typed', NEW o \in Objects, NEW at \in Placements, createObjectRecord(o, at)
    PROVE  Drift' = Drift
<1>1. /\ job[o].pc = "idle" /\ content[o] = {} /\ content' = [content EXCEPT ![o] = at]
      /\ job' = [job EXCEPT ![o] = [pc |-> "created", at |-> at]]
      /\ UNCHANGED <<cache, pending, flight, mover>>
  BY DEF createObjectRecord
<1>2. at \in SUBSET Volumes /\ at # {}
  BY PlacementsTyped
<1>3. /\ content'[o] = at /\ job'[o].pc = "created" /\ job'[o].at = at
      /\ \A p \in Objects \ {o} : content'[p] = content[p] /\ job'[p] = job[p]
  BY <1>1 DEF Typed, RowShape
<1>4. LateN' - LateN = OneN(o)' - OneN(o)
      /\ \A v \in Volumes : LateVol(v)' - LateVol(v) = OneVol(o, v)' - OneVol(o, v) + Moving(v)' - Moving(v)
  BY <1>3, OneObjectLate
<1>5. OneN(o)' = OneN(o) /\ OneN(o) \in Int /\ \A v \in Volumes : OneVol(o, v)' = OneVol(o, v) /\ OneVol(o, v) \in Int
  <2>1. OneN(o)' = 0 /\ OneN(o) = 0
    BY <1>1, <1>2, <1>3 DEF OneN
  <2>2. ASSUME NEW v \in Volumes PROVE OneVol(o, v)' = OneVol(o, v) /\ OneVol(o, v) \in Int
    BY <1>1, <1>2, <1>3 DEF OneVol
  <2>. QED
    BY <2>1, <2>2
<1>6. \A v \in Volumes : Moving(v)' = Moving(v) /\ Moving(v) \in Int
  BY <1>1 DEF Moving
<1>7. LateN' = LateN /\ \A v \in Volumes : LateVol(v)' = LateVol(v)
  BY <1>4, <1>5, <1>6, StillLate
<1>8. Aloft' = Aloft
  BY <1>1 DEF Aloft
<1>. QED
  BY <1>1, <1>7, <1>8, DriftKept

\* A row that is deleted where its caller loaded it is owed.
LEMMA DeleteDrift ==
    ASSUME Typed, Typed', NEW o \in Objects, deleteObjectById(o), Drift' # Drift
    PROVE  MayDrift
<1>1. /\ job[o].pc = "loaded" /\ content' = [content EXCEPT ![o] = {}]
      /\ job' = [job EXCEPT ![o].pc = "deleted"]
      /\ UNCHANGED <<cache, pending, flight, mover>>
  BY DEF deleteObjectById
<1>2. /\ content'[o] = {} /\ job'[o].pc = "deleted" /\ job'[o].at = job[o].at
      /\ \A p \in Objects \ {o} : content'[p] = content[p] /\ job'[p] = job[p]
  BY <1>1 DEF Typed, RowShape
<1>. SUFFICES ASSUME job[o].at = content[o] PROVE Drift' = Drift
  BY <1>1, <1>2 DEF MayDrift
<1>3. content[o] # {}
  BY <1>1 DEF Typed, RowShape
<1>4. LateN' - LateN = OneN(o)' - OneN(o)
      /\ \A v \in Volumes : LateVol(v)' - LateVol(v) = OneVol(o, v)' - OneVol(o, v) + Moving(v)' - Moving(v)
  BY <1>2, OneObjectLate
<1>5. OneN(o)' = OneN(o) /\ OneN(o) \in Int /\ \A v \in Volumes : OneVol(o, v)' = OneVol(o, v) /\ OneVol(o, v) \in Int
  BY <1>1, <1>2, <1>3 DEF OneN, OneVol
<1>6. \A v \in Volumes : Moving(v)' = Moving(v) /\ Moving(v) \in Int
  BY <1>1 DEF Moving
<1>7. LateN' = LateN /\ \A v \in Volumes : LateVol(v)' = LateVol(v)
  BY <1>4, <1>5, <1>6, StillLate
<1>8. Aloft' = Aloft
  BY <1>1 DEF Aloft
<1>. QED
  BY <1>1, <1>7, <1>8, DriftKept

\* Loading a record owes nothing.
LEMMA LoadDrift ==
    ASSUME Typed, Typed', NEW o \in Objects, loadForDelete(o)
    PROVE  Drift' = Drift
<1>1. /\ job[o].pc = "idle" /\ content' = content
      /\ job' = [job EXCEPT ![o] = [pc |-> "loaded", at |-> content[o]]]
      /\ UNCHANGED <<cache, pending, flight, mover>>
  BY DEF loadForDelete
<1>2. /\ job'[o].pc = "loaded"
      /\ \A p \in Objects \ {o} : content'[p] = content[p] /\ job'[p] = job[p]
  BY <1>1 DEF Typed, RowShape
<1>4. LateN' - LateN = OneN(o)' - OneN(o)
      /\ \A v \in Volumes : LateVol(v)' - LateVol(v) = OneVol(o, v)' - OneVol(o, v) + Moving(v)' - Moving(v)
  BY <1>2, OneObjectLate
<1>5. OneN(o)' = OneN(o) /\ OneN(o) \in Int /\ \A v \in Volumes : OneVol(o, v)' = OneVol(o, v) /\ OneVol(o, v) \in Int
  BY <1>1, <1>2 DEF OneN, OneVol
<1>6. \A v \in Volumes : Moving(v)' = Moving(v) /\ Moving(v) \in Int
  BY <1>1 DEF Moving
<1>7. LateN' = LateN /\ \A v \in Volumes : LateVol(v)' = LateVol(v)
  BY <1>4, <1>5, <1>6, StillLate
<1>8. Aloft' = Aloft
  BY <1>1 DEF Aloft
<1>. QED
  BY <1>1, <1>7, <1>8, DriftKept

\* A change that is counted goes from the callers to what is pending; while stopping, it is forgotten.
LEMMA RecordDrift ==
    ASSUME Typed, Typed', NEW o \in Objects, recordCreated(o) \/ recordDeleted(o), up # "down", Drift' # Drift
    PROVE  MayDrift
<1>0. PICK dir \in {1, -1} : /\ recordDelta(buildStorageStatsDeltaForObject(job[o].at, dir, readable))
                              /\ dir = IF job[o].pc = "created" THEN 1 ELSE -1
  BY DEF recordCreated, recordDeleted
<1>. DEFINE delta == buildStorageStatsDeltaForObject(job[o].at, dir, readable)
<1>1. /\ job[o].pc \in {"created", "deleted"} /\ recordDelta(delta) /\ job' = [job EXCEPT ![o] = NoJob]
      /\ UNCHANGED <<content, cache, flight, mover>>
  BY <1>0 DEF recordCreated, recordDeleted
<1>2. /\ job'[o] = NoJob
      /\ \A p \in Objects \ {o} : content'[p] = content[p] /\ job'[p] = job[p]
  BY <1>1 DEF Typed, RowShape
<1>3. LateN' - LateN = OneN(o)' - OneN(o)
      /\ \A v \in Volumes : LateVol(v)' - LateVol(v) = OneVol(o, v)' - OneVol(o, v) + Moving(v)' - Moving(v)
  BY <1>1, <1>2, OneObjectLate
<1>4. job[o].at \in SUBSET Volumes /\ dir \in {1, -1}
  BY DEF Typed, RowShape
<1>5. delta \in CountersType /\ delta.n = dir /\ \A v \in Volumes : delta.vol[v] = IF v \in job[o].at THEN dir ELSE 0
  <2>1. delta \in CountersType
    BY <1>4, BuildTyped
  <2>2. delta.n = dir
    BY <1>4, BuildTyped
  <2>3. \A v \in Volumes : delta.vol[v] = IF v \in job[o].at THEN dir ELSE 0
    BY DEF buildStorageStatsDeltaForObject
  <2>. QED
    BY <2>1, <2>2, <2>3
<1>6. Aloft' = Aloft
  BY <1>1 DEF Aloft
<1>7. CASE up = "up"
  <2>1. pending' = mergeStorageStatsDelta(pending, delta)
    BY <1>1, <1>5, <1>7, DeltaRecorded
  <2>2. pending \in CountersType
    BY DEF Typed, Shape
  <2>3. pending'.n = pending.n + delta.n /\ \A v \in Volumes : pending'.vol[v] = pending.vol[v] + delta.vol[v]
    BY <1>5, <2>1, <2>2, MergeTyped
  <2>4. OneN(o)' - OneN(o) = -dir
        /\ \A v \in Volumes : OneVol(o, v)' - OneVol(o, v) = 0 - (IF v \in job[o].at THEN dir ELSE 0)
    BY <1>0, <1>1, <1>2 DEF OneN, OneVol, NoJob
  <2>5. \A v \in Volumes : OneVol(o, v)' \in Int /\ OneVol(o, v) \in Int
    BY DEF OneVol
  <2>6. \A v \in Volumes : Moving(v)' = Moving(v) /\ Moving(v) \in Int
    BY <1>1 DEF Moving
  <2>7. LateN \in Int /\ LateN' \in Int /\ \A v \in Volumes : LateVol(v) \in Int /\ LateVol(v)' \in Int
    BY LateIntsTwice
  <2>8. LateN' = LateN - delta.n /\ dir \in Int
    BY <1>3, <1>4, <1>5, <2>4, <2>7
  <2>9. ASSUME NEW v \in Volumes PROVE LateVol(v)' = LateVol(v) - delta.vol[v] /\ delta.vol[v] \in Int
    <3>1. PICK d \in Int : delta.vol[v] = d /\ d = IF v \in job[o].at THEN dir ELSE 0
      BY <1>4, <1>5
    <3>2. OneVol(o, v)' - OneVol(o, v) = 0 - d
      BY <2>4, <3>1
    <3>. HIDE DEF delta
    <3>5. LateVol(v)' = LateVol(v) - d
      BY <1>3, <2>6, <3>2, LessLate
    <3>. QED
      BY <3>1, <3>5
  <2>. HIDE DEF delta
  <2>10. cache'.c.n + pending'.n + Aloft'.n + LateN' = cache.c.n + pending.n + Aloft.n + LateN
    BY <1>1, <1>5, <1>6, <2>3, <2>7, <2>8, HeldTyped
  <2>11. ASSUME NEW v \in Volumes
         PROVE  cache'.c.vol[v] + pending'.vol[v] + Aloft'.vol[v] + LateVol(v)'
                = cache.c.vol[v] + pending.vol[v] + Aloft.vol[v] + LateVol(v)
    <3>1. cache'.c.vol[v] = cache.c.vol[v] /\ Aloft'.vol[v] = Aloft.vol[v]
          /\ pending'.vol[v] = pending.vol[v] + delta.vol[v]
      BY <1>1, <1>6, <2>3
    <3>2. cache.c.vol[v] \in Int /\ pending.vol[v] \in Int /\ Aloft.vol[v] \in Int
      BY HeldTyped
    <3>. QED
      BY <2>7, <2>9, <3>1, <3>2
  <2>. QED
    BY <2>10, <2>11, DriftKept
<1>8. CASE up = "stopping"
  <2>. SUFFICES ASSUME Uncounted' = Uncounted PROVE Drift' = Drift
    BY <1>8 DEF MayDrift
  <2>1. pending' = pending
    BY <1>1, <1>5, <1>8, DeltaRecorded
  <2>2. LateN' = LateN /\ \A v \in Volumes : LateVol(v)' = LateVol(v)
    BY <1>1 DEF LateN, LateVol, CountSystem, CountVolumes, Rows
  <2>. QED
    BY <1>1, <1>6, <2>1, <2>2, DriftKept
<1>. QED
  BY <1>7, <1>8 DEF Typed, Shape

\* A reference that is flipped is owed to two volumes.
LEMMA FlipDrift ==
    ASSUME Typed, Typed', NEW o \in Objects, NEW from \in Volumes, NEW to \in Volumes,
           replaceObjectVolumeRef(o, from, to)
    PROVE  Drift' = Drift
<1>1. /\ mover = NoMove /\ from \in content[o] /\ to \notin content[o]
      /\ content' = [content EXCEPT ![o] = (@ \ {from}) \cup {to}]
      /\ mover' = [from |-> {from}, to |-> {to}]
      /\ UNCHANGED <<cache, pending, flight, job>>
  BY DEF replaceObjectVolumeRef
<1>2. /\ content'[o] = (content[o] \ {from}) \cup {to} /\ job'[o] = job[o]
      /\ \A p \in Objects \ {o} : content'[p] = content[p] /\ job'[p] = job[p]
  BY <1>1 DEF Typed, RowShape
<1>3. LateN' - LateN = OneN(o)' - OneN(o)
      /\ \A v \in Volumes : LateVol(v)' - LateVol(v) = OneVol(o, v)' - OneVol(o, v) + Moving(v)' - Moving(v)
  BY <1>2, OneObjectLate
<1>4. OneN(o)' = OneN(o) /\ OneN(o) \in Int
  BY <1>1, <1>2 DEF OneN
<1>5. ASSUME NEW v \in Volumes
      PROVE  OneVol(o, v)' - OneVol(o, v) = -(Moving(v)' - Moving(v))
  <2>1. Moving(v) = 0 /\ Moving(v)' = (IF v = to THEN 1 ELSE 0) - (IF v = from THEN 1 ELSE 0)
    BY <1>1 DEF Moving, NoMove
  <2>2. OneVol(o, v)' - OneVol(o, v) = (IF v \in content[o] THEN 1 ELSE 0) - (IF v \in content'[o] THEN 1 ELSE 0)
    BY <1>2 DEF OneVol
  <2>3. CASE v = from
    BY <1>1, <1>2, <2>1, <2>2, <2>3
  <2>4. CASE v = to
    BY <1>1, <1>2, <2>1, <2>2, <2>4
  <2>5. CASE v # from /\ v # to
    <3>1. v \in content'[o] <=> v \in content[o]
      BY <1>2, <2>5
    <3>. QED
      BY <2>1, <2>2, <2>5, <3>1
  <2>. QED
    BY <2>3, <2>4, <2>5
<1>6. \A v \in Volumes : Moving(v)' \in Int /\ Moving(v) \in Int /\ OneVol(o, v)' \in Int /\ OneVol(o, v) \in Int
  BY DEF Moving, OneVol
<1>7. LateN' = LateN /\ \A v \in Volumes : LateVol(v)' = LateVol(v)
  <2>1. LateN \in Int /\ LateN' \in Int /\ \A v \in Volumes : LateVol(v) \in Int /\ LateVol(v)' \in Int
    BY LateIntsTwice
  <2>. QED
    BY <1>3, <1>4, <1>5, <1>6, <2>1
<1>8. Aloft' = Aloft
  BY <1>1 DEF Aloft
<1>. QED
  BY <1>1, <1>7, <1>8, DriftKept

\* A relocation that is counted goes to what is pending; while stopping, it is forgotten.
LEMMA RelocatedDrift ==
    ASSUME Typed, Typed', recordRelocated, up # "down", Drift' # Drift
    PROVE  MayDrift
<1>. DEFINE delta == buildStorageStatsDeltaForRelocation(mover.from, mover.to)
<1>1. /\ recordDelta(delta) /\ mover' = NoMove /\ UNCHANGED <<content, cache, flight, job>>
  BY DEF recordRelocated
<1>2. mover.from \in SUBSET Volumes /\ mover.to \in SUBSET Volumes
  BY DEF Typed, RowShape
<1>3. delta \in CountersType /\ delta.n = 0 /\ \A v \in Volumes : delta.vol[v] = Moving(v)
  BY <1>2, RelocationTyped DEF Moving
<1>. HIDE DEF delta
<1>4. Aloft' = Aloft
  BY <1>1 DEF Aloft
<1>5. CASE up = "up"
  <2>1. pending' = mergeStorageStatsDelta(pending, delta) /\ pending \in CountersType
    BY <1>1, <1>3, <1>5, DeltaRecorded DEF Typed, Shape
  <2>2. pending'.n = pending.n + delta.n /\ \A v \in Volumes : pending'.vol[v] = pending.vol[v] + delta.vol[v]
    BY <1>3, <2>1, MergeTyped
  <2>3. LateSums /\ LateSums'
    BY LateIs, PTL
  <2>4. LateN' = LateN
    BY <1>1, <2>3 DEF LateSums, Created, Deleted, Rows
  <2>5. ASSUME NEW v \in Volumes PROVE LateVol(v)' = LateVol(v) - Moving(v) /\ Moving(v) \in Int
    <3>1. /\ CreatedOn(v)' = CreatedOn(v) /\ DeletedOn(v)' = DeletedOn(v) /\ RowsOn(v)' = RowsOn(v)
      BY <1>1 DEF CreatedOn, DeletedOn, RowsOn
    <3>2. Moving(v)' = 0 /\ Moving(v) \in Int
      BY <1>1 DEF Moving, NoMove
    <3>3. /\ Cardinality(CreatedOn(v)) \in Nat /\ Cardinality(DeletedOn(v)) \in Nat
          /\ Cardinality(RowsOn(v)) \in Nat
      BY Counted DEF CreatedOn, DeletedOn, RowsOn
    <3>4. /\ LateVol(v) = Cardinality(CreatedOn(v)) - Cardinality(DeletedOn(v)) + Moving(v)
                            - Cardinality(RowsOn(v))
          /\ LateVol(v)' = Cardinality(CreatedOn(v)) - Cardinality(DeletedOn(v)) + 0
                            - Cardinality(RowsOn(v))
      BY <2>3, <3>1, <3>2 DEF LateSums
    <3>. QED
      BY <3>2, <3>3, <3>4
  <2>6. LateN \in Int /\ \A v \in Volumes : LateVol(v) \in Int
    BY LateTyped
  <2>7. cache'.c.n + pending'.n + Aloft'.n + LateN' = cache.c.n + pending.n + Aloft.n + LateN
    BY <1>1, <1>3, <1>4, <2>2, <2>4, <2>6, HeldTyped
  <2>8. ASSUME NEW v \in Volumes
        PROVE  cache'.c.vol[v] + pending'.vol[v] + Aloft'.vol[v] + LateVol(v)'
               = cache.c.vol[v] + pending.vol[v] + Aloft.vol[v] + LateVol(v)
    <3>1. cache'.c.vol[v] = cache.c.vol[v] /\ Aloft'.vol[v] = Aloft.vol[v]
          /\ pending'.vol[v] = pending.vol[v] + Moving(v)
      BY <1>1, <1>3, <1>4, <2>2
    <3>2. cache.c.vol[v] \in Int /\ pending.vol[v] \in Int /\ Aloft.vol[v] \in Int
      BY HeldTyped
    <3>. QED
      BY <2>5, <2>6, <3>1, <3>2
  <2>. QED
    BY <2>7, <2>8, DriftKept
<1>6. CASE up = "stopping"
  <2>. SUFFICES ASSUME Uncounted' = Uncounted PROVE Drift' = Drift
    BY <1>6 DEF MayDrift
  <2>1. pending' = pending
    BY <1>1, <1>3, <1>6, DeltaRecorded
  <2>2. LateN' = LateN /\ \A v \in Volumes : LateVol(v)' = LateVol(v)
    BY <1>1 DEF LateN, LateVol, CountSystem, CountVolumes, Rows
  <2>. QED
    BY <1>1, <1>4, <2>1, <2>2, DriftKept
<1>. QED
  BY <1>5, <1>6 DEF Typed, Shape

\* Every step keeps the drift, or has a cause to move it.
LEMMA DriftStep ==
    ASSUME Typed, Typed', [Next]_vars, Drift' # Drift
    PROVE  MayDrift
<1>1. CASE ClientNext
  BY <1>1, DeleteDrift, RecordDrift, RecordStep, RelocatedDrift, RelocateTyped DEF
      ClientNext
<1>2. CASE \E o \in Objects :
          \/ loadForDelete(o)
          \/ \E at \in Placements : createObjectRecord(o, at)
          \/ \E from, to \in Volumes : replaceObjectVolumeRef(o, from, to)
  BY <1>2, LoadDrift, CreateDrift, FlipDrift
<1>3. CASE FlushNext \/ flushFails
  BY <1>3, FlushDrift, ApplyDrift, FlushEndsDrift DEF FlushNext
<1>4. CASE reconcileTick \/ handleStorageStatsReconcileRequest \/ ReconcileNext \/ reconcileFails
  BY <1>4, ReconcileDrift DEF ReconcileNext
<1>5. CASE getSnapshot \/ RefreshNext
  BY <1>5, ReadersDrift DEF RefreshNext
<1>6. CASE start \/ stop \/ StopNext \/ crash
  BY <1>6, ReadersDrift, EndsDrift DEF StopNext
<1>7. CASE \E v \in Volumes : volumeChanges(v)
  BY <1>7, ReadersDrift
<1>8. CASE UNCHANGED vars
  BY <1>8, ReadersDrift
<1>. QED
  BY <1>1, <1>2, <1>3, <1>4, <1>5, <1>6, <1>7, <1>8 DEF Next

\* The document moves away from the rows only by a reconcile's write, a delete whose record was loaded
\* before a relocation, a lost answer, a change counted while stopping, or the end of the process: the flushes,
\* their failures and who awaits them count no change twice and lose none (stats-tracker.ts).
THEOREM NoSilentDrift == Spec => DriftHasACause
<1>1. Typed /\ Typed' /\ [Next]_vars => [Drift' # Drift => MayDrift]_vars
  BY DriftStep
<1>. QED
  BY <1>1, TypedAlways, PTL DEF Spec, DriftHasACause

-----------------------------------------------------------------------------
\* The states of a reconcile behind its flush.
Running == {"system", "volumes", "unavailable", "replace"}

\* A step that does not move the reconcile, the flush and what is pending keeps what the reconcile has counted,
\* unless it leaves something to be counted.
LEMMA CountingKept ==
    ASSUME Counting, UNCHANGED <<rec, flight, pending>>, up' = "up" => up = "up",
           Idle' => Idle /\ content' = content
    PROVE  Counting'
<1>1. Idle' => CountSystem' = CountSystem /\ CountVolumes' = CountVolumes
  BY DEF CountSystem, CountVolumes, Rows
<1>. QED
  BY <1>1 DEF Counting

\* A reconcile that does not count.
LEMMA CountingGone ==
    ASSUME rec'.pc \notin Running
    PROVE  Counting'
  BY DEF Counting, Running

\* A change that is counted while a reconcile runs marks the reconcile.
LEMMA CountedAway ==
    ASSUME Typed, Counting, NEW delta \in CountersType, recordDelta(delta), UNCHANGED <<flight, up>>
    PROVE  Counting'
<1>1. rec' = [rec EXCEPT !.moved = rec'.moved]
  BY DeltaRecorded
<1>2. rec'.pc = rec.pc
  BY <1>1 DEF Typed, Shape
<1>3. CASE up = "up"
  <2>1. rec.pc # "idle" => rec'.moved
    BY <1>3, DeltaRecorded
  <2>. QED
    BY <1>2, <2>1 DEF Counting
<1>4. CASE up # "up"
  BY <1>2, <1>4 DEF Counting
<1>. QED
  BY <1>3, <1>4

\* After its write a reconcile ends, or starts again.
LEMMA AfterReplace ==
    ASSUME Typed, replaceStorageStats
    PROVE  rec'.pc \in {"idle", "flush"}
<1>1. NoRec.pc = "idle" /\ [Beginning EXCEPT !.attempt = rec.attempt + 1].pc = "flush"
  BY DEF NoRec, Beginning
<1>. QED
  BY <1>1 DEF replaceStorageStats

\* The empty set.
LEMMA NoObjects == Cardinality({}) = 0
  BY FS_EmptySet

\* Deletes and counts keep Counting.
LEMMA CountingClient ==
    ASSUME Typed, Counting, ClientNext
    PROVE  Counting'
<1>1. ASSUME NEW o \in Objects, deleteObjectById(o) PROVE Counting'
  <2>1. job' = [job EXCEPT ![o].pc = "deleted"] /\ UNCHANGED <<rec, flight, pending, up>>
    BY <1>1 DEF deleteObjectById
  <2>2. ~Idle'
    BY <2>1 DEF Idle, Typed, RowShape
  <2>. QED
    BY <2>1, <2>2, CountingKept
<1>2. ASSUME NEW o \in Objects, recordCreated(o) \/ recordDeleted(o) PROVE Counting'
  <2>1. PICK dir \in {1, -1} : recordDelta(buildStorageStatsDeltaForObject(job[o].at, dir, readable))
    BY <1>2 DEF recordCreated, recordDeleted
  <2>2. job[o].at \in SUBSET Volumes
    BY DEF Typed, RowShape
  <2>3. buildStorageStatsDeltaForObject(job[o].at, dir, readable) \in CountersType
    BY <2>2, BuildTyped
  <2>4. UNCHANGED <<flight, up>>
    BY <1>2 DEF recordCreated, recordDeleted
  <2>. QED
    BY <2>1, <2>3, <2>4, CountedAway
<1>3. ASSUME recordRelocated PROVE Counting'
  <2>1. mover.from \in SUBSET Volumes /\ mover.to \in SUBSET Volumes
    BY DEF Typed, RowShape
  <2>2. buildStorageStatsDeltaForRelocation(mover.from, mover.to) \in CountersType
    BY <2>1, RelocationTyped
  <2>3. UNCHANGED <<flight, up>> /\ recordDelta(buildStorageStatsDeltaForRelocation(mover.from, mover.to))
    BY <1>3 DEF recordRelocated
  <2>. QED
    BY <2>2, <2>3, CountedAway
<1>. QED
  BY <1>1, <1>2, <1>3 DEF ClientNext

\* New rows, loaded records and flipped references keep Counting.
LEMMA CountingRows ==
    ASSUME Typed, Counting, NEW o \in Objects,
           \/ loadForDelete(o)
           \/ \E at \in Placements : createObjectRecord(o, at)
           \/ \E from, to \in Volumes : replaceObjectVolumeRef(o, from, to)
    PROVE  Counting'
<1>1. UNCHANGED <<rec, flight, pending, up>>
  BY DEF loadForDelete, createObjectRecord, replaceObjectVolumeRef
<1>2. Idle' => Idle /\ content' = content
  <2>1. CASE loadForDelete(o)
    <3>1. job[o].pc = "idle" /\ job' = [job EXCEPT ![o] = [pc |-> "loaded", at |-> content[o]]]
          /\ content' = content /\ mover' = mover
      BY <2>1 DEF loadForDelete
    <3>2. \A p \in Objects \ {o} : job'[p] = job[p]
      BY <3>1 DEF Typed, RowShape
    <3>. QED
      BY <3>1, <3>2 DEF Idle
  <2>2. CASE \E at \in Placements : createObjectRecord(o, at)
    <3>1. job'[o].pc = "created"
      BY <2>2 DEF createObjectRecord, Typed, RowShape
    <3>. QED
      BY <3>1 DEF Idle
  <2>3. CASE \E from, to \in Volumes : replaceObjectVolumeRef(o, from, to)
    <3>1. mover' # NoMove
      BY <2>3 DEF replaceObjectVolumeRef, NoMove
    <3>. QED
      BY <3>1 DEF Idle
  <2>. QED
    BY <2>1, <2>2, <2>3
<1>. QED
  BY <1>1, <1>2, CountingKept

\* Flushes keep Counting: none is in flight while a reconcile counts.
LEMMA CountingFlush ==
    ASSUME Typed, Counting, FlushNext \/ flushFails
    PROVE  Counting'
<1>1. CASE flush
  <2>1. UNCHANGED <<content, job, mover, rec, up>>
    BY <1>1 DEF flush
  <2>2. CASE rec.pc = "idle"
    BY <2>1, <2>2, CountingGone DEF Running
  <2>3. CASE UNCHANGED <<flight, pending>>
    BY <2>1, <2>3, CountingKept DEF Idle
  <2>. QED
    BY <1>1, <2>2, <2>3 DEF flush
<1>2. CASE applyStorageStatsDelta
  <2>1. flight.on /\ rec' = rec
    BY <1>2 DEF applyStorageStatsDelta
  <2>. QED
    BY <2>1, CountingGone DEF Counting, Running
<1>3. CASE flushDone
  <2>1. /\ flight.on /\ RecAfterFlush(TRUE) /\ ~flight'.on /\ pending' = pending
    BY <1>3 DEF flushDone, NoFlight
  <2>2. rec.pc \notin Running
    BY <2>1 DEF Counting, Running
  <2>3. CASE ~flight.rec
    BY <2>1, <2>2, <2>3, AfterFlush, CountingGone
  <2>4. CASE flight.rec
    <3>1. rec' = [rec EXCEPT !.pc = "system", !.moved = FALSE, !.readable = readable, !.left = pending]
      BY <2>1, <2>4, AfterFlush
    <3>2. rec'.pc = "system" /\ rec'.left = pending
      BY <3>1 DEF Typed, Shape
    <3>. QED
      BY <2>1, <3>2 DEF Counting
  <2>. QED
    BY <2>3, <2>4
<1>4. CASE flushFails
  <2>1. flight.on /\ RecAfterFlush(FALSE)
    BY <1>4 DEF flushFails
  <2>2. rec.pc \notin Running /\ NoRec.pc \notin Running
    BY <2>1 DEF Counting, Running, NoRec
  <2>3. rec' = rec \/ rec' = NoRec
    BY <2>1 DEF RecAfterFlush
  <2>. QED
    BY <2>2, <2>3, CountingGone
<1>. QED
  BY <1>1, <1>2, <1>3, <1>4 DEF FlushNext

\* The reconcile's own steps keep Counting.
LEMMA CountingReconcile ==
    ASSUME Typed, Typed', Counting,
           reconcileTick \/ handleStorageStatsReconcileRequest \/ ReconcileNext \/ reconcileFails
    PROVE  Counting'
<1>1. CASE reconcileTick \/ handleStorageStatsReconcileRequest
  <2>1. rec' = Beginning
    BY <1>1 DEF reconcileTick, handleStorageStatsReconcileRequest
  <2>. QED
    BY <2>1, BeginningTyped, CountingGone DEF Running
<1>2. CASE reconcileFails
  <2>1. rec'.pc = "idle"
    BY <1>2 DEF reconcileFails, NoRec
  <2>. QED
    BY <2>1, CountingGone DEF Running
<1>3. CASE replaceStorageStats
  <2>1. rec'.pc \in {"idle", "flush"}
    BY <1>3, AfterReplace
  <2>. QED
    BY <2>1, CountingGone DEF Running
<1>4. CASE reconcileFlush
  <2>1. CASE rec' = [rec EXCEPT !.pc = "wait"]
    <3>1. rec'.pc = "wait"
      BY <2>1 DEF Typed, Shape
    <3>. QED
      BY <3>1, CountingGone DEF Running
  <2>2. CASE /\ ~flight.on /\ pending = Zero
             /\ rec' = [rec EXCEPT !.pc = "system", !.moved = FALSE, !.readable = readable, !.left = Zero]
             /\ UNCHANGED <<pending, flight>>
    <3>1. rec'.pc = "system" /\ rec'.left = Zero
      BY <2>2 DEF Typed, Shape
    <3>. QED
      BY <2>2, <3>1 DEF Counting
  <2>. QED
    BY <1>4, <2>1, <2>2 DEF reconcileFlush
<1>5. CASE computeStorageStats
  <2>1. /\ UNCHANGED <<content, pending, flight, job, mover, up>>
        /\ rec'.moved = rec.moved /\ rec'.left = rec.left
    BY <1>5, ComputeTyped DEF computeStorageStats
  <2>2. ~flight.on /\ (up = "up" /\ ~rec.moved => pending = rec.left)
    BY <1>5 DEF Counting, computeStorageStats
  <2>3. CountSystem' = CountSystem /\ CountVolumes' = CountVolumes /\ Idle' = Idle
    BY <2>1 DEF CountSystem, CountVolumes, Rows, Idle
  <2>4. rec.snap \in DocType /\ rec.snap.c \in CountersType
    BY DEF Typed, Shape, DocType
  <2>5. CASE rec.pc = "system"
    <3>1. rec' = [rec EXCEPT !.pc = "volumes", !.snap = [NoDoc EXCEPT !.doc = TRUE, !.c.n = CountSystem]]
      BY <1>5, <2>5 DEF computeStorageStats
    <3>2. rec'.pc = "volumes" /\ rec'.snap = [NoDoc EXCEPT !.doc = TRUE, !.c.n = CountSystem]
      BY <3>1 DEF Typed, Shape
    <3>3. rec'.snap.c.n = CountSystem
      BY <3>2 DEF NoDoc, Zero
    <3>. QED
      BY <2>1, <2>2, <2>3, <3>2, <3>3 DEF Counting
  <2>6. CASE rec.pc = "volumes"
    <3>. DEFINE d == [rec.snap EXCEPT !.c.vol = CountVolumes, !.known = {v \in Volumes : CountVolumes[v] > 0}]
    <3>1. rec' = [rec EXCEPT !.pc = "unavailable", !.snap = d]
      BY <1>5, <2>6 DEF computeStorageStats, Typed, Shape, DocType
    <3>2. d.c.n = rec.snap.c.n /\ d.c.vol = CountVolumes
      BY <2>4 DEF DocType, CountersType
    <3>. HIDE DEF d
    <3>3. rec'.pc = "unavailable" /\ rec'.snap = d
      BY <3>1 DEF Typed, Shape
    <3>4. up = "up" /\ ~rec.moved /\ Idle => rec.snap.c.n = CountSystem
      BY <2>6 DEF Counting
    <3>. QED
      BY <2>1, <2>2, <2>3, <3>2, <3>3, <3>4 DEF Counting
  <2>7. CASE rec.pc = "unavailable"
    <3>. DEFINE d == [rec.snap EXCEPT !.c.un = computeUnavailableStorageStats(rec.snap.known, rec.readable),
                                      !.seen = rec.readable]
    <3>1. rec' = [rec EXCEPT !.pc = "replace", !.snap = d]
      BY <1>5, <2>7 DEF computeStorageStats, Typed, Shape, DocType
    <3>2. d.c.n = rec.snap.c.n /\ d.c.vol = rec.snap.c.vol
      BY <2>4 DEF DocType, CountersType
    <3>. HIDE DEF d
    <3>3. rec'.pc = "replace" /\ rec'.snap = d
      BY <3>1 DEF Typed, Shape
    <3>4. up = "up" /\ ~rec.moved /\ Idle => rec.snap.c.n = CountSystem /\ rec.snap.c.vol = CountVolumes
      BY <2>7 DEF Counting
    <3>. QED
      BY <2>1, <2>2, <2>3, <3>2, <3>3, <3>4 DEF Counting
  <2>. QED
    BY <1>5, <2>5, <2>6, <2>7 DEF computeStorageStats
<1>. QED
  BY <1>1, <1>2, <1>3, <1>4, <1>5 DEF ReconcileNext

\* Readers, starts, stops, ends and volumes keep Counting.
LEMMA CountingRest ==
    ASSUME Typed, Counting,
           getSnapshot \/ RefreshNext \/ start \/ stop \/ StopNext \/ crash
             \/ (\E v \in Volumes : volumeChanges(v)) \/ UNCHANGED vars
    PROVE  Counting'
<1>1. NoRec.pc \notin Running /\ Beginning.pc \notin Running
  BY BeginningTyped DEF NoRec, Running
<1>2. CASE rec' = NoRec \/ rec' = Beginning
  BY <1>1, <1>2, CountingGone
<1>3. CASE stopFlush
  <2>1. rec'.pc \notin Running
    BY <1>3 DEF stopFlush, Running
  <2>. QED
    BY <2>1, CountingGone
<1>4. CASE exit \/ crash \/ start
  BY <1>2, <1>4 DEF exit, crash, ends, start
<1>5. CASE \/ getSnapshot \/ RefreshNext \/ stop
           \/ (\E v \in Volumes : volumeChanges(v)) \/ UNCHANGED vars
  <2>1. /\ UNCHANGED <<content, job, mover, flight, pending>> /\ (up' = "up" => up = "up")
        /\ rec' = rec \/ rec' = Beginning
    BY <1>5 DEF getSnapshot, RefreshNext, refreshQuery, updateUnavailable, stop,
        volumeChanges, vars
  <2>2. CASE rec' = rec
    BY <2>1, <2>2, CountingKept DEF Idle
  <2>. QED
    BY <1>2, <2>1, <2>2
<1>. QED
  BY <1>3, <1>4, <1>5 DEF StopNext

\* Every step keeps Counting.
LEMMA CountingStep ==
    ASSUME Typed, Typed', Counting, [Next]_vars
    PROVE  Counting'
<1>1. CASE ClientNext
  BY <1>1, CountingClient
<1>2. CASE \E o \in Objects :
          \/ loadForDelete(o)
          \/ \E at \in Placements : createObjectRecord(o, at)
          \/ \E from, to \in Volumes : replaceObjectVolumeRef(o, from, to)
  BY <1>2, CountingRows
<1>3. CASE FlushNext \/ flushFails
  BY <1>3, CountingFlush
<1>4. CASE reconcileTick \/ handleStorageStatsReconcileRequest \/ ReconcileNext \/ reconcileFails
  BY <1>4, CountingReconcile
<1>5. CASE getSnapshot \/ RefreshNext \/ start \/ stop \/ StopNext \/ crash
             \/ (\E v \in Volumes : volumeChanges(v)) \/ UNCHANGED vars
  BY <1>5, CountingRest
<1>. QED
  BY <1>1, <1>2, <1>3, <1>4, <1>5 DEF Next

\* The inductive invariant holds.
LEMMA CountingAlways == Spec => [](Typed /\ Counting)
<1>1. Init => Typed /\ Counting
  <2>1. NoRec.pc = "idle"
    BY DEF NoRec
  <2>2. Init => rec.pc = "idle"
    BY <2>1 DEF Init
  <2>. QED
    BY <2>2, TypedInit DEF Counting
<1>2. Typed /\ Counting /\ [Next]_vars => (Typed /\ Counting)'
  BY TypedStep, CountingStep
<1>. QED
  BY <1>1, <1>2, PTL DEF Spec

\* The step that ends such a reconcile.
LEMMA ExactStep ==
    ASSUME Typed, Typed', Counting, [Next]_vars,
           up = "up", rec.pc = "replace", rec'.pc = "idle", cache' = rec.snap, ~rec.moved, Idle, rec.left = Zero
    PROVE  Drift' = NoDrift
<1>1. /\ ~flight.on /\ pending = Zero /\ rec.snap.c.n = CountSystem /\ rec.snap.c.vol = CountVolumes
  BY DEF Counting
<1>2. replaceStorageStats \/ reconcileFails \/ crash
  <2>1. ~(ClientNext \/ \E o \in Objects :
          \/ loadForDelete(o)
          \/ \E at \in Placements : createObjectRecord(o, at)
          \/ \E from, to \in Volumes : replaceObjectVolumeRef(o, from, to))
    <3>1. CASE ClientNext
      <4>1. UNCHANGED rec \/ rec' = [rec EXCEPT !.moved = rec.pc # "idle"]
        BY <3>1 DEF ClientNext, deleteObjectById, recordCreated, recordDeleted,
            recordRelocated, recordDelta
      <4>. QED
        BY <4>1 DEF Typed, Shape
    <3>. QED
      BY <3>1 DEF loadForDelete, createObjectRecord, replaceObjectVolumeRef
  <2>2. ~(FlushNext \/ flushFails)
    BY <1>1 DEF FlushNext, flush, applyStorageStatsDelta, flushDone, flushFails
  <2>3. ~(reconcileTick \/ handleStorageStatsReconcileRequest \/ reconcileFlush \/ computeStorageStats)
    BY DEF reconcileTick, handleStorageStatsReconcileRequest, reconcileFlush,
        computeStorageStats
  <2>4. ~(getSnapshot \/ RefreshNext \/ start \/ stop \/ StopNext
             \/ (\E v \in Volumes : volumeChanges(v)) \/ UNCHANGED vars)
    BY DEF getSnapshot, RefreshNext, refreshQuery, updateUnavailable, start, stop,
        StopNext, stopFlush, exit,
           volumeChanges, vars
  <2>. QED
    BY <2>1, <2>2, <2>3, <2>4 DEF Next, ReconcileNext
<1>3. /\ content' = content /\ ~flight'.on /\ pending' = Zero /\ Idle'
  <2>1. CASE replaceStorageStats \/ reconcileFails
    BY <1>1, <2>1 DEF replaceStorageStats, reconcileFails, Idle
  <2>2. CASE crash
    BY <2>2 DEF crash, ends, NoFlight, NoJob, Idle
  <2>. QED
    BY <1>2, <2>1, <2>2
<1>4. DriftSums' /\ LateSums'
  <2>1. (Typed => DriftSums)' /\ LateSums'
    BY DriftIs, LateIs, PTL
  <2>. QED
    BY <2>1
<1>5. /\ Aloft' = Zero /\ cache'.c.n = CountSystem /\ cache'.c.vol = CountVolumes
  BY <1>1, <1>3 DEF Aloft
<1>6. Created' = {} /\ Deleted' = {} /\ Rows' = Rows
  BY <1>3 DEF Created, Deleted, Rows, Idle
<1>7. LateN' = 0 - CountSystem
  BY <1>4, <1>6, NoObjects, CountsTyped DEF LateSums, CountSystem
<1>8. Drift'.n = 0
  BY <1>3, <1>4, <1>5, <1>7, ZeroCounts, CountsTyped DEF DriftSums
<1>9. ASSUME NEW v \in Volumes PROVE Drift'.vol[v] = 0
  <2>1. CreatedOn(v)' = {} /\ DeletedOn(v)' = {} /\ RowsOn(v)' = RowsOn(v) /\ Moving(v)' = 0
    BY <1>3 DEF CreatedOn, DeletedOn, RowsOn, Idle, Moving, NoMove
  <2>2. CountVolumes[v] = Cardinality(RowsOn(v)) /\ CountVolumes[v] \in Nat
    <3>1. {o \in Rows : v \in content[o]} = RowsOn(v)
      BY DEF Rows, RowsOn
    <3>2. CountVolumes[v] = Cardinality({o \in Rows : v \in content[o]})
      BY DEF CountVolumes
    <3>. QED
      BY <3>1, <3>2, CountsTyped
  <2>3. LateVol(v)' = 0 - CountVolumes[v]
    BY <1>4, <2>1, <2>2, NoObjects DEF LateSums
  <2>4. Drift'.vol[v] = cache'.c.vol[v] + pending'.vol[v] + Aloft'.vol[v] + LateVol(v)'
    BY <1>4 DEF DriftSums
  <2>. QED
    BY <1>3, <1>5, <2>2, <2>3, <2>4, ZeroCounts
<1>10. Drift' = [n |-> Drift'.n, vol |-> [v \in Volumes |-> Drift'.vol[v]]]
  BY <1>4 DEF DriftSums
<1>. HIDE DEF Drift
<1>. QED
  BY <1>8, <1>9, <1>10 DEF NoDrift

\* A reconcile that has seen no change, with every change counted and nothing left pending behind its
\* flush, writes a document without drift, whatever the document was before (content-repository.ts).
THEOREM QuietReconcileIsExact == Spec => ReconcileExact
<1>1. Typed /\ Typed' /\ Counting /\ [Next]_vars
        => [up = "up" /\ rec.pc = "replace" /\ rec'.pc = "idle" /\ cache' = rec.snap /\ ~rec.moved /\ Idle
              /\ rec.left = Zero => Drift' = NoDrift]_vars
  BY ExactStep
<1>. QED
  BY <1>1, CountingAlways, TypedAlways, PTL DEF Spec, ReconcileExact
=============================================================================
