-------------------------- MODULE SliceMovesProofs --------------------------
(***************************************************************************)
(* What holds of SliceMoves for any number of slices and volumes, loads    *)
(* and faults.  The inductive invariant has three layers:                  *)
(*                                                                         *)
(*   Typed    the types, and which fields of a job are set at which step;  *)
(*   Placed   where the workers' sources and targets are, against the row  *)
(*            that the other workers change meanwhile;                     *)
(*   Guarded  which files are complete: a slice's copy is good where the   *)
(*            row says, or there is a good one on the read-only volume,    *)
(*            where nobody writes.                                         *)
(*                                                                         *)
(* Guarded needs Placed: two movers of one slice took it from one source,  *)
(* and that one is read-only (a rebalance sheds one volume as long as the  *)
(* process lives, and puts nothing on it), so the source keeps its copy.   *)
(***************************************************************************)
EXTENDS SliceMoves, TLAPS

Distinct(r) == \A i, j \in Slice : r[i] = r[j] => i = j
Active(p) == job[p].pc # "idle"

\* The fields a worker sets before it writes stay what they are until it ends.
ShapeOf(p) ==
    /\ job[p].pc = "idle" <=> job[p].idx = None
    /\ Active(p) => job[p].src \in Volume /\ put = "done"
    /\ job[p].pc \notin {"idle", "place", "verify"} => job[p].dst \in Volume
    /\ p = "repair" =>
          /\ job[p].pc \in {"idle", "verify", "rebuild", "rebuilding", "recommit"}
          /\ job[p].pc \notin {"idle", "verify"} => job[p].dst = job[p].src
    /\ p \in Mover =>
          /\ job[p].pc # "verify"
          /\ job[p].pc \notin {"idle", "place"} => job[p].dst # job[p].src
          /\ job[p].pc = "place" => job[p].doc[job[p].idx] = job[p].src
    /\ p = "drain" => job[p].pc # "unlink"

JobShape == \A p \in Worker : ShapeOf(p)

ObjectShape ==
    /\ put # "idle" => row \in [Slice -> Volume]
    /\ live => put = "done"
    /\ del # "idle" => put = "done"
    /\ del \in {"row", "unlink"} => delDoc \in [Slice -> Volume]
    /\ del = "unlink" => ~live

\* A drain that is under way has a volume to drain.
DrainShape ==
    drainJob \in {"scan", "work", "count", "finalize"} => drainVol # None

Typed == TypeOK /\ JobShape /\ ObjectShape /\ DrainShape

-----------------------------------------------------------------------------
(***************************************************************************)
(* What a step changes, cell by cell                                       *)
(***************************************************************************)

Others(p) == \A q \in Worker : q # p => job'[q] = job[q]
SamePlan(p) ==
    /\ job'[p].doc = job[p].doc /\ job'[p].idx = job[p].idx
    /\ job'[p].src = job[p].src /\ job'[p].dst = job[p].dst
Advance(p, to) ==
    /\ job' \in [Worker -> Job] /\ Others(p)
    /\ job'[p].pc = to /\ SamePlan(p) 
End(p) == job' \in [Worker -> Job] /\ Others(p) /\ job'[p] = Idle
Writes(p, b) ==
    /\ file' \in [Slice -> [Volume -> Bytes]]
    /\ \A i \in Slice, v \in Volume :
          file'[i][v] = IF i = job[p].idx /\ v = job[p].dst THEN b ELSE file[i][v]
Scratches(p, b) ==
    /\ tmp' \in [Slice -> [Volume -> Bytes]]
    /\ \A i \in Slice, v \in Volume :
          tmp'[i][v] = IF i = job[p].idx /\ v = job[p].dst THEN b ELSE tmp[i][v]

Steps == {"copy", "copying", "commit", "validate", "rebuild", "rebuilding",
          "recommit", "flip", "unlink"}

\* An idle worker has a job of the right shape, without a slice.
LEMMA IdleShape ==
    /\ Idle \in Job /\ NoRefs \in Refs
    /\ Idle.pc = "idle" /\ Idle.idx = None
BY DEF Idle, Job, NoRefs, Refs

\* A worker that has begun to write has a slice, a source and a target.
LEMMA AtWork ==
    ASSUME Typed, NEW p \in Worker, job[p].pc \in Steps
    PROVE  job[p].idx \in Slice /\ job[p].dst \in Volume /\ job[p].src \in Volume /\ put = "done" /\ job[p] \in Job
BY MovesAssumption DEF Typed, TypeOK, JobShape, ShapeOf, Steps, Job, Active

\* A step that replaces one worker's job leaves the others' alone.
LEMMA JobStep ==
    ASSUME TypeOK, NEW p \in Worker, NEW j \in Job, job' = [job EXCEPT ![p] = j]
    PROVE  job' \in [Worker -> Job] /\ job'[p] = j /\ Others(p)
BY DEF TypeOK, Others

\* Going on keeps the slice, its source and its target.
LEMMA GotoStep ==
    ASSUME TypeOK, NEW p \in Worker, NEW to \in Steps, Goto(p, to)
    PROVE  Advance(p, to) /\ job'[p].held = job[p].held
<1> DEFINE j == [job[p] EXCEPT !.pc = to]
<1>1. job[p] \in Job
    BY DEF TypeOK
<1>2. j \in Job /\ j.pc = to /\ j.doc = job[p].doc /\ j.idx = job[p].idx /\ j.src = job[p].src /\ j.dst = job[p].dst /\ j.held = job[p].held
    BY <1>1 DEF Job, Steps
<1>3. job' = [job EXCEPT ![p] = j]
    BY DEF Goto
<1> QED BY <1>2, <1>3, JobStep DEF Advance, SamePlan

\* Ending a job frees the worker.
LEMMA FinishStep ==
    ASSUME TypeOK, NEW p \in Worker, Finish(p)
    PROVE  End(p)
BY IdleShape, JobStep DEF Finish, End

\* Writing the committed file changes that file only.
LEMMA TargetStep ==
    ASSUME Typed, NEW p \in Worker, job[p].pc \in Steps, NEW b \in Bytes, SetTarget(p, b)
    PROVE  Writes(p, b)
BY AtWork DEF Typed, TypeOK, SetTarget, Writes

\* Writing the temporary file changes that file only.
LEMMA ScratchStep ==
    ASSUME Typed, NEW p \in Worker, job[p].pc \in Steps, NEW b \in Bytes, SetScratch(p, b)
    PROVE  Scratches(p, b)
BY AtWork DEF Typed, TypeOK, SetScratch, Scratches

\* The bytes at a worker's target and scratch file.
LEMMA CellTypes ==
    ASSUME Typed, NEW p \in Worker, job[p].pc \in Steps
    PROVE  Source(p) \in Bytes /\ Target(p) \in Bytes /\ Scratch(p) \in Bytes /\ job[p].held \in Bytes
BY AtWork DEF Typed, TypeOK, Source, Target, Scratch, Job, Bytes

\* copyFile() truncates the temporary file, or gives up.
LEMMA CopyOpenStep ==
    ASSUME Typed, NEW p \in Mover, CopyOpen(p)
    PROVE  /\ UNCHANGED <<object, file, taken, rest>> /\ job[p].pc = "copy"
           /\ \/ Advance(p, "copying") /\ Scratches(p, p)
              \/ Advance(p, "rebuild") /\ tmp' = tmp
<1>0. p \in Worker /\ p \in Bytes /\ job[p].pc \in Steps
    BY DEF Worker, Bytes, CopyOpen, Steps
<1>1. CASE Goto(p, "rebuild") /\ tmp' = tmp
    BY <1>0, <1>1, GotoStep DEF CopyOpen, Typed, Steps
<1>2. CASE /\ SetScratch(p, p)
           /\ job' = [job EXCEPT ![p].pc = "copying", ![p].held =
                          IF Source(p) = "good" THEN "good" ELSE "bad"]
    <2> DEFINE h == IF Source(p) = "good" THEN "good" ELSE "bad"
    <2> DEFINE j == [job[p] EXCEPT !.pc = "copying", !.held = h]
    <2>1. job[p] \in Job
        BY <1>0 DEF Typed, TypeOK
    <2>2. h \in {"good", "bad"}
        OBVIOUS
    <2> HIDE DEF h
    <2>3. j \in Job /\ j.pc = "copying" /\ j.doc = job[p].doc /\ j.idx = job[p].idx /\ j.src = job[p].src /\ j.dst = job[p].dst
        BY <2>1, <2>2 DEF Job
    <2>4. job' = [job EXCEPT ![p].pc = "copying", ![p].held = h]
        BY <1>2 DEF h
    <2>5. job' = [job EXCEPT ![p] = j]
        BY <2>4
    <2>6. Scratches(p, p)
        BY <1>0, <1>2, ScratchStep
    <2> QED BY <1>0, <2>3, <2>5, <2>6, JobStep DEF CopyOpen, Advance, SamePlan,
        Typed
<1> QED BY <1>1, <1>2 DEF CopyOpen

\* The last byte reaches the file the worker still has open, wherever that is.
LEMMA WrittenStep ==
    ASSUME Typed, NEW p \in Worker, job[p].pc \in Steps, NEW b \in Bytes, Written(p, b)
    PROVE  /\ Scratches(p, IF Scratch(p) = p THEN b ELSE Scratch(p))
           /\ Writes(p, IF Target(p) = p THEN b ELSE Target(p))
BY CellTypes, ScratchStep, TargetStep DEF Written

\* The copy has been written.
LEMMA CopyWrittenStep ==
    ASSUME Typed, NEW p \in Mover, CopyWritten(p)
    PROVE  /\ UNCHANGED <<object, taken, rest>> /\ job[p].pc = "copying"
           /\ Advance(p, "commit")
           /\ Scratches(p, IF Scratch(p) = p THEN job[p].held ELSE Scratch(p))
           /\ Writes(p, IF Target(p) = p THEN job[p].held ELSE Target(p))
<1>1. p \in Worker /\ job[p].pc \in Steps
    BY DEF Worker, CopyWritten, Steps
<1> QED BY <1>1, CellTypes, WrittenStep, GotoStep DEF CopyWritten, Typed, Steps

\* Either the scratch file is renamed over the target, or it is gone or stays.
LEMMA RenameStep ==
    ASSUME Typed, NEW p \in Worker, job[p].pc \in Steps, Rename(p)
    PROVE  Writable(job[p].dst) /\ Writes(p, Scratch(p)) /\ Scratches(p, "none")
<1>1. Scratch(p) \in Bytes /\ "none" \in Bytes
    BY CellTypes DEF Bytes
<1> QED BY <1>1, TargetStep, ScratchStep DEF Rename

\* A rename that throws leaves the committed file as it was.
LEMMA RenameFailsStep ==
    ASSUME Typed, NEW p \in Worker, job[p].pc \in Steps, RenameFails(p)
    PROVE  file' = file /\ \E b \in Bytes : Scratches(p, b)
<1> DEFINE b == IF Writable(job[p].dst) THEN "none" ELSE Scratch(p)
<1>1. b \in Bytes
    BY CellTypes DEF Bytes
<1> QED BY <1>1, ScratchStep DEF RenameFails

\* The copy is renamed into place, or the slice is rebuilt instead.
LEMMA CopyCommitStep ==
    ASSUME Typed, NEW p \in Mover, CopyCommit(p)
    PROVE  /\ UNCHANGED <<object, taken, rest>> /\ job[p].pc = "commit"
           /\ \/ /\ Writable(job[p].dst) /\ Advance(p, "validate")
                 /\ Writes(p, Scratch(p)) /\ Scratches(p, "none")
              \/ /\ Advance(p, "rebuild") /\ file' = file
                 /\ \E b \in Bytes : Scratches(p, b)
<1>1. p \in Worker /\ job[p].pc \in Steps
    BY DEF Worker, CopyCommit, Steps
<1>2. CASE Rename(p) /\ Goto(p, "validate")
    BY <1>1, <1>2, RenameStep, GotoStep DEF CopyCommit, Typed, Steps
<1>3. CASE RenameFails(p) /\ Goto(p, "rebuild")
    BY <1>1, <1>3, RenameFailsStep, GotoStep DEF CopyCommit, Typed, Steps
<1> QED BY <1>2, <1>3 DEF CopyCommit

\* deleteCommittedFile() leaves the file alone on a volume that is read-only.
LEMMA DropStep ==
    ASSUME Typed, NEW p \in Worker, job[p].pc \in Steps, DropTarget(p)
    PROVE  Writes(p, IF Writable(job[p].dst) THEN "none" ELSE Target(p))
BY CellTypes, TargetStep DEF DropTarget, Bytes

\* verifySlice() passes the copy, or it is dropped.
LEMMA CopyValidateStep ==
    ASSUME Typed, NEW p \in Mover, CopyValidate(p)
    PROVE  /\ UNCHANGED <<object, tmp, taken, rest>> /\ job[p].pc = "validate"
           /\ \/ Advance(p, "flip") /\ file' = file /\ Target(p) = "good"
              \/ /\ Advance(p, "rebuild")
                 /\ Writes(p, IF Writable(job[p].dst) THEN "none" ELSE Target(p))
<1>1. p \in Worker /\ job[p].pc \in Steps
    BY DEF Worker, CopyValidate, Steps
<1> QED BY <1>1, DropStep, GotoStep DEF CopyValidate, Typed, Steps

\* SliceRepairer.repair() creates its temporary file, or gives up.
LEMMA RebuildOpenStep ==
    ASSUME Typed, NEW p \in Worker, RebuildOpen(p)
    PROVE  /\ UNCHANGED <<object, file, taken, rest>> /\ job[p].pc = "rebuild"
           /\ \/ Advance(p, "rebuilding") /\ Scratches(p, p)
              \/ End(p) /\ tmp' = tmp
<1>1. p \in Bytes /\ job[p].pc \in Steps
    BY DEF Bytes, RebuildOpen, Steps
<1> QED BY <1>1, ScratchStep, GotoStep, FinishStep DEF RebuildOpen, Typed, Steps

\* The rebuilt slice has been written.
LEMMA RebuildWrittenStep ==
    ASSUME Typed, NEW p \in Worker, RebuildWritten(p)
    PROVE  /\ UNCHANGED <<object, taken, rest>> /\ job[p].pc = "rebuilding"
           /\ Advance(p, "recommit")
           /\ Scratches(p, IF Scratch(p) = p THEN "good" ELSE Scratch(p))
           /\ Writes(p, IF Target(p) = p THEN "good" ELSE Target(p))
<1>1. "good" \in Bytes /\ job[p].pc \in Steps
    BY DEF Bytes, RebuildWritten, Steps
<1> QED BY <1>1, WrittenStep, GotoStep DEF RebuildWritten, Typed, Steps

\* A rebuild that loses its quorum drops its temporary file.
LEMMA RebuildFailsStep ==
    ASSUME Typed, NEW p \in Worker, RebuildFails(p)
    PROVE  /\ UNCHANGED <<object, file, taken, rest>> /\ job[p].pc = "rebuilding"
           /\ End(p) /\ \E b \in Bytes : Scratches(p, b)
<1> DEFINE b == IF Writable(job[p].dst) THEN "none" ELSE Scratch(p)
<1>1. job[p].pc \in Steps
    BY DEF RebuildFails, Steps
<1>2. b \in Bytes
    BY <1>1, CellTypes DEF Bytes
<1> QED BY <1>1, <1>2, ScratchStep, FinishStep DEF RebuildFails, Typed

\* The rebuilt slice is renamed into place, or the job ends.
LEMMA RebuildCommitStep ==
    ASSUME Typed, NEW p \in Worker, RebuildCommit(p)
    PROVE  /\ UNCHANGED <<object, taken, rest>> /\ job[p].pc = "recommit"
           /\ \/ /\ Writable(job[p].dst)
                 /\ Writes(p, Scratch(p)) /\ Scratches(p, "none")
                 /\ IF p = "repair" THEN End(p) ELSE Advance(p, "flip")
              \/ /\ End(p) /\ file' = file
                 /\ \E b \in Bytes : Scratches(p, b)
<1>1. job[p].pc \in Steps
    BY DEF RebuildCommit, Steps
<1>2. CASE Rename(p) /\ IF p = "repair" THEN Finish(p) ELSE Goto(p, "flip")
    BY <1>1, <1>2, RenameStep, GotoStep, FinishStep DEF RebuildCommit, Typed, Steps
<1>3. CASE RenameFails(p) /\ Finish(p)
    BY <1>1, <1>3, RenameFailsStep, FinishStep DEF RebuildCommit, Typed
<1> QED BY <1>2, <1>3 DEF RebuildCommit

\* replaceObjectVolumeRef() found its filter true and switched the ref.
LEMMA FlipStep ==
    ASSUME Typed, NEW p \in Mover, Flip(p)
    PROVE  /\ UNCHANGED <<live, put, del, delDoc, disk, taken, rest>>
           /\ job[p].pc = "flip" /\ live
           /\ Holds(row, job[p].src) /\ ~Holds(row, job[p].dst)
           /\ row' \in [Slice -> Volume]
           /\ \A i \in Slice :
                 row'[i] = IF row[i] = job[p].src THEN job[p].dst ELSE row[i]
           /\ IF p = "rebalance" THEN Advance(p, "unlink") ELSE End(p)
<1>1. p \in Worker /\ job[p].pc \in Steps
    BY DEF Worker, Flip, Steps
<1>2. live /\ row \in [Slice -> Volume] /\ job[p].dst \in Volume
    BY <1>1, AtWork DEF Flip, Replaceable, Typed, ObjectShape
<1>3. IF p = "rebalance" THEN Advance(p, "unlink") ELSE End(p)
    BY <1>1, GotoStep, FinishStep DEF Flip, Typed, Steps
<1> QED BY <1>2, <1>3 DEF Flip, Replaceable, Replaced

\* The switch is refused and the copy is dropped.
LEMMA FlipRefusedStep ==
    ASSUME Typed, NEW p \in Mover, FlipRefused(p)
    PROVE  /\ UNCHANGED <<object, tmp, taken, rest>> /\ job[p].pc = "flip"
           /\ End(p)
           /\ Writes(p, IF Writable(job[p].dst) THEN "none" ELSE Target(p))
<1>1. p \in Worker /\ job[p].pc \in Steps
    BY DEF Worker, FlipRefused, Steps
<1> QED BY <1>1, DropStep, FinishStep DEF FlipRefused, Typed

\* A rebalance unlinks the source, unless it cannot be written any more.
LEMMA UnlinkSourceStep ==
    ASSUME Typed, UnlinkSource
    PROVE  /\ UNCHANGED <<object, tmp, taken, rest>>
           /\ job["rebalance"].pc = "unlink" /\ End("rebalance")
           /\ file' \in [Slice -> [Volume -> Bytes]]
           /\ \A i \in Slice, v \in Volume :
                 file'[i][v] = IF /\ i = job["rebalance"].idx
                                  /\ v = job["rebalance"].src
                                  /\ Writable(v)
                               THEN "none" ELSE file[i][v]
<1>1. "rebalance" \in Worker /\ job["rebalance"].pc \in Steps
    BY DEF Worker, Mover, UnlinkSource, Steps
<1>2. job["rebalance"].idx \in Slice /\ job["rebalance"].src \in Volume
    BY <1>1, AtWork
<1> QED BY <1>1, <1>2, FinishStep DEF UnlinkSource, Typed, TypeOK, Bytes

\* A worker that takes up a slice has the row as it is then.
LEMMA LoadStep ==
    ASSUME Typed, NEW p \in Worker, NEW i \in Slice, NEW v,
           NEW to \in {"place", "verify"}, Load(p, i, v, to)
    PROVE  /\ live /\ put = "done" /\ row \in [Slice -> Volume]
           /\ row[i] = v /\ v \in Volume /\ job[p].pc = "idle"
           /\ loads' \in 0..MaxLoads /\ contested' \subseteq Slice
           /\ job' \in [Worker -> Job] /\ Others(p)
           /\ job'[p].pc = to /\ job'[p].doc = row /\ job'[p].idx = i
           /\ job'[p].src = v
           /\ contested' = IF \E q \in Worker \ {p} : job[q].idx = i
                           THEN contested \cup {i} ELSE contested
<1> DEFINE j == [Idle EXCEPT !.pc = to, !.doc = row, !.idx = i, !.src = v]
<1>1. live /\ put = "done" /\ row \in [Slice -> Volume] /\ row[i] = v /\ v \in Volume
    BY DEF Load, Typed, ObjectShape
<1>2. j \in Job /\ j.pc = to /\ j.doc = row /\ j.idx = i /\ j.src = v
    BY <1>1 DEF Idle, Job, NoRefs, Refs
<1>3. job' \in [Worker -> Job] /\ job'[p] = j /\ Others(p)
    BY <1>2, JobStep DEF Load, Typed
<1>4. loads' \in 0..MaxLoads /\ contested' \subseteq Slice
    BY MovesAssumption DEF Load, Typed, TypeOK
<1> QED BY <1>1, <1>2, <1>3, <1>4 DEF Load

\* pickTarget() returns a writable volume, never the source.
LEMMA PlaceStep ==
    ASSUME Typed, NEW p \in Mover, NEW v \in Volume, Place(p, v)
    PROVE  /\ UNCHANGED <<object, disk, taken, rest>> /\ job[p].pc = "place"
           /\ job' \in [Worker -> Job] /\ Others(p)
           /\ job'[p].pc = "copy" /\ job'[p].idx = job[p].idx
           /\ job'[p].src = job[p].src /\ job'[p].dst = v
           /\ v # job[p].src /\ Writable(v)
           /\ p = "rebalance" => v # shedding
<1> DEFINE j == [job[p] EXCEPT !.dst = v, !.doc[job[p].idx] = v, !.pc = "copy"]
<1>1. p \in Worker /\ job[p] \in Job /\ job[p].pc = "place"
    BY DEF Worker, Place, Typed, TypeOK
<1>2. job[p].idx \in Slice /\ job[p].doc[job[p].idx] = job[p].src
    BY <1>1, MovesAssumption DEF Typed, JobShape, ShapeOf, Job
<1>3. ASSUME NEW k \in Job, NEW i \in Slice
      PROVE  LET m == [k EXCEPT !.dst = v, !.doc[i] = v, !.pc = "copy"] IN
             m \in Job /\ m.pc = "copy" /\ m.idx = k.idx /\ m.src = k.src /\ m.dst = v
    BY DEF Job, Refs
<1>4. j \in Job /\ j.pc = "copy" /\ j.idx = job[p].idx /\ j.src = job[p].src /\ j.dst = v
    BY <1>1, <1>2, <1>3
<1>5. job' = [job EXCEPT ![p] = j]
    BY DEF Place
<1>6. job' \in [Worker -> Job] /\ job'[p] = j /\ Others(p)
    BY <1>1, <1>4, <1>5, JobStep DEF Typed
<1>7. v # job[p].src /\ Writable(v) /\ (p = "rebalance" => v # shedding)
    BY <1>2 DEF Place, Targets, Holds
<1> HIDE DEF j
<1> QED BY <1>1, <1>4, <1>6, <1>7 DEF Place

\* Without a target the slice stays where it is.
LEMMA NoTargetStep ==
    ASSUME Typed, NEW p \in Mover, NoTarget(p)
    PROVE  UNCHANGED <<object, disk, taken, rest>> /\ job[p].pc = "place" /\ End(p)
BY FinishStep DEF NoTarget, Typed, Worker

\* The repair worker ends, or rebuilds the slice where it found it.
LEMMA RepairVerifyStep ==
    ASSUME Typed, RepairVerify
    PROVE  /\ UNCHANGED <<object, disk, taken, rest>>
           /\ job["repair"].pc = "verify"
           /\ \/ End("repair")
              \/ /\ job' \in [Worker -> Job] /\ Others("repair")
                 /\ job'["repair"].pc = "rebuild"
                 /\ job'["repair"].idx = job["repair"].idx
                 /\ job'["repair"].src = job["repair"].src
                 /\ job'["repair"].dst = job["repair"].src
<1>0. "repair" \in Worker /\ job["repair"].pc = "verify"
    BY DEF Worker, RepairVerify
<1>1. CASE Finish("repair")
    BY <1>0, <1>1, FinishStep DEF RepairVerify, Typed
<1>2. CASE job' = [job EXCEPT !["repair"].pc = "rebuild",
                              !["repair"].dst = job["repair"].src]
    <2> DEFINE k == job["repair"]
    <2> DEFINE j == [k EXCEPT !.pc = "rebuild", !.dst = k.src]
    <2>1. k \in Job /\ k.src \in Volume
        BY <1>0 DEF Typed, TypeOK, JobShape, ShapeOf, Active
    <2>2. ASSUME NEW m \in Job, NEW v \in Volume
          PROVE  LET n == [m EXCEPT !.pc = "rebuild", !.dst = v] IN
                 n \in Job /\ n.pc = "rebuild" /\ n.idx = m.idx /\ n.src = m.src /\ n.dst = v
        BY DEF Job
    <2>3. j \in Job /\ j.pc = "rebuild" /\ j.idx = k.idx /\ j.src = k.src /\ j.dst = k.src
        BY <2>1, <2>2
    <2>4. job' = [job EXCEPT !["repair"] = j]
        BY <1>2
    <2>5. job' \in [Worker -> Job] /\ job'["repair"] = j /\ Others("repair")
        BY <1>0, <2>3, <2>4, JobStep DEF Typed
    <2> HIDE DEF j
    <2> QED BY <1>0, <2>3, <2>5 DEF RepairVerify
<1> QED BY <1>1, <1>2 DEF RepairVerify

\* The slices of an upload are complete where its plan says.
LEMMA PutCommitStep ==
    ASSUME Typed, NEW r \in [Slice -> Volume], PutCommit(r)
    PROVE  /\ put = "idle" /\ put' = "insert" /\ row' = r /\ Distinct(r)
           /\ UNCHANGED <<live, del, delDoc, tmp, job, taken, rest>>
           /\ file' \in [Slice -> [Volume -> Bytes]]
           /\ \A i \in Slice : file'[i][r[i]] = "good"
BY DEF PutCommit, Distinct, Typed, TypeOK, Bytes

\* A DELETE leaves the files alone on the volumes that cannot be written.
LEMMA DeleteUnlinkStep ==
    ASSUME Typed, DeleteUnlink
    PROVE  /\ ~live /\ put = "done" /\ del' = "done" /\ delDoc' = NoRefs
           /\ UNCHANGED <<live, row, put, tmp, job, taken, rest>>
           /\ file' \in [Slice -> [Volume -> Bytes]]
BY DEF DeleteUnlink, Typed, TypeOK, ObjectShape, Bytes

\* A file that goes bad is one the row names.
LEMMA RotStep ==
    ASSUME Typed, NEW i \in Slice, Rot(i)
    PROVE  /\ live /\ row \in [Slice -> Volume] /\ rotten' = rotten \cup {i}
           /\ hits' \in 0..MaxFaults
           /\ file' \in [Slice -> [Volume -> Bytes]]
           /\ \A k \in Slice, v \in Volume :
                 file'[k][v] = IF k = i /\ v = row[i] THEN "bad" ELSE file[k][v]
           /\ UNCHANGED <<object, tmp, job, taken, readOnly, drain, shedding,
                          offline>>
BY MovesAssumption DEF Rot, Hit, Typed, TypeOK, ObjectShape, Bytes

\* A crash leaves whole files whole.
LEMMA CrashStep ==
    ASSUME Typed, Crash
    PROVE  /\ UNCHANGED <<live, row, taken, readOnly, drainVol, passed, drained,
                          offline, rotten>>
           /\ hits' \in 0..MaxFaults /\ delDoc' = NoRefs /\ prior' = FALSE
           /\ put' = (IF put = "insert" THEN "done" ELSE put)
           /\ del' = (IF del = "idle" THEN del ELSE "done")
           /\ drainJob' = "off" /\ shedding' = None
           /\ job' \in [Worker -> Job] /\ \A p \in Worker : job'[p] = Idle
           /\ file' \in [Slice -> [Volume -> Bytes]]
           /\ tmp' \in [Slice -> [Volume -> Bytes]]
           /\ \A i \in Slice, v \in Volume :
                 file[i][v] = "good" => file'[i][v] = "good"
<1>1. hits' \in 0..MaxFaults
    BY MovesAssumption DEF Crash, Hit, Typed, TypeOK
<1>2. job' \in [Worker -> Job] /\ \A p \in Worker : job'[p] = Idle
    BY IdleShape DEF Crash
<1>3. ASSUME NEW b \in Bytes
      PROVE  (IF b \in Worker THEN "bad" ELSE b) \in Bytes
    BY DEF Bytes
<1>4. /\ file' \in [Slice -> [Volume -> Bytes]]
      /\ tmp' \in [Slice -> [Volume -> Bytes]]
    BY <1>3 DEF Crash, Typed, TypeOK
<1>5. \A i \in Slice, v \in Volume : file[i][v] = "good" => file'[i][v] = "good"
    BY DEF Crash, Worker, Mover
<1> QED BY <1>1, <1>2, <1>4, <1>5 DEF Crash

\* An idle worker has the shape of one.
LEMMA EndShape ==
    ASSUME NEW p \in Worker, End(p)
    PROVE  ShapeOf(p)'
BY IdleShape DEF End, ShapeOf, Active

\* A worker that goes on has the shape of one.
LEMMA AdvanceShape ==
    ASSUME Typed, NEW p \in Worker, job[p].pc \in Steps, NEW to \in Steps,
           Advance(p, to), put' = put,
           p = "repair" => to \in {"rebuilding", "recommit"},
           p = "drain" => to # "unlink"
    PROVE  ShapeOf(p)'
<1>1. ShapeOf(p)
    BY DEF Typed, JobShape
<1> QED BY <1>1, AtWork, MovesAssumption DEF Advance, SamePlan, ShapeOf, Active,
    Steps

\* When one worker moves, the shapes of the others stay.
LEMMA OneShape ==
    ASSUME JobShape, NEW p \in Worker, Others(p), put' = put, ShapeOf(p)'
    PROVE  JobShape'
BY DEF JobShape, ShapeOf, Others, Active

\* A worker's step that writes bytes keeps the types.
LEMMA WorkerTyped ==
    ASSUME Typed, NEW p \in Worker, Others(p), job' \in [Worker -> Job],
           ShapeOf(p)', UNCHANGED <<live, put, del, delDoc, taken, rest>>,
           row' = row \/ row' \in [Slice -> Volume],
           file' \in [Slice -> [Volume -> Bytes]],
           tmp' \in [Slice -> [Volume -> Bytes]]
    PROVE  Typed'
<1>1. JobShape'
    BY OneShape DEF Typed
<1>2. ObjectShape'
    BY DEF Typed, ObjectShape
<1>3. row' \in Refs
    BY DEF Typed, TypeOK, Refs
<1>4. TypeOK'
    BY <1>3 DEF Typed, TypeOK, taken, rest, drain, faults
<1> QED BY <1>1, <1>2, <1>4 DEF Typed, DrainShape, rest, drain

\* Every step of a mover keeps the types.
LEMMA MoverTyped ==
    ASSUME Typed, NEW p \in Mover,
           \/ \E v \in Volume : Place(p, v)
           \/ NoTarget(p) \/ CopyOpen(p) \/ CopyWritten(p) \/ CopyCommit(p)
           \/ CopyValidate(p) \/ Flip(p) \/ FlipRefused(p)
    PROVE  Typed'
<1> USE DEF object, disk
<1>0. p \in Worker /\ p # "repair" /\ file \in [Slice -> [Volume -> Bytes]] /\ tmp \in [Slice -> [Volume -> Bytes]]
    BY DEF Worker, Mover, Typed, TypeOK
<1>1. ASSUME NEW v \in Volume, Place(p, v) PROVE Typed'
    <2>1. ShapeOf(p)
        BY <1>0 DEF Typed, JobShape
    <2>2. ShapeOf(p)'
        BY <1>0, <1>1, <2>1, PlaceStep DEF ShapeOf, Active, object
    <2> QED BY <1>0, <1>1, <2>2, PlaceStep, WorkerTyped
<1>2. CASE NoTarget(p)
    BY <1>0, <1>2, NoTargetStep, EndShape, WorkerTyped DEF End
<1>3. CASE CopyOpen(p)
    BY <1>0, <1>3, CopyOpenStep, AdvanceShape, WorkerTyped DEF Advance, Steps,
        Scratches
<1>4. CASE CopyWritten(p)
    BY <1>0, <1>4, CopyWrittenStep, AdvanceShape, WorkerTyped DEF Advance, Steps,
        Scratches, Writes
<1>5. CASE CopyCommit(p)
    BY <1>0, <1>5, CopyCommitStep, AdvanceShape, WorkerTyped DEF Advance, Steps,
        Scratches, Writes
<1>6. CASE CopyValidate(p)
    BY <1>0, <1>6, CopyValidateStep, AdvanceShape, WorkerTyped DEF Advance, Steps,
        Writes
<1>7. CASE Flip(p)
    BY <1>0, <1>7, FlipStep, AdvanceShape, EndShape, WorkerTyped DEF Advance, End,
        Steps
<1>8. CASE FlipRefused(p)
    BY <1>0, <1>8, FlipRefusedStep, EndShape, WorkerTyped DEF End, Writes
<1> QED BY <1>1, <1>2, <1>3, <1>4, <1>5, <1>6, <1>7, <1>8

\* Every step of SliceRepairer keeps the types.
LEMMA RebuilderTyped ==
    ASSUME Typed, NEW p \in Worker,
           RebuildOpen(p) \/ RebuildWritten(p) \/ RebuildFails(p) \/ RebuildCommit(p)
    PROVE  Typed'
<1> USE DEF object, disk
<1>0. file \in [Slice -> [Volume -> Bytes]] /\ tmp \in [Slice -> [Volume -> Bytes]]
    BY DEF Typed, TypeOK
<1>1. CASE RebuildOpen(p)
    BY <1>0, <1>1, RebuildOpenStep, AdvanceShape, EndShape, WorkerTyped DEF Advance,
        End, Steps, Scratches
<1>2. CASE RebuildWritten(p)
    BY <1>0, <1>2, RebuildWrittenStep, AdvanceShape, WorkerTyped DEF Advance, Steps,
        Scratches, Writes
<1>3. CASE RebuildFails(p)
    BY <1>0, <1>3, RebuildFailsStep, EndShape, WorkerTyped DEF End, Scratches
<1>4. CASE RebuildCommit(p)
    BY <1>0, <1>4, RebuildCommitStep, AdvanceShape, EndShape, WorkerTyped DEF
        Advance, End, Steps, Scratches, Writes
<1> QED BY <1>1, <1>2, <1>3, <1>4

\* Taking up a slice.
LEMMA LoadTyped ==
    ASSUME Typed, NEW p \in Worker, NEW i \in Slice, NEW v,
           NEW to \in {"place", "verify"}, Load(p, i, v, to),
           to = IF p = "repair" THEN "verify" ELSE "place",
           UNCHANGED <<object, disk, readOnly, drainVol, passed, drained, prior, shedding, faults>>,
           drainJob' = drainJob \/ (drainJob = "scan" /\ drainJob' = "work")
    PROVE  Typed'
<1> USE DEF object, disk, faults
<1>1. ShapeOf(p)'
    BY LoadStep, MovesAssumption DEF ShapeOf, Active, Mover
<1>2. JobShape'
    BY <1>1, LoadStep, OneShape DEF Typed
<1>3. ObjectShape'
    BY DEF Typed, ObjectShape
<1>4. TypeOK'
    BY LoadStep DEF Typed, TypeOK
<1>5. DrainShape'
    BY DEF Typed, DrainShape
<1> QED BY <1>2, <1>3, <1>4, <1>5 DEF Typed

\* The jobs and the fleet leave the object, its files and the workers alone.
Control ==
    \/ DrainAdvance \/ DrainCount \/ DrainFinalize
    \/ DrainCancel \/ DrainPause \/ DrainResume
    \/ \E v \in Volume : DrainStart(v) \/ RebalanceStart(v) \/ GoOffline(v) \/ ComeBack(v)

\* The steps of the jobs and the fleet keep the types and touch no file.
LEMMA ControlTyped ==
    ASSUME Typed, Control
    PROVE  Typed' /\ UNCHANGED <<object, disk, job, taken, rotten>>
<1>1. UNCHANGED <<object, disk, job, taken, rotten>>
    BY DEF Control, DrainAdvance, DrainCount, DrainFinalize, DrainCancel,
           DrainPause, DrainResume, DrainStart, RebalanceStart, GoOffline, ComeBack,
               faults
<1>2. JobShape' /\ ObjectShape'
    BY <1>1 DEF Typed, JobShape, ShapeOf, ObjectShape, Active, object, disk
<1>3. /\ readOnly' \subseteq Volume /\ drained' \subseteq Volume
      /\ drainVol' \in Volume \cup {None}
      /\ passed' \in BOOLEAN /\ prior' \in BOOLEAN
      /\ drainJob' \in {"off", "scan", "work", "count", "finalize", "aborting"}
      /\ shedding' \in Volume \cup {None} /\ offline' \subseteq Volume
      /\ hits' \in 0..MaxFaults
    <2> USE DEF Typed, TypeOK, drain, faults
    <2>1. CASE DrainAdvance BY <2>1 DEF DrainAdvance
    <2>2. CASE DrainCount
        BY <2>2 DEF DrainCount
    <2>3. CASE DrainFinalize
        <3>1. drainVol \in Volume
            BY <2>3 DEF DrainFinalize, DrainShape
        <3> QED BY <2>3, <3>1 DEF DrainFinalize
    <2>4. CASE DrainCancel BY <2>4 DEF DrainCancel
    <2>5. CASE DrainPause BY <2>5 DEF DrainPause
    <2>6. CASE DrainResume BY <2>6 DEF DrainResume
    <2>7. ASSUME NEW v \in Volume, DrainStart(v) \/ RebalanceStart(v) PROVE <1>3
        BY <2>7 DEF DrainStart, RebalanceStart
    <2>8. ASSUME NEW v \in Volume, GoOffline(v) \/ ComeBack(v) PROVE <1>3
        BY <2>8, MovesAssumption DEF GoOffline, ComeBack, Hit
    <2> QED BY <2>1, <2>2, <2>3, <2>4, <2>5, <2>6, <2>7, <2>8 DEF Control
<1>4. TypeOK'
    BY <1>1, <1>3 DEF Typed, TypeOK, object, disk, taken
<1>5. DrainShape'
    BY MovesAssumption DEF Control, DrainAdvance, DrainCount, DrainFinalize,
        DrainCancel, DrainPause, DrainResume, DrainStart, RebalanceStart,
        GoOffline, ComeBack, drain, Typed, DrainShape
<1> QED BY <1>1, <1>2, <1>4, <1>5 DEF Typed

\* The initial state has the types.
LEMMA TypedInit == Init => Typed
<1> SUFFICES ASSUME Init PROVE Typed
    OBVIOUS
<1>1. /\ file \in [Slice -> [Volume -> Bytes]]
      /\ tmp \in [Slice -> [Volume -> Bytes]]
    BY DEF Init, Bytes
<1>2. job \in [Worker -> Job] /\ \A p \in Worker : job[p] = Idle
    BY IdleShape DEF Init
<1>3. JobShape
    BY <1>2, IdleShape DEF JobShape, ShapeOf, Active
<1>4. row \in Refs /\ delDoc \in Refs /\ loads \in 0..MaxLoads /\ hits \in 0..MaxFaults
    BY IdleShape, MovesAssumption DEF Init
<1>5. TypeOK
    BY <1>1, <1>2, <1>4 DEF Init, TypeOK
<1> QED BY <1>3, <1>5 DEF Init, Typed, ObjectShape, DrainShape

\* The scans keep the types.
LEMMA ScanTyped ==
    ASSUME Typed,
           \/ DrainScan
           \/ \E v \in Volume : RebalanceScan(v)
           \/ \E i \in Slice : RepairLoad(i)
    PROVE  Typed'
<1>1. ASSUME NEW i \in Slice, Load("drain", i, drainVol, "place"), DrainScan, drainJob' = "work"
      PROVE  Typed'
    BY <1>1, LoadTyped DEF DrainScan, Worker, Mover
<1>2. CASE DrainScan /\ drainJob' = "count"
    <2>1. TypeOK' /\ JobShape' /\ ObjectShape'
        BY <1>2 DEF DrainScan, Typed, TypeOK, JobShape, ShapeOf, Active,
            ObjectShape, object, disk, taken, faults
    <2> QED BY <1>2, <2>1 DEF DrainScan, Typed, DrainShape
<1>3. ASSUME NEW v \in Volume, RebalanceScan(v) PROVE Typed'
    <2>1. "rebalance" \in Worker /\ drainJob' = drainJob
        BY <1>3 DEF RebalanceScan, Worker, Mover, rest, drain
    <2>2. UNCHANGED <<object, disk, readOnly, drainVol, passed, drained, prior, shedding, faults>>
        BY <1>3 DEF RebalanceScan, rest, drain
    <2>3. ASSUME NEW i \in Slice, Load("rebalance", i, v, "place") PROVE Typed'
        BY <2>1, <2>2, <2>3, LoadTyped
    <2> QED BY <1>3, <2>3 DEF RebalanceScan
<1>4. ASSUME NEW i \in Slice, RepairLoad(i) PROVE Typed'
    <2>1. "repair" \in Worker /\ drainJob' = drainJob
        BY <1>4 DEF RepairLoad, Worker, rest, drain
    <2>2. UNCHANGED <<object, disk, readOnly, drainVol, passed, drained, prior, shedding, faults>>
        BY <1>4 DEF RepairLoad, rest, drain
    <2>3. ASSUME NEW v, Load("repair", i, v, "verify") PROVE Typed'
        BY <2>1, <2>2, <2>3, LoadTyped
    <2> QED BY <1>4, <2>3 DEF RepairLoad
<1> QED BY <1>1, <1>2, <1>3, <1>4 DEF DrainScan

\* The PUT, the DELETE, a rotten file and a crash keep the types.
LEMMA ObjectTyped ==
    ASSUME Typed,
           \/ \E r \in [Slice -> Volume] : PutCommit(r)
           \/ PutInsert \/ DeleteLoad \/ DeleteRow \/ DeleteUnlink \/ Crash
           \/ \E i \in Slice : Rot(i)
    PROVE  Typed'
<1> USE DEF object, disk, taken, rest, drain, faults
<1>1. ASSUME NEW r \in [Slice -> Volume], PutCommit(r) PROVE Typed'
    <2>1. JobShape' /\ ObjectShape' /\ DrainShape'
        BY <1>1, PutCommitStep DEF Typed, JobShape, ShapeOf, Active, ObjectShape,
            DrainShape
    <2>2. TypeOK'
        BY <1>1, PutCommitStep DEF Typed, TypeOK, Refs
    <2> QED BY <2>1, <2>2 DEF Typed
<1>2. CASE PutInsert \/ DeleteLoad \/ DeleteRow
    <2>1. JobShape' /\ DrainShape'
        BY <1>2 DEF PutInsert, DeleteLoad, DeleteRow, Typed, JobShape, ShapeOf,
            Active, DrainShape
    <2>2. ObjectShape'
        BY <1>2 DEF PutInsert, DeleteLoad, DeleteRow, Typed, ObjectShape
    <2>3. TypeOK'
        BY <1>2 DEF PutInsert, DeleteLoad, DeleteRow, Typed, TypeOK
    <2> QED BY <2>1, <2>2, <2>3 DEF Typed
<1>3. CASE DeleteUnlink
    BY <1>3, DeleteUnlinkStep, IdleShape DEF Typed, TypeOK, JobShape, ShapeOf,
        Active, ObjectShape, DrainShape
<1>4. CASE Crash
    <2>1. JobShape'
        BY <1>4, CrashStep, IdleShape DEF JobShape, ShapeOf, Active
    <2>2. DrainShape'
        BY <1>4, CrashStep DEF DrainShape
    <2>3. ObjectShape /\ put \in {"idle", "insert", "done"}
        BY DEF Typed, TypeOK
    <2>4. ObjectShape'
        BY <1>4, <2>3, CrashStep DEF ObjectShape
    <2>5. TypeOK'
        BY <1>4, CrashStep, IdleShape DEF Typed, TypeOK
    <2> QED BY <2>1, <2>2, <2>4, <2>5 DEF Typed
<1>5. ASSUME NEW i \in Slice, Rot(i) PROVE Typed'
    BY <1>5, RotStep DEF Typed, TypeOK, JobShape, ShapeOf, Active, ObjectShape,
        DrainShape
<1> QED BY <1>1, <1>2, <1>3, <1>4, <1>5

\* Unlinking the source keeps the types.
LEMMA UnlinkTyped ==
    Typed /\ UnlinkSource => Typed'
<1> SUFFICES ASSUME Typed, UnlinkSource PROVE Typed'
    OBVIOUS
<1>1. "rebalance" \in Worker
    BY DEF Worker, Mover
<1> QED BY <1>1, UnlinkSourceStep, EndShape, WorkerTyped DEF End, object, Typed,
    TypeOK

\* The repair worker's verification keeps the types.
LEMMA RepairVerifyTyped ==
    Typed /\ RepairVerify => Typed'
<1> SUFFICES ASSUME Typed, RepairVerify PROVE Typed'
    OBVIOUS
<1>1. "repair" \in Worker /\ ShapeOf("repair")
    BY DEF Worker, Mover, Typed, JobShape
<1>2. ShapeOf("repair")'
    BY <1>1, RepairVerifyStep, EndShape DEF ShapeOf, Active, Mover, object
<1> QED BY <1>1, <1>2, RepairVerifyStep, WorkerTyped DEF End, object, disk, Typed,
    TypeOK

\* The next-state relation, grouped as the proofs use it.
LEMMA NextCases ==
    ASSUME Next
    PROVE  \/ \E r \in [Slice -> Volume] : PutCommit(r)
           \/ PutInsert \/ DeleteLoad \/ DeleteRow \/ DeleteUnlink \/ Crash
           \/ \E i \in Slice : Rot(i)
           \/ \E p \in Mover :
                 \/ \E v \in Volume : Place(p, v)
                 \/ NoTarget(p) \/ CopyOpen(p) \/ CopyWritten(p) \/ CopyCommit(p)
                 \/ CopyValidate(p) \/ Flip(p) \/ FlipRefused(p)
           \/ \E p \in Worker :
                 \/ RebuildOpen(p) \/ RebuildWritten(p) \/ RebuildFails(p)
                 \/ RebuildCommit(p)
           \/ UnlinkSource \/ RepairVerify
           \/ DrainScan
           \/ \E v \in Volume : RebalanceScan(v)
           \/ \E i \in Slice : RepairLoad(i)
           \/ Control
BY Zenon DEF Next, Control

\* Every step keeps the types.
LEMMA TypedStep == Typed /\ [Next]_vars => Typed'
<1> SUFFICES ASSUME Typed, [Next]_vars PROVE Typed'
    OBVIOUS
<1>1. CASE UNCHANGED vars
    BY <1>1 DEF vars, object, disk, taken, rest, drain, faults, Typed, TypeOK,
        JobShape, ShapeOf, Active, ObjectShape, DrainShape
<1>2. CASE Next
    BY <1>2, NextCases, ObjectTyped, MoverTyped, RebuilderTyped, UnlinkTyped,
        RepairVerifyTyped, ScanTyped, ControlTyped
<1> QED BY <1>1, <1>2

\* Every variable keeps its type: in particular no worker ever writes without a
\* slice and a target, and no drain reports a volume it does not have.
THEOREM TypeCorrect == Spec => []TypeOK
<1>1. Typed => TypeOK
    BY DEF Typed
<1> QED BY <1>1, TypedInit, TypedStep, PTL DEF Spec

-----------------------------------------------------------------------------
(***************************************************************************)
(* Where the workers are, against the row                                  *)
(***************************************************************************)

Unswitched(p) == job[p].pc \notin {"idle", "unlink"}

\* A worker works on one slice, a drain on a volume that is read-only for good,
\* a rebalance on the one volume it sheds until the process ends.
Sources ==
    /\ \A v, w \in readOnly : v = w
    /\ drainVol # None => drainVol \in readOnly
    /\ Active("drain") => job["drain"].src \in readOnly
    /\ Active("rebalance") => job["rebalance"].src = shedding

\* Only the other mover takes a slice from a mover's source.
Left(p, v) == IF p = "drain" THEN v = shedding ELSE v \in readOnly

\* A mover that has not switched the ref finds the slice, and no other slice, on
\* its source, unless the other mover was faster.
Seated(p) ==
    Unswitched(p) =>
        /\ row[job[p].idx] = job[p].src \/ Left(p, job[p].src)
        /\ \A i \in Slice : row[i] = job[p].src => i = job[p].idx

RepairSeated ==
    Active("repair") =>
        \/ row[job["repair"].idx] = job["repair"].src
        \/ job["repair"].src \in readOnly \/ job["repair"].src = shedding

\* A rebalance from a volume that is not being drained never writes the file the
\* repair worker rebuilds.
Apart ==
    /\ job["rebalance"].pc \notin {"idle", "place", "unlink"}
    /\ Active("repair")
    /\ job["rebalance"].idx = job["repair"].idx
    /\ job["rebalance"].src \notin readOnly
    => job["rebalance"].dst # job["repair"].src

\* An uncontested slice has one worker, and stays where that worker found it until
\* the worker itself switches the ref.
Alone ==
    \A i \in Slice \ contested : \A p, q \in Worker :
        job[p].idx = i /\ job[q].idx = i => p = q
Settled(p) ==
    job[p].idx \in Slice \ contested =>
        IF job[p].pc = "unlink" THEN row[job[p].idx] # job[p].src
                                ELSE row[job[p].idx] = job[p].src

PlanInv == put # "idle" => Distinct(row)

Placed ==
    /\ PlanInv /\ Sources /\ RepairSeated /\ Apart /\ Alone
    /\ \A p \in Mover : Seated(p)
    /\ \A p \in Worker : Settled(p)

\* What the steps of a worker between taking up a slice and switching its ref have
\* in common here.
Onward(p) ==
    /\ UNCHANGED <<row, put, readOnly, drainVol, shedding, contested>>
    /\ Others(p)
    /\ \/ job'[p] = Idle
       \/ /\ job[p].pc \notin {"idle", "unlink"} /\ job'[p].pc \notin {"idle", "unlink", "place"}
          /\ job'[p].idx = job[p].idx /\ job'[p].src = job[p].src
          /\ p = "repair" \/ (job[p].pc # "place" /\ job'[p].dst = job[p].dst)

\* A worker that goes on keeps its slice and source.
LEMMA AdvanceOnward ==
    ASSUME NEW p \in Worker, job[p].pc \in Steps \ {"unlink"},
           \/ \E to \in Steps \ {"unlink"} : Advance(p, to)
           \/ End(p),
           UNCHANGED <<object, taken, rest>>
    PROVE  Onward(p)
BY DEF Onward, Advance, SamePlan, End, Steps, object, taken, rest, drain

\* All steps of a worker but taking up, placing and switching are of that kind.
LEMMA OnwardSteps ==
    ASSUME Typed, NEW p \in Worker,
           \/ p \in Mover /\ \/ NoTarget(p) \/ CopyOpen(p) \/ CopyWritten(p)
                             \/ CopyCommit(p) \/ CopyValidate(p) \/ FlipRefused(p)
           \/ RebuildOpen(p) \/ RebuildWritten(p) \/ RebuildFails(p)
           \/ RebuildCommit(p)
           \/ p = "rebalance" /\ UnlinkSource
           \/ p = "repair" /\ RepairVerify
    PROVE  Onward(p)
<1>1. CASE p \in Mover /\ NoTarget(p)
    BY <1>1, NoTargetStep DEF Onward, End, object, taken, rest, drain
<1>2. CASE p \in Mover /\ CopyOpen(p)
    BY <1>2, CopyOpenStep, AdvanceOnward DEF Steps
<1>3. CASE p \in Mover /\ CopyWritten(p)
    BY <1>3, CopyWrittenStep, AdvanceOnward DEF Steps
<1>4. CASE p \in Mover /\ CopyCommit(p)
    BY <1>4, CopyCommitStep, AdvanceOnward DEF Steps
<1>5. CASE p \in Mover /\ CopyValidate(p)
    BY <1>5, CopyValidateStep, AdvanceOnward DEF Steps
<1>6. CASE p \in Mover /\ FlipRefused(p)
    BY <1>6, FlipRefusedStep, AdvanceOnward DEF Steps
<1>7. CASE RebuildOpen(p)
    BY <1>7, RebuildOpenStep, AdvanceOnward DEF Steps
<1>8. CASE RebuildWritten(p)
    BY <1>8, RebuildWrittenStep, AdvanceOnward DEF Steps
<1>9. CASE RebuildFails(p)
    BY <1>9, RebuildFailsStep, AdvanceOnward DEF Steps
<1>10. CASE RebuildCommit(p)
    BY <1>10, RebuildCommitStep, AdvanceOnward DEF Steps
<1>11. CASE p = "rebalance" /\ UnlinkSource
    BY <1>11, UnlinkSourceStep DEF Onward, End, object, taken, rest, drain
<1>12. CASE p = "repair" /\ RepairVerify
    BY <1>12, RepairVerifyStep DEF Onward, End, object, taken, rest, drain
<1> QED BY <1>1, <1>2, <1>3, <1>4, <1>5, <1>6, <1>7, <1>8, <1>9, <1>10, <1>11, <1>12

\* A worker that goes on stays where it was against the row.
LEMMA OnwardPlaced ==
    ASSUME Placed, NEW p \in Worker, Onward(p)
    PROVE  Placed'
<1> USE IdleShape DEF Onward, Others
<1>1. PlanInv'
    BY DEF Placed, PlanInv, Distinct
<1>2. Sources'
    BY DEF Placed, Sources, Active, Worker, Mover
<1>3. ASSUME NEW q \in Mover PROVE Seated(q)'
    <2>1. Seated(q)
        BY DEF Placed
    <2> QED BY <2>1 DEF Seated, Unswitched, Left, Worker
<1>4. RepairSeated'
    <2>1. RepairSeated
        BY DEF Placed
    <2> QED BY <2>1 DEF RepairSeated, Active, Worker
<1>5. Apart'
    <2>1. Apart
        BY DEF Placed
    <2> QED BY <2>1 DEF Apart, Active, Worker, Mover
<1>6. Alone'
    <2>1. Alone /\ None \notin Slice
        BY MovesAssumption DEF Placed
    <2>2. \A q \in Worker : job'[q].idx \in {job[q].idx, None}
        OBVIOUS
    <2> QED BY <2>1, <2>2 DEF Alone
<1>7. ASSUME NEW q \in Worker PROVE Settled(q)'
    <2>1. Settled(q) /\ None \notin Slice
        BY MovesAssumption DEF Placed
    <2> QED BY <2>1 DEF Settled
<1> QED BY <1>1, <1>2, <1>3, <1>4, <1>5, <1>6, <1>7 DEF Placed

\* A target is neither a source, nor read-only, nor the volume being shed.
LEMMA PlacePlaced ==
    ASSUME Typed, Placed, NEW p \in Mover, NEW v \in Volume, Place(p, v)
    PROVE  Placed'
<1> DEFINE Same == UNCHANGED <<row, put, readOnly, drainVol, shedding, contested>>
<1>0. /\ Same /\ p \in Worker /\ Others(p) /\ job[p].pc = "place" /\ job'[p].pc = "copy"
      /\ job'[p].idx = job[p].idx /\ job'[p].src = job[p].src /\ job'[p].dst = v
      /\ v # job[p].src /\ v \notin readOnly /\ (p = "rebalance" => v # shedding)
    BY PlaceStep DEF object, taken, rest, drain, Worker, Writable
<1> USE <1>0 DEF Others
<1>1. PlanInv'
    BY DEF Placed, PlanInv, Distinct
<1>2. Sources'
    BY DEF Placed, Sources, Active, Worker, Mover
<1>3. ASSUME NEW q \in Mover PROVE Seated(q)'
    <2>1. Seated(q)
        BY DEF Placed
    <2> QED BY <2>1 DEF Seated, Unswitched, Left, Worker
<1>4. RepairSeated'
    <2>1. RepairSeated
        BY DEF Placed
    <2> QED BY <2>1 DEF RepairSeated, Active, Worker, Mover
<1>5. Apart'
    <2>1. CASE p = "drain"
        <3>1. Apart
            BY DEF Placed
        <3> QED BY <2>1, <3>1 DEF Apart, Active, Worker, Mover
    <2>2. CASE p = "rebalance"
        <3>1. Seated("rebalance") /\ RepairSeated /\ Sources
            BY DEF Placed, Mover
        <3>2. job'["repair"] = job["repair"]
            BY <2>2 DEF Worker
        <3> QED BY <2>2, <3>1, <3>2 DEF Apart, Seated, RepairSeated, Sources,
            Unswitched, Left, Active
    <2> QED BY <2>1, <2>2 DEF Mover
<1>6. Alone'
    <2>1. \A q \in Worker : job'[q].idx = job[q].idx
        OBVIOUS
    <2> QED BY <2>1 DEF Placed, Alone
<1>7. ASSUME NEW q \in Worker PROVE Settled(q)'
    BY DEF Placed, Settled
<1> QED BY <1>1, <1>2, <1>3, <1>4, <1>5, <1>6, <1>7 DEF Placed

\* A worker takes up a slice where the row has it: a drain on its volume, a
\* rebalance on the one it sheds.
LEMMA LoadPlaced ==
    ASSUME Typed, Placed, NEW p \in Worker, NEW i \in Slice, NEW v,
           NEW to \in {"place", "verify"}, Load(p, i, v, to),
           p = "drain" => v \in readOnly,
           p = "rebalance" => v = shedding,
           p \in Mover => to = "place",
           UNCHANGED <<row, put, readOnly, drainVol, shedding>>
    PROVE  Placed'
<1>0. /\ row[i] = v /\ job[p].pc = "idle" /\ Others(p) /\ Distinct(row)
      /\ job'[p].pc = to /\ job'[p].idx = i /\ job'[p].src = v /\ to # "idle" /\ to # "unlink"
      /\ contested' = IF \E q \in Worker \ {p} : job[q].idx = i
                      THEN contested \cup {i} ELSE contested
    BY LoadStep DEF Placed, PlanInv
<1>1. PlanInv'
    BY DEF Placed, PlanInv, Distinct
<1>2. Sources'
    BY <1>0 DEF Placed, Sources, Active, Worker, Mover, Others
<1>3. ASSUME NEW q \in Mover PROVE Seated(q)'
    <2>1. Seated(q) /\ q \in Worker
        BY DEF Placed, Worker
    <2> QED BY <1>0, <2>1 DEF Seated, Unswitched, Left, Others, Distinct
<1>4. RepairSeated'
    <2>1. RepairSeated /\ "repair" \in Worker
        BY DEF Placed, Worker
    <2> QED BY <1>0, <2>1 DEF RepairSeated, Active, Others
<1>5. Apart'
    <2>1. Apart /\ "repair" \in Worker /\ "rebalance" \in Worker
        BY DEF Placed, Worker, Mover
    <2>2. CASE p = "repair"
        <3>1. job'["rebalance"] = job["rebalance"] /\ readOnly' = readOnly
            BY <1>0, <2>1, <2>2 DEF Others
        <3>2. Seated("rebalance") /\ ShapeOf("rebalance")
            BY <2>1 DEF Placed, Mover, Typed, JobShape
        <3> QED BY <1>0, <2>2, <3>1, <3>2 DEF Apart, Seated, ShapeOf, Unswitched,
            Left, Active, Mover
    <2>3. CASE p = "rebalance"
        BY <1>0, <2>3 DEF Apart, Mover
    <2>4. CASE p = "drain"
        BY <1>0, <2>1, <2>4 DEF Apart, Active, Others
    <2> QED BY <2>2, <2>3, <2>4 DEF Worker, Mover
<1>6. Alone'
    <2> SUFFICES ASSUME NEW k \in Slice \ contested', NEW a \in Worker, NEW b \in Worker,
                        job'[a].idx = k, job'[b].idx = k
                 PROVE  a = b
        BY DEF Alone
    <2>1. k \notin contested
        BY <1>0
    <2> QED BY <1>0, <2>1 DEF Placed, Alone, Others
<1>7. ASSUME NEW q \in Worker PROVE Settled(q)'
    BY <1>0 DEF Placed, Settled, Others
<1> QED BY <1>1, <1>2, <1>3, <1>4, <1>5, <1>6, <1>7 DEF Placed

\* The update of replaceObjectVolumeRef() keeps the refs distinct, because its
\* filter asks whether the target is in use already.
LEMMA ReplaceKeepsDistinct ==
    ASSUME NEW from, NEW to, Distinct(row), ~Holds(row, to),
           \A i \in Slice : row'[i] = IF row[i] = from THEN to ELSE row[i]
    PROVE  Distinct(row')
<1> SUFFICES ASSUME NEW i \in Slice, NEW j \in Slice, row'[i] = row'[j]
             PROVE  i = j
    BY DEF Distinct
<1>1. row[i] # to /\ row[j] # to
    BY DEF Holds
<1>2. row[i] = row[j]
    BY <1>1
<1> QED BY <1>2 DEF Distinct

\* The slice that is moved is the mover's own.
LEMMA FlipOwn ==
    ASSUME Typed, Placed, NEW p \in Mover, Flip(p)
    PROVE  /\ job[p].idx \in Slice /\ row[job[p].idx] = job[p].src
           /\ row'[job[p].idx] = job[p].dst
           /\ \A i \in Slice : i # job[p].idx => row'[i] = row[i]
           /\ job[p].dst # job[p].src
<1>1. p \in Worker /\ job[p].pc \in Steps
    BY FlipStep DEF Worker, Steps
<1>2. job[p].idx \in Slice /\ job[p].dst # job[p].src
    BY <1>1, AtWork, FlipStep DEF Typed, JobShape, ShapeOf
<1>3. \A i \in Slice : row[i] = job[p].src => i = job[p].idx
    BY FlipStep DEF Placed, Seated, Unswitched
<1>4. row[job[p].idx] = job[p].src
    BY <1>3, FlipStep DEF Holds
<1> QED BY <1>2, <1>3, <1>4, FlipStep

\* A switch moves the mover's own slice; another mover of the same slice finds it
\* gone from a source that nothing comes back to.
LEMMA FlipPlaced ==
    ASSUME Typed, Placed, NEW p \in Mover, Flip(p)
    PROVE  Placed'
<1> DEFINE i == job[p].idx
<1>0. /\ p \in Worker /\ Others(p) /\ job[p].pc = "flip"
      /\ UNCHANGED <<put, readOnly, drainVol, shedding, contested>>
      /\ i \in Slice /\ row[i] = job[p].src /\ row'[i] = job[p].dst
      /\ job[p].dst # job[p].src
      /\ \A k \in Slice : k # i => row'[k] = row[k]
      /\ ~Holds(row, job[p].dst)
      /\ \/ job'[p] = Idle /\ p = "drain"
         \/ /\ p = "rebalance" /\ job'[p].pc = "unlink"
            /\ job'[p].idx = i /\ job'[p].src = job[p].src
    BY FlipStep, FlipOwn DEF Worker, Mover, Advance, SamePlan, End, taken, rest,
        drain
<1>1. PlanInv'
    BY <1>0, FlipStep, ReplaceKeepsDistinct DEF Placed, PlanInv, Distinct
<1>2. Sources'
    BY <1>0, IdleShape DEF Placed, Sources, Active, Worker, Mover, Others
<1>3. ASSUME NEW q \in Mover PROVE Seated(q)'
    <2>1. Seated(q) /\ q \in Worker /\ ShapeOf(q)
        BY DEF Placed, Worker, Typed, JobShape
    <2>2. CASE q = p
        BY <1>0, <2>2, IdleShape DEF Seated, Unswitched
    <2>3. CASE q # p
        <3>1. job'[q] = job[q]
            BY <1>0, <2>1, <2>3 DEF Others
        <3> SUFFICES ASSUME Unswitched(q)
                     PROVE  /\ row'[job[q].idx] = job[q].src \/ Left(q, job[q].src)'
                            /\ \A k \in Slice : row'[k] = job[q].src => k = job[q].idx
            BY <3>1 DEF Seated, Unswitched
        <3>0. job[q].idx \in Slice
            BY <2>1 DEF ShapeOf, Unswitched, Typed, TypeOK, Job
        <3>2. Sources /\ Sources'
            BY <1>2 DEF Placed
        <3>3. \/ q = "drain" /\ p = "rebalance" /\ job[p].src = shedding
              \/ q = "rebalance" /\ p = "drain" /\ job[p].src \in readOnly
            BY <1>0, <2>3, <3>2 DEF Mover, Sources, Active
        <3>4. Left(q, job[p].src)
            BY <3>3 DEF Left
        <3>5. row'[job[q].idx] = job[q].src \/ Left(q, job[q].src)'
            BY <1>0, <2>1, <3>0, <3>1, <3>4 DEF Seated, Left
        <3>6. job[p].dst = job[q].src => row[job[q].idx] # job[q].src /\ ~Left(q, job[q].src)
            <4> SUFFICES ASSUME job[p].dst = job[q].src
                         PROVE  row[job[q].idx] # job[q].src /\ ~Left(q, job[q].src)
                OBVIOUS
            <4>1. row[job[q].idx] # job[q].src
                BY <1>0, <3>0 DEF Holds
            <4>2. CASE q = "drain"
                BY <1>0, <3>3, <4>1, <4>2 DEF Left
            <4>3. CASE q = "rebalance"
                BY <1>0, <3>2, <3>3, <4>1, <4>3 DEF Left, Sources
            <4> QED BY <4>2, <4>3 DEF Mover
        <3>7. job[p].dst # job[q].src
            BY <2>1, <3>6 DEF Seated
        <3>8. \A k \in Slice : row'[k] = job[q].src => k = job[q].idx
            BY <1>0, <2>1, <3>7 DEF Seated
        <3> QED BY <3>5, <3>8
    <2> QED BY <2>2, <2>3
<1>4. RepairSeated'
    <2>1. RepairSeated /\ Sources /\ job'["repair"] = job["repair"]
        BY <1>0 DEF Placed, Others, Worker, Mover
    <2>2. job[p].src = shedding \/ job[p].src \in readOnly
        BY <1>0, <2>1 DEF Sources, Active, Mover
    <2>3. Active("repair") => job["repair"].idx \in Slice
        BY DEF Active, Typed, TypeOK, Job, JobShape, ShapeOf, Worker
    <2> QED BY <1>0, <2>1, <2>2, <2>3 DEF RepairSeated, Active
<1>5. Apart'
    <2>1. Apart /\ job'["repair"] = job["repair"]
        BY <1>0 DEF Placed, Others, Worker, Mover
    <2>2. job'["rebalance"] = job["rebalance"] \/ job'["rebalance"].pc = "unlink"
        BY <1>0 DEF Others, Worker, Mover
    <2> QED BY <1>0, <2>1, <2>2 DEF Apart, Active
<1>6. Alone'
    <2>1. None \notin Slice /\ \A q \in Worker : job'[q].idx \in {job[q].idx, None}
        BY <1>0, MovesAssumption, IdleShape DEF Others
    <2> QED BY <1>0, <2>1 DEF Placed, Alone
<1>7. ASSUME NEW q \in Worker PROVE Settled(q)'
    <2>1. Settled(q) /\ Settled(p) /\ Alone /\ None \notin Slice
        BY <1>0, MovesAssumption DEF Placed
    <2>2. CASE q = p
        BY <1>0, <2>1, <2>2, IdleShape DEF Settled
    <2>3. CASE q # p
        BY <1>0, <2>1, <2>3 DEF Settled, Alone, Others
    <2> QED BY <2>2, <2>3
<1> QED BY <1>1, <1>2, <1>3, <1>4, <1>5, <1>6, <1>7 DEF Placed

\* A drain starts with no drain at work, a rebalance with no rebalance at work.
LEMMA ControlPlaced ==
    ASSUME Typed, Placed, Control
    PROVE  Placed'
<1>0. UNCHANGED <<object, job, taken>>
    BY ControlTyped
<1>1. \/ UNCHANGED <<readOnly, shedding>> /\ drainVol' \in {drainVol, None}
      \/ /\ readOnly = {} /\ shedding' = shedding
         /\ \E v \in Volume : readOnly' = {v} /\ drainVol' = v
      \/ shedding = None /\ UNCHANGED <<readOnly, drainVol>>
    BY DEF Control, DrainAdvance, DrainCount, DrainFinalize, DrainCancel,
        DrainPause, DrainResume, DrainStart, RebalanceStart, GoOffline,
        ComeBack, drain
<1>2. Sources'
    BY <1>0, <1>1, MovesAssumption DEF Placed, Sources, Active, Typed, JobShape,
        ShapeOf, Worker, Mover
<1>3. /\ readOnly # readOnly' => readOnly = {} /\ ~Active("drain") /\ shedding' = shedding
      /\ shedding # shedding' => readOnly' = readOnly /\ shedding = None /\ ~Active("rebalance")
    BY <1>1, MovesAssumption DEF Placed, Sources, Active, Typed, JobShape, ShapeOf,
        Worker, Mover
<1>4. \A p \in Worker : Active(p) => job[p].src \in Volume /\ job[p].src # None
    BY MovesAssumption DEF Typed, JobShape, ShapeOf
<1> USE <1>0 DEF object, taken
<1>5. ASSUME NEW q \in Mover PROVE Seated(q)'
    <2>1. Seated(q) /\ q \in Worker
        BY DEF Placed, Worker
    <2> QED BY <1>3, <1>4, <2>1 DEF Seated, Unswitched, Active, Left, Mover
<1>6. RepairSeated'
    <2>1. RepairSeated /\ "repair" \in Worker
        BY DEF Placed, Worker
    <2> QED BY <1>3, <1>4, <2>1 DEF RepairSeated, Active
<1>7. Apart'
    BY <1>3 DEF Placed, Apart, Active
<1>8. PlanInv' /\ Alone' /\ \A q \in Worker : Settled(q)'
    BY DEF Placed, PlanInv, Distinct, Alone, Settled
<1> QED BY <1>2, <1>5, <1>6, <1>7, <1>8 DEF Placed

\* The steps that leave the row, the workers and the jobs alone.
LEMMA StillPlaced ==
    ASSUME Typed, Placed, UNCHANGED <<row, job, readOnly, drainVol, shedding, contested>>,
           put' = put \/ put = "insert"
    PROVE  Placed'
<1>1. PlanInv' /\ Sources' /\ RepairSeated' /\ Apart' /\ Alone'
    BY DEF Placed, PlanInv, Distinct, Sources, RepairSeated, Apart, Alone, Active
<1>2. \A p \in Mover : Seated(p)'
    BY DEF Placed, Seated, Unswitched, Left
<1>3. \A p \in Worker : Settled(p)'
    BY DEF Placed, Settled
<1> QED BY <1>1, <1>2, <1>3 DEF Placed

\* The PUT's insert, the DELETE and a rotten file leave row and workers alone.
LEMMA ObjectPlaced ==
    ASSUME Typed, Placed,
           \/ PutInsert \/ DeleteLoad \/ DeleteRow \/ DeleteUnlink
           \/ \E i \in Slice : Rot(i)
    PROVE  Placed'
<1>1. /\ UNCHANGED <<row, job, readOnly, drainVol, shedding, contested>>
      /\ put' = put \/ put = "insert"
    BY DEF PutInsert, DeleteLoad, DeleteRow, DeleteUnlink, Rot, object, taken, rest,
        drain
<1> QED BY <1>1, StillPlaced

\* Nobody works before the object is there, nor after a crash.
LEMMA NobodyPlaced ==
    ASSUME PlanInv', \A p \in Worker : job'[p].pc = "idle" /\ job'[p].idx = None,
           UNCHANGED <<readOnly, drainVol>>, Sources
    PROVE  Placed'
<1>1. "drain" \in Worker /\ "rebalance" \in Worker /\ "repair" \in Worker
    BY DEF Worker, Mover
<1>2. Sources' /\ RepairSeated' /\ Apart'
    BY <1>1 DEF Sources, RepairSeated, Apart, Active
<1>3. Alone' /\ \A p \in Worker : Settled(p)'
    BY MovesAssumption DEF Alone, Settled
<1>4. \A p \in Mover : Seated(p)'
    BY DEF Seated, Unswitched, Worker
<1> QED BY <1>2, <1>3, <1>4 DEF Placed

\* The plan of an upload has distinct volumes.
LEMMA PutCommitPlaced ==
    ASSUME Typed, Placed, NEW r \in [Slice -> Volume], PutCommit(r)
    PROVE  Placed'
<1>1. PlanInv'
    BY PutCommitStep DEF PlanInv
<1>2. \A p \in Worker : job'[p].pc = "idle" /\ job'[p].idx = None
    BY PutCommitStep DEF Typed, JobShape, ShapeOf, Active
<1>3. UNCHANGED <<readOnly, drainVol>>
    BY PutCommitStep DEF rest, drain
<1> QED BY <1>1, <1>2, <1>3, NobodyPlaced DEF Placed

\* After a crash nobody works.
LEMMA CrashPlaced ==
    ASSUME Typed, Placed, Crash
    PROVE  Placed'
<1>1. PlanInv'
    BY CrashStep DEF Placed, PlanInv, Distinct
<1> QED BY <1>1, CrashStep, IdleShape, NobodyPlaced DEF Placed

\* The drain, the rebalance and the repair worker take up slices where they are.
LEMMA ScanPlaced ==
    ASSUME Typed, Placed,
           \/ DrainScan
           \/ \E v \in Volume : RebalanceScan(v)
           \/ \E i \in Slice : RepairLoad(i)
    PROVE  Placed'
<1> USE DEF object, disk, taken, rest, drain
<1>1. ASSUME NEW i \in Slice, Load("drain", i, drainVol, "place"), DrainScan
      PROVE  Placed'
    <2>1. drainVol \in readOnly
        BY <1>1, MovesAssumption, LoadStep DEF Placed, Sources, Worker, Mover
    <2> QED BY <1>1, <2>1, LoadPlaced DEF DrainScan, Worker, Mover
<1>2. CASE DrainScan /\ drainJob' = "count"
    BY <1>2, StillPlaced DEF DrainScan
<1>3. ASSUME NEW v \in Volume, RebalanceScan(v), NEW i \in Slice, Load("rebalance", i, v, "place")
      PROVE  Placed'
    BY <1>3, LoadPlaced DEF RebalanceScan, Worker, Mover
<1>4. ASSUME NEW i \in Slice, NEW v, RepairLoad(i), Load("repair", i, v, "verify")
      PROVE  Placed'
    BY <1>4, LoadPlaced DEF RepairLoad, Worker, Mover
<1> QED BY <1>1, <1>2, <1>3, <1>4 DEF DrainScan, RebalanceScan, RepairLoad

\* Nobody works in the initial state.
LEMMA PlacedInit == Init => Placed
<1> SUFFICES ASSUME Init PROVE Placed
    OBVIOUS
<1>1. \A p \in Worker : job[p].pc = "idle" /\ job[p].idx = None
    BY IdleShape DEF Init
<1>2. "drain" \in Worker /\ "rebalance" \in Worker /\ "repair" \in Worker
    BY DEF Worker, Mover
<1>3. Sources /\ RepairSeated /\ Apart /\ PlanInv
    BY <1>1, <1>2 DEF Sources, RepairSeated, Apart, Active, PlanInv, Init
<1>4. Alone /\ \A p \in Worker : Settled(p)
    BY <1>1, MovesAssumption DEF Alone, Settled
<1>5. \A p \in Mover : Seated(p)
    BY <1>1 DEF Seated, Unswitched, Worker
<1> QED BY <1>3, <1>4, <1>5 DEF Placed

\* Every step keeps the workers placed.
LEMMA PlacedStep == Typed /\ Placed /\ [Next]_vars => Placed'
<1> SUFFICES ASSUME Typed, Placed, [Next]_vars PROVE Placed'
    OBVIOUS
<1>1. CASE UNCHANGED vars
    BY <1>1, StillPlaced DEF vars, object, taken, rest, drain
<1>2. ASSUME NEW p \in Mover,
             \/ \E v \in Volume : Place(p, v)
             \/ NoTarget(p) \/ CopyOpen(p) \/ CopyWritten(p) \/ CopyCommit(p)
             \/ CopyValidate(p) \/ Flip(p) \/ FlipRefused(p)
      PROVE  Placed'
    BY <1>2, PlacePlaced, FlipPlaced, OnwardSteps, OnwardPlaced DEF Worker
<1>3. ASSUME NEW p \in Worker,
             \/ RebuildOpen(p) \/ RebuildWritten(p) \/ RebuildFails(p)
             \/ RebuildCommit(p)
      PROVE  Placed'
    BY <1>3, OnwardSteps, OnwardPlaced
<1>4. CASE UnlinkSource \/ RepairVerify
    BY <1>4, OnwardSteps, OnwardPlaced DEF Worker, Mover
<1>5. CASE Next
    BY <1>2, <1>3, <1>4, <1>5, NextCases, ObjectPlaced, PutCommitPlaced,
        CrashPlaced,
        ScanPlaced, ControlPlaced
<1> QED BY <1>1, <1>5

-----------------------------------------------------------------------------
(***************************************************************************)
(* Where the good copy is                                                  *)
(***************************************************************************)

\* The object is there, or its slices are and its row is about to be.
Kept == live \/ put = "insert"

\* A good copy on a volume that nobody writes any more.
Spare(i) == \E v \in readOnly : file[i][v] = "good"

\* Somebody else moved the slice since the mover took it up or switched its ref.
Overtaken(p) == (job[p].pc = "unlink") <=> (row[job[p].idx] = job[p].src)

SafeSlice(i) ==
    /\ Backed(i) \/ Spare(i)
    /\ i \notin contested => Backed(i)
    /\ \A p \in Mover : job[p].idx = i /\ Overtaken(p) => Spare(i)

\* No other worker writes the files of this one.
Owns(p) ==
    \/ job[p].idx \notin contested
    \/ p = "rebalance" /\ job[p].src \notin readOnly
    \/ /\ p = "repair" /\ job[p].src \notin readOnly /\ live
       /\ job[p].idx \notin rotten /\ ~Spare(job[p].idx)

\* What such a worker has written is still as it wrote it.
Ready(p) ==
    Active(p) /\ Owns(p) =>
        /\ job[p].pc = "rebuilding" => Scratch(p) = p
        /\ job[p].pc = "recommit" => Scratch(p) = "good"
        /\ job[p].pc = "flip" /\ live => Target(p) = "good"

Guarded ==
    /\ Kept => \A i \in Slice \ rotten : SafeSlice(i)
    /\ \A p \in Worker : Ready(p)

\* The steps of a worker from its first file on, until it switches the ref.
Touch(p) ==
    /\ UNCHANGED <<row, live, put, contested, readOnly, rotten>> /\ Others(p)
    /\ job[p].pc \in Steps \ {"unlink"}
    /\ \A i \in Slice, v \in Volume :
          i # job[p].idx \/ v # job[p].dst =>
              file'[i][v] = file[i][v] /\ tmp'[i][v] = tmp[i][v]
    /\ Target(p) = "good" /\ file'[job[p].idx][job[p].dst] # "good" =>
          /\ job[p].dst \notin readOnly
          /\ p = "repair" => /\ job[p].pc = "recommit"
                             /\ file'[job[p].idx][job[p].dst] = Scratch(p)
    /\ \/ job'[p] = Idle
       \/ /\ SamePlan(p) /\ job'[p].pc \in Steps \ {"unlink"}
          /\ job'[p].pc = "rebuilding" => tmp'[job[p].idx][job[p].dst] = p
          /\ job'[p].pc = "recommit" =>
                /\ job[p].pc = "rebuilding"
                /\ Scratch(p) = p => tmp'[job[p].idx][job[p].dst] = "good"
          /\ job'[p].pc = "flip" =>
                \/ file'[job[p].idx][job[p].dst] = "good"
                \/ /\ job[p].pc = "recommit"
                   /\ file'[job[p].idx][job[p].dst] = Scratch(p)

\* All steps that write files of a worker's slice are of that kind.
LEMMA TouchSteps ==
    ASSUME Typed, NEW p \in Worker,
           \/ p \in Mover /\ \/ CopyOpen(p) \/ CopyWritten(p) \/ CopyCommit(p)
                             \/ CopyValidate(p) \/ FlipRefused(p)
           \/ RebuildOpen(p) \/ RebuildWritten(p) \/ RebuildFails(p)
           \/ RebuildCommit(p)
    PROVE  Touch(p)
<1> USE DEF Touch, Steps, Advance, SamePlan, End, object, disk, taken, rest, drain, faults, Writes, Scratches, Scratch, Target
<1>0. /\ p \in {"drain", "rebalance", "repair"}
      /\ job[p].pc \in Steps => job[p].idx \in Slice /\ job[p].dst \in Volume
    BY AtWork DEF Worker, Mover
<1>1. CASE p \in Mover /\ CopyOpen(p)
    BY <1>0, <1>1, CopyOpenStep
<1>2. CASE p \in Mover /\ CopyWritten(p)
    BY <1>0, <1>2, CopyWrittenStep
<1>3. CASE p \in Mover /\ CopyCommit(p)
    <2>1. "repair" \notin Mover
        BY DEF Mover
    <2> QED BY <1>0, <1>3, <2>1, CopyCommitStep DEF Writable
<1>4. CASE p \in Mover /\ CopyValidate(p)
    <2>1. "repair" \notin Mover
        BY DEF Mover
    <2> QED BY <1>0, <1>4, <2>1, CopyValidateStep DEF Writable
<1>5. CASE p \in Mover /\ FlipRefused(p)
    <2>1. "repair" \notin Mover
        BY DEF Mover
    <2> QED BY <1>0, <1>5, <2>1, FlipRefusedStep DEF Writable
<1>6. CASE RebuildOpen(p)
    BY <1>0, <1>6, RebuildOpenStep
<1>7. CASE RebuildWritten(p)
    BY <1>0, <1>7, RebuildWrittenStep
<1>8. CASE RebuildFails(p)
    BY <1>0, <1>8, RebuildFailsStep
<1>9. CASE RebuildCommit(p)
    BY <1>0, <1>9, RebuildCommitStep DEF Writable
<1> QED BY <1>1, <1>2, <1>3, <1>4, <1>5, <1>6, <1>7, <1>8, <1>9

\* A mover whose source is read-only has a spare copy of its slice.
LEMMA SourceSpare ==
    ASSUME Typed, Guarded, Kept, NEW p \in Mover, Unswitched(p),
           job[p].src \in readOnly, job[p].idx \notin rotten
    PROVE  Spare(job[p].idx)
<1>1. p \in Worker /\ job[p].idx \in Slice
    BY DEF Typed, TypeOK, JobShape, ShapeOf, Job, Unswitched, Worker
<1>2. SafeSlice(job[p].idx)
    BY <1>1 DEF Guarded
<1> QED BY <1>1, <1>2 DEF SafeSlice, Overtaken, Unswitched, Backed, Spare

\* Two movers on one slice are there because a drain took its volume.
LEMMA OneFreeMover ==
    ASSUME Typed, Placed, Unswitched("rebalance"), Active("drain"),
           job["rebalance"].src \notin readOnly
    PROVE  job["drain"].idx # job["rebalance"].idx
<1>1. "drain" \in Worker /\ "rebalance" \in Worker /\ Seated("drain") /\ Seated("rebalance") /\ Sources
    BY DEF Placed, Worker, Mover
<1>2. Unswitched("drain")
    BY <1>1 DEF Typed, JobShape, ShapeOf, Active, Unswitched
<1>3. row[job["rebalance"].idx] = job["rebalance"].src
    BY <1>1 DEF Seated, Left
<1>4. row[job["drain"].idx] = job["drain"].src \/ job["drain"].src = job["rebalance"].src
    BY <1>1, <1>2 DEF Seated, Left, Sources, Active, Unswitched
<1>5. job["drain"].src \in readOnly
    BY <1>1 DEF Sources
<1> QED BY <1>3, <1>4, <1>5

\* The files a worker owns have no second writer.
LEMMA NoSecondWriter ==
    ASSUME Typed, Placed, Guarded, NEW p \in Worker, NEW q \in Worker, p # q,
           job[p].pc \in Steps \ {"unlink"}, job[q].pc \in Steps \ {"unlink"},
           Owns(q), job[p].idx = job[q].idx
    PROVE  job[p].dst # job[q].dst
<1>0. /\ job[q].idx \in Slice /\ put = "done"
      /\ \A r \in Mover : job[r].pc \in Steps \ {"unlink"} => Unswitched(r) /\ Active(r)
    BY AtWork DEF Steps, Unswitched, Active
<1>1. CASE job[q].idx \notin contested
    BY <1>0, <1>1 DEF Placed, Alone
<1>2. CASE q = "rebalance" /\ job[q].src \notin readOnly
    <2>1. p = "drain" \/ p = "repair"
        BY <1>2 DEF Worker, Mover
    <2>2. p # "drain"
        BY <1>0, <1>2, OneFreeMover DEF Mover
    <2>3. job["repair"].dst = job["repair"].src /\ Active("repair")
        BY <2>1, <2>2 DEF Typed, JobShape, ShapeOf, Steps, Active
    <2> QED BY <1>2, <2>1, <2>2, <2>3 DEF Placed, Apart, Steps
<1>3. CASE /\ q = "repair" /\ job[q].src \notin readOnly /\ live
           /\ job[q].idx \notin rotten /\ ~Spare(job[q].idx)
    <2>1. p \in Mover
        BY <1>3 DEF Worker
    <2>2. job[p].src \notin readOnly
        BY <1>0, <1>3, <2>1, SourceSpare DEF Kept
    <2>3. p = "rebalance"
        BY <1>0, <2>1, <2>2 DEF Placed, Sources, Mover
    <2>4. job["repair"].dst = job["repair"].src /\ Active("repair")
        BY <1>3 DEF Typed, JobShape, ShapeOf, Steps, Active
    <2> QED BY <1>3, <2>2, <2>3, <2>4 DEF Placed, Apart, Steps
<1> QED BY <1>1, <1>2, <1>3 DEF Owns

\* No worker spoils a good file on a read-only volume.
LEMMA TouchSpare ==
    ASSUME NEW p \in Worker, Touch(p), readOnly \subseteq Volume,
           NEW i \in Slice, Spare(i)
    PROVE  Spare(i)'
<1>1. PICK v \in readOnly : file[i][v] = "good"
    BY DEF Spare
<1>2. file'[i][v] = "good"
    BY <1>1 DEF Touch, Target
<1> QED BY <1>1, <1>2 DEF Spare, Touch

\* A worker's writes leave its slice, and every other one, safe.
LEMMA TouchSafe ==
    ASSUME Typed, Placed, Guarded, NEW p \in Worker, Touch(p), Kept,
           NEW i \in Slice \ rotten
    PROVE  SafeSlice(i)'
<1>0. /\ SafeSlice(i) /\ readOnly \subseteq Volume /\ row[i] \in Volume
      /\ job[p].pc \in Steps \ {"unlink"} /\ job[p].idx \in Slice /\ job[p].dst \in Volume
      /\ put = "done" /\ live
    BY AtWork DEF Guarded, Typed, TypeOK, ObjectShape, Touch, Kept
<1>1. Spare(i) => Spare(i)'
    BY <1>0, TouchSpare
\* The copy the row names is overwritten only on top of a spare one.
<1>2. Backed(i) => Backed(i)' \/ (Spare(i) /\ i \in contested)
    <2> SUFFICES ASSUME Backed(i), ~Backed(i)'
                 PROVE  Spare(i) /\ i \in contested
        OBVIOUS
    <2>1. i = job[p].idx /\ row[i] = job[p].dst /\ Target(p) = "good"
        BY <1>0 DEF Backed, Touch, Target
    <2>2. CASE p \in Mover
        <3>1. job[p].dst # job[p].src
            BY <1>0, <2>2 DEF Typed, JobShape, ShapeOf, Steps
        <3>2. Overtaken(p)
            BY <1>0, <2>1, <3>1 DEF Overtaken
        <3>3. i \in contested
            BY <1>0, <2>1, <3>1 DEF Placed, Settled, Steps
        <3> QED BY <1>0, <2>1, <2>2, <3>2, <3>3 DEF SafeSlice
    <2>3. CASE p = "repair"
        <3>1. /\ job[p].pc = "recommit" /\ Scratch(p) # "good" /\ job[p].dst \notin readOnly
              /\ job[p].src = job[p].dst /\ Active(p)
            BY <1>0, <2>1, <2>3 DEF Touch, Backed, Typed, JobShape, ShapeOf, Active
        <3>2. ~Owns(p)
            BY <3>1 DEF Guarded, Ready
        <3> QED BY <1>0, <2>1, <2>3, <3>1, <3>2 DEF Owns
    <2> QED BY <2>2, <2>3 DEF Worker
<1>3. ASSUME NEW q \in Mover, job'[q].idx = i, Overtaken(q)'
      PROVE  Spare(i)
    <2>1. q \in Worker /\ None \notin Slice
        BY MovesAssumption DEF Worker
    <2>2. job[q].idx = i /\ Overtaken(q)
        BY <1>0, <1>3, <2>1, IdleShape DEF Touch, Others, Overtaken, SamePlan, Steps
    <2> QED BY <1>0, <2>2 DEF SafeSlice
<1>4. contested' = contested
    BY DEF Touch
<1> QED BY <1>0, <1>1, <1>2, <1>3, <1>4 DEF SafeSlice

\* A worker's writes leave alone what the others have written and own.
LEMMA TouchReady ==
    ASSUME Typed, Placed, Guarded, NEW p \in Worker, Touch(p), NEW q \in Worker
    PROVE  Ready(q)'
<1> SUFFICES ASSUME Active(q)', Owns(q)'
             PROVE  /\ job'[q].pc = "rebuilding" => tmp'[job'[q].idx][job'[q].dst] = q
                    /\ job'[q].pc = "recommit" => tmp'[job'[q].idx][job'[q].dst] = "good"
                    /\ job'[q].pc = "flip" /\ live' => file'[job'[q].idx][job'[q].dst] = "good"
    BY DEF Ready, Scratch, Target
<1>0. /\ job[p].pc \in Steps \ {"unlink"} /\ job[p].idx \in Slice /\ job[p].dst \in Volume
      /\ readOnly \subseteq Volume /\ contested' = contested /\ readOnly' = readOnly
      /\ live' = live /\ rotten' = rotten
    BY AtWork DEF Touch, Typed, TypeOK
<1>1. /\ job'[q].idx = job[q].idx /\ job'[q].src = job[q].src /\ job'[q].dst = job[q].dst
      /\ Active(q)
    BY <1>0, IdleShape DEF Touch, Others, SamePlan, Active, Steps
<1>2. job[q].idx \in Slice
    BY <1>1 DEF Typed, TypeOK, JobShape, ShapeOf, Job, Active
<1>3. Owns(q)
    BY <1>0, <1>1, <1>2, TouchSpare DEF Owns
<1>4. Ready(q)
    BY DEF Guarded
<1>5. CASE q = p
    BY <1>1, <1>3, <1>4, <1>5, IdleShape DEF Touch, Ready, Active, Steps
<1>6. CASE q # p
    <2>1. job'[q] = job[q]
        BY <1>6 DEF Touch, Others
    <2>2. CASE job[q].pc \notin Steps \ {"unlink"}
        BY <2>1, <2>2 DEF Steps
    <2>3. CASE job[q].pc \in Steps \ {"unlink"}
        <3>1. job[q].dst \in Volume
            BY <2>3, AtWork
        <3>2. job[q].idx # job[p].idx \/ job[q].dst # job[p].dst
            BY <1>0, <1>3, <1>6, <2>3, NoSecondWriter
        <3>3. /\ file'[job[q].idx][job[q].dst] = Target(q)
              /\ tmp'[job[q].idx][job[q].dst] = Scratch(q)
            BY <1>2, <3>1, <3>2 DEF Touch, Target, Scratch
        <3> QED BY <1>0, <1>1, <1>3, <1>4, <2>1, <3>3 DEF Ready
    <2> QED BY <2>2, <2>3
<1> QED BY <1>5, <1>6

\* A worker's writes keep the copies guarded.
LEMMA TouchGuarded ==
    ASSUME Typed, Placed, Guarded, NEW p \in Worker, Touch(p)
    PROVE  Guarded'
<1>1. Kept' => Kept /\ rotten' = rotten
    BY DEF Touch, Kept
<1> QED BY <1>1, TouchSafe, TouchReady DEF Guarded

\* The steps that write no file and leave the row alone.
Quiet ==
    /\ UNCHANGED <<file, tmp, row, rotten>>
    /\ readOnly \subseteq readOnly' /\ contested \subseteq contested'
    /\ Kept' => Kept
    /\ (live' => live) \/ \A p \in Worker : job'[p].pc = "idle"
    /\ \A p \in Worker :
          \/ job'[p] = job[p]
          \/ job'[p] = Idle
          \/ /\ job'[p].pc \in {"place", "verify", "copy", "rebuild"}
             /\ row[job'[p].idx] = job'[p].src
          \/ /\ job'[p].pc \in {"place", "verify", "copy", "rebuild"}
             /\ job[p].pc \in {"place", "verify", "copy", "rebuild"}
             /\ job'[p].idx = job[p].idx /\ job'[p].src = job[p].src

\* Steps that write nothing keep the copies guarded.
LEMMA QuietGuarded ==
    ASSUME Guarded, Quiet
    PROVE  Guarded'
<1> USE DEF Quiet
<1>1. \A i \in Slice : Spare(i) => Spare(i)'
    BY DEF Spare
<1>2. ASSUME Kept, NEW i \in Slice \ rotten PROVE SafeSlice(i)'
    <2>1. SafeSlice(i)
        BY <1>2 DEF Guarded
    <2>2. ASSUME NEW p \in Mover, job'[p].idx = i, Overtaken(p)'
          PROVE  job[p].idx = i /\ Overtaken(p)
        <3>1. p \in Worker /\ Idle.idx # i
            BY MovesAssumption, IdleShape DEF Worker
        <3> QED BY <2>2, <3>1 DEF Overtaken
    <2>3. Backed(i)' = Backed(i)
        BY DEF Backed
    <2> QED BY <1>1, <2>1, <2>2, <2>3 DEF SafeSlice
<1>3. ASSUME NEW p \in Worker PROVE Ready(p)'
    <2>1. CASE job'[p].pc \notin {"rebuilding", "recommit", "flip"}
        BY <2>1 DEF Ready
    <2>2. CASE job'[p].pc \in {"rebuilding", "recommit", "flip"}
        <3>1. job'[p] = job[p] /\ (live' => live)
            BY <2>2, IdleShape
        <3>2. Owns(p)' => Owns(p) \/ job[p].idx \notin Slice
            BY <1>1, <3>1 DEF Owns
        <3>3. Ready(p)
            BY DEF Guarded
        <3> QED BY <3>1, <3>2, <3>3 DEF Ready, Active, Scratch, Target, Owns, Spare
    <2> QED BY <2>1, <2>2
<1> QED BY <1>2, <1>3 DEF Guarded

\* The scans, the placing, the jobs and the rows' steps write nothing.
LEMMA QuietSteps ==
    ASSUME Typed, Placed,
           \/ PutInsert \/ DeleteLoad \/ DeleteRow \/ RepairVerify \/ Control
           \/ DrainScan
           \/ \E v \in Volume : RebalanceScan(v)
           \/ \E i \in Slice : RepairLoad(i)
           \/ \E p \in Mover : NoTarget(p) \/ \E v \in Volume : Place(p, v)
           \/ UNCHANGED vars
    PROVE  Quiet
<1> USE DEF object, disk, taken, rest, drain, faults
<1>1. CASE PutInsert
    <2>1. \A p \in Worker : job[p].pc = "idle"
        BY <1>1 DEF PutInsert, Typed, JobShape, ShapeOf, Active
    <2> QED BY <1>1, <2>1 DEF PutInsert, Quiet, Kept
<1>2. CASE DeleteLoad \/ DeleteRow
    BY <1>2 DEF DeleteLoad, DeleteRow, Quiet, Kept, Typed, ObjectShape
<1>3. CASE RepairVerify
    BY <1>3, RepairVerifyStep DEF Quiet, Kept, End, Others
<1>4. CASE Control
    <2>1. UNCHANGED <<object, disk, job, taken, rotten>>
        BY <1>4, ControlTyped
    <2>2. readOnly \subseteq readOnly'
        BY <1>4 DEF Control, DrainAdvance, DrainCount, DrainFinalize,
            DrainCancel, DrainPause, DrainResume, DrainStart, RebalanceStart,
            GoOffline, ComeBack
    <2> QED BY <2>1, <2>2 DEF Quiet, Kept
<1>5. ASSUME NEW p \in Worker, NEW i \in Slice, NEW v, NEW to \in {"place", "verify"},
             Load(p, i, v, to), UNCHANGED <<object, disk, readOnly, rotten>>
      PROVE  Quiet
    <2>1. /\ contested \subseteq contested' /\ Others(p)
          /\ job'[p].pc \in {"place", "verify"} /\ row[job'[p].idx] = job'[p].src
        BY <1>5, LoadStep
    <2> QED BY <1>5, <2>1 DEF Quiet, Kept, Others
<1>6. CASE DrainScan
    <2>1. UNCHANGED <<object, disk, readOnly, rotten>>
        BY <1>6 DEF DrainScan
    <2>2. CASE UNCHANGED <<job, taken>>
        BY <2>1, <2>2 DEF Quiet, Kept
    <2>3. ASSUME NEW i \in Slice, Load("drain", i, drainVol, "place")
          PROVE  Quiet
        BY <1>5, <2>1, <2>3 DEF Worker, Mover
    <2> QED BY <1>6, <2>2, <2>3 DEF DrainScan
<1>7. ASSUME NEW v \in Volume, RebalanceScan(v) PROVE Quiet
    BY <1>5, <1>7 DEF RebalanceScan, Worker, Mover
<1>8. ASSUME NEW i \in Slice, RepairLoad(i) PROVE Quiet
    BY <1>5, <1>8 DEF RepairLoad, Worker
<1>9. ASSUME NEW p \in Mover, NoTarget(p) PROVE Quiet
    BY <1>9, NoTargetStep DEF Quiet, Kept, End, Others, Worker
<1>10. ASSUME NEW p \in Mover, NEW v \in Volume, Place(p, v) PROVE Quiet
    BY <1>10, PlaceStep DEF Quiet, Kept, Others, Worker
<1>11. CASE UNCHANGED vars
    BY <1>11 DEF vars, Quiet, Kept
<1> QED BY <1>1, <1>2, <1>3, <1>4, <1>6, <1>7, <1>8, <1>9, <1>10, <1>11

\* A switch names a complete copy, or leaves a good one on the drained volume.
LEMMA FlipGuarded ==
    ASSUME Typed, Placed, Guarded, NEW p \in Mover, Flip(p)
    PROVE  Guarded'
<1> DEFINE i == job[p].idx
<1>0. /\ p \in Worker /\ Others(p) /\ job[p].pc = "flip" /\ live /\ live' = live /\ put' = put
      /\ UNCHANGED <<file, tmp, readOnly, rotten, contested>>
      /\ i \in Slice /\ row[i] = job[p].src /\ row'[i] = job[p].dst
      /\ job[p].dst # job[p].src
      /\ \A k \in Slice : k # i => row'[k] = row[k]
      /\ \/ job'[p] = Idle /\ p = "drain"
         \/ /\ p = "rebalance" /\ job'[p].pc = "unlink"
            /\ job'[p].idx = i /\ job'[p].src = job[p].src
    BY FlipStep, FlipOwn DEF Worker, Mover, Advance, SamePlan, End, disk, taken,
        rest, faults
<1>1. \A k \in Slice : Spare(k)' = Spare(k)
    BY <1>0 DEF Spare
\* The copy has been placed, or the source keeps its own for good.
<1>2. i \notin rotten => Spare(i) \/ (p = "rebalance" /\ job[p].src \notin readOnly)
    <2>1. p = "drain" => job[p].src \in readOnly
        BY <1>0 DEF Placed, Sources, Active
    <2> QED BY <1>0, <2>1, SourceSpare DEF Kept, Unswitched, Mover
<1>3. Owns(p) => Target(p) = "good"
    BY <1>0 DEF Guarded, Ready, Active
<1>4. ASSUME NEW k \in Slice \ rotten PROVE SafeSlice(k)'
    <2>1. SafeSlice(k) /\ None \notin Slice
        BY <1>0, MovesAssumption DEF Guarded, Kept
    <2>2. CASE k # i
        <3>1. Backed(k)' = Backed(k)
            BY <1>0, <2>2 DEF Backed
        <3>2. ASSUME NEW q \in Mover, job'[q].idx = k, Overtaken(q)'
              PROVE  job[q].idx = k /\ Overtaken(q)
            <4>1. q \in Worker /\ q # p
                BY <1>0, <2>1, <2>2, <3>2, IdleShape DEF Worker
            <4> QED BY <1>0, <2>2, <3>2, <4>1 DEF Overtaken, Others
        <3> QED BY <1>0, <1>1, <2>1, <3>1, <3>2 DEF SafeSlice
    <2>3. CASE k = i
        <3>1. Backed(k)' = (Target(p) = "good")
            BY <1>0, <2>3 DEF Backed, Target
        <3>2. Backed(k)' \/ Spare(k)'
            BY <1>1, <1>2, <1>3, <2>3, <3>1 DEF Owns
        <3>3. k \notin contested => Backed(k)'
            BY <1>3, <2>3, <3>1 DEF Owns
        <3>4. ASSUME NEW q \in Mover, job'[q].idx = k, Overtaken(q)'
              PROVE  Spare(k)
            <4>1. q \in Worker /\ q # p
                BY <1>0, <2>1, <2>3, <3>4, IdleShape DEF Worker, Overtaken
            <4>2. job'[q] = job[q] /\ job[q].idx = k
                BY <1>0, <3>4, <4>1 DEF Others
            <4>3. CASE p = "drain"
                BY <1>2, <2>3, <4>3
            <4>4. CASE p = "rebalance" /\ job[p].src \notin readOnly
                <5>1. q = "drain" /\ Active(q) /\ Unswitched(p)
                    BY <1>0, <2>1, <4>1, <4>2, <4>4 DEF Mover, Typed, JobShape,
                        ShapeOf, Active, Unswitched
                <5> QED BY <2>3, <4>2, <4>4, <5>1, OneFreeMover
            <4> QED BY <1>2, <2>3, <4>3, <4>4
        <3> QED BY <1>0, <1>1, <3>2, <3>3, <3>4 DEF SafeSlice
    <2> QED BY <2>2, <2>3
<1>5. ASSUME NEW q \in Worker PROVE Ready(q)'
    <2>1. CASE q = p
        BY <1>0, <2>1, IdleShape DEF Ready
    <2>2. CASE q # p
        BY <1>0, <1>1, <2>2 DEF Guarded, Ready, Active, Owns, Spare, Scratch,
            Target, Others
    <2> QED BY <2>1, <2>2
<1> QED BY <1>0, <1>4, <1>5 DEF Guarded

\* Unlinking the source takes no copy the row names, unless there is a spare one.
LEMMA UnlinkGuarded ==
    ASSUME Typed, Placed, Guarded, UnlinkSource
    PROVE  Guarded'
<1> DEFINE j == job["rebalance"]
<1>0. /\ "rebalance" \in Worker /\ "rebalance" \in Mover /\ j.pc = "unlink"
      /\ UNCHANGED <<row, live, put, tmp, readOnly, rotten, contested>>
      /\ Others("rebalance") /\ job'["rebalance"] = Idle /\ j.idx \in Slice
      /\ readOnly \subseteq Volume
      /\ \A i \in Slice, v \in Volume :
            file'[i][v] # file[i][v] => i = j.idx /\ v = j.src /\ v \notin readOnly
    BY UnlinkSourceStep, AtWork DEF Worker, Mover, Steps, End, object, taken, rest,
        faults, Writable, Typed, TypeOK
<1>1. \A i \in Slice : Spare(i) => Spare(i)'
    BY <1>0 DEF Spare
<1>2. ASSUME Kept, NEW i \in Slice \ rotten PROVE SafeSlice(i)'
    <2>1. SafeSlice(i) /\ row[i] \in Volume /\ None \notin Slice
        BY <1>2, MovesAssumption DEF Guarded, Kept, Typed, ObjectShape
    <2>2. Backed(i)' \/ Backed(i)' = Backed(i) \/ (i = j.idx /\ row[i] = j.src)
        BY <1>0, <2>1 DEF Backed
    <2>3. i = j.idx /\ row[i] = j.src => Spare(i) /\ i \in contested
        <3>1. i = j.idx /\ row[i] = j.src => Overtaken("rebalance") /\ i \in contested
            BY <1>0 DEF Overtaken, Placed, Settled
        <3> QED BY <1>0, <2>1, <3>1 DEF SafeSlice
    <2>4. ASSUME NEW q \in Mover, job'[q].idx = i, Overtaken(q)'
          PROVE  job[q].idx = i /\ Overtaken(q)
        <3>1. q \in Worker /\ q # "rebalance"
            BY <1>0, <2>1, <2>4, IdleShape DEF Worker
        <3> QED BY <1>0, <2>4, <3>1 DEF Overtaken, Others
    <2> QED BY <1>0, <1>1, <2>1, <2>2, <2>3, <2>4 DEF SafeSlice
<1>3. ASSUME NEW q \in Worker PROVE Ready(q)'
    <2>1. CASE q = "rebalance"
        BY <1>0, <2>1, IdleShape DEF Ready, Active
    <2>2. CASE q # "rebalance"
        <3> SUFFICES ASSUME Active(q)', Owns(q)', job'[q].pc \in {"rebuilding", "recommit", "flip"}
                     PROVE  Ready(q)'
            BY DEF Ready
        <3>1. job'[q] = job[q] /\ Active(q) /\ job[q].idx \in Slice /\ job[q].dst \in Volume
            BY <1>0, <2>2, AtWork DEF Others, Active, Steps
        <3>2. Owns(q)
            BY <1>0, <1>1, <3>1 DEF Owns
        <3>3. Ready(q)
            BY DEF Guarded
        <3>4. CASE job[q].pc # "flip"
            BY <1>0, <3>1, <3>2, <3>3, <3>4 DEF Ready, Scratch
        <3>5. CASE job[q].pc = "flip"
            <4>1. job[q].idx \notin contested
                BY <2>2, <3>1, <3>2, <3>5 DEF Owns, Typed, JobShape, ShapeOf
            <4>2. job[q].idx # j.idx
                BY <1>0, <2>2, <3>1, <4>1 DEF Placed, Alone
            <4>3. Target(q)' = Target(q)
                BY <1>0, <3>1, <4>2 DEF Target
            <4> QED BY <1>0, <3>1, <3>2, <3>3, <3>5, <4>3 DEF Ready
        <3> QED BY <3>4, <3>5
    <2> QED BY <2>1, <2>2
<1> QED BY <1>0, <1>2, <1>3 DEF Guarded, Kept

\* A file that goes bad is forgiven to its slice only, and no mover's copy rots.
LEMMA RotGuarded ==
    ASSUME Typed, Placed, Guarded, NEW i \in Slice, Rot(i)
    PROVE  Guarded'
<1>0. /\ live /\ row \in [Slice -> Volume] /\ rotten' = rotten \cup {i}
      /\ \A k \in Slice, v \in Volume :
            file'[k][v] = IF k = i /\ v = row[i] THEN "bad" ELSE file[k][v]
      /\ UNCHANGED <<row, live, put, tmp, job, contested, readOnly>> /\ readOnly \subseteq Volume
    BY RotStep DEF object, taken, Typed, TypeOK
<1>1. \A k \in Slice \ rotten' : Spare(k)' = Spare(k)
    BY <1>0 DEF Spare
<1>2. ASSUME NEW k \in Slice \ rotten' PROVE SafeSlice(k)'
    <2>1. SafeSlice(k) /\ Spare(k)' = Spare(k)
        BY <1>0, <1>1 DEF Guarded, Kept
    <2>2. Backed(k)' = Backed(k)
        BY <1>0 DEF Backed
    <2> QED BY <1>0, <2>1, <2>2 DEF SafeSlice, Overtaken
<1>3. ASSUME NEW q \in Worker PROVE Ready(q)'
    <2> SUFFICES ASSUME Active(q)', Owns(q)', job'[q].pc \in {"rebuilding", "recommit", "flip"}
                 PROVE  Ready(q)'
        BY DEF Ready
    <2>1. job'[q] = job[q] /\ Active(q) /\ job[q].idx \in Slice /\ job[q].dst \in Volume
        BY <1>0, AtWork DEF Active, Steps
    <2>2. Owns(q)
        BY <1>0, <1>1, <2>1 DEF Owns
    <2>3. Ready(q)
        BY DEF Guarded
    <2>4. CASE job[q].pc # "flip"
        BY <1>0, <2>1, <2>2, <2>3, <2>4 DEF Ready, Scratch
    <2>5. CASE job[q].pc = "flip"
        <3>1. q \in Mover /\ job[q].dst # job[q].src
            BY <2>5 DEF Typed, JobShape, ShapeOf, Worker
        <3>2. row[job[q].idx] = job[q].src
            BY <2>1, <2>2, <2>5, <3>1 DEF Owns, Placed, Settled, Seated, Unswitched,
                Left, Mover
        <3>3. Target(q)' = Target(q)
            BY <1>0, <2>1, <3>1, <3>2 DEF Target
        <3> QED BY <1>0, <2>1, <2>2, <2>3, <2>5, <3>3 DEF Ready
    <2> QED BY <2>4, <2>5
<1> QED BY <1>0, <1>2, <1>3 DEF Guarded, Kept

\* A crash tears the files being written only.
LEMMA CrashGuarded ==
    ASSUME Typed, Guarded, Crash
    PROVE  Guarded'
<1>1. \A p \in Worker : Ready(p)'
    BY CrashStep, IdleShape DEF Ready, Active
<1>2. ASSUME Kept', NEW i \in Slice \ rotten' PROVE SafeSlice(i)'
    <2>1. Kept /\ rotten' = rotten /\ row' = row /\ readOnly' = readOnly /\ contested' = contested
        BY <1>2, CrashStep DEF Kept, taken
    <2>2. SafeSlice(i) /\ row[i] \in Volume /\ readOnly \subseteq Volume
        BY <2>1 DEF Guarded, Kept, Typed, TypeOK, ObjectShape
    <2>3. Backed(i) => Backed(i)'
        BY <2>1, <2>2, CrashStep DEF Backed
    <2>4. Spare(i) => Spare(i)'
        BY <2>1, <2>2, CrashStep DEF Spare
    <2>5. \A p \in Mover : job'[p].idx # i
        BY CrashStep, IdleShape, MovesAssumption DEF Worker
    <2> QED BY <2>1, <2>2, <2>3, <2>4, <2>5 DEF SafeSlice
<1> QED BY <1>1, <1>2 DEF Guarded

\* The slices of an upload are all good.
LEMMA PutCommitGuarded ==
    ASSUME Typed, Guarded, NEW r \in [Slice -> Volume], PutCommit(r)
    PROVE  Guarded'
<1>1. \A p \in Worker : job'[p].pc = "idle" /\ job'[p].idx = None
    BY PutCommitStep DEF Typed, JobShape, ShapeOf, Active
<1>2. \A p \in Worker : Ready(p)'
    BY <1>1 DEF Ready, Active
<1>3. ASSUME NEW i \in Slice PROVE SafeSlice(i)'
    BY <1>1, PutCommitStep, MovesAssumption DEF SafeSlice, Backed, Worker
<1> QED BY <1>2, <1>3 DEF Guarded

\* A DELETE unlinks when the row is gone.
LEMMA DeleteUnlinkGuarded ==
    ASSUME Typed, Guarded, DeleteUnlink
    PROVE  Guarded'
<1>1. ~Kept' /\ ~live' /\ UNCHANGED <<tmp, job, contested, readOnly, rotten>>
    BY DeleteUnlinkStep DEF Kept, taken, rest, faults
<1>2. ASSUME NEW p \in Worker PROVE Ready(p)'
    BY <1>1 DEF Guarded, Ready, Active, Owns, Scratch
<1> QED BY <1>1, <1>2 DEF Guarded

\* There is nothing to guard initially.
LEMMA GuardedInit == Init => Guarded
BY IdleShape DEF Init, Guarded, Kept, Ready, Active

\* Every step keeps the copies guarded.
LEMMA GuardedStep == Typed /\ Placed /\ Guarded /\ [Next]_vars => Guarded'
<1> SUFFICES ASSUME Typed, Placed, Guarded, [Next]_vars PROVE Guarded'
    OBVIOUS
<1>1. CASE UNCHANGED vars
    BY <1>1, QuietSteps, QuietGuarded
<1>2. ASSUME NEW p \in Mover,
             \/ \E v \in Volume : Place(p, v)
             \/ NoTarget(p) \/ CopyOpen(p) \/ CopyWritten(p) \/ CopyCommit(p)
             \/ CopyValidate(p) \/ Flip(p) \/ FlipRefused(p)
      PROVE  Guarded'
    <2>1. p \in Worker
        BY DEF Worker
    <2>2. CASE NoTarget(p) \/ \E v \in Volume : Place(p, v)
        BY <2>2, QuietSteps, QuietGuarded
    <2>3. CASE Flip(p)
        BY <2>3, FlipGuarded
    <2>4. CASE \/ CopyOpen(p) \/ CopyWritten(p) \/ CopyCommit(p)
               \/ CopyValidate(p) \/ FlipRefused(p)
        BY <2>1, <2>4, TouchSteps, TouchGuarded
    <2> QED BY <1>2, <2>2, <2>3, <2>4
<1>3. ASSUME NEW p \in Worker,
             \/ RebuildOpen(p) \/ RebuildWritten(p) \/ RebuildFails(p)
             \/ RebuildCommit(p)
      PROVE  Guarded'
    BY <1>3, TouchSteps, TouchGuarded
<1>4. CASE Next
    BY <1>2, <1>3, <1>4, NextCases, QuietSteps, QuietGuarded, UnlinkGuarded,
        RotGuarded, CrashGuarded, PutCommitGuarded, DeleteUnlinkGuarded
<1> QED BY <1>1, <1>4

\* The inductive invariant: types, places and files.
LEMMA InductiveInvariant == Spec => [](Typed /\ Placed /\ Guarded)
<1>1. Init => Typed /\ Placed /\ Guarded
    BY TypedInit, PlacedInit, GuardedInit
<1>2. Typed /\ Placed /\ Guarded /\ [Next]_vars => (Typed /\ Placed /\ Guarded)'
    BY TypedStep, PlacedStep, GuardedStep
<1> QED BY <1>1, <1>2, PTL DEF Spec

\* The state is well formed, and no two slices of a live object are ever on one
\* disk (pickTarget() and the filter of replaceObjectVolumeRef()).
THEOREM OneSlicePerDisk == Spec => []PlacementSafe
<1>1. Typed /\ Placed /\ Guarded => DistinctVolumes
    BY DEF Typed, ObjectShape, Placed, PlanInv, DistinctVolumes, Distinct
<1>2. Typed /\ Placed /\ Guarded => PlacementSafe
    BY <1>1 DEF Typed, PlacementSafe
<1> QED BY <1>2, InductiveInvariant, PTL

\* No interleaving of drain, rebalance, repair, DELETE, crashes and offline volumes
\* destroys the last good copy of a slice of a live object (slice-relocator.ts,
\* moveOneSlice(), drainObject()).
THEOREM CopyNeverLost == Spec => []NeverDestroyed
<1>1. Typed /\ Placed /\ Guarded => NeverDestroyed
    <2> SUFFICES ASSUME Typed, Guarded, live, NEW i \in Slice \ rotten
                 PROVE  \E v \in Volume : file[i][v] = "good"
        BY DEF NeverDestroyed
    <2>1. SafeSlice(i) /\ row[i] \in Volume /\ readOnly \subseteq Volume
        BY DEF Guarded, Kept, Typed, TypeOK, ObjectShape
    <2> QED BY <2>1 DEF SafeSlice, Backed, Spare
<1> QED BY <1>1, InductiveInvariant, PTL

\* A slice that one worker at a time works on is readable, at every instant, where
\* the row says it is: copy, then switch, then unlink.
THEOREM ReadableWhereTheRowSays == Spec => []BackedUnlessContested
<1>1. Typed /\ Placed /\ Guarded => BackedUnlessContested
    BY DEF Guarded, Kept, SafeSlice, BackedUnlessContested
<1> QED BY <1>1, InductiveInvariant, PTL
=============================================================================
