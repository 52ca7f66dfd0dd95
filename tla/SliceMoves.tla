----------------------------- MODULE SliceMoves -----------------------------
(***************************************************************************)
(* The slice files of one object while they are moved and rebuilt under a  *)
(* running system: DrainVolumeJob.drainObject() and                        *)
(* RebalanceJob.moveOneSlice() (lib/jobs), the copy-first relocation       *)
(* (lib/io/slice-relocator.ts), the SliceRepairer they fall back to, the   *)
(* repair worker, the object's PUT and DELETE, and MongoDB's atomic        *)
(* replaceObjectVolumeRef().  Objects share neither files nor rows, and a  *)
(* job works on one object at most once at a time, so one object shows     *)
(* every interference there is.                                            *)
(*                                                                         *)
(* A slice's file and its temporary file have names made of the object's   *)
(* id and the slice index only, so two movers that picked the same target  *)
(* write the same temporary file: the one that opened it last has          *)
(* truncated what the other one wrote.                                     *)
(***************************************************************************)
EXTENDS Naturals, FiniteSets

CONSTANTS
    Slice,       \* slice indexes, data and parity
    DataSlices,  \* how many slices reconstruct the object
    Volume,      \* the fleet
    None,        \* no volume, no slice
    MaxLoads,    \* how often a worker takes up a slice
    MaxFaults    \* how often a file rots, a volume goes offline or the process dies

ASSUME MovesAssumption ==
    /\ IsFiniteSet(Slice) /\ IsFiniteSet(Volume)
    /\ DataSlices \in 1..Cardinality(Slice)
    /\ Cardinality(Slice) <= Cardinality(Volume)
    /\ None \notin Volume \cup Slice
    /\ MaxLoads \in Nat /\ MaxFaults \in Nat

Mover  == {"drain", "rebalance"}
Worker == Mover \cup {"repair"}

VARIABLES
    \* what survives the process
    live,      \* the object has a row in MongoDB
    row,       \* [Slice -> Volume]: its dataVolumes and parityVolumes
    file,      \* [Slice -> [Volume -> Bytes]]: committed slice files
    tmp,       \* [Slice -> [Volume -> Bytes]]: files under .tmp
    readOnly,  \* the volumes flagged read-only, by a drain
    drainVol,  \* drainVolumeId in the runtime config, None without a drain
    passed,    \* the persisted drain cursor is past the object
    drained,   \* the volumes reported as drained
    \* what dies with it
    put,       \* the upload: "idle", "insert", "done"
    del,       \* the DELETE: "idle", "row", "unlink", "done"
    delDoc,    \* [Slice -> Volume]: the record the DELETE has loaded
    job,       \* [Worker -> Job]: the slice a worker works on
    drainJob,  \* "off", "scan", "work", "count", "finalize" or "aborting"
    prior,     \* an earlier pass of this run left the object behind
    shedding,  \* the volume the running rebalance sheds, or None
    \* what happens to it
    offline,   \* the volumes that are not started
    rotten,    \* history: slices whose file went bad on the platter
    loads,     \* how often a worker took up a slice
    hits,      \* faults so far
    contested  \* history: slices two workers have worked on at once

object == <<live, row, put, del, delDoc>>
disk   == <<file, tmp>>
drain  == <<drainVol, passed, drained, drainJob, prior>>
faults == <<offline, rotten, hits>>
rest   == <<readOnly, drain, shedding, faults>>
taken  == <<contested, loads>>
vars   == <<object, disk, job, taken, rest>>

\* The bytes of a file: none, complete, complete but damaged, or still being
\* written by the worker that opened (and so truncated) the file last.
Bytes == {"none", "good", "bad"} \cup Worker

Refs == [Slice -> Volume \cup {None}]

\* Where a worker is, the record it has loaded with the slice's ref replaced by
\* the target, the slice, its source and target, and the bytes being copied.
Job == [pc : {"idle", "place", "copy", "copying", "commit", "validate",
              "rebuild", "rebuilding", "recommit", "flip", "unlink",
              "verify"},
        doc : Refs, idx : Slice \cup {None}, src : Volume \cup {None},
        dst : Volume \cup {None}, held : {"none", "good", "bad"}]

NoRefs == [i \in Slice |-> None]
Idle == [pc |-> "idle", doc |-> NoRefs, idx |-> None, src |-> None,
         dst |-> None, held |-> "none"]

Readable(v) == v \notin offline
Writable(v) == v \notin offline /\ v \notin readOnly

Holds(r, v) == \E i \in Slice : r[i] = v

\* Enough slices of the loaded record can be opened and read.
Quorum(r) ==
    Cardinality({i \in Slice : Readable(r[i]) /\ file[i][r[i]] = "good"})
        >= DataSlices

Goto(p, to) == job' = [job EXCEPT ![p].pc = to]
Finish(p) == job' = [job EXCEPT ![p] = Idle]

Init ==
    /\ live = FALSE /\ row = NoRefs
    /\ file = [i \in Slice |-> [v \in Volume |-> "none"]] /\ tmp = file
    /\ put = "idle" /\ del = "idle" /\ delDoc = NoRefs
    /\ job = [p \in Worker |-> Idle] /\ contested = {}
    /\ drainVol = None /\ passed = FALSE /\ drained = {}
    /\ drainJob = "off" /\ prior = FALSE /\ shedding = None
    /\ readOnly = {} /\ offline = {} /\ rotten = {}
    /\ loads = 0 /\ hits = 0

-----------------------------------------------------------------------------
(***************************************************************************)
(* The object's PUT and DELETE, seen from its slices (ObjectLifecycle has  *)
(* them in full)                                                           *)
(***************************************************************************)

\* FileObject.commit(): the slices are renamed into place on distinct writable
\* volumes of the plan...
PutCommit(r) ==
    /\ put = "idle"
    /\ \A i \in Slice : Writable(r[i])
    /\ \A i, j \in Slice : r[i] = r[j] => i = j
    /\ file' = [i \in Slice |-> [file[i] EXCEPT ![r[i]] = "good"]]
    /\ row' = r
    /\ put' = "insert"
    /\ UNCHANGED <<live, del, delDoc, tmp, job, taken, rest>>

\* ... and, once the journal has acknowledged the put, the row is inserted.
PutInsert ==
    /\ put = "insert"
    /\ live' = TRUE
    /\ put' = "done"
    /\ UNCHANGED <<row, del, delDoc, disk, job, taken, rest>>

\* A DELETE loads the record, deletes the row, and only then unlinks the slices
\* where the record it has loaded says they are.
DeleteLoad ==
    /\ live /\ del = "idle"
    /\ delDoc' = row /\ del' = "row"
    /\ UNCHANGED <<live, row, put, disk, job, taken, rest>>

DeleteRow ==
    /\ del = "row"
    /\ live' = FALSE /\ del' = "unlink"
    /\ UNCHANGED <<row, put, delDoc, disk, job, taken, rest>>

DeleteUnlink ==
    /\ del = "unlink"
    /\ file' = [i \in Slice |-> [file[i] EXCEPT ![delDoc[i]] =
                   IF Writable(delDoc[i]) THEN "none" ELSE @]]
    /\ del' = "done" /\ delDoc' = NoRefs
    /\ UNCHANGED <<live, row, put, tmp, job, taken, rest>>

-----------------------------------------------------------------------------
(***************************************************************************)
(* Choosing what to work on                                                *)
(***************************************************************************)

\* Worker p has loaded the record to work on slice i, found on volume v.
Load(p, i, v, to) ==
    /\ live /\ row[i] = v /\ job[p].pc = "idle"
    /\ loads < MaxLoads /\ loads' = loads + 1
    /\ job' = [job EXCEPT ![p] =
                  [Idle EXCEPT !.pc = to, !.doc = row, !.idx = i, !.src = v]]
    /\ contested' = IF \E q \in Worker \ {p} : job[q].idx = i
                    THEN contested \cup {i} ELSE contested

\* findObjectsOnVolume() after the cursor: the object, or nothing more.
DrainScan ==
    /\ drainJob = "scan"
    /\ \/ /\ ~passed
          /\ \E i \in Slice : Load("drain", i, drainVol, "place")
          /\ drainJob' = "work"
       \/ /\ passed \/ ~live \/ ~Holds(row, drainVol)
          /\ drainJob' = "count"
          /\ UNCHANGED <<job, taken>>
    /\ UNCHANGED <<object, disk, readOnly, drainVol, passed, drained, prior,
                   shedding, faults>>

\* shedTier() reads a batch of the objects on a source, without asking again
\* whether the source is still writable.
RebalanceScan(v) ==
    /\ v = shedding
    /\ \E i \in Slice : Load("rebalance", i, v, "place")
    /\ UNCHANGED <<object, disk, rest>>

\* pickTarget(), for the record as it was loaded: a writable volume with none of
\* the object's slices; a rebalance puts nothing on a volume it is shedding, and
\* an object with two slices on the source is left alone.
Targets(p) ==
    {v \in Volume :
        /\ Writable(v) /\ ~Holds(job[p].doc, v)
        /\ p = "rebalance" => v # shedding
        /\ \A j \in Slice : job[p].doc[j] = job[p].src => j = job[p].idx}

\* The loaded object's ref for the slice then points at the target.
Place(p, v) ==
    /\ job[p].pc = "place" /\ v \in Targets(p)
    /\ job' = [job EXCEPT ![p].dst = v, ![p].doc[job[p].idx] = v,
                          ![p].pc = "copy"]
    /\ UNCHANGED <<object, disk, taken, rest>>

NoTarget(p) ==
    /\ job[p].pc = "place" /\ Targets(p) = {}
    /\ Finish(p)
    /\ UNCHANGED <<object, disk, taken, rest>>

\* The repair worker loads the record of a reported fault, on a volume the
\* record still names and that can be written, and verifies the slice again.
RepairLoad(i) ==
    /\ Writable(row[i])
    /\ Load("repair", i, row[i], "verify")
    /\ UNCHANGED <<object, disk, rest>>

\* The verification loads the record itself.  A slice that reads clean was a
\* transient fault; otherwise it is rebuilt where the FIRST record has it.
RepairVerify ==
    LET j == job["repair"] IN
    /\ j.pc = "verify"
    /\ IF live => file[j.idx][row[j.idx]] = "good" /\ Readable(row[j.idx])
       THEN Finish("repair")
       ELSE job' = [job EXCEPT !["repair"].pc = "rebuild",
                               !["repair"].dst = j.src]
    /\ UNCHANGED <<object, disk, taken, rest>>

-----------------------------------------------------------------------------
(***************************************************************************)
(* Writing the slice on the target                                         *)
(***************************************************************************)

Source(p) == file[job[p].idx][job[p].src]
Target(p) == file[job[p].idx][job[p].dst]
Scratch(p) == tmp[job[p].idx][job[p].dst]

SetTarget(p, b) == file' = [file EXCEPT ![job[p].idx][job[p].dst] = b]
SetScratch(p, b) == tmp' = [tmp EXCEPT ![job[p].idx][job[p].dst] = b]

\* copyFile() opens the source, then truncates the temporary file: or returns
\* false, and the slice is rebuilt instead.
CopyOpen(p) ==
    /\ job[p].pc = "copy"
    /\ IF /\ Readable(job[p].src) /\ Source(p) # "none"
          /\ Writable(job[p].dst)
       THEN /\ SetScratch(p, p)
            /\ job' = [job EXCEPT ![p].pc = "copying", ![p].held =
                          IF Source(p) = "good" THEN "good" ELSE "bad"]
       ELSE /\ Goto(p, "rebuild")
            /\ UNCHANGED tmp
    /\ UNCHANGED <<object, file, taken, rest>>

\* The last byte is written to the file p has open, unless another worker
\* truncated it since: that file is still under .tmp, or already renamed.
Written(p, b) ==
    /\ SetScratch(p, IF Scratch(p) = p THEN b ELSE Scratch(p))
    /\ SetTarget(p, IF Target(p) = p THEN b ELSE Target(p))

CopyWritten(p) ==
    /\ job[p].pc = "copying"
    /\ Written(p, job[p].held)
    /\ Goto(p, "commit")
    /\ UNCHANGED <<object, taken, rest>>

\* commitTemporaryFile(): the rename.
Rename(p) ==
    /\ Writable(job[p].dst) /\ Scratch(p) # "none"
    /\ SetTarget(p, Scratch(p))
    /\ SetScratch(p, "none")

\* It throws, and the temporary file is dropped if the volume still allows it.
RenameFails(p) ==
    /\ ~Writable(job[p].dst) \/ Scratch(p) = "none"
    /\ SetScratch(p, IF Writable(job[p].dst) THEN "none" ELSE Scratch(p))
    /\ UNCHANGED file

\* Mutant: a copy that cannot be renamed into place counts as placed.
CommitErrorIgnored(p) ==
    /\ job[p].pc = "commit"
    /\ \/ Rename(p) /\ Goto(p, "validate")
       \/ RenameFails(p) /\ Goto(p, "flip")
    /\ UNCHANGED <<object, taken, rest>>

CopyCommit(p) ==
    /\ job[p].pc = "commit"
    /\ \/ Rename(p) /\ Goto(p, "validate")
       \/ RenameFails(p) /\ Goto(p, "rebuild")
    /\ UNCHANGED <<object, taken, rest>>

\* deleteCommittedFile() on the target.
DropTarget(p) == SetTarget(p, IF Writable(job[p].dst) THEN "none" ELSE Target(p))

\* verifySlice() reads every chunk of the copy; an invalid one is dropped.
CopyValidate(p) ==
    /\ job[p].pc = "validate"
    /\ IF Readable(job[p].dst) /\ Target(p) = "good"
       THEN Goto(p, "flip") /\ UNCHANGED file
       ELSE Goto(p, "rebuild") /\ DropTarget(p)
    /\ UNCHANGED <<object, tmp, taken, rest>>

\* SliceRepairer.repair(): assertTargetWritable(), prepare(), create().
RebuildOpen(p) ==
    /\ job[p].pc = "rebuild"
    /\ IF Writable(job[p].dst) /\ Quorum(job[p].doc)
       THEN SetScratch(p, p) /\ Goto(p, "rebuilding")
       ELSE Finish(p) /\ UNCHANGED tmp
    /\ UNCHANGED <<object, file, taken, rest>>

RebuildWritten(p) ==
    /\ job[p].pc = "rebuilding"
    /\ Written(p, "good")
    /\ Goto(p, "recommit")
    /\ UNCHANGED <<object, taken, rest>>

\* The sources fall below the quorum half way: the temporary file is dropped.
RebuildFails(p) ==
    /\ job[p].pc = "rebuilding" /\ ~Quorum(job[p].doc)
    /\ SetScratch(p, IF Writable(job[p].dst) THEN "none" ELSE Scratch(p))
    /\ Finish(p)
    /\ UNCHANGED <<object, file, taken, rest>>

\* The repair worker ends here (it verifies the slice and clears the fault); a
\* mover goes on to switch the ref, without reading the slice back.
RebuildCommit(p) ==
    /\ job[p].pc = "recommit"
    /\ \/ /\ Rename(p)
          /\ IF p = "repair" THEN Finish(p) ELSE Goto(p, "flip")
       \/ RenameFails(p) /\ Finish(p)
    /\ UNCHANGED <<object, taken, rest>>

-----------------------------------------------------------------------------
(***************************************************************************)
(* Switching the ref                                                       *)
(***************************************************************************)

\* Mutant: the filter does not ask whether the target is in use.
SourceStillThere(from, to) == live /\ Holds(row, from)

\* The filter of replaceObjectVolumeRef(): MongoDB applies it and the update
\* in one step.
Replaceable(from, to) == live /\ Holds(row, from) /\ ~Holds(row, to)

Replaced(from, to) ==
    [i \in Slice |-> IF row[i] = from THEN to ELSE row[i]]

\* A rebalance then frees the source; a drain keeps it.
Flip(p) ==
    /\ job[p].pc = "flip" /\ Replaceable(job[p].src, job[p].dst)
    /\ row' = Replaced(job[p].src, job[p].dst)
    /\ IF p = "rebalance" THEN Goto(p, "unlink") ELSE Finish(p)
    /\ UNCHANGED <<live, put, del, delDoc, disk, taken, rest>>

\* Somebody else changed the object: the copy is dropped.
FlipRefused(p) ==
    /\ job[p].pc = "flip" /\ ~Replaceable(job[p].src, job[p].dst)
    /\ DropTarget(p)
    /\ Finish(p)
    /\ UNCHANGED <<object, tmp, taken, rest>>

\* Mutant: the source is unlinked on a volume that turned read-only.
UnlinkReadOnly ==
    LET j == job["rebalance"] IN
    /\ j.pc = "unlink"
    /\ file' = [file EXCEPT ![j.idx][j.src] = "none"]
    /\ Finish("rebalance")
    /\ UNCHANGED <<object, tmp, taken, rest>>

UnlinkSource ==
    LET j == job["rebalance"] IN
    /\ j.pc = "unlink"
    /\ file' = [file EXCEPT ![j.idx][j.src] = IF Writable(j.src) THEN "none"
                                              ELSE @]
    /\ Finish("rebalance")
    /\ UNCHANGED <<object, tmp, taken, rest>>

-----------------------------------------------------------------------------
(***************************************************************************)
(* The jobs                                                                *)
(***************************************************************************)

\* The drain endpoint flags the volume, moves the journal off it and starts the
\* job; only one drain runs, and the model drains one volume.
DrainStart(v) ==
    /\ readOnly = {}
    /\ readOnly' = {v} /\ drainVol' = v
    /\ passed' = FALSE /\ prior' = FALSE
    /\ drainJob' = "scan"
    /\ UNCHANGED <<object, disk, job, taken, drained, shedding, faults>>

\* The batch is done and the cursor moves past it, whatever became of it.
DrainAdvance ==
    /\ drainJob \in {"work", "aborting"} /\ job["drain"].pc = "idle"
    /\ IF drainJob = "work" THEN passed' = TRUE /\ drainJob' = "scan"
                            ELSE passed' = FALSE /\ drainJob' = "off"
    /\ UNCHANGED <<object, disk, job, taken, readOnly, drainVol, drained,
                   prior, shedding, faults>>

\* countObjectsOnVolume(): none left, or another pass, or stuck.
DrainCount ==
    /\ drainJob = "count"
    /\ IF live /\ Holds(row, drainVol)
       THEN IF prior THEN /\ drainJob' = "off" /\ drainVol' = None
                          /\ passed' = FALSE /\ prior' = FALSE
            ELSE /\ drainJob' = "scan" /\ passed' = FALSE /\ prior' = TRUE
                 /\ UNCHANGED drainVol
       ELSE drainJob' = "finalize" /\ UNCHANGED <<drainVol, passed, prior>>
    /\ UNCHANGED <<object, disk, job, taken, readOnly, drained, shedding,
                   faults>>

\* finalize(): the volume is reported drained; it stays read-only.
DrainFinalize ==
    /\ drainJob = "finalize"
    /\ drained' = drained \cup {drainVol}
    /\ drainVol' = None /\ drainJob' = "off"
    /\ passed' = FALSE /\ prior' = FALSE
    /\ UNCHANGED <<object, disk, job, taken, readOnly, shedding, faults>>

\* cancel(): nothing new is started, a move in flight runs to its end, and the
\* drain is not resumed.  The counting after the last batch asks no more.
DrainCancel ==
    /\ drainJob \in {"scan", "work"}
    /\ drainJob' = IF drainJob = "work" THEN "aborting" ELSE "off"
    /\ drainVol' = None /\ passed' = FALSE /\ prior' = FALSE
    /\ UNCHANGED <<object, disk, job, taken, readOnly, drained, shedding,
                   faults>>

\* stop(), or the maintenance freeze: asked between two batches, and the
\* persisted state is kept.
DrainPause ==
    /\ drainJob = "scan"
    /\ drainJob' = "off" /\ prior' = FALSE
    /\ UNCHANGED <<object, disk, job, taken, readOnly, drainVol, passed,
                   drained, shedding, faults>>

\* resumePendingJob(), at startup and when the freeze ends.
DrainResume ==
    /\ drainJob = "off" /\ drainVol # None
    /\ drainJob' = "scan"
    /\ UNCHANGED <<object, disk, job, taken, readOnly, drainVol, passed,
                   drained, prior, shedding, faults>>

\* run() chooses its source among the volumes that are writable then, after a
\* request or at startup.  It ends when the volume has shed enough: it may stop
\* scanning at any time, and a target never becomes a source of the same run.
RebalanceStart(v) ==
    /\ shedding = None /\ Writable(v)
    /\ shedding' = v
    /\ UNCHANGED <<object, disk, job, taken, readOnly, drain, faults>>

-----------------------------------------------------------------------------
(***************************************************************************)
(* What happens to the fleet and to the process                            *)
(***************************************************************************)

Hit == hits < MaxFaults /\ hits' = hits + 1

\* The file of one slice of the object goes bad on the platter.
Rot(i) ==
    /\ Hit /\ live /\ file[i][row[i]] = "good"
    /\ file' = [file EXCEPT ![i][row[i]] = "bad"]
    /\ rotten' = rotten \cup {i}
    /\ UNCHANGED <<object, tmp, job, taken, readOnly, drain, shedding,
                   offline>>

GoOffline(v) ==
    /\ Hit /\ v \notin offline
    /\ offline' = offline \cup {v}
    /\ UNCHANGED <<object, disk, job, taken, readOnly, drain, shedding,
                   rotten>>

ComeBack(v) ==
    /\ v \in offline
    /\ offline' = offline \ {v}
    /\ UNCHANGED <<object, disk, job, taken, readOnly, drain, shedding,
                   rotten, hits>>

\* A file being written stays behind as it is, and nobody finishes it.
Crash ==
    /\ Hit
    /\ LET Torn(b) == IF b \in Worker THEN "bad" ELSE b IN
       /\ file' = [i \in Slice |-> [v \in Volume |-> Torn(file[i][v])]]
       /\ tmp' = [i \in Slice |-> [v \in Volume |-> Torn(tmp[i][v])]]
    /\ job' = [p \in Worker |-> Idle]
    /\ drainJob' = "off" /\ prior' = FALSE /\ shedding' = None
    /\ put' = IF put = "insert" THEN "done" ELSE put
    /\ del' = IF del = "idle" THEN del ELSE "done"
    /\ delDoc' = NoRefs
    /\ UNCHANGED <<live, row, taken, readOnly, drainVol, passed, drained,
                   offline, rotten>>

-----------------------------------------------------------------------------
Next ==
    \/ \E r \in [Slice -> Volume] : PutCommit(r)
    \/ PutInsert \/ DeleteLoad \/ DeleteRow \/ DeleteUnlink
    \/ \E p \in Mover :
          \/ \E v \in Volume : Place(p, v)
          \/ NoTarget(p) \/ CopyOpen(p) \/ CopyWritten(p) \/ CopyCommit(p)
          \/ CopyValidate(p) \/ Flip(p) \/ FlipRefused(p)
    \/ \E p \in Worker :
          RebuildOpen(p) \/ RebuildWritten(p) \/ RebuildFails(p)
            \/ RebuildCommit(p)
    \/ UnlinkSource
    \/ \E i \in Slice : RepairLoad(i) \/ Rot(i)
    \/ RepairVerify
    \/ DrainScan \/ DrainAdvance \/ DrainCount \/ DrainFinalize \/ DrainCancel
    \/ DrainPause \/ DrainResume
    \/ \E v \in Volume : DrainStart(v) \/ RebalanceStart(v) \/ RebalanceScan(v)
                            \/ GoOffline(v) \/ ComeBack(v)
    \/ Crash

Spec == Init /\ [][Next]_vars

-----------------------------------------------------------------------------
(***************************************************************************)
(* Properties                                                              *)
(***************************************************************************)

TypeOK ==
    /\ live \in BOOLEAN /\ row \in Refs
    /\ file \in [Slice -> [Volume -> Bytes]]
    /\ tmp \in [Slice -> [Volume -> Bytes]]
    /\ readOnly \subseteq Volume /\ drained \subseteq Volume
    /\ drainVol \in Volume \cup {None}
    /\ passed \in BOOLEAN /\ prior \in BOOLEAN
    /\ put \in {"idle", "insert", "done"}
    /\ del \in {"idle", "row", "unlink", "done"} /\ delDoc \in Refs
    /\ job \in [Worker -> Job]
    /\ drainJob \in {"off", "scan", "work", "count", "finalize", "aborting"}
    /\ shedding \in Volume \cup {None} /\ offline \subseteq Volume
    /\ rotten \subseteq Slice /\ contested \subseteq Slice
    /\ loads \in 0..MaxLoads /\ hits \in 0..MaxFaults

\* No two slices of an object are ever on one disk, however many movers pick
\* targets from records that have gone stale.
DistinctVolumes == live => \A i, j \in Slice : row[i] = row[j] => i = j

\* The state is well formed, no worker or drain being without what it works on,
\* and the row places every slice on a disk of its own.
PlacementSafe == TypeOK /\ DistinctVolumes

\* No move, rebuild or refused switch destroys the last good copy of a slice:
\* somewhere in the fleet there is one, unless the platter itself lost it.
NeverDestroyed ==
    live => \A i \in Slice \ rotten : \E v \in Volume : file[i][v] = "good"

Backed(i) == file[i][row[i]] = "good"

\* A slice that only one worker at a time works on can be read at every instant
\* where the row says it is: move, then switch, then unlink.
BackedUnlessContested ==
    live => \A i \in Slice \ (rotten \cup contested) : Backed(i)

=============================================================================
