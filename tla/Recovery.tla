------------------------------- MODULE Recovery -------------------------------
(***************************************************************************)
(* What survives the loss of the database: the bootstrap manifest every    *)
(* disk carries (io/bootstrap-manifest.ts), the snapshot pointer in it     *)
(* (jobs/snapshot-job.ts), the start-up gates of core.ts and the two       *)
(* recoveries an operator runs, recover-fleet (recovery/bootstrap.ts) and  *)
(* restore (recovery/restore.ts).                                          *)
(*                                                                         *)
(* A date is a number (updatedAt by manifest pass, completedAt by snapshot *)
(* number).  Where the journal lives is the number of its last move.  The  *)
(* namespace is whole, partial or empty; its contents are ObjectLifecycle's*)
(* business.                                                               *)
(***************************************************************************)
EXTENDS Integers, FiniteSets, FiniteSetsExt

CONSTANTS
    Vol,        \* disks of this array (integers: manifests are written in id order)
    Foreign,    \* attached disks that belong to another array
    MayForce,   \* the operator may force a recovery
    MayLose,    \* what a disaster may take: "db" (the database), "host" (the identity file too)
    MaxFaults,  \* bound: disks that stop answering
    MaxCrashes, \* bound: crashes
    MaxLosses,  \* bound: losses of the database
    MaxChanges, \* bound: volumes added, journal moves, snapshots, periodic refreshes
    MaxMute     \* bound: boots at which the journal cannot read its history

ASSUME RecoveryAssumption ==
    /\ Vol \subseteq Int /\ Foreign \subseteq Int /\ IsFiniteSet(Vol \cup Foreign)
    /\ Vol \cap Foreign = {}
    /\ MayForce \in BOOLEAN /\ MayLose \subseteq {"db", "host"}
    /\ {MaxFaults, MaxCrashes, MaxLosses, MaxChanges, MaxMute} \subseteq Nat

VARIABLES
    man,     \* man[d]: the manifest on disk d, or Absent
    st,      \* st[d]: "ok", "eio" (mounts, will not hand over its manifest), "dead" (will not mount)
    db,      \* the database: volume table, markers, namespace
    ident,   \* the identity file: "none", "ours" or "other"
    mode,    \* where start() has got to
    fleet,   \* the volume table as loaded at start-up
    mounted, \* volumes started
    mem,     \* BootstrapManifestWriter: what this process believes
    pass,    \* the manifest pass in flight, if any
    job,     \* the snapshot job
    op,      \* the recovery an operator is running
    jloc,    \* where the journal is
    good,    \* history: the snapshots taken of a whole namespace
    forced,  \* history: a recovery was forced past disks that did not answer
    hearsay, \* history: a manifest pass was built from a remembered journal list
    clock, snaps, used

vars == <<man, st, db, ident, mode, fleet, mounted, mem, pass, job, op, jloc, good, forced, hearsay, clock,
          snaps, used>>

Disk == Vol \cup Foreign
Absent == [id |-> "none", at |-> 0, snap |-> 0, jl |-> 0, tab |-> {}]
NoMem == [snap |-> 0, jl |-> 0, from |-> 0, live |-> FALSE, lost |-> FALSE]
NoPass == [todo |-> {}, body |-> Absent, busy |-> FALSE, queued |-> FALSE]
NoJob == [pc |-> "idle", no |-> 0, back |-> 0, after |-> 0]
NoOp == [pc |-> "idle", id |-> "none", tab |-> {}, todo |-> {}]
Kinds == {"fault", "crash", "loss", "change", "mute"}
Limit == [k \in Kinds |->
             CASE k = "fault" -> MaxFaults [] k = "crash" -> MaxCrashes [] k = "loss" -> MaxLosses
               [] k = "change" -> MaxChanges [] k = "mute" -> MaxMute]

\* One more of a bounded kind of event.
Spend(k) == used[k] < Limit[k] /\ used' = [used EXCEPT ![k] = @ + 1]

Readable(d) == st[d] = "ok"

Newest(S) == CHOOSE d \in S : \A e \in S : man[e].at <= man[d].at

-----------------------------------------------------------------------------
(* The manifest writer.                                                    *)

\* write(): a request during a pass is coalesced into one more pass.
build(table, b) ==
    [id |-> ident, at |-> clock + 1, snap |-> b.snap, jl |-> b.jl, tab |-> table]

Request(table, b, targets) ==
    IF pass.busy
    THEN /\ pass' = [pass EXCEPT !.queued = TRUE]
         /\ UNCHANGED <<clock, hearsay>>
    ELSE /\ pass' = [NoPass EXCEPT !.todo = targets, !.body = build(table, b), !.busy = TRUE]
         /\ clock' = clock + 1
         /\ hearsay' = (hearsay \/ ~b.live)

\* Mutant: the pointer on the disk is kept only by a process that knows of none.
KeepUnlessBlind(d) == man[d].snap # 0 /\ pass.body.snap = 0

\* An absent snapshot (0) loses to any.
isNewer(a, b) == a > b

\* Never regress the pointer: what the disk names wins if it is newer.
keepSnapshot(d) == isNewer(man[d].snap, pass.body.snap)

\* A remembered journal list does not overwrite one written later.
keepJournal(d) == ~mem.live /\ man[d].jl # 0 /\ man[d].at > mem.from

\* One target of _writeOnce(): a manifest that cannot be read is not replaced.
WriteOne ==
    /\ pass.busy /\ pass.todo # {}
    /\ LET d == Min(pass.todo) IN
       /\ pass' = [pass EXCEPT !.todo = @ \ {d}]
       /\ man' = IF ~Readable(d) THEN man
                 ELSE [man EXCEPT ![d] =
                          [pass.body EXCEPT !.snap = IF keepSnapshot(d) THEN man[d].snap ELSE @,
                                            !.jl = IF keepJournal(d) THEN man[d].jl ELSE @]]
    /\ UNCHANGED <<st, db, ident, mode, fleet, mounted, mem, job, op, jloc, good, forced, hearsay, clock, snaps, used>>

\* The finally of write(): a queued request starts the next pass.
PassEnds ==
    /\ pass.busy /\ pass.todo = {}
    /\ IF pass.queued
       THEN /\ pass' = [NoPass EXCEPT !.todo = mounted, !.body = build(db.tab, mem), !.busy = TRUE]
            /\ clock' = clock + 1
            /\ hearsay' = (hearsay \/ ~mem.live)
       ELSE pass' = NoPass /\ UNCHANGED <<clock, hearsay>>
    /\ UNCHANGED <<man, st, db, ident, mode, fleet, mounted, mem, job, op, jloc, good, forced, snaps, used>>

\* startPeriodic: the backstop.
Periodic ==
    /\ mode = "normal" /\ ~pass.busy
    /\ Spend("change")
    /\ Request(db.tab, mem, mounted)
    /\ UNCHANGED <<man, st, db, ident, mode, fleet, mounted, mem, job, op, jloc, good, forced, snaps>>

-----------------------------------------------------------------------------
(* Start-up.                                                               *)

\* Mutant: a half-written volume table does not hold the fleet back.
GateIdentityOnly ==
    /\ mode = "down"
    /\ IF ident = "none"
       THEN mode' = "bare" /\ UNCHANGED <<fleet, mounted>>
       ELSE mode' = "mounted" /\ fleet' = db.tab /\ mounted' = {v \in db.tab : st[v] # "dead"}
    /\ UNCHANGED <<man, st, db, ident, mem, pass, job, op, jloc, good, forced, hearsay, clock, snaps, used>>

\* The fleet-restore marker and a missing identity keep the fleet down;
\* otherwise ioManager.init() starts every volume that mounts.
BootGate ==
    /\ mode = "down"
    /\ IF db.fleetMark \/ ident = "none"
       THEN mode' = "bare" /\ UNCHANGED <<fleet, mounted>>
       ELSE mode' = "mounted" /\ fleet' = db.tab /\ mounted' = {v \in db.tab : st[v] # "dead"}
    /\ UNCHANGED <<man, st, db, ident, mem, pass, job, op, jloc, good, forced, hearsay, clock, snaps, used>>

\* newestManifestOnDisk over the mounted disks that answer and are ours.
OnDisk == {d \in mounted : Readable(d) /\ man[d].id = ident}

\* hydrateFromDisk: the newest snapshot, and the journal list of the newest
\* manifest; with no pointer found nothing is adopted.
hydrateFromDisk ==
    /\ mode = "mounted"
    /\ mode' = "hydrated"
    /\ LET withSnap == {d \in OnDisk : man[d].snap # 0}
           last == Newest(OnDisk)
       IN mem' = IF withSnap = {} THEN NoMem
                 ELSE [NoMem EXCEPT !.snap = Max({man[d].snap : d \in withSnap}),
                                    !.jl = man[last].jl, !.from = man[last].at,
                                    !.lost = \E d \in mounted : ~Readable(d)]
    /\ UNCHANGED <<man, st, db, ident, fleet, mounted, pass, job, op, jloc, good, forced, hearsay, clock, snaps, used>>

\* The names gate; then journal.start() and the first manifest refresh.  With
\* no volume, or a history it cannot read, the journal names no replica and
\* setJournalVolumeIds refuses the empty list.
Serve ==
    /\ mode = "hydrated"
    /\ IF db.namesMark
       THEN mode' = "names" /\ UNCHANGED <<mem, pass, clock, hearsay, used>>
       ELSE /\ mode' = "normal"
            /\ \/ /\ mounted # {}
                  /\ mem' = [mem EXCEPT !.live = TRUE, !.lost = FALSE, !.jl = jloc]
                  /\ UNCHANGED used
               \/ /\ mounted # {} /\ Spend("mute") /\ UNCHANGED mem
               \/ mounted = {} /\ UNCHANGED <<used, mem>>
            /\ IF mounted = {} THEN UNCHANGED <<pass, clock, hearsay>>    \* no writable volumes
               ELSE Request(db.tab, mem', mounted)
    /\ UNCHANGED <<man, st, db, ident, fleet, mounted, job, op, jloc, good, forced, snaps>>

-----------------------------------------------------------------------------
(* A running array.                                                        *)

\* onFleetChange: a journal that was mute may find its history again.
Hears(b) == {b, [b EXCEPT !.live = TRUE, !.lost = FALSE, !.jl = jloc]}

\* registerVolume: the table first, then the manifests.  (The wipe guard lets
\* only a blank disk through, and nobody provisions on a lost database.)
registerVolume(v) ==
    /\ mode = "normal" /\ db.ns = "whole" /\ v \notin db.tab
    /\ man[v] = Absent /\ Readable(v)
    /\ Spend("change")
    /\ db' = [db EXCEPT !.tab = @ \cup {v}]
    /\ fleet' = fleet \cup {v} /\ mounted' = mounted \cup {v}
    /\ mem' \in Hears(mem)
    /\ Request(db'.tab, mem', mounted')
    /\ UNCHANGED <<man, st, ident, mode, job, op, jloc, good, forced, snaps>>

\* publishReplicaLocation: the journal elected another replica set.
JournalMoves ==
    /\ mode = "normal" /\ mounted # {} /\ mem.live
    /\ Spend("change")
    /\ jloc' = jloc + 1
    /\ mem' = [mem EXCEPT !.jl = jloc + 1]
    /\ Request(db.tab, mem', mounted)
    /\ UNCHANGED <<man, st, db, ident, mode, fleet, mounted, job, op, good, forced, snaps>>

\* The device reconciler: a disk is gone, or is back, and the manifests follow.
Reconcile(v) ==
    /\ mode = "normal" /\ v \in fleet
    /\ \/ st[v] = "dead" /\ v \in mounted /\ mounted' = mounted \ {v}
       \/ st[v] # "dead" /\ v \notin mounted /\ mounted' = mounted \cup {v}
    /\ IF mounted' = {} THEN UNCHANGED <<mem, pass, clock, hearsay>>
       ELSE mem' \in Hears(mem) /\ Request(db.tab, mem', mounted')
    /\ UNCHANGED <<man, st, db, ident, mode, fleet, job, op, jloc, good, forced, snaps, used>>

\* SnapshotJob.run up to the verified copy: an empty namespace is refused.
TakeSnapshot ==
    /\ mode = "normal" /\ mounted # {} /\ job.pc = "idle" /\ db.ns # "empty"
    /\ Spend("change")
    /\ snaps' = snaps + 1
    /\ good' = IF db.ns = "whole" THEN good \cup {snaps + 1} ELSE good
    /\ job' = [NoJob EXCEPT !.pc = "check", !.no = snaps + 1]
    /\ UNCHANGED <<man, st, db, ident, mode, fleet, mounted, mem, pass, op, jloc, forced, hearsay, clock>>

\* publish: never go backwards, then set the pointer and write.
publish ==
    /\ mode = "normal" /\ job.pc = "check"
    /\ IF \E d \in OnDisk : man[d].snap > job.no
       THEN job' = NoJob /\ UNCHANGED <<mem, pass, clock, hearsay>>
       ELSE /\ mem' = [mem EXCEPT !.snap = job.no]
            /\ Request(db.tab, mem', mounted)
            /\ job' = [job EXCEPT !.pc = "wait", !.back = mem.snap,
                                  !.after = IF pass.busy THEN clock + 1 ELSE clock']
    /\ UNCHANGED <<man, st, db, ident, mode, fleet, mounted, op, jloc, good, forced, snaps, used>>

\* A pass that began after the request has ended.  Nothing landed: the old
\* pointer is put back.
PublishEnds ==
    /\ mode = "normal" /\ job.pc = "wait" /\ clock >= job.after
    /\ ~(pass.busy /\ pass.body.at <= job.after)
    /\ mem' = IF \E d \in mounted : Readable(d) /\ man[d].snap = job.no
              THEN mem ELSE [mem EXCEPT !.snap = job.back]
    /\ job' = NoJob
    /\ UNCHANGED <<man, st, db, ident, mode, fleet, mounted, pass, op, jloc, good, forced, hearsay, clock, snaps, used>>

-----------------------------------------------------------------------------
(* recover-fleet.                                                          *)

\* Three answers, not two: a disk that mounts and has no manifest is not silent.
readManifestReadOnly(d) ==
    CASE ~Readable(d) -> "silent" [] Readable(d) /\ man[d] = Absent -> "none" [] OTHER -> "manifest"

\* findManifestsOnDevices asks every attached disk.
found == {d \in Disk : readManifestReadOnly(d) = "manifest"}
silent == {d \in Disk : readManifestReadOnly(d) = "silent"}

Group(i) == {d \in found : man[d].id = i}

\* reconcileManifests, rule 1: whose array is this?  More than half of the
\* disks that answered.
Majority(i) == 2 * Cardinality(Group(i)) > Cardinality(found)

\* Rule 2: the disks that said nothing count against the picture.
Complete(i) == 2 * Cardinality(Group(i)) > Cardinality(found) + Cardinality(silent)

\* A database that knows volumes is not restored over, unless they are the
\* wreckage of this very restore.
assertSafeToRestoreFleet(force) == db.fleetMark \/ db.tab = {} \/ force

\* recoverFleetFromDisks up to its first write: the vote and the newest
\* volume table of the array that won it.
recoverFleet(force) ==
    /\ mode \in {"bare", "names", "normal"} /\ op.pc = "idle"
    /\ force => MayForce
    /\ assertSafeToRestoreFleet(force)
    /\ \E i \in {man[d].id : d \in found} :
         /\ Majority(i)
         /\ Complete(i) \/ force
         /\ forced' = (forced \/ ~Complete(i) \/ (db.tab # {} /\ ~db.fleetMark))
         /\ op' = [NoOp EXCEPT !.pc = "mark", !.id = i,
                               !.tab = man[Newest(Group(i))].tab]
    /\ UNCHANGED <<man, st, db, ident, mode, fleet, mounted, mem, pass, job, jloc, good, hearsay, clock, snaps, used>>

\* beginFleetRestore: the first marker, then the second.
beginFleetRestore ==
    /\ op.pc \in {"mark", "mark2"}
    /\ db' = IF op.pc = "mark" THEN [db EXCEPT !.fleetMark = TRUE] ELSE [db EXCEPT !.namesMark = TRUE]
    /\ op' = [op EXCEPT !.pc = IF @ = "mark" THEN "mark2" ELSE "adopt"]
    /\ UNCHANGED <<man, st, ident, mode, fleet, mounted, mem, pass, job, jloc, good, forced, hearsay, clock, snaps, used>>

\* adoptIdentity: never over a different one.
adoptIdentity ==
    /\ op.pc = "adopt"
    /\ IF ident \in {"none", op.id}
       THEN ident' = op.id /\ op' = [op EXCEPT !.pc = "volumes", !.todo = op.tab]
       ELSE op' = NoOp /\ UNCHANGED ident
    /\ UNCHANGED <<man, st, db, mode, fleet, mounted, mem, pass, job, jloc, good, forced, hearsay, clock, snaps, used>>

\* restoreVolumes: one document at a time; the marker comes down when every
\* id is there.
restoreVolumes ==
    /\ op.pc = "volumes"
    /\ IF op.todo # {}
       THEN LET v == Min(op.todo) IN
            /\ db' = [db EXCEPT !.tab = @ \cup {v}]
            /\ op' = [op EXCEPT !.todo = @ \ {v}]
       ELSE /\ db' = [db EXCEPT !.fleetMark = FALSE]
            /\ op' = NoOp
    /\ UNCHANGED <<man, st, ident, mode, fleet, mounted, mem, pass, job, jloc, good, forced, hearsay, clock, snaps, used>>

-----------------------------------------------------------------------------
(* restore: the namespace, from the newest snapshot and the journal.       *)

\* Every volume of the fleet, or no conclusion; and a fleet of none is no fleet.
plattersOrRefuse == fleet # {} /\ mounted = fleet

\* The refusals that come before the first write.
MayRestore ==
    /\ ~db.fleetMark
    /\ ~mem.lost                 \* journalLocationUncertain
    /\ plattersOrRefuse
    /\ mem.snap # 0

\* Mutant: only the in-flight marker makes a non-empty database wreckage.
ResumesInFlight == db.flight

\* Either marker says that what is in the database is wreckage.
resuming == db.flight \/ db.namesMark

restoreBegin ==
    /\ mode = "names" /\ op.pc = "idle" /\ MayRestore
    /\ resuming \/ db.ns = "empty"
    /\ db' = [db EXCEPT !.flight = TRUE]
    /\ op' = [NoOp EXCEPT !.pc = "apply"]
    /\ UNCHANGED <<man, st, ident, mode, fleet, mounted, mem, pass, job, jloc, good, forced, hearsay, clock, snaps, used>>

\* Containers before objects, one upsert after another; then endRestore, and
\* only then may the array start normally.
restoreApply ==
    /\ op.pc \in {"apply", "rest", "end", "clear"}
    /\ db' = CASE op.pc = "apply" -> [db EXCEPT !.ns = "partial"]
               [] op.pc = "rest" -> [db EXCEPT !.ns = IF mem.snap \in good THEN "whole" ELSE "partial"]
               [] op.pc = "end" -> [db EXCEPT !.flight = FALSE]
               [] op.pc = "clear" -> [db EXCEPT !.namesMark = FALSE]
    /\ op' = CASE op.pc = "apply" -> [op EXCEPT !.pc = "rest"]
               [] op.pc = "rest" -> [op EXCEPT !.pc = "end"]
               [] op.pc = "end" -> [op EXCEPT !.pc = "clear"]
               [] op.pc = "clear" -> NoOp
    /\ UNCHANGED <<man, st, ident, mode, fleet, mounted, mem, pass, job, jloc, good, forced, hearsay, clock, snaps, used>>

-----------------------------------------------------------------------------
(* Faults.                                                                 *)

Down == /\ mode' = "down" /\ fleet' = {} /\ mounted' = {} /\ mem' = NoMem /\ pass' = NoPass
        /\ job' = NoJob /\ op' = NoOp

Crash ==
    /\ mode # "down"
    /\ Spend("crash")
    /\ Down
    /\ UNCHANGED <<man, st, db, ident, jloc, good, forced, hearsay, clock, snaps>>

\* The operator restarts once a recovery step is done, or once the disks that
\* held it up answer again.
Restart ==
    /\ op.pc = "idle"
    /\ \/ mode = "bare" /\ ~db.fleetMark /\ ident # "none"
       \/ mode = "names" /\ ~db.namesMark
       \/ mode = "names" /\ ~MayRestore /\ \A d \in Vol : Readable(d)
       \/ mode = "normal" /\ db.namesMark
    /\ Down
    /\ UNCHANGED <<man, st, db, ident, jloc, good, forced, hearsay, clock, snaps, used>>

Disaster ==
    /\ mode = "down"
    /\ Spend("loss")
    /\ \E what \in MayLose : ident' = IF what = "host" THEN "none" ELSE ident
    /\ db' = [tab |-> {}, fleetMark |-> FALSE, namesMark |-> FALSE, flight |-> FALSE, ns |-> "empty"]
    /\ UNCHANGED <<man, st, mode, fleet, mounted, mem, pass, job, op, jloc, good, forced, hearsay, clock, snaps>>

Fails(d) ==
    /\ st[d] = "ok" /\ Spend("fault")
    /\ \E s \in {"eio", "dead"} : st' = [st EXCEPT ![d] = s]
    /\ UNCHANGED <<man, db, ident, mode, fleet, mounted, mem, pass, job, op, jloc, good, forced, hearsay, clock, snaps>>

Answers(d) ==
    /\ st[d] # "ok"
    /\ st' = [st EXCEPT ![d] = "ok"]
    /\ UNCHANGED <<man, db, ident, mode, fleet, mounted, mem, pass, job, op, jloc, good, forced, hearsay, clock, snaps, used>>

-----------------------------------------------------------------------------

\* An array in service: every disk of the table carries the manifest of the
\* first pass, naming the first snapshot.  One more disk is blank.
First == Vol \ {Max(Vol)}

Init ==
    /\ man = [d \in Disk |->
                IF d \in First THEN [id |-> "ours", at |-> 1, snap |-> 1, jl |-> 1, tab |-> First]
                ELSE IF d \in Foreign THEN [id |-> "other", at |-> 9, snap |-> 9, jl |-> 1, tab |-> Foreign]
                ELSE Absent]
    /\ st = [d \in Disk |-> "ok"]
    /\ db = [tab |-> First, fleetMark |-> FALSE, namesMark |-> FALSE, flight |-> FALSE, ns |-> "whole"]
    /\ ident = "ours" /\ mode = "down" /\ fleet = {} /\ mounted = {}
    /\ mem = NoMem /\ pass = NoPass /\ job = NoJob /\ op = NoOp
    /\ jloc = 1 /\ good = {1} /\ forced = FALSE /\ hearsay = FALSE
    /\ clock = 1 /\ snaps = 1 /\ used = [k \in Kinds |-> 0]

Boot == BootGate \/ hydrateFromDisk \/ Serve

Writer == WriteOne \/ PassEnds

Snapshot == publish \/ PublishEnds

FleetSteps == beginFleetRestore \/ adoptIdentity \/ restoreVolumes

RestoreSteps == restoreBegin \/ restoreApply

Next ==
    \/ Boot \/ Writer \/ Snapshot \/ FleetSteps \/ RestoreSteps
    \/ \E force \in BOOLEAN : recoverFleet(force)
    \/ Restart \/ TakeSnapshot \/ Periodic \/ JournalMoves
    \/ \E v \in Vol : registerVolume(v) \/ Reconcile(v)
    \/ Crash \/ Disaster
    \/ \E d \in Disk : Fails(d) \/ Answers(d)

Spec == Init /\ [][Next]_vars

\* The process runs on, disks are repaired and an operator finishes what he began.
Fairness ==
    /\ WF_vars(Boot) /\ WF_vars(Writer) /\ WF_vars(Snapshot)
    /\ WF_vars(FleetSteps) /\ WF_vars(RestoreSteps)
    /\ WF_vars(recoverFleet(FALSE)) /\ WF_vars(Restart)
    /\ \A d \in Disk : WF_vars(Answers(d))
    /\ \A v \in Vol : WF_vars(Reconcile(v))

FairSpec == Spec /\ Fairness

-----------------------------------------------------------------------------

Man == [id : {"none", "ours", "other"}, at : Nat, snap : Nat, jl : Nat, tab : SUBSET Disk]

\* Types; a manifest of this array carries a date of the past and names a
\* snapshot that was taken.
TypeOK ==
    /\ man \in [Disk -> Man] /\ st \in [Disk -> {"ok", "eio", "dead"}]
    /\ db \in [tab : SUBSET Disk, fleetMark : BOOLEAN, namesMark : BOOLEAN, flight : BOOLEAN,
               ns : {"whole", "partial", "empty"}]
    /\ ident \in {"none", "ours", "other"}
    /\ mode \in {"down", "bare", "mounted", "hydrated", "names", "normal"}
    /\ mounted \subseteq fleet /\ fleet \subseteq Disk
    /\ mem \in [snap : Nat, jl : Nat, from : Nat, live : BOOLEAN, lost : BOOLEAN]
    /\ \A v \in Vol : man[v].at <= clock /\ man[v].snap <= snaps /\ man[v].jl <= jloc
    /\ good \subseteq 1..snaps

\* No disk ever forgets (bootstrap-manifest.ts, NEVER REGRESS THE POINTER): a
\* manifest pass never replaces the snapshot a disk names by an older one, nor,
\* as long as the journal itself has said where it is, the place of the journal
\* by an earlier one.
DiskNeverForgets ==
    [][\A v \in Vol : man'[v].snap >= man[v].snap /\ (hearsay \/ man'[v].jl >= man[v].jl)]_vars

\* A volume most of the manifests name is in the fleet whenever there is
\* one up, and the identity is this array's, unless a recovery was forced: a
\* half-written table, a stale manifest and disks that do not answer never
\* drop one (database.ts restoreVolumes, reconcileManifests).
MostName(v) ==
    LET writers == {d \in Vol : man[d] # Absent}
    IN 2 * Cardinality({d \in writers : v \in man[d].tab}) > Cardinality(writers)

FleetKept ==
    forced \/ /\ ident # "other"
              /\ mode \in {"names", "normal"} /\ fleet # {} =>
                    \A v \in Vol : MostName(v) => v \in fleet

\* The array never serves, and never snapshots, a namespace it has not got
\* back (core.ts, THE FLEET IS BACK. THE NAMES ARE NOT): with disks mounted in
\* normal mode the namespace is whole, and every pointer on a disk names a
\* snapshot of a whole namespace.
NeverServesEmpty ==
    /\ mode = "normal" /\ mounted # {} => db.ns = "whole"
    /\ \A v \in Vol : man[v].snap # 0 => man[v].snap \in good

\* A restore reads the journal where the best informed of the table's disks
\* says it is, provided no manifest was written from a remembered list
\* (restore.ts, journalLocationUncertain).
RestoresFromJournal ==
    op.pc \in {"apply", "rest", "end", "clear"} /\ ~forced /\ ~hearsay =>
        \A v \in db.tab : man[v].jl <= mem.jl

\* A net one can climb out of (core.ts: "A safety net you cannot climb out of
\* is a trap"): the array always comes back to serving a whole namespace.
ClimbsOut == []<>(mode = "normal" /\ db.ns = "whole")

\* Whatever was lost, the boot gate, the fleet restore and the namespace restore
\* keep the volumes the disks know of, serve no emptied namespace, and replay
\* from the journal that is the latest.
RecoverySafe == TypeOK /\ FleetKept /\ NeverServesEmpty /\ RestoresFromJournal
=============================================================================
