------------------------------ MODULE Journal ------------------------------
(***************************************************************************)
(* The replicated namespace journal (lib/io/journal.ts).                   *)
(*                                                                         *)
(* A journal is a directory of numbered segment files kept in lockstep on  *)
(* a few volumes.  append() queues a record, flush() writes the queue to   *)
(* every open replica and acknowledges it once ONE replica has it, and     *)
(* reconfigure() rebuilds the replica set, seeding every new replica from  *)
(* the history already on the platters.  All of it runs on one event loop, *)
(* so an action here is the code between two awaits that other code can    *)
(* observe: one replica's write, one rollback, one segment copy.           *)
(*                                                                         *)
(* A record is two bytes, its text and its newline, so that a short write, *)
(* an interrupted copy and a torn tail are what they are in the code: a    *)
(* proper prefix of the bytes that should have been there.                 *)
(***************************************************************************)
EXTENDS Integers, Sequences, FiniteSets

CONSTANTS
    Vol,              \* the volumes of the fleet
    Rec,              \* the records callers append, each at most once
    History,          \* the records an earlier process left, one per segment
    Holders,          \* the volumes that hold them
    Fleets,           \* the sets of volumes that may be writable at first; the others are read-only
    Group,            \* bus group of every volume (Volume.deviceGroup)
    JournalReplicas,  \* config.journalReplicas
    SegmentBytes,     \* config.journalSegmentBytes: rotate at this size
    MaxSegment,       \* bound: the highest segment number
    MaxFaults,        \* bound: I/O errors, short writes, failed rollbacks
    MaxCrashes,       \* bound: process crashes and orderly restarts
    MaxMoves,         \* bound: fleet changes (mount, unmount, read-only, removal)
    Unmounts,         \* TRUE: volumes may be unmounted while we run
    ShortWrites,      \* TRUE: a failed write or copy may stop inside a record
    ListingFails,     \* TRUE: readdir of a journal directory may fail
    Removals          \* TRUE: the operator may soft-delete volumes

ASSUME JournalAssumption ==
    /\ IsFiniteSet(Vol)
    /\ Group \in [Vol -> Nat]
    /\ JournalReplicas \in Nat \ {0}
    /\ SegmentBytes \in Nat \ {0}
    /\ MaxSegment \in Nat
    /\ History \in Seq(Rec) /\ Len(History) <= MaxSegment + 1
    /\ \A i, j \in 1 .. Len(History) : History[i] = History[j] => i = j
    /\ Holders \subseteq Vol /\ (History # <<>> => SegmentBytes <= 2 /\ Holders # {})
    /\ Fleets \subseteq SUBSET Vol
    /\ MaxFaults \in Nat /\ MaxCrashes \in Nat /\ MaxMoves \in Nat
    /\ Unmounts \in BOOLEAN /\ ListingFails \in BOOLEAN
    /\ ShortWrites \in BOOLEAN /\ Removals \in BOOLEAN

Seg    == 0 .. MaxSegment
Byte   == Rec \X {"text", "newline"}
File   == Seq(Byte)
None   == "none"

VARIABLES
    \* the platters and the fleet's view of them
    disk,        \* [Vol -> [Seg -> File]], <<>> for a file that does not exist
    present,     \* [Vol -> SUBSET Seg]: the segment files that exist
    status,      \* [Vol -> Status]
    hook,        \* a fleet change has not reached onFleetChange() yet
    \* Journal's fields
    mode,        \* "down", "starting", "up" or "stopping"
    replicas,    \* this.replicas, as a set of volumes
    open,        \* the replicas whose handle is not null
    segment,     \* this.segment
    pending,     \* this.pending
    rec,         \* what the caller of append() knows of each record
    log,         \* history variable: acknowledged records, in order
    \* the running flush()
    fphase, batch, left, durable, before,
    \* the running reconfigureOnce() and the chain behind it
    ephase, queued, reelectionNeeded, chosen, listed, sources, lineage,
    todo, target, from, adopted,
    \* the DELETE volume request that has passed assertNotLastCopy()
    cleared,
    \* budgets
    faults, crashes, moves

diskVars  == <<disk, present>>
fleetVars == <<status, hook, cleared>>
flushVars == <<fphase, batch, left, durable, before>>
seedVars  == <<chosen, listed, sources, lineage, todo, target, from, adopted>>
electVars == <<ephase, queued, reelectionNeeded, seedVars>>
setVars   == <<replicas, open, segment>>
queueVars == <<pending, rec, log>>
budgets   == <<faults, crashes, moves>>
vars == <<diskVars, fleetVars, mode, setVars, queueVars, flushVars, electVars,
          budgets>>

Status    == {"rw", "ro", "off", "deleted"}
RecStatus == {"new", "waiting", "pending", "acked", "rejected", "refused",
              "skipped", "lost"}

Mounted(v)  == status[v] \in {"rw", "ro"}
Writable(v) == status[v] = "rw"

-----------------------------------------------------------------------------
\* Segment files as byte sequences

Smaller(m, n) == IF m < n THEN m ELSE n

\* The lines that flush() joins into one write.
Body(b) == [i \in 1 .. 2 * Len(b) |->
               <<b[(i + 1) \div 2], IF i % 2 = 1 THEN "text" ELSE "newline">>]

\* agreeOnPrefix() over the bytes both files have.
AgreeOnPrefix(f, g) == \A i \in 1 .. Smaller(Len(f), Len(g)) : f[i] = g[i]

\* rollBackTornTail(): keep up to the last newline.
LastNewline(f) ==
    CHOOSE n \in 0 .. Len(f) :
        /\ n = 0 \/ f[n][2] = "newline"
        /\ \A i \in n + 1 .. Len(f) : f[i][2] # "newline"
RollBackTornTail(f) == SubSeq(f, 1, LastNewline(f))

\* truncateSegmentTo(): a file already that short is left alone.
TruncateTo(f, n) == IF Len(f) <= n THEN f ELSE SubSeq(f, 1, n)

\* The record's line is on volume v, complete.
OnDisk(v, r) ==
    \E s \in Seg : \E i \in 1 .. Len(disk[v][s]) : disk[v][s][i] = <<r, "newline">>

-----------------------------------------------------------------------------
TypeOK ==
    /\ disk \in [Vol -> [Seg -> File]]
    /\ present \in [Vol -> SUBSET Seg]
    /\ status \in [Vol -> Status] /\ hook \in BOOLEAN
    /\ cleared \in Vol \cup {None}
    /\ mode \in {"down", "starting", "up", "stopping"}
    /\ replicas \in SUBSET Vol /\ open \in SUBSET replicas
    /\ segment \in Seg
    /\ pending \in Seq(Rec) /\ log \in Seq(Rec) /\ batch \in Seq(Rec)
    /\ rec \in [Rec -> RecStatus]
    /\ fphase \in {"idle", "write", "rollback"}
    /\ left \in SUBSET Vol /\ durable \in SUBSET Vol
    /\ before \in [Vol -> Nat]
    /\ ephase \in {"idle", "drain", "scan", "lineage", "seed"}
    /\ queued \in BOOLEAN /\ reelectionNeeded \in BOOLEAN
    /\ chosen \in SUBSET Vol /\ listed \in SUBSET Vol /\ sources \in SUBSET Vol
    /\ lineage \in SUBSET Seg
    /\ todo \in SUBSET Vol /\ from \in SUBSET Vol /\ adopted \in SUBSET Vol
    /\ target \in Vol \cup {None}
    /\ faults \in Nat /\ crashes \in Nat /\ moves \in Nat

\* What an earlier process has left: its records, and its segments on volume v.
Old == {History[i] : i \in 1 .. Len(History)}
Kept(v) == IF v \in Holders THEN 0 .. Len(History) - 1 ELSE {}

Init ==
    /\ disk = [v \in Vol |-> [s \in Seg |-> IF s \in Kept(v) THEN Body(<<History[s + 1]>>) ELSE <<>>]]
    /\ present = [v \in Vol |-> Kept(v)]
    /\ \E W \in Fleets : status = [v \in Vol |-> IF v \in W THEN "rw" ELSE "ro"]
    /\ hook = FALSE /\ cleared = None
    /\ mode = "down"
    /\ replicas = {} /\ open = {} /\ segment = 0
    /\ pending = <<>> /\ log = History
    /\ rec = [r \in Rec |-> IF r \in Old THEN "acked" ELSE "new"]
    /\ fphase = "idle" /\ batch = <<>> /\ left = {} /\ durable = {}
    /\ before = [v \in Vol |-> 0]
    /\ ephase = "idle" /\ queued = FALSE /\ reelectionNeeded = FALSE
    /\ chosen = {} /\ listed = {} /\ sources = {} /\ lineage = {}
    /\ todo = {} /\ target = None /\ from = {} /\ adopted = {}
    /\ faults = 0 /\ crashes = 0 /\ moves = 0

\* One more I/O error, if the budget allows it.
Fault(n) == /\ faults + n <= MaxFaults
            /\ faults' = faults + n
            /\ UNCHANGED <<crashes, moves>>

-----------------------------------------------------------------------------
\* append()

\* reconfigure(): chain one more re-election, unless stop() has begun.  The
\* chain is a flag: requests made while one is waiting are served by that one.
Reconfigure == queued' = (queued \/ mode # "stopping")

Electing == ephase # "idle" \/ queued

\* The journal is not started: append() returns at once, recording nothing.
AppendSkipped(r) ==
    /\ mode \in {"starting", "stopping"}
    /\ rec[r] = "new"
    /\ rec' = [rec EXCEPT ![r] = "skipped"]
    /\ UNCHANGED <<diskVars, fleetVars, mode, setVars, pending, log, flushVars,
                   electVars, budgets>>

\* No re-election is in flight and there are replicas: queue the record.  A
\* call that was waiting out a re-election when stop() began still gets here.
AppendQueue(r) ==
    /\ rec[r] = "waiting" \/ (rec[r] = "new" /\ mode \in {"up", "stopping"})
    /\ ~Electing
    /\ replicas # {}
    /\ pending' = Append(pending, r)
    /\ rec' = [rec EXCEPT ![r] = "pending"]
    /\ UNCHANGED <<diskVars, fleetVars, mode, setVars, log, flushVars, electVars,
                   budgets>>

\* No replicas: ask for one re-election and wait for it.
AppendWait(r) ==
    /\ rec[r] = "new" /\ mode = "up"
    /\ ~Electing
    /\ replicas = {}
    /\ rec' = [rec EXCEPT ![r] = "waiting"]
    /\ Reconfigure
    /\ UNCHANGED <<diskVars, fleetVars, mode, setVars, pending, log, flushVars,
                   ephase, reelectionNeeded, seedVars, budgets>>

\* Still no replicas after it: the change is refused.
AppendRefuse(r) ==
    /\ rec[r] = "waiting"
    /\ ~Electing
    /\ replicas = {}
    /\ rec' = [rec EXCEPT ![r] = "refused"]
    /\ UNCHANGED <<diskVars, fleetVars, mode, setVars, pending, log, flushVars,
                   electVars, budgets>>

-----------------------------------------------------------------------------
\* flush()

\* Mutant: a flush waits until no re-election is in flight.
FlushStartAfterElection ==
    /\ mode # "down" /\ ~Electing
    /\ fphase = "idle" /\ pending # <<>>
    /\ fphase' = "write"
    /\ batch' = pending /\ pending' = <<>>
    /\ left' = open /\ durable' = {}
    /\ before' = [v \in Vol |-> Len(disk[v][segment])]
    /\ UNCHANGED <<diskVars, fleetVars, mode, setVars, rec, log, electVars,
                   budgets>>

\* Mutant: the queue is not emptied when its batch is taken.
FlushStartKeepsQueue ==
    /\ mode # "down"
    /\ fphase = "idle" /\ pending # <<>>
    /\ fphase' = "write"
    /\ batch' = pending /\ pending' = pending
    /\ left' = open /\ durable' = {}
    /\ before' = [v \in Vol |-> Len(disk[v][segment])]
    /\ UNCHANGED <<diskVars, fleetVars, mode, setVars, rec, log, electVars,
                   budgets>>

\* Take the queue; remember where every open replica's file ends.  The timer,
\* a full batch, a draining re-election and stop() all end up here.
FlushStart ==
    /\ mode # "down"
    /\ fphase = "idle" /\ pending # <<>>
    /\ fphase' = "write"
    /\ batch' = pending /\ pending' = <<>>
    /\ left' = open /\ durable' = {}
    /\ before' = [v \in Vol |-> Len(disk[v][segment])]
    /\ UNCHANGED <<diskVars, fleetVars, mode, setVars, rec, log, electVars,
                   budgets>>

\* One replica: write and fsync the batch.
FlushWrite(v) ==
    /\ fphase = "write" /\ v \in left
    /\ disk' = [disk EXCEPT ![v][segment] = @ \o Body(batch)]
    /\ left' = left \ {v} /\ durable' = durable \cup {v}
    /\ UNCHANGED <<present, fleetVars, mode, setVars, queueVars, fphase, batch,
                   before, electVars, budgets>>

\* One replica: the write is short, errors, or lands and cannot be fsynced.
\* Any prefix of the batch may be on the platter; the replica is closed and
\* leaves the set.
FlushFail(v, n) ==
    /\ fphase = "write" /\ v \in left
    /\ n \in 0 .. 2 * Len(batch) /\ (~ShortWrites => n % 2 = 0)
    /\ disk' = [disk EXCEPT ![v][segment] = @ \o SubSeq(Body(batch), 1, n)]
    /\ left' = left \ {v}
    /\ replicas' = replicas \ {v} /\ open' = open \ {v}
    /\ reelectionNeeded' = TRUE
    /\ IF Mounted(v) THEN Fault(1) ELSE UNCHANGED budgets
    /\ UNCHANGED <<present, fleetVars, mode, segment, queueVars, fphase, batch,
                   durable, before, ephase, queued, seedVars>>

\* What flush() does in its finally: the batch is settled, and a dropped
\* replica asks for a re-election.
FlushEnd(outcome) ==
    /\ fphase' = "idle" /\ batch' = <<>> /\ left' = {} /\ durable' = {}
    /\ before' = [v \in Vol |-> 0]
    /\ rec' = [r \in Rec |-> IF \E i \in 1 .. Len(batch) : batch[i] = r
                             THEN outcome ELSE rec[r]]

\* openSegments() on the volumes vs: roll back the torn tail and open for
\* append, creating the file; the ones in bad could not be opened.
OpenSegments(vs, bad, s) ==
    /\ disk' = [v \in Vol |->
                  IF v \in vs \ bad
                  THEN [disk[v] EXCEPT ![s] = RollBackTornTail(@)] ELSE disk[v]]
    /\ present' = [v \in Vol |->
                  IF v \in vs \ bad THEN present[v] \cup {s} ELSE present[v]]

\* rotateIfNeeded() looks at every open replica's size.
Full == \E v \in open : Len(disk[v][segment]) >= SegmentBytes

\* At least one replica has the batch: acknowledge it.
FlushAck ==
    /\ fphase = "write" /\ left = {} /\ durable # {}
    /\ ~(Full /\ segment < MaxSegment)
    /\ FlushEnd("acked")
    /\ log' = log \o batch
    /\ queued' = (queued \/ (reelectionNeeded /\ mode # "stopping"))
    /\ UNCHANGED <<diskVars, fleetVars, mode, setVars, pending, ephase,
                   reelectionNeeded, seedVars, budgets>>

\* ... and rotate: close everything and open the next segment on every replica,
\* a handle-less one included; those that do not open leave the set.
FlushAckRotate(bad) ==
    /\ fphase = "write" /\ left = {} /\ durable # {}
    /\ Full /\ segment < MaxSegment
    /\ bad \subseteq replicas
    /\ {v \in replicas : ~Mounted(v)} \subseteq bad
    /\ FlushEnd("acked")
    /\ log' = log \o batch
    /\ segment' = segment + 1
    /\ IF mode = "stopping"
       THEN /\ open' = {} /\ UNCHANGED <<diskVars, replicas, reelectionNeeded, queued, budgets>>
       ELSE /\ OpenSegments(replicas, bad, segment + 1)
            /\ replicas' = replicas \ bad /\ open' = replicas \ bad
            /\ reelectionNeeded' = (reelectionNeeded \/ bad # {})
            /\ queued' = (queued \/ reelectionNeeded')
            /\ Fault(Cardinality({v \in bad : Mounted(v)}))
    /\ UNCHANGED <<fleetVars, mode, pending, ephase, seedVars>>

\* Nobody has it: roll every replica that was open back to where it was.
FlushReject ==
    /\ fphase = "write" /\ left = {} /\ durable = {}
    /\ fphase' = "rollback"
    /\ left' = {v \in Vol : before[v] < Len(disk[v][segment])}
    /\ UNCHANGED <<diskVars, fleetVars, mode, setVars, queueVars, batch, durable,
                   before, electVars, budgets>>

\* truncateSegmentTo() on one volume.  Under the mount point of a volume that is
\* gone the file does not exist, and that counts as rolled back.
Rollback(v) ==
    /\ fphase = "rollback" /\ v \in left
    /\ left' = left \ {v}
    /\ disk' = IF Mounted(v)
               THEN [disk EXCEPT ![v][segment] = TruncateTo(@, before[v])] ELSE disk
    /\ UNCHANGED <<present, fleetVars, mode, setVars, queueVars, fphase, batch,
                   durable, before, electVars, budgets>>

\* The truncation fails before it did anything; the volume is "stuck".  It has
\* failed its write already, so this is no fault of its own.
RollbackStuck(v) ==
    /\ fphase = "rollback" /\ v \in left /\ Mounted(v)
    /\ left' = left \ {v}
    /\ UNCHANGED <<diskVars, fleetVars, mode, setVars, queueVars, fphase, batch,
                   durable, before, electVars, budgets>>

FlushRejected ==
    /\ fphase = "rollback" /\ left = {}
    /\ FlushEnd("rejected")
    /\ queued' = (queued \/ (reelectionNeeded /\ mode # "stopping"))
    /\ UNCHANGED <<diskVars, fleetVars, mode, setVars, pending, log, ephase,
                   reelectionNeeded, seedVars, budgets>>

-----------------------------------------------------------------------------
\* reconfigureOnce()

GroupsOf(vs) == {Group[v] : v \in vs}

\* chooseReplicas(): as many as wanted, spread over as many bus groups as there
\* are, keeping a current replica in every group that has one.  Any set that
\* some candidate order produces.
ChooseReplicas ==
    LET candidates == {v \in Vol : Writable(v)}
        current    == candidates \cap replicas
    IN {c \in SUBSET candidates :
          /\ Cardinality(c) = Smaller(JournalReplicas, Cardinality(candidates))
          /\ Cardinality(GroupsOf(c))
               = Smaller(JournalReplicas, Cardinality(GroupsOf(candidates)))
          /\ Cardinality(GroupsOf(c \cap current))
               = Smaller(JournalReplicas, Cardinality(GroupsOf(current)))}

\* reconfigureOnce() returns and its locals are gone.
EndElection ==
    /\ ephase' = "idle"
    /\ chosen' = {} /\ listed' = {} /\ sources' = {} /\ lineage' = {}
    /\ todo' = {} /\ target' = None /\ from' = {} /\ adopted' = {}

\* The request is spent; the queue is drained before the set is touched.
ElectBegin ==
    /\ mode # "down"
    /\ ephase = "idle" /\ queued
    /\ ephase' = "drain" /\ queued' = FALSE /\ reelectionNeeded' = FALSE
    /\ UNCHANGED <<diskVars, fleetVars, mode, setVars, queueVars, flushVars,
                   seedVars, budgets>>

\* Choose the new set and close the handles of unmounted replicas.  A replica
\* that is still open is the source; with none, the platters are searched.
ElectChoose(c) ==
    /\ ephase = "drain" /\ fphase = "idle" /\ pending = <<>>
    /\ c \in ChooseReplicas
    /\ chosen' = c
    /\ open' = {v \in open : Mounted(v)}
    /\ IF open' # {}
       THEN /\ ephase' = "lineage" /\ listed' = {}
            /\ \E v \in open' : sources' = {v}
       ELSE /\ ephase' = "scan" /\ sources' = {}
            /\ listed' = {v \in Vol : Mounted(v)}
    /\ UNCHANGED <<diskVars, fleetVars, mode, replicas, segment, queueVars,
                   flushVars, queued, reelectionNeeded, lineage, todo, target,
                   from, adopted, budgets>>

\* A volume whose journal directory can testify: mounted, some segment holds
\* bytes, and the first segment is there.  One that was unmounted since the
\* listing is read as an empty directory.
HasHistory(v) ==
    /\ Mounted(v)
    /\ 0 \in present[v]
    /\ \E s \in Seg : disk[v][s] # <<>>

\* sameLineage() on the lowest segment both volumes have (both have the first).
SameLineage(v, w) == AgreeOnPrefix(disk[v][0], disk[w][0])

\* majorityLineage(): every candidate joins the class of a representative it
\* agrees with; representatives disagree with each other.
Lineages(found) ==
    {f \in [found -> found] :
        /\ \A v \in found : f[f[v]] = f[v] /\ SameLineage(f[v], v)
        /\ \A v, w \in found : f[v] # f[w] => ~SameLineage(f[v], f[w])}
Class(f, v) == {w \in DOMAIN f : f[w] = f[v]}
LargestClass(f, v) ==
    \A w \in DOMAIN f : f[w] # f[v] => Cardinality(Class(f, w)) < Cardinality(Class(f, v))

\* listSegmentSizes() throws for these volumes.
Unlistable(bad) ==
    /\ bad \subseteq {v \in listed : Mounted(v)}
    /\ ListingFails \/ bad = {}
    /\ Fault(Cardinality(bad))

\* Search the platters: unmounted volumes and the ones in bad are unknown, not
\* empty.  The largest lineage is the source.
ElectScan(bad) ==
    /\ ephase = "scan"
    /\ Unlistable(bad)
    /\ \E f \in Lineages({v \in listed \ bad : HasHistory(v)}) :
         \E v \in DOMAIN f : LargestClass(f, v) /\ sources' = Class(f, v)
    /\ ephase' = "lineage" /\ listed' = {}
    /\ UNCHANGED <<diskVars, fleetVars, mode, setVars, queueVars, flushVars,
                   queued, reelectionNeeded, chosen, lineage, todo, target, from,
                   adopted>>

\* No history anywhere and every volume could be read: a first start.
ElectScanEmpty ==
    /\ ephase = "scan"
    /\ \A v \in listed : ~HasHistory(v)
    /\ \A v \in Vol : v \in listed \/ status[v] = "deleted"
    /\ sources' = {}
    /\ ephase' = "lineage" /\ listed' = {}
    /\ UNCHANGED <<diskVars, fleetVars, mode, setVars, queueVars, flushVars,
                   queued, reelectionNeeded, chosen, lineage, todo, target, from,
                   adopted, budgets>>

\* A tie between lineages, or no history found and a volume that could not be
\* read: run with no replicas.
ElectAmbiguous(bad) ==
    /\ ephase = "scan"
    /\ Unlistable(bad)
    /\ LET found == {v \in listed \ bad : HasHistory(v)}
       IN \/ \E f \in Lineages(found) :
                found # {} /\ \A v \in found : ~LargestClass(f, v)
          \/ /\ found = {}
             /\ bad # {} \/ \E v \in Vol \ listed : status[v] # "deleted"
    /\ replicas' = {} /\ open' = {}
    /\ EndElection
    /\ UNCHANGED <<diskVars, fleetVars, mode, segment, queueVars, flushVars,
                   queued, reelectionNeeded>>

\* List the lineage's segments; every chosen volume without an open handle is to
\* be seeded.
ElectLineage ==
    /\ ephase = "lineage"
    /\ lineage' = UNION {present[v] : v \in {w \in sources : Mounted(w)}}
    /\ todo' = chosen \ open
    /\ adopted' = {} /\ target' = None /\ from' = {}
    /\ ephase' = "seed"
    /\ UNCHANGED <<diskVars, fleetVars, mode, setVars, queueVars, flushVars,
                   queued, reelectionNeeded, chosen, listed, sources, budgets>>

\* That listing throws, and with it the whole re-election: the set is left as it
\* was, replicas whose handle was just closed included.
ElectLineageFails ==
    /\ ListingFails
    /\ ephase = "lineage" /\ \E v \in sources : Mounted(v)
    /\ Fault(1)
    /\ EndElection
    /\ UNCHANGED <<diskVars, fleetVars, mode, setVars, queueVars, flushVars,
                   queued, reelectionNeeded>>

\* Non-empty segments that the lineage does not have.
Foreign(v) == {s \in present[v] : disk[v][s] # <<>>} \ lineage

\* The volume holds somebody else's journal, or cannot be listed.
SeedRefuse(v) ==
    /\ ephase = "seed" /\ target = None /\ v \in todo
    /\ \/ Mounted(v) /\ Foreign(v) # {} /\ UNCHANGED budgets
       \/ Mounted(v) /\ Foreign(v) = {} /\ ListingFails /\ Fault(1)
    /\ todo' = todo \ {v}
    /\ UNCHANGED <<diskVars, fleetVars, mode, setVars, queueVars, flushVars,
                   ephase, queued, reelectionNeeded, chosen, listed, sources,
                   lineage, target, from, adopted>>

\* Mutant: the new replica is adopted without its history.
SeedNothing(v) ==
    /\ ephase = "seed" /\ target = None /\ v \in todo
    /\ todo' = todo \ {v}
    /\ target' = v /\ from' = {}
    /\ UNCHANGED <<diskVars, fleetVars, mode, setVars, queueVars, flushVars,
                   ephase, queued, reelectionNeeded, chosen, listed, sources,
                   lineage, adopted, budgets>>

SeedBegin(v) ==
    /\ ephase = "seed" /\ target = None /\ v \in todo
    /\ Mounted(v) => Foreign(v) = {}
    /\ todo' = todo \ {v}
    /\ target' = v /\ from' = sources \ {v}
    /\ UNCHANGED <<diskVars, fleetVars, mode, setVars, queueVars, flushVars,
                   ephase, queued, reelectionNeeded, chosen, listed, sources,
                   lineage, adopted, budgets>>

\* Mutant: the copy does not ask which file is longer.
CopiedAlways(w, v) == [s \in Seg |-> IF s \in present[w] THEN disk[w][s] ELSE disk[v][s]]

\* copySegments() from w to v: a segment is copied when the target's is shorter.
Copied(w, v) ==
    [s \in Seg |-> IF Len(disk[v][s]) < Len(disk[w][s]) THEN disk[w][s] ELSE disk[v][s]]
Agree(w, v) == \A s \in present[w] \cap present[v] : AgreeOnPrefix(disk[w][s], disk[v][s])

SeedCopy(w) ==
    /\ ephase = "seed" /\ target # None /\ w \in from
    /\ Mounted(w) /\ present[w] # {} /\ Mounted(target) /\ Agree(w, target)
    /\ disk' = [disk EXCEPT ![target] = Copied(w, target)]
    /\ present' = [present EXCEPT ![target] = @ \cup present[w]]
    /\ from' = from \ {w}
    /\ UNCHANGED <<fleetVars, mode, setVars, queueVars, flushVars, ephase, queued,
                   reelectionNeeded, chosen, listed, sources, lineage, todo,
                   target, adopted, budgets>>

\* The copy stops at segment s with n bytes of it written: an I/O error, or a
\* segment that disagrees (nothing of that one is written), or a volume that is
\* gone.  copyFile() truncates its target first.  The volume is not adopted.
SeedCopyFail(w, s, n) ==
    /\ ephase = "seed" /\ target # None /\ w \in from
    /\ LET v == target
           reach  == Mounted(w) /\ Mounted(v) /\ present[w] # {}
           same(t) == AgreeOnPrefix(disk[w][t], disk[v][t])
           cut    == s \in present[w] /\ same(s) /\ Len(disk[v][s]) < Len(disk[w][s])
       IN /\ IF reach /\ Agree(w, v) THEN Fault(1) ELSE UNCHANGED budgets
          /\ \A t \in present[w] : t < s => same(t)
          /\ IF reach /\ cut THEN n \in 0 .. Len(disk[w][s]) - 1 ELSE n = 0
          /\ ~ShortWrites => n % 2 = 0
          /\ reach => s \in present[w]
          /\ ~reach => s = 0
          /\ reach /\ ~Agree(w, v) => ~same(s)
          /\ disk' = IF ~reach THEN disk ELSE
               [disk EXCEPT ![v] = [t \in Seg |->
                  CASE t < s -> Copied(w, v)[t]
                    [] t = s /\ cut -> SubSeq(disk[w][s], 1, n)
                    [] OTHER -> disk[v][t]]]
          /\ present' = IF ~reach THEN present ELSE
               [present EXCEPT ![v] = @ \cup {t \in present[w] : t < s \/ (t = s /\ cut)}]
    /\ reelectionNeeded' = TRUE
    /\ target' = None /\ from' = {}
    /\ UNCHANGED <<fleetVars, mode, setVars, queueVars, flushVars, ephase, queued,
                   chosen, listed, sources, lineage, todo, adopted>>

SeedAdopt ==
    /\ ephase = "seed" /\ target # None /\ from = {}
    /\ adopted' = adopted \cup {target} /\ target' = None
    /\ UNCHANGED <<diskVars, fleetVars, mode, setVars, queueVars, flushVars,
                   ephase, queued, reelectionNeeded, chosen, listed, sources,
                   lineage, todo, from, budgets>>

\* kept and adopted; the replicas the election leaves out but that still work.
NextSet   == (chosen \cap open) \cup adopted
Survivors == open \ chosen

\* Never retire the last copy to nowhere.
ElectKeep ==
    /\ ephase = "seed" /\ target = None /\ todo = {}
    /\ NextSet = {} /\ Survivors # {}
    /\ replicas' = Survivors
    /\ EndElection
    /\ UNCHANGED <<diskVars, fleetVars, mode, open, segment, queueVars, flushVars,
                   queued, reelectionNeeded, budgets>>

\* Mutant: the segment number in memory decides, not the lineage.
SegmentInMemory == segment

\* The highest segment of the lineage, and never backwards.
TopSegment ==
    LET named == UNION {present[v] : v \in {w \in sources : Mounted(w)}}
    IN CHOOSE s \in named \cup {segment} : \A t \in named \cup {segment} : t <= s

\* Retire the others and open the active segment on every new replica; if it
\* moved, on all of them.  stop() fences this off.
ElectOpen(bad) ==
    /\ ephase = "seed" /\ target = None /\ todo = {}
    /\ NextSet # {} \/ Survivors = {}
    /\ LET s == TopSegment
           opening == IF s = segment THEN NextSet \ open ELSE NextSet
       IN IF mode = "stopping"
          THEN /\ bad = {}
               /\ replicas' = NextSet /\ open' = NextSet \cap open
               /\ UNCHANGED <<diskVars, segment, reelectionNeeded, budgets>>
          ELSE /\ bad \subseteq opening
               /\ {v \in opening : ~Mounted(v)} \subseteq bad
               /\ Fault(Cardinality({v \in bad : Mounted(v)}))
               /\ OpenSegments(opening, bad, s)
               /\ segment' = s
               /\ replicas' = NextSet \ bad /\ open' = NextSet \ bad
               /\ reelectionNeeded' = (reelectionNeeded \/ bad # {})
    /\ EndElection
    /\ UNCHANGED <<fleetVars, mode, queueVars, flushVars, queued>>

\* The lineage cannot be listed again: which segment is active is unknown, so run
\* with no replicas.
ElectOpenFails ==
    /\ ListingFails
    /\ ephase = "seed" /\ target = None /\ todo = {}
    /\ NextSet # {} \/ Survivors = {}
    /\ mode # "stopping" /\ \E v \in sources : Mounted(v)
    /\ Fault(1)
    /\ replicas' = {} /\ open' = {}
    /\ EndElection
    /\ UNCHANGED <<diskVars, fleetVars, mode, segment, queueVars, flushVars,
                   queued, reelectionNeeded>>

-----------------------------------------------------------------------------
\* start(), stop(), the fleet, and crashes

Start ==
    /\ mode = "down"
    /\ mode' = "starting" /\ queued' = TRUE
    /\ UNCHANGED <<diskVars, fleetVars, setVars, queueVars, flushVars, ephase,
                   reelectionNeeded, seedVars, budgets>>

\* The first re-election is over.
Started ==
    /\ mode = "starting" /\ ~Electing
    /\ mode' = "up"
    /\ UNCHANGED <<diskVars, fleetVars, setVars, queueVars, flushVars, electVars,
                   budgets>>

Stop ==
    /\ mode = "up" /\ crashes < MaxCrashes
    /\ mode' = "stopping"
    /\ UNCHANGED <<diskVars, fleetVars, setVars, queueVars, flushVars, electVars,
                   budgets>>

\* What is left of the process when it is gone: the platters.  A caller still
\* waiting for its record never hears of it.
Forget ==
    /\ mode' = "down"
    /\ replicas' = {} /\ open' = {} /\ segment' = 0
    /\ pending' = <<>>
    /\ rec' = [r \in Rec |-> IF rec[r] \in {"waiting", "pending"} THEN "lost" ELSE rec[r]]
    /\ fphase' = "idle" /\ batch' = <<>> /\ left' = {} /\ durable' = {}
    /\ before' = [v \in Vol |-> 0]
    /\ EndElection /\ queued' = FALSE /\ reelectionNeeded' = FALSE
    /\ hook' = FALSE /\ cleared' = None
    /\ crashes' = crashes + 1
    /\ UNCHANGED <<diskVars, status, log, faults, moves>>

\* stop() has flushed the queue and closed the handles; the process exits, even
\* while a re-election that outlived its wait is still running.
Stopped ==
    /\ mode = "stopping" /\ fphase = "idle" /\ pending = <<>>
    /\ crashes < MaxCrashes
    /\ Forget

Crash ==
    /\ mode # "down" /\ crashes < MaxCrashes
    /\ Forget

\* A volume is mounted, unmounted, or made read-only and back.
FleetMove(v, s) ==
    /\ status[v] # "deleted" /\ s # status[v]
    /\ s \in {"rw", "ro"} \cup (IF Unmounts THEN {"off"} ELSE {})
    /\ moves < MaxMoves /\ moves' = moves + 1
    /\ status' = [status EXCEPT ![v] = s]
    /\ hook' = (mode # "down")
    /\ UNCHANGED <<diskVars, cleared, mode, setVars, queueVars, flushVars,
                   electVars, faults, crashes>>

\* The hook of the I/O manager and the device reconciler: fire and forget, some
\* time after the change.  Before start() has finished it does nothing.
OnFleetChange ==
    /\ hook /\ hook' = FALSE
    /\ queued' = (queued \/ mode = "up")
    /\ UNCHANGED <<diskVars, status, cleared, mode, setVars, queueVars, flushVars,
                   ephase, reelectionNeeded, seedVars, budgets>>

\* Mutant: another file of the same name is good enough.
SameNameElsewhere(v) ==
    \A s \in present[v] : \E w \in Vol \ {v} : Mounted(w) /\ s \in present[w]

\* assertNotLastCopy(): of a mounted volume, every segment must be a prefix of
\* the same segment on another mounted volume that is not deleted; of an
\* unmounted one, some other open replica vouches.
NotLastCopy(v) ==
    IF Mounted(v)
    THEN \A s \in present[v] : \E w \in Vol \ {v} :
            /\ Mounted(w) /\ s \in present[w]
            /\ Len(disk[w][s]) >= Len(disk[v][s])
            /\ AgreeOnPrefix(disk[v][s], disk[w][s])
    ELSE \E w \in open \ {v} : Mounted(w)

\* DELETE of a volume: the check, and later the soft delete.  The encryption
\* slot lets one through at a time.
RemoveCheck(v) ==
    /\ Removals /\ mode = "up" /\ moves < MaxMoves
    /\ cleared = None /\ status[v] # "deleted"
    /\ NotLastCopy(v)
    /\ cleared' = v /\ moves' = moves + 1
    /\ UNCHANGED <<diskVars, status, hook, mode, setVars, queueVars, flushVars,
                   electVars, faults, crashes>>

RemoveCommit ==
    /\ mode = "up" /\ cleared # None
    /\ status' = [status EXCEPT ![cleared] = "deleted"]
    /\ cleared' = None /\ hook' = TRUE
    /\ UNCHANGED <<diskVars, mode, setVars, queueVars, flushVars, electVars,
                   budgets>>

-----------------------------------------------------------------------------
AppendNext == \E r \in Rec :
                AppendSkipped(r) \/ AppendQueue(r) \/ AppendWait(r) \/ AppendRefuse(r)

FlushNext ==
    \/ FlushStart \/ FlushAck \/ FlushReject \/ FlushRejected
    \/ \E v \in Vol : FlushWrite(v) \/ Rollback(v) \/ RollbackStuck(v)
    \/ \E v \in left : \E n \in 0 .. 2 * Len(batch) : FlushFail(v, n)
    \/ \E bad \in SUBSET replicas : FlushAckRotate(bad)

ElectNext ==
    \/ ElectBegin \/ ElectScanEmpty \/ ElectLineage \/ ElectLineageFails
    \/ SeedAdopt \/ ElectKeep \/ ElectOpenFails
    \/ \E c \in SUBSET Vol : ElectChoose(c)
    \/ \E bad \in SUBSET listed : ElectScan(bad) \/ ElectAmbiguous(bad)
    \/ \E v \in todo : SeedRefuse(v) \/ SeedBegin(v)
    \/ \E w \in from : SeedCopy(w)
    \/ \E w \in from : \E s \in Seg :
         \E n \in 0 .. Len(disk[w][s]) : SeedCopyFail(w, s, n)
    \/ \E bad \in SUBSET NextSet : ElectOpen(bad)

FleetNext ==
    \/ Start \/ Started \/ Stop \/ Stopped \/ Crash \/ OnFleetChange
    \/ \E v \in Vol, s \in Status : FleetMove(v, s)
    \/ \E v \in Vol : RemoveCheck(v)
    \/ RemoveCommit

Next == AppendNext \/ FlushNext \/ ElectNext \/ FleetNext

Spec == Init /\ [][Next]_vars

\* The event loop keeps running: timers fire, I/O completes or fails, a waiting
\* append() resumes in the microtask after the re-election it waits for, before
\* the loop can begin another one (hence strong fairness), hooks are called.
Fairness ==
    /\ WF_vars(FlushNext) /\ WF_vars(ElectNext) /\ WF_vars(OnFleetChange)
    /\ \A r \in Rec \ Old : SF_vars(rec[r] = "waiting" /\ (AppendQueue(r) \/ AppendRefuse(r)))

FairSpec == Spec /\ Fairness

-----------------------------------------------------------------------------
\* Properties

\* A line on a platter is whole or is the torn tail of its file: no record is
\* ever glued onto a fragment, whatever short writes, interrupted copies and
\* crashes came before (what rollBackTornTail() is for).
NoGluedRecord ==
    \A v \in Vol, s \in Seg : \A i \in 1 .. Len(disk[v][s]) :
        IF disk[v][s][i][2] = "text"
        THEN i = Len(disk[v][s]) \/ disk[v][s][i + 1] = <<disk[v][s][i][1], "newline">>
        ELSE i > 1 /\ disk[v][s][i - 1] = <<disk[v][s][i][1], "text">>

\* A record append() resolved for is complete on some platter, across failed
\* rollbacks, re-elections, interrupted seeds, restarts and removals.
AckedDurable == \A r \in Rec : rec[r] = "acked" => \E v \in Vol : OnDisk(v, r)

\* A removal that assertNotLastCopy() lets through costs no record: whatever the
\* volume, if it can be read, holds of the acknowledged history is on another
\* volume of the fleet.
RemovalCheckSound ==
    [][cleared' # cleared /\ cleared' # None /\ Mounted(cleared') =>
         \A r \in Rec : rec[r] = "acked" /\ OnDisk(cleared', r) =>
            \E w \in Vol \ {cleared'} : status[w] # "deleted" /\ OnDisk(w, r)]_vars

\* The journal rests: no batch is being written, no replica being seeded.
Settled == fphase = "idle" /\ ephase \in {"idle", "drain"}

\* Every open replica holds the same history, so one of them is source enough.
LiveReplicasAgree ==
    Settled => \A v, w \in open : disk[v] = disk[w] /\ present[v] = present[w]

\* Every open replica holds every record ever acknowledged.
AckedOnLiveReplicas ==
    Settled => \A r \in Rec : rec[r] = "acked" => \A v \in open : OnDisk(v, r)

\* A caller of append() is never left hanging: its record is acknowledged,
\* rejected or refused, or the process dies.
AppendSettles ==
    \A r \in Rec \ Old : rec[r] \in {"waiting", "pending"}
                    ~> rec[r] \in {"acked", "rejected", "refused", "lost"}

\* Position of a record's line on a volume: segment, then offset.
Precedes(v, r1, r2) ==
    \E s1, s2 \in Seg : \E i \in 1 .. Len(disk[v][s1]), j \in 1 .. Len(disk[v][s2]) :
        /\ disk[v][s1][i] = <<r1, "newline">> /\ disk[v][s2][j] = <<r2, "newline">>
        /\ s1 < s2 \/ (s1 = s2 /\ i < j)

\* A replay of any platter meets the acknowledged records in the order in which
\* they were acknowledged: a del never comes before the put it undoes.
ReplayOrder ==
    \A i, j \in 1 .. Len(log) : i < j =>
        \A v \in Vol : ~Precedes(v, log[j], log[i])

\* What is on the platters is a log: the state is well formed, no line is made
\* of two records, and no acknowledged record is gone from all of them.
LogSound == TypeOK /\ NoGluedRecord /\ AckedDurable

\* Between flushes and elections the open replicas hold one history, and all of
\* it: any of them can seed the next one.
Lockstep == LiveReplicasAgree /\ AckedOnLiveReplicas

\* The log behind append(): whoever is "pending" waits in the batch or behind it,
\* and what a replay finds is what some platter has a whole line of.
Log == INSTANCE AppendLog WITH
         asked <- {r \in Rec : rec[r] \notin {"new", "waiting"}},
         queue <- batch \o pending,
         kept  <- {r \in Rec : \E v \in Vol : OnDisk(v, r)}

\* Group commit, rollback, rotation, election, seeding and crashes implement that
\* log: records are answered in the order they were queued, acknowledged only when
\* a platter has them and then kept, and one that was answered or lost without
\* being on a platter never turns up.
ImplementsLog == Log!Spec
=============================================================================
