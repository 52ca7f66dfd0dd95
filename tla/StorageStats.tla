---------------------------- MODULE StorageStats ----------------------------
(***************************************************************************)
(* The storage statistics: counters cached in one document, kept up to     *)
(* date by deltas that are collected in memory and flushed now and then    *)
(* (storage/stats-tracker.ts, storage/stats.ts), and recomputed from the   *)
(* object records by a reconcile (database/content-repository.ts).         *)
(*                                                                         *)
(* A row changes in the database first and is counted by its caller after  *)
(* that; a reconcile asks the database several questions one after the     *)
(* other; a flush and a reconcile may meet, fail, or lose the database's   *)
(* answer.  Counters: objects, unavailable objects, objects per volume.    *)
(* The byte and slice counters move with the object counters and are left  *)
(* out.                                                                    *)
(***************************************************************************)
EXTENDS Integers, FiniteSets, FiniteSetsExt, SequencesExt

CONSTANTS
    Objects, Volumes,
    Width,       \* the slices of an object, each on a volume of its own
    DataSlices,  \* how many of them are needed to read it
    MaxAttempts, \* the passes a reconcile makes at most (3 in the code)
    MaxOps,      \* bound: object changes, volumes coming and going, operator recounts, shutdowns
    MaxFaults    \* bound: failed commands, lost answers, crashes

ASSUME StatsAssumption ==
    /\ IsFiniteSet(Objects) /\ IsFiniteSet(Volumes)
    /\ Width \in 1 .. Cardinality(Volumes) /\ DataSlices \in 1 .. Width
    /\ MaxAttempts \in Nat \ {0} /\ MaxOps \in Nat /\ MaxFaults \in Nat

VARIABLES
    content,  \* content[o]: the volumes of o's slices, {} when there is no such row
    readable, \* the volumes that can be read
    cache,    \* the document: doc (there is one), counters, known (volumes with an entry), seen (readableVolumeIds)
    pending,  \* the deltas not flushed yet
    timer,    \* flushTimer is set
    flight,   \* the flush in flight: its delta, whether it is applied, who awaits it; whether stop() has
              \* made its last flush, and left something behind
    rec,      \* the reconcile in flight
    ref,      \* the refresh of the unavailable counter in flight
    job,      \* job[o]: the PUT or DELETE of o in flight
    mover,    \* the relocation in flight
    up,       \* "down", "up" or "stopping"
    periodic, \* the configuration has a reconcile interval
    used      \* what has happened so far

vars == <<content, readable, cache, pending, timer, flight, rec, ref, job, mover, up, periodic, used>>

Zero == [n |-> 0, un |-> 0, vol |-> [v \in Volumes |-> 0]]
NoDoc == [doc |-> FALSE, c |-> Zero, known |-> {}, seen |-> {"unset"}]
NoFlight == [on |-> FALSE, delta |-> Zero, applied |-> FALSE, timer |-> FALSE, rec |-> FALSE, stop |-> "no"]
NoRec == [pc |-> "idle", attempt |-> 0, moved |-> FALSE, readable |-> {}, snap |-> NoDoc, left |-> Zero]
NoRef == [pc |-> "idle", readable |-> {}, un |-> 0]
NoJob == [pc |-> "idle", at |-> {}]
NoMove == [from |-> {}, to |-> {}]
Placements == kSubset(Width, Volumes)

May(kind, limit) == used[kind] < limit
Use(kind) == used' = [used EXCEPT ![kind] = @ + 1]

-----------------------------------------------------------------------------
(* Counters and deltas.                                                    *)

mergeStorageStatsDelta(a, b) ==
    [n |-> a.n + b.n, un |-> a.un + b.un, vol |-> [v \in Volumes |-> a.vol[v] + b.vol[v]]]

objectIsUnavailable(at, avail) == Cardinality(at \cap avail) < DataSlices

buildStorageStatsDeltaForObject(at, dir, avail) ==
    [n |-> dir, un |-> IF objectIsUnavailable(at, avail) THEN dir ELSE 0,
     vol |-> [v \in Volumes |-> IF v \in at THEN dir ELSE 0]]

\* The system counters do not move, the two volumes' do.
buildStorageStatsDeltaForRelocation(from, to) ==
    [Zero EXCEPT !.vol = [v \in Volumes |-> (IF v \in to THEN 1 ELSE 0) - (IF v \in from THEN 1 ELSE 0)]]

Rows == {o \in Objects : content[o] # {}}
CountSystem == Cardinality(Rows)
CountVolumes == [v \in Volumes |-> Cardinality({o \in Rows : v \in content[o]})]
\* Objects with more slices on unreadable volumes that we know of than they can spare.
computeUnavailableStorageStats(known, avail) ==
    Cardinality({o \in Rows : Cardinality(content[o] \cap (known \ avail)) > Width - DataSlices})

applyDelta(c, delta) ==
    IF delta = Zero THEN c
    ELSE [c EXCEPT !.doc = TRUE, !.c = mergeStorageStatsDelta(@, delta),
                   !.known = @ \cup {v \in Volumes : delta.vol[v] # 0}]

\* A counter below zero, of the system or of a volume.
hasImpossibleCounters(c) == c.n < 0 \/ c.un < 0 \/ \E v \in Volumes : c.vol[v] < 0

-----------------------------------------------------------------------------
(* Objects come, go and move; each change is counted one step after it.    *)

\* recordDelta: nothing is counted unless the tracker runs.
recordDelta(delta) ==
    IF up = "up"
    THEN /\ pending' = mergeStorageStatsDelta(pending, delta)
         /\ timer' = TRUE
         /\ rec' = [rec EXCEPT !.moved = rec.pc # "idle"]
    ELSE UNCHANGED <<pending, timer, rec>>

\* FileObject.commit: the row is inserted.
createObjectRecord(o, at) ==
    /\ up = "up" /\ May("ops", MaxOps) /\ Use("ops")
    /\ job[o].pc = "idle" /\ content[o] = {}
    /\ content' = [content EXCEPT ![o] = at]
    /\ job' = [job EXCEPT ![o] = [pc |-> "created", at |-> at]]
    /\ UNCHANGED <<readable, cache, pending, timer, flight, rec, ref, mover, up, periodic>>

\* FileObject.delete: the record is loaded, and later its row is deleted.
loadForDelete(o) ==
    /\ up = "up" /\ May("ops", MaxOps) /\ Use("ops")
    /\ job[o].pc = "idle" /\ content[o] # {}
    /\ job' = [job EXCEPT ![o] = [pc |-> "loaded", at |-> content[o]]]
    /\ UNCHANGED <<content, readable, cache, pending, timer, flight, rec, ref, mover, up, periodic>>

deleteObjectById(o) ==
    /\ job[o].pc = "loaded"
    /\ content' = [content EXCEPT ![o] = {}]
    /\ job' = [job EXCEPT ![o].pc = "deleted"]
    /\ UNCHANGED <<readable, cache, pending, timer, flight, rec, ref, mover, up, periodic, used>>

recordCreated(o) ==
    /\ job[o].pc = "created"
    /\ recordDelta(buildStorageStatsDeltaForObject(job[o].at, 1, readable))
    /\ job' = [job EXCEPT ![o] = NoJob]
    /\ UNCHANGED <<content, readable, cache, flight, ref, mover, up, periodic, used>>

recordDeleted(o) ==
    /\ job[o].pc = "deleted"
    /\ recordDelta(buildStorageStatsDeltaForObject(job[o].at, -1, readable))
    /\ job' = [job EXCEPT ![o] = NoJob]
    /\ UNCHANGED <<content, readable, cache, flight, ref, mover, up, periodic, used>>

\* Drain and rebalance: one reference of the row is flipped from one volume to another.
replaceObjectVolumeRef(o, from, to) ==
    /\ up = "up" /\ May("ops", MaxOps) /\ Use("ops")
    /\ mover = NoMove
    /\ from \in content[o] /\ to \notin content[o]
    /\ content' = [content EXCEPT ![o] = (@ \ {from}) \cup {to}]
    /\ mover' = [from |-> {from}, to |-> {to}]
    /\ UNCHANGED <<readable, cache, pending, timer, flight, rec, ref, job, up, periodic>>

\* Mutant: a relocation does not count as a change to a reconcile in flight.
RelocatedUnseen ==
    /\ mover # NoMove
    /\ pending' = IF up = "up" THEN mergeStorageStatsDelta(pending, buildStorageStatsDeltaForRelocation(mover.from, mover.to))
                  ELSE pending
    /\ timer' = (timer \/ up = "up")
    /\ mover' = NoMove
    /\ UNCHANGED <<content, readable, cache, flight, rec, ref, job, up, periodic, used>>

recordRelocated ==
    /\ mover # NoMove
    /\ recordDelta(buildStorageStatsDeltaForRelocation(mover.from, mover.to))
    /\ mover' = NoMove
    /\ UNCHANGED <<content, readable, cache, flight, ref, job, up, periodic, used>>

ClientNext ==
    \/ \E o \in Objects : deleteObjectById(o) \/ recordCreated(o) \/ recordDeleted(o)
    \/ recordRelocated

-----------------------------------------------------------------------------
(* Flushing.                                                               *)

Launch(f) == flight' = [f EXCEPT !.on = TRUE, !.delta = pending] /\ pending' = Zero

\* The flush timer fires: not during a reconcile, and a flush in flight is awaited instead.
flush ==
    /\ timer /\ up = "up"
    /\ \/ /\ rec.pc # "idle"                       \* scheduleFlush again
          /\ UNCHANGED <<timer, flight, pending>>
       \/ /\ rec.pc = "idle" /\ flight.on
          /\ timer' = FALSE /\ flight' = [flight EXCEPT !.timer = TRUE] /\ UNCHANGED pending
       \/ /\ rec.pc = "idle" /\ ~flight.on
          /\ timer' = FALSE
          /\ IF pending = Zero THEN UNCHANGED <<flight, pending>> ELSE Launch([NoFlight EXCEPT !.timer = TRUE])
    /\ UNCHANGED <<content, readable, cache, rec, ref, job, mover, up, periodic, used>>

applyStorageStatsDelta ==
    /\ flight.on /\ ~flight.applied
    /\ cache' = applyDelta(cache, flight.delta)
    /\ flight' = [flight EXCEPT !.applied = TRUE]
    /\ UNCHANGED <<content, readable, pending, timer, rec, ref, job, mover, up, periodic, used>>

\* The reconcile that awaited the flush goes on, or is rejected with it.
RecAfterFlush(ok) ==
    rec' = CASE ~flight.rec -> rec
             [] flight.rec /\ ok -> [rec EXCEPT !.pc = "system", !.moved = FALSE, !.readable = readable, !.left = pending]
             [] OTHER -> NoRec

flushDone ==
    /\ flight.on /\ flight.applied
    /\ flight' = [NoFlight EXCEPT !.stop = flight.stop]
    /\ RecAfterFlush(TRUE)
    /\ UNCHANGED <<content, readable, cache, pending, timer, ref, job, mover, up, periodic, used>>

\* Mutant: a delta whose flush fails is dropped.
FailDropsDelta ==
    /\ flight.on /\ May("faults", MaxFaults) /\ Use("faults")
    /\ flight' = [NoFlight EXCEPT !.stop = flight.stop]
    /\ timer' = (timer \/ (flight.timer /\ up = "up"))
    /\ RecAfterFlush(FALSE)
    /\ UNCHANGED <<content, readable, cache, pending, ref, job, mover, up, periodic>>

\* The command failed, or it was applied and the answer was lost: the delta goes back.  Only the flush
\* timer's callback sets the timer again.
flushFails ==
    /\ flight.on /\ May("faults", MaxFaults) /\ Use("faults")
    /\ pending' = mergeStorageStatsDelta(pending, flight.delta)
    /\ flight' = [NoFlight EXCEPT !.stop = IF flight.stop # "no" \/ (flight.rec /\ up = "stopping") THEN "late" ELSE "no"]
    /\ timer' = (timer \/ (flight.timer /\ up = "up"))
    /\ RecAfterFlush(FALSE)
    /\ UNCHANGED <<content, readable, cache, ref, job, mover, up, periodic>>

FlushNext == flush \/ applyStorageStatsDelta \/ flushDone

-----------------------------------------------------------------------------
(* The reconcile.                                                          *)

Beginning == [NoRec EXCEPT !.pc = "flush", !.attempt = 1]

\* Mutant: the interval is not set, only the first reconcile is made.
TickOnlyFirst ==
    /\ up = "up" /\ rec.pc = "idle" /\ periodic /\ ~cache.doc
    /\ rec' = Beginning
    /\ UNCHANGED <<content, readable, cache, pending, timer, flight, ref, job, mover, up, periodic, used>>

\* The reconcile timer, when there is one, and the operator's request.
reconcileTick ==
    /\ up = "up" /\ rec.pc = "idle" /\ periodic
    /\ rec' = Beginning
    /\ UNCHANGED <<content, readable, cache, pending, timer, flight, ref, job, mover, up, periodic, used>>

handleStorageStatsReconcileRequest ==
    /\ up = "up" /\ rec.pc = "idle" /\ May("ops", MaxOps) /\ Use("ops")
    /\ rec' = Beginning
    /\ UNCHANGED <<content, readable, cache, pending, timer, flight, ref, job, mover, up, periodic>>

\* flushPendingDeltas(true) and the backfill: a flush in flight is awaited, and what came after it stays pending.
reconcileFlush ==
    /\ rec.pc = "flush"
    /\ \/ /\ flight.on
          /\ flight' = [flight EXCEPT !.rec = TRUE]
          /\ rec' = [rec EXCEPT !.pc = "wait"]
          /\ UNCHANGED <<pending, timer>>
       \/ /\ ~flight.on /\ pending = Zero
          /\ timer' = FALSE
          /\ rec' = [rec EXCEPT !.pc = "system", !.moved = FALSE, !.readable = readable, !.left = Zero]
          /\ UNCHANGED <<pending, flight>>
       \/ /\ ~flight.on /\ pending # Zero
          /\ timer' = FALSE
          /\ Launch([NoFlight EXCEPT !.rec = TRUE])
          /\ rec' = [rec EXCEPT !.pc = "wait"]
    /\ UNCHANGED <<content, readable, cache, ref, job, mover, up, periodic, used>>

\* computeStorageStats asks for the system's counters, the volumes', the unavailable objects, in this order.
computeStorageStats ==
    /\ \/ /\ rec.pc = "system"
          /\ rec' = [rec EXCEPT !.pc = "volumes", !.snap = [NoDoc EXCEPT !.doc = TRUE, !.c.n = CountSystem]]
       \/ /\ rec.pc = "volumes"
          /\ rec' = [rec EXCEPT !.pc = "unavailable", !.snap.c.vol = CountVolumes,
                                !.snap.known = {v \in Volumes : CountVolumes[v] > 0}]
       \/ /\ rec.pc = "unavailable"
          /\ rec' = [rec EXCEPT !.pc = "replace",
                        !.snap.c.un = computeUnavailableStorageStats(rec.snap.known, rec.readable),
                        !.snap.seen = rec.readable]
    /\ UNCHANGED <<content, readable, cache, pending, timer, flight, ref, job, mover, up, periodic, used>>

\* replaceStorageStats, and another pass when something was counted in the meantime.
replaceStorageStats ==
    /\ rec.pc = "replace"
    /\ cache' = rec.snap
    /\ rec' = IF rec.moved /\ rec.attempt < MaxAttempts
              THEN [Beginning EXCEPT !.attempt = rec.attempt + 1] ELSE NoRec
    /\ UNCHANGED <<content, readable, pending, timer, flight, ref, job, mover, up, periodic, used>>

\* One of its commands fails; a stop() that awaits it is rejected before its last flush.
reconcileFails ==
    /\ rec.pc \in {"system", "volumes", "unavailable", "replace"} /\ May("faults", MaxFaults) /\ Use("faults")
    /\ rec' = NoRec
    /\ flight' = IF up = "stopping" THEN [flight EXCEPT !.stop = "late"] ELSE flight
    /\ UNCHANGED <<content, readable, cache, pending, timer, ref, job, mover, up, periodic>>

ReconcileNext == reconcileFlush \/ computeStorageStats \/ replaceStorageStats

-----------------------------------------------------------------------------
(* Reading the statistics.                                                 *)

\* refreshUnavailableIfNeeded.
RefreshIfNeeded ==
    ref' = IF cache.doc /\ cache.seen # readable /\ ref.pc = "idle"
           THEN [NoRef EXCEPT !.pc = "query", !.readable = readable] ELSE ref

\* getSnapshot and handleStorageStatsRequest: no document, or an impossible one, starts a reconcile.
getSnapshot ==
    /\ up = "up"
    /\ rec' = IF rec.pc = "idle" /\ (~cache.doc \/ hasImpossibleCounters(cache.c)) THEN Beginning ELSE rec
    /\ RefreshIfNeeded
    /\ <<rec', ref'>> # <<rec, ref>>
    /\ UNCHANGED <<content, readable, cache, pending, timer, flight, job, mover, up, periodic, used>>

\* refreshStorageStatsUnavailable: the known volumes are those of the document.
refreshQuery ==
    /\ ref.pc = "query"
    /\ ref' = [ref EXCEPT !.pc = "write", !.un = computeUnavailableStorageStats(cache.known, ref.readable)]
    /\ UNCHANGED <<content, readable, cache, pending, timer, flight, rec, job, mover, up, periodic, used>>

updateUnavailable ==
    /\ ref.pc = "write"
    /\ cache' = [cache EXCEPT !.c.un = ref.un, !.seen = ref.readable]
    /\ ref' = NoRef
    /\ UNCHANGED <<content, readable, pending, timer, flight, rec, job, mover, up, periodic, used>>

RefreshNext == refreshQuery \/ updateUnavailable

-----------------------------------------------------------------------------
(* The process.                                                            *)

\* start and ensureSnapshot.
start ==
    /\ up = "down"
    /\ up' = "up"
    /\ rec' = IF periodic /\ ~cache.doc THEN Beginning ELSE NoRec
    /\ IF periodic THEN RefreshIfNeeded ELSE UNCHANGED ref
    /\ UNCHANGED <<content, readable, cache, pending, timer, flight, job, mover, periodic, used>>

\* Mutant: the flush timer is not cleared.
StopKeepsTimer ==
    /\ up = "up" /\ May("ops", MaxOps) /\ Use("ops")
    /\ up' = "stopping"
    /\ UNCHANGED <<content, readable, cache, pending, timer, flight, rec, ref, job, mover, periodic>>

stop ==
    /\ up = "up" /\ May("ops", MaxOps) /\ Use("ops")
    /\ up' = "stopping" /\ timer' = FALSE
    /\ UNCHANGED <<content, readable, cache, pending, flight, rec, ref, job, mover, periodic>>

\* The last flush, once no reconcile and no refresh runs: again, a flush in flight is awaited instead.
stopFlush ==
    /\ up = "stopping" /\ rec.pc = "idle" /\ ref.pc = "idle" /\ flight.stop = "no"
    /\ IF flight.on \/ pending = Zero
       THEN flight' = [flight EXCEPT !.stop = IF flight.on THEN "late" ELSE "done"] /\ UNCHANGED pending
       ELSE Launch([NoFlight EXCEPT !.stop = "done"])
    /\ UNCHANGED <<content, readable, cache, timer, rec, ref, job, mover, up, periodic, used>>

\* The process is gone, and what it had in memory.
ends ==
    /\ up' = "down"
    /\ pending' = Zero /\ timer' = FALSE /\ flight' = NoFlight /\ rec' = NoRec /\ ref' = NoRef
    /\ job' = [o \in Objects |-> NoJob] /\ mover' = NoMove
    /\ UNCHANGED <<content, readable, periodic>>

exit == up = "stopping" /\ flight.stop # "no" /\ ~flight.on /\ ends /\ UNCHANGED <<cache, used>>

crash == up # "down" /\ May("faults", MaxFaults) /\ Use("faults") /\ ends /\ UNCHANGED cache

volumeChanges(v) ==
    /\ May("ops", MaxOps) /\ Use("ops")
    /\ readable' = IF v \in readable THEN readable \ {v} ELSE readable \cup {v}
    /\ UNCHANGED <<content, cache, pending, timer, flight, rec, ref, job, mover, up, periodic>>

-----------------------------------------------------------------------------
ExactDoc(rows) ==
    [doc |-> TRUE, known |-> UNION {rows[o] : o \in Objects}, seen |-> Volumes,
     c |-> [n |-> Cardinality({o \in Objects : rows[o] # {}}), un |-> 0,
            vol |-> [v \in Volumes |-> Cardinality({o \in Objects : v \in rows[o]})]]]

Init ==
    /\ \E o \in Objects, at \in Placements : content = [p \in Objects |-> IF p = o THEN at ELSE {}]
    /\ readable = Volumes
    /\ cache \in {NoDoc, ExactDoc(content)}
    /\ pending = Zero /\ timer = FALSE /\ flight = NoFlight
    /\ rec = NoRec /\ ref = NoRef /\ job = [o \in Objects |-> NoJob] /\ mover = NoMove
    /\ up = "down" /\ periodic \in BOOLEAN
    /\ used = [ops |-> 0, faults |-> 0]

StopNext == stopFlush \/ exit

Next ==
    \/ ClientNext
    \/ \E o \in Objects :
          \/ loadForDelete(o)
          \/ \E at \in Placements : createObjectRecord(o, at)
          \/ \E from, to \in Volumes : replaceObjectVolumeRef(o, from, to)
    \/ FlushNext \/ flushFails
    \/ reconcileTick \/ handleStorageStatsReconcileRequest \/ ReconcileNext \/ reconcileFails
    \/ getSnapshot \/ RefreshNext
    \/ start \/ stop \/ StopNext \/ crash
    \/ \E v \in Volumes : volumeChanges(v)

Spec == Init /\ [][Next]_vars

\* Timers fire, the database answers, callers go on, readers keep asking, the process is restarted.
FairSpec ==
    /\ Spec
    /\ WF_vars(ClientNext) /\ WF_vars(FlushNext) /\ WF_vars(ReconcileNext) /\ WF_vars(RefreshNext)
    /\ WF_vars(reconcileTick) /\ WF_vars(getSnapshot) /\ WF_vars(start) /\ WF_vars(StopNext)

-----------------------------------------------------------------------------
(* Properties.                                                             *)

CountersType == [n : Int, un : Int, vol : [Volumes -> Int]]

\* The types; whoever awaits a flush is recorded at it; a stopped tracker has no timer.
TypeOK ==
    /\ content \in [Objects -> Placements \cup {{}}] /\ readable \subseteq Volumes
    /\ cache.c \in CountersType /\ pending \in CountersType /\ flight.delta \in CountersType
    /\ rec.pc \in {"idle", "flush", "wait", "system", "volumes", "unavailable", "replace"}
    /\ rec.pc = "wait" <=> flight.rec
    /\ rec.attempt \in 0 .. MaxAttempts
    /\ up # "up" => ~timer
    /\ up = "down" => flight = NoFlight /\ pending = Zero

\* What callers have done to the rows and not counted yet.
Uncounted ==
    LET created == {o \in Objects : job[o].pc = "created"}
        deleted == {o \in Objects : job[o].pc = "deleted"}
    IN  [n |-> Cardinality(created) - Cardinality(deleted),
         vol |-> [v \in Volumes |-> Cardinality({o \in created : v \in job[o].at})
                                      - Cardinality({o \in deleted : v \in job[o].at})
                                      + (IF v \in mover.to THEN 1 ELSE 0) - (IF v \in mover.from THEN 1 ELSE 0)]]

\* How far the document is from the rows once everything under way has been counted and flushed.
Drift ==
    LET owed == mergeStorageStatsDelta(cache.c, mergeStorageStatsDelta(pending,
                    IF flight.on /\ ~flight.applied THEN flight.delta ELSE Zero))
    IN  [n |-> owed.n + Uncounted.n - CountSystem,
         vol |-> [v \in Volumes |-> owed.vol[v] + Uncounted.vol[v] - CountVolumes[v]]]

NoDrift == [n |-> 0, vol |-> [v \in Volumes |-> 0]]
Idle == mover = NoMove /\ \A o \in Objects : job[o].pc \notin {"created", "deleted"}

\* The steps that may move the document away from the rows: a reconcile's write, a delete whose record was
\* loaded before a relocation, a lost answer, a change counted while stopping, the end of the process with
\* something in memory.
MayDrift ==
    \/ rec.pc = "replace" /\ cache' # cache
    \/ \E o \in Objects : job[o].pc = "loaded" /\ job'[o].pc = "deleted" /\ job[o].at # content[o]
    \/ flight.on /\ flight.applied /\ used'.faults > used.faults
    \/ up = "stopping" /\ Uncounted' # Uncounted
    \/ up' = "down" /\ (used'.faults > used.faults \/ ~Idle \/ flight.stop = "late")

\* Every other step keeps what the document owes the rows: no flush, failed flush, awaited flush or timer
\* counts a change twice or loses it.  A shutdown loses what is pending only when its
\* last flush failed, or found a flush in flight already.
DriftHasACause == [][Drift' # Drift => MayDrift]_vars

\* A reconcile that ends without having seen a change, with every change of the rows counted, and that left
\* nothing pending behind the flush it awaited, ends with an exact document.
ReconcileExact ==
    [][up = "up" /\ rec.pc = "replace" /\ rec'.pc = "idle" /\ cache' = rec.snap /\ ~rec.moved /\ Idle /\ rec.left = Zero
          => Drift' = NoDrift]_vars

Exact == /\ cache.doc /\ cache.c.n = CountSystem /\ cache.c.vol = CountVolumes
         /\ cache.c.un = Cardinality({o \in Rows : objectIsUnavailable(content[o], readable)})

\* With a reconcile interval the statistics end up exact, whatever drift there was (stats-tracker.ts: "a full
\* reconcile recomputes from `content` every few hours and puts it right").
CacheHeals == periodic /\ <>[](up = "up") => <>[]Exact

\* Without one, a reader who keeps asking does not see impossible numbers for ever.
NegativeHeals == <>[](up = "up") => []<>(cache.c.n >= 0 /\ \A v \in Volumes : cache.c.vol[v] >= 0)

\* Drift does not stay: with a reconcile interval, or with a reader who keeps asking.
DriftHeals == CacheHeals /\ NegativeHeals
=============================================================================
