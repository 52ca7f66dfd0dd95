------------------------------ MODULE VerifyRun ------------------------------
(***************************************************************************)
(* The volume scrub: lib/jobs/verify-volumes-job.ts with its scheduler,    *)
(* its checkpoint in the runtime configuration, the rebalance that takes   *)
(* the disks from it and the maintenance freeze.                           *)
(*                                                                         *)
(* One node process; between two awaits a handler runs alone, so a step    *)
(* below is the code between two awaits and the database operation it      *)
(* waits for.  A run is named by its number of launch, a request by its    *)
(* start time (startedAt), an object by its id (ids are ordered, the run   *)
(* reads them in that order) and a slice by the volume that holds it.      *)
(***************************************************************************)
EXTENDS Integers, FiniteSets, FiniteSetsExt

CONSTANTS
    Vol,          \* volumes (a set of integers: a run reads slices in order)
    NObjects,     \* objects are 1..NObjects
    SlicesOf,     \* SlicesOf[o]: the volumes that hold a slice of object o
    BatchSize,    \* VERIFY_BATCH_SIZE
    Filters,      \* the volume filters a request may carry; All means none
    Wedges,       \* the phases in which in-flight I/O may outlive stop()'s wait
    MaxStarts,    \* bound: calls of start()
    MaxEvents     \* bound: rebalances, stops, freezes, volume changes, failed loads, crashes

Obj == 1..NObjects

All == Vol

None == 0

\* Every launch follows a start(), the end of a rebalance or a boot.
RunIds == 1..(MaxStarts + MaxEvents)

ASSUME VerifyAssumption ==
    /\ Vol \subseteq Int /\ IsFiniteSet(Vol)
    /\ NObjects \in Nat /\ BatchSize \in Nat \ {0}
    /\ SlicesOf \in [Obj -> SUBSET Vol]
    /\ Filters \subseteq SUBSET Vol
    /\ {MaxStarts, MaxEvents} \subseteq Nat

VARIABLES
    pers,      \* checkpoint: [started, filter, cursor] (verifyStartedAt, ...)
    rebActive, \* checkpoint: rebalanceActive
    frozen,    \* runtime configuration: maintenanceFreeze
    stamp,     \* stamp[o][v]: start time of the run that last verified the slice
    last,      \* lastVerify: start time of the last full run recorded complete
    active,    \* this.activeRun / this.running (None when no run is active)
    filter,    \* this.volumeFilter
    guard,     \* this.startGuard
    blocked,   \* this.blockedByRebalance
    waiting,   \* this.waitingForRebalance
    runs,      \* every run launched since boot, abandoned ones included
    call,      \* call[c]: the handler caller c is inside of
    up,        \* volumes that are readable and healthy
    steady,    \* history: volumes verifiable ever since the persisted run began
    tangled,   \* history: two callers have been inside the checkpoint together
    lost,      \* history: objects that failed to load during the persisted run
    clock, launched, starts, events

job == <<active, filter, guard, blocked, waiting, runs>>
bounds == <<clock, launched, starts, events>>
vars == <<pers, rebActive, frozen, stamp, last, job, call, up, steady, lost, tangled, bounds>>

\* Who calls the job: an administrator, the scheduler (or the log watcher),
\* the rebalance, and the freeze switch.
Callers == {"user", "tick", "reb", "freeze"}

Phases == {"batch", "verify", "cursor", "fin1", "fin2", "fin3", "done"}

Idle == [pc |-> "idle", keep |-> FALSE, want |-> All, ex |-> None,
         filter |-> All, cursor |-> None, run |-> None]

NoRun == [pc |-> "done", cancelled |-> TRUE, st |-> None, cursor |-> None,
          top |-> None, batch |-> {}, todo |-> [o \in Obj |-> {}], done |-> [o \in Obj |-> {}]]

NoPers == [started |-> None, filter |-> All, cursor |-> None]

-----------------------------------------------------------------------------
(* Helpers of the job.                                                     *)

isRunning == active # None

\* A caller reads or writes the checkpoint key by key: a start or a resume past
\* the guard, or a stop on its way to clear it.
InCheckpoint(k) ==
    \/ k.pc \in {"get", "getFilter", "getCursor", "join", "putFilter", "dropCursor", "putStarted", "fresh",
                 "resumeGet", "resumeFilter", "resumeCursor", "relaunch", "clear1", "clear2", "clear3"}
    \/ k.pc = "drain" /\ ~k.keep

goto(c, k) ==
    /\ call' = [call EXCEPT ![c] = k]
    /\ tangled' = (tangled \/ (InCheckpoint(k) /\ \E d \in Callers \ {c} : InCheckpoint(call[d])))

leave(c) == goto(c, Idle)

\* shouldVerifyVolume and getVerifiableVolumeIds: volumes out of service or
\* flagged unhealthy are never read; a targeted run reads its volumes only.
verifiable == up \cap filter

\* findObjectsNeedingVerification, with the stale-slice conditions.
Stale(o, st) == \E v \in SlicesOf[o] \cap verifiable : stamp[o][v] < st

Needing(run) == {o \in Obj : o > run.cursor /\ Stale(o, run.st)}

\* The first `limit' objects in id order.
fetchBatch(run) ==
    {o \in Needing(run) : Cardinality({p \in Needing(run) : p < o}) < BatchSize}

\* launch(): nothing if a run is active; otherwise the new run owns the job.
launch(st, f, cur) ==
    IF isRunning
    THEN UNCHANGED <<active, filter, runs, waiting, launched>>
    ELSE /\ launched' = launched + 1
         /\ active' = launched + 1
         /\ filter' = f
         /\ waiting' = FALSE
         /\ runs' = [runs EXCEPT ![launched + 1] =
                        [NoRun EXCEPT !.pc = "batch", !.cancelled = FALSE,
                                      !.st = st, !.cursor = cur]]

\* The finally of launch(): only the run that still owns the job clears it.
Settle(r) ==
    IF active = r
    THEN active' = None /\ filter' = All
    ELSE UNCHANGED <<active, filter>>

-----------------------------------------------------------------------------
(* start(): the freeze is read first, then the guards are checked in one   *)
(* step, then the checkpoint is read key by key.                           *)

\* core.ts resumes the pending run before the servers and the scheduler start.
Booting == call["user"].pc \in {"resume", "resumeGet", "resumeFilter", "resumeCursor", "relaunch"}

StartEnter(c) ==
    /\ call[c].pc = "idle"
    /\ c \in {"user", "tick"} /\ ~Booting
    /\ c = "tick" => ~isRunning /\ ~frozen      \* VerifyScheduler.tick
    /\ ~frozen
    /\ starts < MaxStarts
    /\ starts' = starts + 1
    /\ \E f \in (IF c = "tick" THEN {All} ELSE Filters) : goto(c, [Idle EXCEPT !.pc = "guard", !.want = f])
    /\ UNCHANGED <<pers, rebActive, frozen, stamp, last, job, up, steady, lost, clock, launched, events>>

startGuard(c) ==
    /\ call[c].pc = "guard"
    /\ IF isRunning \/ guard
       THEN leave(c) /\ UNCHANGED guard
       ELSE guard' = TRUE /\ goto(c, [call[c] EXCEPT !.pc = "get"])
    /\ UNCHANGED <<pers, rebActive, frozen, stamp, last, active, filter, blocked, waiting, runs, up, steady,
                   lost, bounds>>

\* A start that finds a persisted run joins it; otherwise it writes its own.
StartRead(c) ==
    /\ call[c].pc = "get"
    /\ goto(c, [call[c] EXCEPT !.pc = IF pers.started = None THEN "putFilter" ELSE "getFilter",
                               !.ex = pers.started])
    /\ UNCHANGED <<pers, rebActive, frozen, stamp, last, job, up, steady, lost, bounds>>

loadPersistedVolumeFilter(c) ==
    /\ call[c].pc \in {"getFilter", "resumeFilter"}
    /\ goto(c, [call[c] EXCEPT !.pc = IF @ = "getFilter" THEN "getCursor" ELSE "resumeCursor",
                               !.filter = pers.filter])
    /\ UNCHANGED <<pers, rebActive, frozen, stamp, last, job, up, steady, lost, bounds>>

loadPersistedCursorId(c) ==
    /\ call[c].pc \in {"getCursor", "resumeCursor"}
    /\ goto(c, [call[c] EXCEPT !.pc = IF @ = "getCursor" THEN "join" ELSE "relaunch",
                               !.cursor = pers.cursor])
    /\ UNCHANGED <<pers, rebActive, frozen, stamp, last, job, up, steady, lost, bounds>>

persistVolumeFilter(c) ==
    /\ call[c].pc = "putFilter"
    /\ pers' = [pers EXCEPT !.filter = call[c].want]
    /\ goto(c, [call[c] EXCEPT !.pc = "dropCursor"])
    /\ UNCHANGED <<rebActive, frozen, stamp, last, job, up, steady, lost, bounds>>

\* Mutant: a new run keeps the cursor of the one before.
DropCursorForgotten(c) ==
    /\ call[c].pc = "dropCursor"
    /\ UNCHANGED pers
    /\ goto(c, [call[c] EXCEPT !.pc = "putStarted"])
    /\ UNCHANGED <<rebActive, frozen, stamp, last, job, up, steady, lost, bounds>>


DropCursor(c) ==
    /\ call[c].pc = "dropCursor"
    /\ pers' = [pers EXCEPT !.cursor = None]
    /\ goto(c, [call[c] EXCEPT !.pc = "putStarted"])
    /\ UNCHANGED <<rebActive, frozen, stamp, last, job, up, steady, lost, bounds>>

\* verifyStartedAt is written last: only then does the run exist.
PutStarted(c) ==
    /\ call[c].pc = "putStarted"
    /\ clock' = clock + 1
    /\ pers' = [pers EXCEPT !.started = clock + 1]
    /\ steady' = up
    /\ lost' = {}
    /\ goto(c, [call[c] EXCEPT !.pc = "fresh", !.ex = clock + 1])
    /\ UNCHANGED <<rebActive, frozen, stamp, last, job, up, launched, starts, events>>

\* deferForRebalance, decided in the step that would launch.
StartLaunch(c) ==
    /\ call[c].pc \in {"fresh", "join"}
    /\ guard' = FALSE
    /\ leave(c)
    /\ IF blocked
       THEN waiting' = TRUE /\ UNCHANGED <<active, filter, runs, launched>>
       ELSE IF call[c].pc = "fresh"
            THEN launch(call[c].ex, call[c].want, None)
            ELSE launch(call[c].ex, call[c].filter, call[c].cursor)
    /\ UNCHANGED <<pers, rebActive, frozen, stamp, last, blocked, up, steady, lost, clock, starts, events>>

-----------------------------------------------------------------------------
(* resumePendingJob(): the guards are checked BEFORE the freeze is read,   *)
(* the rebalance before the checkpoint is.                                 *)

\* The first half, run in the same step as what calls it.
resumeEnter(c) ==
    IF isRunning \/ guard
    THEN leave(c)
    ELSE goto(c, [Idle EXCEPT !.pc = "resume"])

resumePendingJob(c) ==
    /\ call[c].pc = "resume"
    /\ IF frozen
       THEN leave(c) /\ UNCHANGED guard
       ELSE guard' = TRUE /\ goto(c, [call[c] EXCEPT !.pc = "resumeGet"])
    /\ UNCHANGED <<pers, rebActive, frozen, stamp, last, active, filter, blocked, waiting, runs, up, steady,
                   lost, bounds>>

ResumeRead(c) ==
    /\ call[c].pc = "resumeGet"
    /\ IF pers.started = None \/ blocked
       THEN /\ guard' = FALSE
            /\ waiting' = (waiting \/ (pers.started # None /\ blocked))
            /\ leave(c)
       ELSE /\ goto(c, [call[c] EXCEPT !.pc = "resumeFilter", !.ex = pers.started])
            /\ UNCHANGED <<guard, waiting>>
    /\ UNCHANGED <<pers, rebActive, frozen, stamp, last, active, filter, blocked, runs, up, steady, lost,
                   bounds>>

ResumeLaunch(c) ==
    /\ call[c].pc = "relaunch"
    /\ guard' = FALSE
    /\ leave(c)
    /\ launch(call[c].ex, call[c].filter, call[c].cursor)
    /\ UNCHANGED <<pers, rebActive, frozen, stamp, last, blocked, up, steady, lost, clock, starts, events>>

-----------------------------------------------------------------------------
(* stop(): cancel, wait for the run at most ten seconds, abandon it if it  *)
(* has not drained, and clear the checkpoint unless it is to be kept.      *)

\* The first half, run in the same step as what calls it.
stopEnter(c, keep) ==
    IF isRunning
    THEN /\ runs' = [runs EXCEPT ![active].cancelled = TRUE]
         /\ goto(c, [Idle EXCEPT !.pc = "drain", !.keep = keep, !.run = active])
         /\ UNCHANGED waiting
    ELSE IF waiting /\ ~keep
         THEN waiting' = FALSE /\ goto(c, [Idle EXCEPT !.pc = "clear1"]) /\ UNCHANGED runs
         ELSE leave(c) /\ UNCHANGED <<waiting, runs>>

\* Where stop() goes once the run is out of the way; pauseForRebalance then
\* queues the run it parked.
AfterDrain(c) ==
    /\ IF c = "reb" THEN waiting' = TRUE ELSE UNCHANGED waiting
    /\ goto(c, IF c = "reb" THEN [Idle EXCEPT !.pc = "moving"]
               ELSE IF call[c].keep THEN Idle ELSE [call[c] EXCEPT !.pc = "clear1"])

stop ==
    /\ call["user"].pc = "idle"
    /\ events < MaxEvents
    /\ events' = events + 1
    /\ stopEnter("user", FALSE)
    /\ UNCHANGED <<pers, rebActive, frozen, stamp, last, active, filter, guard, blocked, up, steady, lost,
                   clock, launched, starts>>

Drained(c) ==
    /\ call[c].pc = "drain"
    /\ runs[call[c].run].pc = "done"
    /\ AfterDrain(c)
    /\ UNCHANGED <<pers, rebActive, frozen, stamp, last, active, filter, guard, blocked, runs, up, steady,
                   lost, bounds>>

\* The wait runs out: if the run still owns the job it is abandoned.
Abandon(c) ==
    /\ call[c].pc = "drain"
    /\ runs[call[c].run].pc \in Wedges
    /\ Settle(call[c].run)
    /\ AfterDrain(c)
    /\ UNCHANGED <<pers, rebActive, frozen, stamp, last, guard, blocked, runs, up, steady, lost, bounds>>

\* recordVerifyRunFinish(stopped), then clearPersistedRun key by key.
clearPersistedRun(c) ==
    \/ /\ call[c].pc = "clear1"
       /\ pers' = [pers EXCEPT !.started = None]
       /\ goto(c, [call[c] EXCEPT !.pc = "clear2"])
       /\ UNCHANGED <<rebActive, frozen, stamp, last, job, up, steady, lost, bounds>>
    \/ /\ call[c].pc = "clear2"
       /\ pers' = [pers EXCEPT !.filter = All]
       /\ goto(c, [call[c] EXCEPT !.pc = "clear3"])
       /\ UNCHANGED <<rebActive, frozen, stamp, last, job, up, steady, lost, bounds>>
    \/ /\ call[c].pc = "clear3"
       /\ pers' = [pers EXCEPT !.cursor = None]
       /\ leave(c)
       /\ UNCHANGED <<rebActive, frozen, stamp, last, job, up, steady, lost, bounds>>

-----------------------------------------------------------------------------
(* The run itself: execute(), verifyObject(), advanceCursor().             *)

Step(r, rec) == runs' = [runs EXCEPT ![r] = rec]

\* Top of the loop: cancelled or frozen ends the run unfinished, an empty
\* batch completes it.
execute(r) ==
    /\ runs[r].pc = "batch"
    /\ LET run == runs[r]
           batch == fetchBatch(run)
       IN  IF run.cancelled \/ frozen
           THEN Step(r, NoRun) /\ Settle(r)
           ELSE IF batch = {}
           THEN Step(r, [run EXCEPT !.pc = "fin1"]) /\ UNCHANGED <<active, filter>>
           ELSE /\ Step(r, [run EXCEPT !.pc = "verify", !.batch = batch, !.top = Max(batch),
                                       !.todo = [o \in Obj |-> IF o \in batch THEN SlicesOf[o] ELSE {}],
                                       !.done = [o \in Obj |-> {}]])
                /\ UNCHANGED <<active, filter>>
    /\ UNCHANGED <<pers, rebActive, frozen, stamp, last, guard, blocked, waiting, call, tangled, up, steady,
                   lost, bounds>>

\* One slice of one object of the batch (objects go in parallel, the slices of
\* one in order); a volume that is out of service is passed over.
verifySlice(r, o) ==
    LET v == Min(runs[r].todo[o])
    IN  /\ runs[r].pc = "verify" /\ o \in runs[r].batch
        /\ runs[r].todo[o] # {} /\ ~runs[r].cancelled
        /\ Step(r, [runs[r] EXCEPT !.todo[o] = @ \ {v},
                                   !.done[o] = IF v \in verifiable THEN @ \cup {v} ELSE @])
        /\ UNCHANGED <<pers, rebActive, frozen, stamp, last, active, filter, guard, blocked, waiting, call,
                   tangled, up, steady, lost, bounds>>

\* The last slice is read: the object is stamped with the run's start time,
\* unless the run was cancelled meanwhile.
updateObjectVerificationState(r, o) ==
    /\ runs[r].pc = "verify" /\ o \in runs[r].batch
    /\ runs[r].todo[o] = {} /\ ~runs[r].cancelled
    /\ stamp' = [stamp EXCEPT ![o] = [v \in Vol |-> IF v \in runs[r].done[o] THEN runs[r].st ELSE @[v]]]
    /\ Step(r, [runs[r] EXCEPT !.batch = @ \ {o}])
    /\ UNCHANGED <<pers, rebActive, frozen, last, active, filter, guard, blocked, waiting, call, tangled,
                   up, steady, lost, bounds>>

\* The object cannot be loaded: the error is recorded on the object under no
\* slice, nothing is stamped and the run goes on.
LoadFails(r, o) ==
    /\ runs[r].pc = "verify" /\ o \in runs[r].batch
    /\ runs[r].todo[o] = SlicesOf[o] /\ ~runs[r].cancelled
    /\ events < MaxEvents
    /\ events' = events + 1
    /\ lost' = lost \cup {o}
    /\ Step(r, [runs[r] EXCEPT !.batch = @ \ {o}])
    /\ UNCHANGED <<pers, rebActive, frozen, stamp, last, active, filter, guard, blocked, waiting, call,
                   tangled, up, steady, clock, launched, starts>>

\* All tasks of the batch are settled: a cancelled run leaves without moving
\* the cursor, the others persist it if they still own the job.
advanceCursor(r) ==
    /\ runs[r].pc = "verify"
    /\ runs[r].cancelled \/ runs[r].batch = {}
    /\ IF runs[r].cancelled
       THEN Step(r, NoRun) /\ Settle(r) /\ UNCHANGED pers
       ELSE /\ Step(r, [runs[r] EXCEPT !.pc = "batch", !.cursor = runs[r].top])
            /\ pers' = IF active = r THEN [pers EXCEPT !.cursor = runs[r].top] ELSE pers
            /\ UNCHANGED <<active, filter>>
    /\ UNCHANGED <<rebActive, frozen, stamp, last, guard, blocked, waiting, call, tangled, up, steady, lost,
                   bounds>>

\* Mutant: a targeted run is recorded as lastVerify too.
FinalizeTargeted(r) ==
    \/ /\ runs[r].pc = "fin1"
       /\ IF runs[r].cancelled \/ active # r
          THEN Step(r, NoRun) /\ Settle(r) /\ UNCHANGED pers
          ELSE /\ Step(r, [runs[r] EXCEPT !.pc = "fin2"])
               /\ pers' = [pers EXCEPT !.started = None]
               /\ UNCHANGED <<active, filter>>
       /\ UNCHANGED <<rebActive, frozen, stamp, last, guard, blocked, waiting, call, tangled, up, steady, lost,
                   bounds>>
    \/ /\ runs[r].pc = "fin2"
       /\ Step(r, [runs[r] EXCEPT !.pc = "fin3"])
       /\ pers' = [pers EXCEPT !.filter = All, !.cursor = None]
       /\ UNCHANGED <<rebActive, frozen, stamp, last, active, filter, guard, blocked, waiting, call, tangled,
                   up, steady, lost, bounds>>
    \/ /\ runs[r].pc = "fin3"
       /\ Step(r, NoRun)
       /\ Settle(r)
       /\ last' = runs[r].st
       /\ UNCHANGED <<pers, rebActive, frozen, stamp, guard, blocked, waiting, call, tangled, up, steady, lost,
                   bounds>>

\* The finally of execute(): ownership is checked once, before the first of
\* the deletes; lastVerify is recorded for a run over every volume.
finalize(r) ==
    \/ /\ runs[r].pc = "fin1"
       /\ IF runs[r].cancelled \/ active # r
          THEN Step(r, NoRun) /\ Settle(r) /\ UNCHANGED pers
          ELSE /\ Step(r, [runs[r] EXCEPT !.pc = "fin2"])
               /\ pers' = [pers EXCEPT !.started = None]
               /\ UNCHANGED <<active, filter>>
       /\ UNCHANGED <<rebActive, frozen, stamp, last, guard, blocked, waiting, call, tangled, up, steady, lost,
                   bounds>>
    \/ /\ runs[r].pc = "fin2"
       /\ Step(r, [runs[r] EXCEPT !.pc = "fin3"])
       /\ pers' = [pers EXCEPT !.filter = All, !.cursor = None]
       /\ UNCHANGED <<rebActive, frozen, stamp, last, active, filter, guard, blocked, waiting, call, tangled,
                   up, steady, lost, bounds>>
    \/ /\ runs[r].pc = "fin3"
       /\ Step(r, NoRun)
       /\ Settle(r)
       /\ last' = IF filter = All THEN runs[r].st ELSE last
       /\ UNCHANGED <<pers, rebActive, frozen, stamp, guard, blocked, waiting, call, tangled, up, steady, lost,
                   bounds>>

-----------------------------------------------------------------------------
(* The rebalance, the freeze, the volumes, a crash.                        *)

\* RebalanceJob.start or resumePendingJob, run and pauseForRebalance: from
\* here on new runs are held back, and a running one is parked.
pauseForRebalance ==
    /\ call["reb"].pc = "idle"
    /\ ~frozen /\ ~Booting /\ events < MaxEvents
    /\ events' = events + 1
    /\ rebActive' = TRUE
    /\ blocked' = TRUE
    /\ IF isRunning
       THEN /\ runs' = [runs EXCEPT ![active].cancelled = TRUE]
            /\ goto("reb", [Idle EXCEPT !.pc = "drain", !.keep = TRUE, !.run = active])
       ELSE goto("reb", [Idle EXCEPT !.pc = "moving"]) /\ UNCHANGED runs
    /\ UNCHANGED <<pers, frozen, stamp, last, active, filter, guard, waiting, up, steady, lost, clock,
                   launched, starts>>

\* Mutant: the disks are handed back but nothing is resumed.
ReleaseForgets ==
    /\ call["reb"].pc = "moving"
    /\ blocked' = FALSE
    /\ rebActive' \in {FALSE, frozen /\ rebActive}
    /\ leave("reb")
    /\ UNCHANGED <<pers, frozen, stamp, last, active, filter, guard, waiting, runs, up, steady, lost, bounds>>

\* The rebalance is over: complete or cancelled (its checkpoint is deleted)
\* or paused by the freeze (kept).
releaseForRebalance ==
    /\ call["reb"].pc = "moving"
    /\ blocked' = FALSE
    /\ rebActive' \in {FALSE, frozen /\ rebActive}
    /\ resumeEnter("reb")
    /\ UNCHANGED <<pers, frozen, stamp, last, active, filter, guard, waiting, runs, up, steady, lost, bounds>>

\* PUT /$/maintenance-freeze {frozen: true}: the flag, then stop().
setMaintenanceFrozen ==
    /\ call["freeze"].pc = "idle"
    /\ ~frozen /\ ~Booting /\ events < MaxEvents
    /\ events' = events + 1
    /\ frozen' = TRUE
    /\ stopEnter("freeze", TRUE)
    /\ UNCHANGED <<pers, rebActive, stamp, last, active, filter, guard, blocked, up, steady, lost, clock,
                   launched, starts>>

Unfreeze ==
    /\ call["freeze"].pc = "idle"
    /\ frozen
    /\ frozen' = FALSE
    /\ UNCHANGED <<pers, rebActive, stamp, last, job, call, tangled, up, steady, lost, bounds>>

\* The health monitor degrades a volume, or it goes or comes back.
VolumeChanges(v) ==
    /\ events < MaxEvents
    /\ events' = events + 1
    /\ up' = IF v \in up THEN up \ {v} ELSE up \cup {v}
    /\ steady' = steady \ {v}
    /\ UNCHANGED <<pers, rebActive, frozen, stamp, last, job, call, tangled, lost, clock, launched, starts>>

\* The process dies and boots again: a pending rebalance takes the disks
\* before the pending run is considered (core.ts).
Restart ==
    /\ events < MaxEvents
    /\ events' = events + 1
    /\ active' = None /\ filter' = All /\ waiting' = FALSE /\ guard' = FALSE
    /\ runs' = [r \in RunIds |-> NoRun]
    /\ blocked' = rebActive
    /\ call' = [[c \in Callers |-> Idle] EXCEPT
                    !["user"] = [Idle EXCEPT !.pc = "resume"],
                    !["reb"] = IF rebActive THEN [Idle EXCEPT !.pc = "moving"] ELSE Idle]
    /\ UNCHANGED <<tangled, pers, rebActive, frozen, stamp, last, up, steady, lost, clock, launched, starts>>

-----------------------------------------------------------------------------
Init ==
    /\ pers = NoPers /\ rebActive = FALSE /\ frozen = FALSE
    /\ stamp = [o \in Obj |-> [v \in Vol |-> 0]]
    /\ last = None
    /\ active = None /\ filter = All /\ guard = FALSE /\ blocked = FALSE /\ waiting = FALSE
    /\ runs = [r \in RunIds |-> NoRun]
    /\ call = [c \in Callers |-> Idle]
    /\ up = Vol /\ steady = Vol /\ lost = {} /\ tangled = FALSE
    /\ clock = 0 /\ launched = 0 /\ starts = 0 /\ events = 0

CallStep(c) ==
    \/ startGuard(c) \/ StartRead(c) \/ loadPersistedVolumeFilter(c) \/ loadPersistedCursorId(c)
    \/ persistVolumeFilter(c) \/ DropCursor(c) \/ PutStarted(c) \/ StartLaunch(c)
    \/ resumePendingJob(c) \/ ResumeRead(c) \/ ResumeLaunch(c)
    \/ Drained(c) \/ Abandon(c) \/ clearPersistedRun(c)

RunStep(r) ==
    \/ execute(r) \/ advanceCursor(r) \/ finalize(r)
    \/ \E o \in Obj : verifySlice(r, o) \/ updateObjectVerificationState(r, o) \/ LoadFails(r, o)

Next ==
    \/ \E c \in Callers : StartEnter(c) \/ CallStep(c)
    \/ \E r \in RunIds : RunStep(r)
    \/ stop \/ pauseForRebalance \/ releaseForRebalance
    \/ setMaintenanceFrozen \/ Unfreeze
    \/ \E v \in Vol : VolumeChanges(v)
    \/ Restart

Spec == Init /\ [][Next]_vars

\* Handlers and runs make progress (stop() does not wait for ever: the timeout
\* ends its wait) and a rebalance ends.  Nothing is assumed of requests,
\* of the scheduler, of the volumes or of who goes first.
Progress ==
    \/ \E c \in Callers : CallStep(c)
    \/ \E r \in RunIds : RunStep(r)
    \/ releaseForRebalance

FairSpec == Spec /\ WF_vars(Progress)

-----------------------------------------------------------------------------
(* Properties.                                                             *)

TypeOK ==
    /\ pers \in [started : 0..clock, filter : SUBSET Vol, cursor : 0..NObjects]
    /\ {rebActive, frozen, guard, blocked, waiting} \subseteq BOOLEAN /\ tangled \in BOOLEAN
    /\ stamp \in [Obj -> [Vol -> 0..clock]] /\ last \in 0..clock
    /\ active \in RunIds \cup {None} /\ filter \subseteq Vol
    /\ \A r \in RunIds :
          /\ runs[r].pc \in Phases /\ runs[r].batch \subseteq Obj
          /\ runs[r].st \in 0..clock /\ runs[r].cursor \in 0..NObjects
    /\ \A c \in Callers : call[c].run \in RunIds \cup {None}
    /\ up \subseteq Vol /\ steady \subseteq up /\ lost \subseteq Obj

\* Overlapping callers (two resumes pass the guard together; a stop abandons a
\* run that is still reading) never leave two runs at work: every run that is
\* not cancelled owns the job.
OneOwner ==
    \A r \in RunIds : runs[r].pc # "done" /\ ~runs[r].cancelled => active = r

\* Object o is through for the run that started at st with filter f: each of
\* its slices on a volume that stayed in service since then has been verified
\* in this run or a later one, or its load failed and that was recorded.
Through(o, st, f) ==
    o \in lost \/ \A v \in SlicesOf[o] \cap f \cap steady : stamp[o][v] >= st

\* What a restart would resume is sound: the persisted cursor has passed only
\* objects that the persisted run, with the persisted filter, is through with.
\* Asked of histories in which the guard kept callers out of the checkpoint
\* while another was inside (~tangled).
CursorSound ==
    pers.started # None /\ ~tangled =>
        \A o \in 1..pers.cursor : Through(o, pers.started, pers.filter)

\* lastVerify is only ever advanced by a run that is through with every object
\* of the store, whatever was stopped, resumed or parked on the way.
FullMeansFull ==
    [][last' # last /\ ~tangled => \A o \in Obj : Through(o, last', Vol)]_vars

\* A scrub queued behind a rebalance is not dropped: it starts once the
\* rebalance that holds it is over, unless it is discarded or the freeze
\* intervenes (histories as in CursorSound).
QueuedStarts ==
    waiting /\ blocked ~> (~waiting \/ frozen \/ pers.started = None \/ tangled)

\* At most one run owns the state of the job, and what it has persisted can be
\* resumed from.
VerifySafe == TypeOK /\ OneOwner /\ CursorSound
=============================================================================
