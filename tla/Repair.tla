------------------------------- MODULE Repair -------------------------------
(***************************************************************************)
(* The fault registry (remediation/service.ts) with its write-behind store *)
(* and the repair worker (remediation/repair-worker.ts) that consumes it:  *)
(* schedule, passes, leases, block reasons, the verification of an object  *)
(* (jobs/verify-file-job.ts) a repair starts and ends with, the freeze and *)
(* restarts.                                                               *)
(*                                                                         *)
(* A key is a fault key: one slice of one object on one volume, and no two *)
(* slices of an object share a volume, so flags of a volume are flags of a *)
(* key.  Time is the flag due: the retry window of a blocked fault is over.*)
(***************************************************************************)
EXTENDS Naturals, Sequences, FiniteSets

CONSTANTS
    Key,          \* fault keys
    Object,       \* objects
    ObjectOf,     \* the object a key is a slice of
    Parity,       \* parity slices per object
    BatchSize,    \* faults per pass
    Pass,         \* concurrent calls of processFaults()
    Polling,      \* repairIntervalMs > 0
    Watched,      \* the keys whose progress is checked: keys are alike
    MaxReports,   \* bound: reports per key
    MaxEvents,    \* bound: rot, moves, flags, freezes, failures, crashes
    MaxChain      \* bound: queued writes per key

ASSUME RepairAssumption ==
    /\ IsFiniteSet(Key) /\ ObjectOf \in [Key -> Object] /\ Watched \subseteq Key
    /\ Parity \in Nat /\ BatchSize \in Nat \ {0} /\ Polling \in BOOLEAN
    /\ MaxReports \in Nat /\ MaxEvents \in Nat /\ MaxChain \in Nat \ {0}

VARIABLES
    mem,        \* RemediationService.faults
    order,      \* insertion order of that Map
    chain,      \* persistChains: writes queued per key
    store,      \* the faults collection
    lost,       \* keys whose last write failed (logged and dropped)
    w,          \* the fields of RepairWorker
    pc, ctx,    \* where each processFaults() call is, and its locals
    slice,      \* what is on the platter: "good", "bad"
    row,        \* the object's row: "live", "dead" (recoveryComment), "gone"
    errs,       \* sliceErrors of the row
    off,        \* keys whose slice has been moved to another volume
    ro,         \* keys whose volume is not writable
    draining,   \* keys whose volume is draining
    frozen,     \* maintenanceFreeze in the runtime config
    applying,   \* the freeze request between its write and its effect
    up,         \* the process runs
    proved,     \* history: keys whose slice read clean since the fault was recorded
    events      \* bound counter

vars == <<mem, order, chain, store, lost, w, pc, ctx, slice, row, errs, off, ro,
          draining, frozen, applying, up, proved, events>>
registry == <<mem, order, chain>>
world    == <<slice, row, errs, off, ro, draining>>

-----------------------------------------------------------------------------
(* Fault records                                                           *)

NoFault == [status |-> "none", reason |-> "none", due |-> FALSE, count |-> 0]
Reason  == {"insufficient-slices", "target-unwritable", "unrecoverable",
            "reconstruction-mismatch"}
Fault   == [status : {"none", "pending", "blocked"}, reason : Reason \cup {"none"},
            due : BOOLEAN, count : 0..MaxReports]

Open(k)     == mem[k].status # "none"
KeysOf(o)   == {k \in Key : ObjectOf[k] = o}

\* The elements of the sequence s that are in S, in their order: a filter of a
\* list, or what a delete leaves of the iteration order of a Map.
Only(s, S) ==
    LET kept[i \in 0 .. Len(s)] ==
            IF i = 0 THEN <<>>
            ELSE IF s[i] \in S THEN Append(kept[i - 1], s[i]) ELSE kept[i - 1]
    IN  kept[Len(s)]

\* The queue of a key grows by one write (persist, clearFault).
enqueuePersist(k, payload) ==
    /\ Len(chain[k]) < MaxChain
    /\ chain' = [chain EXCEPT ![k] = Append(@, payload)]

\* record(): coalesce with the open fault or add one at the end of the Map.
record(k) ==
    IF Open(k) THEN /\ mem' = [mem EXCEPT ![k].count = @ + 1]
                    /\ UNCHANGED <<order, proved>>
               ELSE /\ mem' = [mem EXCEPT ![k] = [NoFault EXCEPT !.status = "pending",
                                                                  !.count = 1]]
                    /\ order' = Append(order, k)
                    /\ proved' = proved \ {k}

\* A mark on a fault that is gone changes nothing.
mark(k, f) ==
    IF Open(k) THEN /\ mem' = [mem EXCEPT ![k] = f]
                    /\ enqueuePersist(k, f)
                    /\ UNCHANGED order
               ELSE UNCHANGED registry

markRepairAttempted(k) ==
    mark(k, [mem[k] EXCEPT !.status = "pending", !.reason = "none", !.due = FALSE])

markRepairFailed(k) ==
    mark(k, [mem[k] EXCEPT !.status = "pending", !.reason = "none", !.due = FALSE])

markRepairBlocked(k, reason) ==
    mark(k, [mem[k] EXCEPT !.status = "blocked", !.reason = reason, !.due = FALSE])

\* Mutant: the delete does not wait for the queued upserts.
ClearUnchained(k) ==
    /\ mem' = [mem EXCEPT ![k] = NoFault]
    /\ order' = Only(order, Key \ {k})
    /\ chain' = [chain EXCEPT ![k] = <<NoFault>> \o @]

clearFault(k) ==
    /\ mem' = [mem EXCEPT ![k] = NoFault]
    /\ order' = Only(order, Key \ {k})
    /\ enqueuePersist(k, NoFault)

-----------------------------------------------------------------------------
(* The schedule                                                            *)

Busy    == \E p \in Pass : pc[p] \notin {"idle", "gate"}
Leases  == {ctx[p].cur : p \in {q \in Pass : pc[q] \notin {"idle", "gate", "loop"}}}

\* Mutant: the retry window applies to faults that are not blocked, too.
AttemptOnlyDue(k) == mem[k].status = "pending" => mem[k].due

shouldAttemptFault(k) ==
    LET f == mem[k] IN
    CASE f.status # "blocked" -> TRUE
      [] f.reason \in {"unrecoverable", "reconstruction-mismatch"} -> FALSE
      [] f.reason = "target-unwritable" -> k \notin ro
      [] OTHER -> f.due

\* scheduleProcess() without a delay, as a function of the worker's fields.
scheduleNow(u) ==
    CASE ~u.started \/ u.stopping -> u
      [] u.running -> [u EXCEPT !.rerun = TRUE]
      [] OTHER -> [u EXCEPT !.backlog = FALSE, !.wake = TRUE]

\* scheduleProcess() with the backlog delay.
scheduleBacklog(u) ==
    IF ~u.started \/ u.stopping \/ u.wake \/ u.backlog THEN u
    ELSE [u EXCEPT !.backlog = TRUE]

shouldWakeForFault(k) ==
    /\ ~(w.running /\ k \in Leases \cup w.active)
    /\ shouldAttemptFault(k)'

Stopped == [started |-> FALSE, stopping |-> FALSE, running |-> FALSE, rerun |-> FALSE,
            wake |-> FALSE, backlog |-> FALSE, active |-> {}]

start(u) ==
    IF u.started THEN u
    ELSE LET s == [u EXCEPT !.started = TRUE, !.stopping = FALSE]
         IN  IF order # <<>> THEN scheduleNow(s) ELSE s

\* stop() drops the timers and does not wait for a running pass.
stop(u) ==
    [u EXCEPT !.stopping = TRUE, !.started = FALSE, !.wake = FALSE, !.backlog = FALSE,
              !.rerun = FALSE, !.active = {}]

-----------------------------------------------------------------------------
(* Initial state                                                           *)

Idle == [todo |-> <<>>, visited |-> 0, cur |-> CHOOSE k \in Key : TRUE, ahead |-> 0,
         then |-> "loop", checked |-> {}, clean |-> {}, insufficient |-> {}]

Init ==
    /\ mem = [k \in Key |-> NoFault] /\ order = <<>>
    /\ chain = [k \in Key |-> <<>>]  /\ store = mem /\ lost = {}
    /\ w = [Stopped EXCEPT !.started = TRUE]
    /\ pc = [p \in Pass |-> "idle"] /\ ctx = [p \in Pass |-> Idle]
    /\ slice \in [Key -> {"good", "bad"}] /\ row = [o \in Object |-> "live"]
    /\ errs = {} /\ off = {} /\ ro = {} /\ draining = {}
    /\ frozen = FALSE /\ applying = FALSE /\ up = TRUE /\ proved = {} /\ events = 0

Event == events < MaxEvents /\ events' = events + 1

-----------------------------------------------------------------------------
(* Reports and the store                                                   *)

\* reportSliceFault(): a detector saw the slice fail, for good or for once.
Report(k) ==
    /\ up /\ mem[k].count < MaxReports
    /\ record(k)
    /\ enqueuePersist(k, mem'[k])
    /\ w' = IF shouldWakeForFault(k) THEN scheduleNow(w) ELSE w
    /\ UNCHANGED <<store, lost, pc, ctx, world, frozen, applying, up, events>>

\* The write at the head of a queue is done; a failure is logged and dropped.
\* A repair that waits for this write goes on.
Persist(k) ==
    /\ up /\ chain[k] # <<>>
    /\ chain' = [chain EXCEPT ![k] = Tail(@)]
    /\ \/ store' = [store EXCEPT ![k] = Head(chain[k])] /\ lost' = lost \ {k} /\ UNCHANGED events
       \/ Event /\ lost' = lost \cup {k} /\ UNCHANGED store
    /\ LET waits(p) == pc[p] = "settle" /\ ctx[p].cur = k
           last(p)  == waits(p) /\ ctx[p].ahead = 1
       IN  /\ ctx' = [p \in Pass |->
                        IF last(p) THEN [ctx[p] EXCEPT !.ahead = 0, !.then = "loop"]
                        ELSE IF waits(p) THEN [ctx[p] EXCEPT !.ahead = @ - 1] ELSE ctx[p]]
           /\ pc' = [p \in Pass |-> IF last(p) THEN ctx[p].then ELSE pc[p]]
    /\ UNCHANGED <<mem, order, w, world, frozen, applying, up, proved>>

-----------------------------------------------------------------------------
(* Wake-ups                                                                *)

\* A processFaults() call starts with the freeze check, an await.
Enter(p) == pc[p] = "idle" /\ pc' = [pc EXCEPT ![p] = "gate"]

Immediate(p) ==
    /\ up /\ w.wake /\ Enter(p)
    /\ w' = [w EXCEPT !.wake = FALSE]
    /\ UNCHANGED <<registry, store, lost, ctx, world, frozen, applying, up, proved, events>>

BacklogTimer(p) ==
    /\ up /\ w.backlog /\ Enter(p)
    /\ w' = [w EXCEPT !.backlog = FALSE]
    /\ UNCHANGED <<registry, store, lost, ctx, world, frozen, applying, up, proved, events>>

\* The periodic poll, and wake() of the I/O manager and the device reconciler.
Poll ==
    /\ up /\ Polling
    /\ w' = scheduleNow(w) /\ w' # w
    /\ UNCHANGED <<registry, store, lost, pc, ctx, world, frozen, applying, up, proved, events>>

\* Mutant: one verification cache for all passes.
BeginPassKeepsCache(p, u) ==
    LET todo == Only(order, {k \in Key : shouldAttemptFault(k)})
    IN  /\ w' = [u EXCEPT !.running = TRUE, !.rerun = FALSE,
                          !.active = {todo[i] : i \in DOMAIN todo}]
        /\ ctx' = [ctx EXCEPT ![p].todo = todo, ![p].visited = 0, ![p].insufficient = {}]

\* The pass lists the faults to attempt and the objects not to attempt again yet.
BeginPass(p, u) ==
    LET todo == Only(order, {k \in Key : shouldAttemptFault(k)})
        held == {k \in Key : /\ mem[k].status = "blocked"
                             /\ mem[k].reason = "insufficient-slices"
                             /\ ~shouldAttemptFault(k)}
    IN  /\ w' = [u EXCEPT !.running = TRUE, !.rerun = FALSE,
                          !.active = {todo[i] : i \in DOMAIN todo}]
        /\ ctx' = [ctx EXCEPT ![p] = [Idle EXCEPT !.todo = todo,
                                         !.insufficient = {ObjectOf[k] : k \in held}]]

\* processFaults() after the freeze check.
Gate(p) ==
    /\ up /\ pc[p] = "gate"
    /\ \/ /\ frozen \/ w.stopping
          /\ pc' = [pc EXCEPT ![p] = "idle"] /\ UNCHANGED <<w, ctx>>
       \/ /\ ~frozen /\ ~w.stopping /\ w.running
          /\ w' = [w EXCEPT !.rerun = TRUE]
          /\ pc' = [pc EXCEPT ![p] = "idle"] /\ UNCHANGED ctx
       \/ /\ ~frozen /\ ~w.stopping /\ ~w.running
          /\ BeginPass(p, w)
          /\ pc' = [pc EXCEPT ![p] = "loop"]
    /\ UNCHANGED <<registry, store, lost, world, frozen, applying, up, proved, events>>

EndPass(p, u) ==
    /\ w' = [u EXCEPT !.running = FALSE, !.active = {}]
    /\ pc' = [pc EXCEPT ![p] = "idle"]
    /\ ctx' = [ctx EXCEPT ![p] = Idle]

\* The loop over the faults of a pass: the next one, the end of the batch, a
\* rerun, or the end.
Loop(p) ==
    LET c    == ctx[p]
        full == c.visited >= BatchSize /\ c.todo # <<>>
        done == c.todo = <<>> \/ full
    IN  /\ up /\ pc[p] = "loop"
        /\ \/ /\ w.stopping
              /\ EndPass(p, w)
           \/ /\ ~w.stopping /\ ~done
              /\ ctx' = [ctx EXCEPT ![p].cur = Head(c.todo), ![p].todo = Tail(c.todo),
                                    ![p].visited = @ + 1]
              /\ pc' = [pc EXCEPT ![p] = "fault"] /\ UNCHANGED w
           \/ /\ ~w.stopping /\ done /\ w.rerun
              /\ BeginPass(p, w) /\ UNCHANGED pc
           \/ /\ ~w.stopping /\ done /\ ~w.rerun
              /\ EndPass(p, IF full THEN scheduleBacklog(w) ELSE w)
        /\ UNCHANGED <<registry, store, lost, world, frozen, applying, up, proved, events>>

-----------------------------------------------------------------------------
(* repairFault()                                                           *)

GoTo(p, l) == pc' = [pc EXCEPT ![p] = l]

\* Wait for the write just queued, then go on at l.
Settle(p, l, c) ==
    LET n == Len(chain'[c.cur]) IN
    /\ pc' = [pc EXCEPT ![p] = IF chain' # chain THEN "settle" ELSE l]
    /\ ctx' = [ctx EXCEPT ![p] = IF chain' # chain THEN [c EXCEPT !.ahead = n, !.then = l] ELSE c]

\* The guards on the loaded row, in the order of the code.
Verdict(k) ==
    LET o == ObjectOf[k] IN
    CASE row[o] = "gone" -> "clear"
      [] w.stopping      -> "cancelled"
      [] k \in off       -> "clear"
      [] row[o] = "dead" -> "unrecoverable"
      [] Cardinality(errs \cap KeysOf(o)) > Parity -> "insufficient-slices"
      [] k \in ro        -> "target-unwritable"
      [] OTHER           -> "attempt"

\* The end of a repair that was cut short by the shutdown of I/O.
Cancelled(p) == EndPass(p, w) /\ UNCHANGED registry

\* repairFault() up to the first await past the guards; a database error that
\* is not "not found" leaves the fault for a later pass.
Fault1(p) ==
    LET c == ctx[p]
        k == c.cur
    IN  /\ up /\ pc[p] = "fault"
        /\ \/ /\ ObjectOf[k] \in c.insufficient
              /\ markRepairBlocked(k, "insufficient-slices")
              /\ Settle(p, "loop", c) /\ UNCHANGED <<w, events>>
           \/ /\ ObjectOf[k] \notin c.insufficient /\ Event
              /\ GoTo(p, "loop") /\ UNCHANGED <<registry, w, ctx>>
           \/ /\ ObjectOf[k] \notin c.insufficient /\ UNCHANGED events
              /\ LET v == Verdict(k) IN
                 \/ v = "cancelled" /\ Cancelled(p)
                 \/ v = "clear" /\ clearFault(k) /\ Settle(p, "loop", c) /\ UNCHANGED w
                 \/ v \in Reason /\ markRepairBlocked(k, v) /\ Settle(p, "loop", c) /\ UNCHANGED w
                 \/ v = "attempt" /\ markRepairAttempted(k) /\ Settle(p, "verify", c) /\ UNCHANGED w
        /\ UNCHANGED <<store, lost, world, frozen, applying, up, proved>>

\* verifyFileJob.verify(): every slice of the object is read, except those on a
\* draining volume, which count as ok; the row gets the errors.  It refuses to
\* run under the freeze and for an object that is gone.
VerifyOk(o) == {k \in KeysOf(o) : slice[k] = "good" \/ k \in draining}

verify(o) ==
    /\ ~frozen /\ row[o] # "gone"
    /\ errs' = (errs \ KeysOf(o)) \cup (KeysOf(o) \ VerifyOk(o))
    /\ proved' = proved \cup {k \in KeysOf(o) : slice[k] = "good"}

VerifyRefused(o) == (frozen \/ row[o] = "gone") /\ UNCHANGED <<errs, proved>>

\* The first verification, cached for the siblings in this pass.
Verify(p) ==
    LET c == ctx[p]
        k == c.cur
        o == ObjectOf[k]
        seen == [c EXCEPT !.checked = @ \cup {o}, !.clean = (@ \ KeysOf(o)) \cup VerifyOk(o)]
        answer(d) == IF k \in d.clean
                     THEN clearFault(k) /\ Settle(p, "loop", d)
                     ELSE /\ GoTo(p, "rebuild") /\ ctx' = [ctx EXCEPT ![p] = d]
                          /\ UNCHANGED registry
    IN  /\ up /\ pc[p] = "verify"
        /\ \/ o \in c.checked /\ answer(c) /\ UNCHANGED <<errs, proved, w, events>>
           \/ o \notin c.checked /\ verify(o) /\ answer(seen) /\ UNCHANGED <<w, events>>
           \/ /\ o \notin c.checked /\ VerifyRefused(o)
              /\ markRepairFailed(k) /\ Settle(p, "loop", c) /\ UNCHANGED <<w, events>>
           \/ /\ o \notin c.checked /\ w.stopping /\ Cancelled(p)
              /\ UNCHANGED <<errs, proved, events>>
        /\ UNCHANGED <<store, lost, slice, row, off, ro, draining, frozen, applying, up>>

\* SliceRepairer.repair(): the rebuilt slice is committed, or refused for one
\* of the reasons repairFault() tells apart.
Survivors(k) == {j \in KeysOf(ObjectOf[k]) \ {k} : slice[j] = "good"}

Rebuild(p) ==
    LET c == ctx[p]
        k == c.cur
        o == ObjectOf[k]
        enough == Cardinality(KeysOf(o) \ Survivors(k)) <= Parity
        refuse(reason, d) == markRepairBlocked(k, reason) /\ Settle(p, "loop", d)
    IN  /\ up /\ pc[p] = "rebuild"
        /\ \/ /\ k \in ro /\ refuse("target-unwritable", c) /\ UNCHANGED <<slice, w, events>>
           \/ /\ k \notin ro /\ ~enough
              /\ refuse("insufficient-slices", [c EXCEPT !.insufficient = @ \cup {o}])
              /\ UNCHANGED <<slice, w, events>>
           \/ /\ k \notin ro /\ enough
              /\ slice' = [slice EXCEPT ![k] = "good"]
              /\ GoTo(p, "reverify") /\ UNCHANGED <<registry, ctx, w, events>>
           \/ /\ k \notin ro /\ enough /\ Event
              /\ refuse("reconstruction-mismatch", c) /\ UNCHANGED <<slice, w>>
           \/ /\ k \notin ro /\ enough /\ Event
              /\ markRepairFailed(k) /\ Settle(p, "loop", c) /\ UNCHANGED <<slice, w>>
           \/ w.stopping /\ Cancelled(p) /\ UNCHANGED <<slice, events>>
        /\ UNCHANGED <<store, lost, row, errs, off, ro, draining, frozen, applying, up, proved>>

\* The second verification decides whether the fault is over.
Reverify(p) ==
    LET c == ctx[p]
        k == c.cur
        o == ObjectOf[k]
        d == [c EXCEPT !.checked = @ \cup {o}, !.clean = (@ \ KeysOf(o)) \cup VerifyOk(o)]
    IN  /\ up /\ pc[p] = "reverify"
        /\ \/ /\ verify(o)
              /\ IF k \in d.clean THEN clearFault(k) ELSE markRepairFailed(k)
              /\ Settle(p, "loop", d) /\ UNCHANGED w
           \/ VerifyRefused(o) /\ markRepairFailed(k) /\ Settle(p, "loop", c) /\ UNCHANGED w
           \/ w.stopping /\ Cancelled(p) /\ UNCHANGED <<errs, proved>>
        /\ UNCHANGED <<store, lost, slice, row, off, ro, draining, frozen, applying, up, events>>

-----------------------------------------------------------------------------
(* The world around it                                                     *)

Rot(k) ==
    /\ Event /\ slice[k] = "good" /\ slice' = [slice EXCEPT ![k] = "bad"]
    /\ UNCHANGED <<registry, store, lost, w, pc, ctx, row, errs, off, ro, draining, frozen,
                   applying, up, proved>>

\* A drain or a rebalance made the row name another volume.
Relocated(k) ==
    /\ Event /\ k \notin off /\ off' = off \cup {k}
    /\ UNCHANGED <<registry, store, lost, w, pc, ctx, slice, row, errs, ro, draining, frozen,
                   applying, up, proved>>

\* The volume of a slice becomes read-only, or writable again: the manager
\* wakes the worker.
Flag(k) ==
    /\ Event
    /\ \/ ro' = ro \cup {k} /\ ro' # ro /\ UNCHANGED <<draining, w>>
       \/ ro' = ro \ {k} /\ ro' # ro /\ w' = (IF up THEN scheduleNow(w) ELSE w) /\ UNCHANGED draining
       \/ draining' = draining \cup {k} /\ draining' # draining /\ UNCHANGED <<ro, w>>
    /\ UNCHANGED <<registry, store, lost, pc, ctx, slice, row, errs, off, frozen, applying, up, proved>>

\* A DELETE, or an operator's recoveryComment.
RowChanges(o) ==
    /\ Event /\ row[o] = "live"
    /\ \E r \in {"gone", "dead"} : row' = [row EXCEPT ![o] = r]
    /\ UNCHANGED <<registry, store, lost, w, pc, ctx, slice, errs, off, ro, draining, frozen,
                   applying, up, proved>>

\* The retry window of a blocked fault ends.  It is an hour by default and the
\* pause between two passes of a backlog ten seconds: the backlog is done first.
Tick(k) ==
    /\ (\A p \in Pass : pc[p] = "idle") /\ ~w.wake /\ ~w.backlog
    /\ mem[k].status = "blocked" /\ ~mem[k].due
    /\ mem' = [mem EXCEPT ![k].due = TRUE]
    /\ store' = IF store[k].status = "blocked" THEN [store EXCEPT ![k].due = TRUE] ELSE store
    /\ chain' = [chain EXCEPT ![k] = [i \in DOMAIN @ |->
                    IF @[i].status = "blocked" THEN [@[i] EXCEPT !.due = TRUE] ELSE @[i]]]
    /\ UNCHANGED <<order, lost, w, pc, ctx, world, frozen, applying, up, proved, events>>

\* PUT /$/maintenance-freeze: the flag is written, then applied to the worker.
FreezeSet ==
    /\ up /\ ~applying /\ Event
    /\ frozen' = ~frozen /\ applying' = TRUE
    /\ UNCHANGED <<registry, store, lost, w, pc, ctx, world, up, proved>>

FreezeApply ==
    /\ up /\ applying
    /\ applying' = FALSE
    /\ w' = IF frozen THEN stop(w) ELSE start(w)
    /\ UNCHANGED <<registry, store, lost, pc, ctx, world, frozen, up, proved, events>>

\* The process dies: memory and queued writes are gone.
Crash ==
    /\ up /\ Event
    /\ up' = FALSE /\ w' = Stopped /\ applying' = FALSE
    /\ pc' = [p \in Pass |-> "idle"] /\ ctx' = [p \in Pass |-> Idle]
    /\ mem' = [k \in Key |-> NoFault] /\ order' = <<>>
    /\ chain' = [k \in Key |-> <<>>]
    /\ UNCHANGED <<store, lost, world, frozen, proved>>

\* Orders in which a list of keys can come back from the store.
Listings(S) == {s \in [1..Cardinality(S) -> S] : {s[i] : i \in DOMAIN s} = S}

\* Core.start(): hydrate(), then the worker unless frozen.  A store that cannot
\* be read leaves the table empty.
Restart ==
    /\ ~up
    /\ up' = TRUE /\ proved' = {}
    /\ \/ mem' = store /\ lost' = {} /\ UNCHANGED events
          /\ order' \in Listings({k \in Key : store[k].status # "none"})
       \/ Event /\ UNCHANGED <<mem, order>> /\ lost' = Key
    /\ w' = IF frozen THEN Stopped
            ELSE [Stopped EXCEPT !.started = TRUE, !.wake = order' # <<>>]
    /\ UNCHANGED <<chain, store, pc, ctx, world, frozen, applying>>

-----------------------------------------------------------------------------
Worker(p) == \/ Gate(p) \/ Loop(p) \/ Fault1(p) \/ Verify(p)
             \/ Rebuild(p) \/ Reverify(p)

Next ==
    \/ \E k \in Key : Report(k) \/ Persist(k) \/ Rot(k) \/ Relocated(k) \/ Flag(k) \/ Tick(k)
    \/ \E p \in Pass : Immediate(p) \/ BacklogTimer(p) \/ Worker(p)
    \/ \E o \in Object : RowChanges(o)
    \/ Poll \/ FreezeSet \/ FreezeApply \/ Crash \/ Restart

Spec == Init /\ [][Next]_vars

\* Timers fire, awaited calls return, the event loop runs every ready callback.
Fairness ==
    /\ WF_vars(\E p \in Pass : Worker(p))
    /\ WF_vars(\E p \in Pass : Immediate(p) \/ BacklogTimer(p))
    /\ \A k \in Key : WF_vars(Persist(k))
    /\ WF_vars(Poll) /\ WF_vars(FreezeApply)

FairSpec == Spec /\ Fairness

-----------------------------------------------------------------------------
TypeOK ==
    /\ mem \in [Key -> Fault] /\ store \in [Key -> Fault]
    /\ chain \in [Key -> Seq(Fault)] /\ order \in Seq(Key)
    /\ lost \subseteq Key /\ proved \subseteq Key /\ errs \subseteq Key
    /\ off \subseteq Key /\ ro \subseteq Key /\ draining \subseteq Key
    /\ w.active \subseteq Key
    /\ pc \in [Pass -> {"idle", "gate", "loop", "settle", "fault", "verify", "rebuild", "reverify"}]
    /\ slice \in [Key -> {"good", "bad"}] /\ row \in [Object -> {"live", "dead", "gone"}]
    /\ frozen \in BOOLEAN /\ applying \in BOOLEAN /\ up \in BOOLEAN /\ events \in 0..MaxEvents

\* The Map and its iteration order agree, and no two passes run at once: two
\* calls may wait at the freeze check, one gets past it.
OnePass ==
    /\ \A p, q \in Pass : pc[p] \notin {"idle", "gate"} /\ pc[q] \notin {"idle", "gate"} => p = q
    /\ w.running <=> Busy
    /\ {order[i] : i \in DOMAIN order} = {k \in Key : Open(k)}

\* What is stored is what memory says as soon as the queue of a key is empty,
\* unless its last write failed: a clear is not overtaken by an older upsert.
StoreConverges ==
    up => \A k \in Key : chain[k] = <<>> /\ k \notin lost => store[k] = mem[k]

\* A fault leaves the table only when its object is gone, its slice has moved,
\* the slice has read clean since the fault was recorded, or its volume is
\* draining.
ClearedForAReason ==
    [][up /\ up' => \A k \in Key : Open(k) /\ mem'[k] = NoFault =>
          \/ row[ObjectOf[k]] = "gone" \/ k \in off
          \/ k \in proved' \/ k \in draining]_vars

\* A freeze that has been applied (stop() does not wait for the pass that runs)
\* brings the worker to rest, or is lifted again.
FreezeQuiesces == (frozen /\ ~applying /\ up) ~> (~frozen \/ ~up \/ ~Busy)

\* A fault the worker may attempt is attempted, cleared or blocked, while the
\* worker runs.
Waiting(k)     == Open(k) /\ mem[k].status = "pending" /\ w.started
FaultSettles   ==
    \A k \in Watched : Waiting(k) ~> (~Waiting(k) \/ \E p \in Pass : pc[p] = "fault" /\ ctx[p].cur = k)

\* The worker gets through: a freeze comes to rest, and a fault is not left waiting.
WorkerLives == FreezeQuiesces /\ FaultSettles

\* One pass at a time reads the registry, and what the passes, the reports and
\* the clears have done to a fault is what the store ends up with.
RepairSafe == TypeOK /\ OnePass /\ StoreConverges
=============================================================================
