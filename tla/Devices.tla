------------------------------- MODULE Devices -------------------------------
(***************************************************************************)
(* The disks of the rack and the volumes that stand for them: discovery    *)
(* (io/device-discovery.ts), mounting (io/volume.ts), the fleet and its    *)
(* lock (io/volume-fleet.ts, io/manager.ts), the reconciler that follows   *)
(* disks coming and going (io/device-reconciler.ts), the operator's volume *)
(* updates (server/http/mgmt.ts) and the three watchers: SMART, volume     *)
(* health and the system log.                                              *)
(*                                                                         *)
(* The kernel gives an attached disk a name.  A name that a mount or a     *)
(* mapper still sits on is not given out again, so the disk that comes     *)
(* back gets another one while the old mount stays behind, dead.  A disk   *)
(* carries the identity of one volume; a copy of it carries the same one.  *)
(* The mount point and the mapper of a volume are named after the volume.  *)
(***************************************************************************)
EXTENDS Naturals, FiniteSets, FiniteSetsExt, SequencesExt

CONSTANTS
    Volumes,    \* the volumes of the array
    Encrypted,  \* those whose disk is a LUKS container
    Disks,      \* the disks, copies included
    Carries,    \* Carries[d]: the volume whose identity is on disk d
    Names,      \* the kernel names of partitions
    Gone,       \* no disk, no name, no mount point
    Start,      \* Start[n]: the disk attached as n when the array is first seen
    Asked,      \* the volumes the operator's requests are about
    Noisy,      \* the disks there is bad news about
    MaxPending, \* bound: pending sectors of one disk
    MaxMoves,   \* bound: disks attached and detached
    MaxOps,     \* bound: operator requests and maintenance freezes
    MaxFaults,  \* bound: crashes, shutdowns, failed commands, bad news about disks
    MaxTotal    \* bound: all of these together

ASSUME DevicesAssumption ==
    /\ IsFiniteSet(Volumes) /\ IsFiniteSet(Disks) /\ IsFiniteSet(Names)
    /\ Encrypted \subseteq Volumes /\ Carries \in [Disks -> Volumes]
    /\ Start \in [Names -> Disks \cup {Gone}] /\ Gone \notin Disks \cup Names \cup Volumes
    /\ \A m, n \in {n \in Names : Start[n] # Gone} : Carries[Start[m]] = Carries[Start[n]] => m = n
    /\ Asked \subseteq Volumes /\ Noisy \subseteq Disks
    /\ {MaxPending, MaxMoves, MaxOps, MaxFaults, MaxTotal} \subseteq Nat

VARIABLES
    kern,    \* the kernel: node, live, mnt, map
    vol,     \* the Volume objects of the fleet
    row,     \* the volume table
    queue,   \* who holds the fleet's lock, and who waits for it in which order
    pass,    \* the boot, or the reconcile pass, in flight
    req,     \* req[p]: the volume update of p in flight
    frozen,  \* the maintenance freeze
    up,      \* the process is running
    ill,     \* the disks whose SMART status is bad, the volumes with too many slice faults
    smart,   \* the volumes whose last SMART report was bad
    sectors, \* sectors[d]: the pending sectors smartd keeps reporting for d
    lines,   \* the kernel's error lines, and those an earlier poll has read
    watch,   \* the log watcher's poll in flight
    cool,    \* the volumes in cooldown
    checked, \* history: the pending count a targeted verify was last accepted for
    at_odds, \* history: volumes with two updates at once, or an update that failed half way
    used     \* what has happened so far

vars == <<kern, vol, row, queue, pass, req, frozen, up, ill, smart, sectors, lines, watch, cool,
          checked, at_odds, used>>

Procs == {"http", "health"}
Flags == {"en", "del", "dr", "ro", "hl"}
None == [n \in Names |-> Gone]
NoSnap == [disk |-> None, mp |-> None]
NoPass == [pc |-> "idle", kind |-> "pass", snap |-> NoSnap, auto |-> TRUE, table |-> [v \in Volumes |-> Gone],
           todo |-> {}]
NoReq == [pc |-> "idle", v |-> Gone, set |-> <<>>, snap |-> NoSnap]
NoWatch == [pc |-> "idle", sigs |-> {}, v |-> Gone, n |-> 0, read |-> {}]

May(kind, limit) == used[kind] < limit /\ used.moves + used.ops + used.faults < MaxTotal
Use(kind) == used' = [used EXCEPT ![kind] = @ + 1]
\* Whether the command this step runs fails: FALSE, or TRUE at the cost of a fault.
Slip(fails) == IF fails THEN May("faults", MaxFaults) /\ Use("faults") ELSE UNCHANGED used

-----------------------------------------------------------------------------
(* The kernel.  mnt[v]: the names mounted on v's mount point, one over the *)
(* other; map[v]: the name under v's mapper.                               *)

Held(k) == UNION {ToSet(k.mnt[v]) \cup {k.map[v]} : v \in Volumes}

Tidy(k) == [k EXCEPT !.node = [n \in Names |-> IF n \in k.live \cup Held(k) THEN k.node[n] ELSE Gone]]

Top(k, mp) == IF mp = Gone \/ k.mnt[mp] = <<>> THEN Gone ELSE Last(k.mnt[mp])

readProcMounts(k) == [v \in Volumes |-> Top(k, v)]

umount(k, mp) == Tidy([k EXCEPT !.mnt[mp] = Front(@)])

\* luksClose: a mapper that something still sits on stays open, and that is only logged.
luksClose(k, v) == IF k.mnt[v] # <<>> THEN k ELSE Tidy([k EXCEPT !.map[v] = Gone])

listRawBlockDevices == [n \in Names |-> IF n \in kern.live THEN kern.node[n] ELSE Gone]

\* The mount point of a partition, or of the mapper on it; lsblk lists one of several.
mountPointOf(n) ==
    LET where == {v \in Volumes : n \in kern.live /\ n \in ToSet(kern.mnt[v])}
    IN  IF where = {} THEN Gone ELSE CHOOSE v \in where : TRUE

\* What discover() returns: the attached disks by name, and where they are mounted.
discover == [disk |-> listRawBlockDevices, mp |-> [n \in Names |-> mountPointOf(n)]]

partitionsWithUuid(snap, v) == {n \in Names : snap.disk[n] # Gone /\ Carries[snap.disk[n]] = v}

livePath(snap, v) == IF Cardinality(partitionsWithUuid(snap, v)) = 1
                     THEN CHOOSE n \in partitionsWithUuid(snap, v) : TRUE ELSE Gone

-----------------------------------------------------------------------------
(* A volume: flags, binding (path), mount point and what it believes.      *)

newVolume(r) == [en |-> r.en /\ ~r.del, del |-> r.del, dr |-> r.dr, ro |-> r.ro, hl |-> r.hl, hw |-> r.hw,
                 path |-> Gone, mp |-> Gone, mounted |-> FALSE, started |-> FALSE]

isReadable(x) == x.started /\ x.en

isWritable(x) == x.started /\ x.en /\ x.hl /\ ~x.ro /\ ~x.dr

bindDevice(x, n, snap) == [x EXCEPT !.path = n, !.mp = snap.mp[n], !.mounted = snap.mp[n] # Gone]

\* Exactly one attached partition carries the identity, or the volume stays as it is.
bindVolumeDevice(x, v, snap) ==
    IF livePath(snap, v) = Gone THEN x ELSE bindDevice(x, livePath(snap, v), snap)

\* Volume.mount with luks.open: a mapper on another node is closed first, and if it will not close we refuse.
luksOpen(k, v, n) == IF v \notin Encrypted \/ k.map[v] \in {n, Gone} THEN k ELSE luksClose(k, v)

opens(k, v, n) == v \in Encrypted => k.map[v] \in {n, Gone} /\ \A w \in Volumes \ {v} : k.map[w] # n

mount(k, v, n) ==
    [k EXCEPT !.mnt[v] = Append(@, n), !.map[v] = IF v \in Encrypted THEN n ELSE @]

\* Only a node of the kind we bound mounts: a LUKS container cannot be mounted as ext4, nor ext4 unlocked.
mountable(v, n) == n \in kern.live /\ (Carries[kern.node[n]] \in Encrypted <=> v \in Encrypted)

\* start, first part: [k, x, ok] after mounting when nothing is mounted yet.
startMount(v, fails) ==
    LET x == vol[v]
        k == luksOpen(kern, v, x.path)
    IN  CASE x.mounted -> [k |-> kern, x |-> x, ok |-> TRUE]
          [] ~x.mounted /\ ~fails /\ mountable(v, x.path) /\ opens(k, v, x.path) ->
                [k |-> mount(k, v, x.path), x |-> [x EXCEPT !.mp = v, !.mounted = TRUE], ok |-> TRUE]
          [] OTHER -> [k |-> k, x |-> [x EXCEPT !.mp = v], ok |-> FALSE]

\* start, second part: the identity on what is mounted there, the free space, isStarted.
verify(v) ==
    LET n == Top(kern, vol[v].mp)
    IN  n \in kern.live /\ Carries[kern.node[n]] = v

\* Mutant: isStarted survives a successful stop.
StopKeepsStarted(k, x, v, fails) ==
    IF ~x.mounted \/ fails \/ Top(k, x.mp) = Gone THEN [k |-> k, x |-> x]
    ELSE [k |-> umount(k, x.mp), x |-> [x EXCEPT !.mounted = FALSE]]

stop(k, x, v, fails) ==
    LET off == umount(k, x.mp)
        done == [x EXCEPT !.started = FALSE, !.mounted = FALSE]
    IN  CASE ~x.mounted -> [k |-> k, x |-> done]
          [] x.mounted /\ (fails \/ Top(k, x.mp) = Gone) -> [k |-> k, x |-> x]
          [] OTHER -> [k |-> IF v \in Encrypted /\ x.path # Gone THEN luksClose(off, v) ELSE off, x |-> done]

\* markMissing: lazy unmount, lock, forget the binding; fails is a mapper that will not close.
markMissing(x, v, fails) ==
    LET k == IF x.mounted /\ Top(kern, x.mp) # Gone THEN umount(kern, x.mp) ELSE kern
    IN  [k |-> IF v \in Encrypted /\ x.path # Gone /\ ~fails THEN luksClose(k, v) ELSE k,
         x |-> [x EXCEPT !.started = FALSE, !.mounted = FALSE, !.path = Gone, !.mp = Gone]]

-----------------------------------------------------------------------------
(* The fleet's lock: holders and waiters in the order they came.           *)

Holds(p) == queue # <<>> /\ Head(queue) = p

-----------------------------------------------------------------------------
(* Boot and the reconcile pass.                                            *)

\* Every volume of the table gets an object; those that are enabled are bound.
initVolume(v) == IF newVolume(row[v]).en THEN bindVolumeDevice(newVolume(row[v]), v, discover) ELSE newVolume(row[v])

\* ioManager.init: load the table, discover, bind, and start what was bound.
init ==
    /\ ~up
    /\ LET bound == [v \in Volumes |-> initVolume(v)]
           found == {v \in Volumes : bound[v].path # Gone}
       IN  /\ vol' = bound
           /\ pass' = IF found = {} THEN NoPass
                      ELSE [NoPass EXCEPT !.pc = "walk", !.kind = "boot", !.todo = found]
    /\ up' = TRUE
    /\ UNCHANGED <<kern, row, queue, req, frozen, ill, smart, sectors, lines, watch, cool, checked, at_odds, used>>

\* DeviceReconciler.reconcile: one pass at a time; disks are discovered before the lock is asked for.
reconcile ==
    /\ up /\ pass.pc = "idle"
    /\ pass' = [NoPass EXCEPT !.pc = "lock", !.snap = discover, !.auto = ~frozen]
    /\ queue' = Append(queue, "pass")
    /\ UNCHANGED <<kern, vol, row, req, frozen, up, ill, smart, sectors, lines, watch, cool, checked, at_odds, used>>

passLocked ==
    /\ pass.pc = "lock" /\ Holds("pass")
    /\ pass' = [pass EXCEPT !.pc = "walk", !.table = readProcMounts(kern), !.todo = Volumes]
    /\ UNCHANGED <<kern, vol, row, queue, req, frozen, up, ill, smart, sectors, lines, watch, cool, checked,
                   at_odds, used>>

\* Mutant: a mount is stale only when it is no longer in the table.
StaleByTableOnly(v) == vol[v].mounted /\ vol[v].mp # Gone /\ pass.table[vol[v].mp] = Gone

isMountStale(v) ==
    LET x == vol[v]
        live == livePath(pass.snap, v)
    IN  /\ x.mounted /\ x.mp # Gone
        /\ \/ pass.table[x.mp] = Gone \/ live = Gone
           \/ v \in Encrypted /\ (x.mp # v \/ kern.map[v] # live)
           \/ v \notin Encrypted /\ (x.mp \in Encrypted \/ pass.table[x.mp] # live)

present(v) == partitionsWithUuid(pass.snap, v) # {}
\* Mutant: draining volumes are not left alone.
LeftAloneUnlessDraining(v) == vol[v].del \/ ~vol[v].en
leftAlone(v) == vol[v].del \/ ~vol[v].en \/ vol[v].dr
inOrder(v) == vol[v].started /\ vol[v].path # Gone /\ ~isMountStale(v)
atTurn(v) == pass.todo # {} /\ v = CHOOSE w \in pass.todo : TRUE   \* always in the same order

\* On to the next volume; after the last one the lock is passed on.
next(v) ==
    LET left == pass.todo \ {v}
    IN  /\ pass' = IF left = {} THEN NoPass ELSE [pass EXCEPT !.pc = "walk", !.todo = left]
        /\ queue' = IF left = {} /\ pass.kind = "pass" THEN Tail(queue) ELSE queue

starting == pass' = [pass EXCEPT !.pc = "mount"] /\ UNCHANGED queue

\* One volume of a pass, up to the point where it has to be started.
reconcileVolume(v) ==
    /\ atTurn(v) /\ pass.pc = "walk" /\ pass.kind = "pass"
    /\ \E fails \in BOOLEAN :
         LET missing == markMissing(vol[v], v, fails)
             cleared == IF isMountStale(v) THEN missing ELSE [k |-> kern, x |-> vol[v]]
             bound == IF cleared.x.path = Gone THEN bindVolumeDevice(cleared.x, v, pass.snap) ELSE cleared.x
             tears == /\ ~leftAlone(v) /\ v \in Encrypted
                      /\ IF present(v) THEN isMountStale(v) /\ pass.auto ELSE vol[v].path # Gone
         IN  /\ fails => tears
             /\ Slip(fails)
             /\ \/ /\ leftAlone(v) \/ (present(v) /\ (inOrder(v) \/ ~pass.auto))
                   /\ next(v) /\ UNCHANGED <<kern, vol>>
                \/ /\ ~leftAlone(v) /\ ~present(v)
                   /\ next(v)
                   /\ IF vol[v].path # Gone \/ vol[v].started
                      THEN kern' = missing.k /\ vol' = [vol EXCEPT ![v] = missing.x]
                      ELSE UNCHANGED <<kern, vol>>
                \/ /\ ~leftAlone(v) /\ present(v) /\ ~inOrder(v) /\ pass.auto
                   /\ kern' = cleared.k
                   /\ vol' = [vol EXCEPT ![v] = bound]
                   /\ IF bound.path = Gone \/ bound.started THEN next(v) ELSE starting
    /\ UNCHANGED <<row, req, frozen, up, ill, smart, sectors, lines, watch, cool, checked, at_odds>>

\* At boot startVolumes starts every volume that was bound.
passMount(v) ==
    /\ atTurn(v) /\ pass.pc = IF pass.kind = "boot" THEN "walk" ELSE "mount"
    /\ \E fails \in BOOLEAN :
         LET s == startMount(v, fails)
         IN  /\ fails => ~vol[v].mounted
             /\ Slip(fails)
             /\ kern' = s.k /\ vol' = [vol EXCEPT ![v] = s.x]
             /\ IF s.ok THEN pass' = [pass EXCEPT !.pc = "verify"] /\ UNCHANGED queue ELSE next(v)
    /\ UNCHANGED <<row, req, frozen, up, ill, smart, sectors, lines, watch, cool, checked, at_odds>>

passVerify(v) ==
    /\ atTurn(v) /\ pass.pc = "verify"
    /\ vol' = [vol EXCEPT ![v].started = @ \/ verify(v)]
    /\ next(v)
    /\ UNCHANGED <<kern, row, req, frozen, up, ill, smart, sectors, lines, watch, cool, checked, at_odds, used>>

PassNext == \/ init \/ reconcile \/ passLocked
            \/ \E v \in Volumes : reconcileVolume(v) \/ passMount(v) \/ passVerify(v)

-----------------------------------------------------------------------------
(* Volume updates: the operator's (mgmt.ts) and the health monitor's.      *)
(* Each writes the table, discovers, waits for the lock and changes the    *)
(* fleet; a soft delete goes to the fleet without the lock.                *)

serving == up /\ pass.kind = "pass"
with(r, change) == [f \in DOMAIN r |-> IF f \in DOMAIN change THEN change[f] ELSE r[f]]
set(fs, b) == [f \in fs |-> b]

Requests == {set({"en"}, TRUE), set({"en"}, FALSE), set({"dr", "ro"}, TRUE), set({"dr"}, FALSE),
             set({"del"}, FALSE), set({"ro"}, FALSE), set({"hl"}, TRUE)}
Degrade == [f \in {"ro", "hl"} |-> f = "ro"]

\* database.updateVolumeFlags, and what is left to do after it.
updateRow(p, v, change, pc) ==
    /\ req[p].pc = "idle"
    /\ row' = [row EXCEPT ![v] = with(@, change)]
    /\ req' = [req EXCEPT ![p] = [NoReq EXCEPT !.pc = pc, !.v = v, !.set = change]]
    /\ at_odds' = IF \E o \in Procs : req[o].v = v THEN at_odds \cup {v} ELSE at_odds

\* A deleted volume may only return with its disk attached.
assertVolumeMayReturn(v) == \E n \in kern.live : Carries[kern.node[n]] = v

\* doVolumeUpdate and the drain requests.
doVolumeUpdate(v, change) ==
    /\ serving /\ May("ops", MaxOps) /\ Use("ops")
    /\ "del" \in DOMAIN change => row[v].del /\ assertVolumeMayReturn(v)
    /\ updateRow("http", v, change, "reload")
    /\ UNCHANGED <<kern, vol, queue, pass, frozen, up, ill, smart, sectors, lines, watch, cool, checked>>

doVolumeDelete(v) ==
    /\ serving /\ May("ops", MaxOps) /\ Use("ops")
    /\ updateRow("http", v, [f \in {"del", "en"} |-> f = "del"], "stop")
    /\ UNCHANGED <<kern, vol, queue, pass, frozen, up, ill, smart, sectors, lines, watch, cool, checked>>

\* VolumeHealthMonitor.evaluateVolume.
evaluateVolume(v) ==
    /\ serving
    /\ ~vol[v].del /\ ~vol[v].ro /\ vol[v].hl
    /\ v \in smart \cup ill.vols
    /\ updateRow("health", v, Degrade, "reload")
    /\ UNCHANGED <<kern, vol, queue, pass, frozen, up, ill, smart, sectors, lines, watch, cool, checked, used>>

reloadBlockDevices(p) ==
    /\ req[p].pc = "reload"
    /\ req' = [req EXCEPT ![p].pc = "lock", ![p].snap = discover]
    /\ queue' = Append(queue, p)
    /\ UNCHANGED <<kern, vol, row, pass, frozen, up, ill, smart, sectors, lines, watch, cool, checked, at_odds, used>>

\* The request ends, with the table and the fleet saying different things if it failed.
finish(p, ok) ==
    /\ req' = [req EXCEPT ![p] = NoReq]
    /\ queue' = Tail(queue)
    /\ at_odds' = IF ok THEN at_odds ELSE at_odds \cup {req[p].v}

\* _updateVolumeFlagsLocked.
updateVolumeFlags(p) ==
    /\ req[p].pc = "lock" /\ Holds(p)
    /\ LET v == req[p].v
           change == req[p].set
           x == with(vol[v], [f \in DOMAIN change \ {"en"} |-> change[f]])
           bound == bindVolumeDevice(x, v, req[p].snap)
       IN  \/ /\ "en" \notin DOMAIN change
              /\ vol' = [vol EXCEPT ![v] = x]
              /\ finish(p, TRUE) /\ UNCHANGED <<kern, used>>
           \/ /\ "en" \in DOMAIN change /\ change.en
              /\ \/ /\ x.del                              \* a deleted volume: a new object, and an error
                    /\ vol' = [vol EXCEPT ![v] = newVolume(row[v])]
                    /\ finish(p, FALSE)
                 \/ /\ ~x.del /\ x.started
                    /\ vol' = [vol EXCEPT ![v].en = TRUE]
                    /\ finish(p, TRUE)
                 \/ /\ ~x.del /\ ~x.started /\ livePath(req[p].snap, v) = Gone
                    /\ finish(p, FALSE) /\ UNCHANGED vol
                 \/ /\ ~x.del /\ ~x.started /\ livePath(req[p].snap, v) # Gone
                    /\ vol' = [vol EXCEPT ![v] = bound]
                    /\ req' = [req EXCEPT ![p].pc = "mount"]
                    /\ UNCHANGED <<queue, at_odds>>
              /\ UNCHANGED <<kern, used>>
           \/ /\ "en" \in DOMAIN change /\ ~change.en
              /\ \E fails \in BOOLEAN :
                   LET s == IF x.started THEN stop(kern, x, v, fails) ELSE [k |-> kern, x |-> x]
                   IN  /\ fails => x.started /\ x.mounted
                       /\ Slip(fails)
                       /\ kern' = s.k /\ vol' = [vol EXCEPT ![v] = [s.x EXCEPT !.en = FALSE]]
              /\ finish(p, TRUE)
    /\ UNCHANGED <<row, pass, frozen, up, ill, smart, sectors, lines, watch, cool, checked>>

reqMount(p) ==
    /\ req[p].pc = "mount"
    /\ \E fails \in BOOLEAN :
         LET v == req[p].v
             s == startMount(v, fails)
         IN  /\ fails => ~vol[v].mounted
             /\ Slip(fails)
             /\ kern' = s.k /\ vol' = [vol EXCEPT ![v] = s.x]
             /\ IF s.ok THEN req' = [req EXCEPT ![p].pc = "verify"] /\ UNCHANGED <<queue, at_odds>>
                        ELSE finish(p, FALSE)
    /\ UNCHANGED <<row, pass, frozen, up, ill, smart, sectors, lines, watch, cool, checked>>

reqVerify(p) ==
    /\ req[p].pc = "verify"
    /\ LET v == req[p].v
       IN  IF verify(v)
           THEN vol' = [vol EXCEPT ![v].started = TRUE, ![v].en = ~vol[v].del] /\ finish(p, TRUE)
           ELSE finish(p, FALSE) /\ UNCHANGED vol
    /\ UNCHANGED <<kern, row, pass, frozen, up, ill, smart, sectors, lines, watch, cool, checked, used>>

\* VolumeFleet.softDeleteVolume, which does not take the lock: stop, and after that mark.
softDeleteStop(p) ==
    /\ req[p].pc = "stop"
    /\ \E fails \in BOOLEAN :
         LET v == req[p].v
             s == stop(kern, vol[v], v, fails)
         IN  /\ fails => vol[v].mounted
             /\ Slip(fails)
             /\ kern' = s.k /\ vol' = [vol EXCEPT ![v] = s.x]
    /\ req' = [req EXCEPT ![p].pc = "mark"]
    /\ UNCHANGED <<row, queue, pass, frozen, up, ill, smart, sectors, lines, watch, cool, checked, at_odds>>

softDeleteMark(p) ==
    /\ req[p].pc = "mark"
    /\ vol' = [vol EXCEPT ![req[p].v].del = TRUE, ![req[p].v].en = FALSE]
    /\ req' = [req EXCEPT ![p] = NoReq]
    /\ UNCHANGED <<kern, row, queue, pass, frozen, up, ill, smart, sectors, lines, watch, cool, checked, at_odds, used>>

ReqNext(p) == \/ reloadBlockDevices(p) \/ updateVolumeFlags(p) \/ reqMount(p) \/ reqVerify(p)
              \/ softDeleteStop(p) \/ softDeleteMark(p)

setFrozen ==
    /\ serving /\ May("ops", MaxOps) /\ Use("ops")
    /\ frozen' = ~frozen
    /\ UNCHANGED <<kern, vol, row, queue, pass, req, up, ill, smart, sectors, lines, watch, cool, checked, at_odds>>

-----------------------------------------------------------------------------
(* The SMART monitor and the log watcher.                                  *)

\* What smartctl says of the disk now under the name the volume is bound to.
smartFails(v) == vol[v].path \in kern.live /\ kern.node[vol[v].path] \in ill.disks

refreshAll ==
    /\ serving
    /\ smart' = {v \in Volumes : vol[v].started /\ smartFails(v)}
    /\ UNCHANGED <<kern, vol, row, queue, pass, req, frozen, up, ill, sectors, lines, watch, cool, checked,
                   at_odds, used>>

ioSignals == {[dev |-> l, kind |-> "ioerror", n |-> 0] : l \in lines.all \ lines.read}

pendingSignals == {[dev |-> m, kind |-> "pending", n |-> sectors[kern.node[m]]] :
                      m \in {m \in kern.live : sectors[kern.node[m]] > 0}}

\* dedupeByDevice: the last signal of a device counts, and the kernel's lines come after smartd's.
signals == ioSignals \cup {s \in pendingSignals : \A t \in ioSignals : t.dev # s.dev}

poll ==
    /\ serving /\ watch.pc = "idle" /\ signals # {}
    /\ watch' = [NoWatch EXCEPT !.pc = "handle", !.sigs = signals, !.read = lines.all]
    /\ UNCHANGED <<kern, vol, row, queue, pass, req, frozen, up, ill, smart, sectors, lines, cool, checked,
                   at_odds, used>>

\* A line names a partition's disk, or the mapper of a volume.
mapperLeaf(dev) == IF dev \in Volumes THEN kern.map[dev] ELSE dev

resolveVolume(dev) == {v \in Volumes : mapperLeaf(dev) # Gone /\ vol[v].path = mapperLeaf(dev) /\ ~vol[v].del}

\* A pending count already acted on, and a volume in cooldown, are left alone.
heeds(v, s) == v # Gone /\ v \notin cool /\ (s.kind = "pending" => s.n > vol[v].hw)

\* Mutant: the high-water mark is recorded before the verify is asked for.
HandleRecordsFirst(s) ==
    /\ watch.pc = "handle" /\ s \in watch.sigs
    /\ \E v \in resolveVolume(s.dev) \cup {Gone} :
         /\ v = Gone => resolveVolume(s.dev) = {}
         /\ vol' = IF heeds(v, s) /\ s.kind = "pending" THEN [vol EXCEPT ![v].hw = s.n] ELSE vol
         /\ \/ Slip(heeds(v, s)) /\ UNCHANGED <<cool, checked>>
            \/ /\ heeds(v, s) /\ cool' = cool \cup {v}
               /\ checked' = [checked EXCEPT ![v] = s.n] /\ UNCHANGED used
    /\ watch' = [watch EXCEPT !.sigs = @ \ {s}]
    /\ UNCHANGED <<kern, row, queue, pass, req, frozen, up, ill, smart, sectors, lines, at_odds>>

handleSignal(s) ==
    /\ watch.pc = "handle" /\ s \in watch.sigs
    /\ \E v \in resolveVolume(s.dev) \cup {Gone} :
         /\ v = Gone => resolveVolume(s.dev) = {}
         /\ \/ /\ ~heeds(v, s)
               /\ watch' = [watch EXCEPT !.sigs = @ \ {s}]
               /\ UNCHANGED <<vol, cool, checked, used>>
            \/ /\ heeds(v, s)                             \* the verify is refused
               /\ Slip(TRUE)
               /\ watch' = [watch EXCEPT !.sigs = @ \ {s}]
               /\ UNCHANGED <<vol, cool, checked>>
            \/ /\ heeds(v, s)                             \* the verify is accepted
               /\ cool' = cool \cup {v}
               /\ IF s.kind = "pending"
                  THEN /\ checked' = [checked EXCEPT ![v] = s.n]
                       /\ vol' = [vol EXCEPT ![v].hw = s.n]
                       /\ watch' = [watch EXCEPT !.sigs = @ \ {s}, !.pc = "persist", !.v = v, !.n = s.n]
                  ELSE /\ watch' = [watch EXCEPT !.sigs = @ \ {s}]
                       /\ UNCHANGED <<checked, vol>>
               /\ UNCHANGED used
    /\ UNCHANGED <<kern, row, queue, pass, req, frozen, up, ill, smart, sectors, lines, at_odds>>

persistPendingHighWater ==
    /\ watch.pc = "persist"
    /\ \E fails \in BOOLEAN :
         /\ Slip(fails)
         /\ row' = IF fails THEN row ELSE [row EXCEPT ![watch.v].hw = watch.n]
    /\ watch' = [watch EXCEPT !.pc = "handle", !.v = Gone, !.n = 0]
    /\ UNCHANGED <<kern, vol, queue, pass, req, frozen, up, ill, smart, sectors, lines, cool, checked, at_odds>>

pollDone ==
    /\ watch.pc = "handle" /\ watch.sigs = {}
    /\ watch' = NoWatch
    /\ lines' = [lines EXCEPT !.read = watch.read]
    /\ UNCHANGED <<kern, vol, row, queue, pass, req, frozen, up, ill, smart, sectors, cool, checked, at_odds, used>>

WatchNext == poll \/ (\E s \in watch.sigs : handleSignal(s)) \/ persistPendingHighWater \/ pollDone

coolDown ==
    /\ \E v \in cool : cool' = cool \ {v}
    /\ UNCHANGED <<kern, vol, row, queue, pass, req, frozen, up, ill, smart, sectors, lines, watch, checked,
                   at_odds, used>>

-----------------------------------------------------------------------------
(* The world.                                                              *)

\* A disk is plugged in and gets a name nothing holds.
attach(d, n) ==
    /\ May("moves", MaxMoves) /\ Use("moves")
    /\ kern.node[n] = Gone /\ \A m \in kern.live : kern.node[m] # d
    /\ kern' = [kern EXCEPT !.node[n] = d, !.live = @ \cup {n}]
    /\ UNCHANGED <<vol, row, queue, pass, req, frozen, up, ill, smart, sectors, lines, watch, cool, checked, at_odds>>

\* A disk drops off the bus; what was mounted from it stays, dead.
detach(n) ==
    /\ May("moves", MaxMoves) /\ Use("moves")
    /\ n \in kern.live
    /\ kern' = Tidy([kern EXCEPT !.live = @ \ {n}])
    /\ UNCHANGED <<vol, row, queue, pass, req, frozen, up, ill, smart, sectors, lines, watch, cool, checked, at_odds>>

\* A disk's SMART status turns bad, a volume's slice faults pass the threshold, a disk has one more
\* pending sector, the kernel complains about a disk or about a mapper.
badNews ==
    /\ May("faults", MaxFaults) /\ Use("faults")
    /\ \/ /\ \E d \in Noisy \ ill.disks : ill' = [ill EXCEPT !.disks = @ \cup {d}]
          /\ UNCHANGED <<sectors, lines>>
       \/ /\ \E v \in {Carries[d] : d \in Noisy} \ ill.vols : ill' = [ill EXCEPT !.vols = @ \cup {v}]
          /\ UNCHANGED <<sectors, lines>>
       \/ /\ \E d \in Noisy : sectors[d] < MaxPending /\ sectors' = [sectors EXCEPT ![d] = @ + 1]
          /\ UNCHANGED <<ill, lines>>
       \/ /\ \E n \in kern.live : kern.node[n] \in Noisy /\ \E l \in {n} \cup {v \in Volumes : kern.map[v] = n} :
                lines' = [all |-> lines.all \cup {l}, read |-> lines.read \ {l}]
          /\ UNCHANGED <<ill, sectors>>
    /\ UNCHANGED <<kern, vol, row, queue, pass, req, frozen, up, smart, watch, cool, checked, at_odds>>

\* The process ends: everything in memory is gone, mounts and mappers stay.
ends(k) ==
    /\ up /\ May("faults", MaxFaults) /\ Use("faults")
    /\ up' = FALSE /\ kern' = k
    /\ vol' = [v \in Volumes |-> newVolume(row[v])]
    /\ pass' = NoPass /\ req' = [p \in Procs |-> NoReq] /\ queue' = <<>>
    /\ smart' = {} /\ watch' = NoWatch /\ cool' = {} /\ at_odds' = {}
    /\ lines' = [lines EXCEPT !.read = {}]
    /\ UNCHANGED <<row, frozen, ill, sectors, checked>>

crash == ends(kern)

\* ioManager.stop: unmount and lock what can be.
stopVolumes == pass.kind = "pass" /\ \E busy \in SUBSET Asked :
    ends(FoldSet(LAMBDA v, k : stop(k, vol[v], v, FALSE).k, kern, Volumes \ busy))

-----------------------------------------------------------------------------
Init ==
    /\ kern = [node |-> Start, live |-> {n \in Names : Start[n] # Gone},
               mnt |-> [v \in Volumes |-> <<>>], map |-> [v \in Volumes |-> Gone]]
    /\ row = [v \in Volumes |-> [en |-> TRUE, del |-> FALSE, dr |-> FALSE, ro |-> FALSE, hl |-> TRUE, hw |-> 0]]
    /\ vol = [v \in Volumes |-> newVolume(row[v])]
    /\ queue = <<>> /\ pass = NoPass /\ req = [p \in Procs |-> NoReq]
    /\ frozen = FALSE /\ up = FALSE
    /\ ill = [disks |-> {}, vols |-> {}] /\ smart = {} /\ sectors = [d \in Disks |-> 0]
    /\ lines = [all |-> {}, read |-> {}] /\ watch = NoWatch /\ cool = {}
    /\ checked = [v \in Volumes |-> 0] /\ at_odds = {}
    /\ used = [moves |-> 0, ops |-> 0, faults |-> 0]

HealthNext == \E v \in Volumes : evaluateVolume(v)

Next ==
    \/ PassNext
    \/ \E p \in Procs : ReqNext(p)
    \/ \E v \in Asked : doVolumeDelete(v) \/ \E change \in Requests : doVolumeUpdate(v, change)
    \/ setFrozen
    \/ HealthNext \/ refreshAll \/ WatchNext \/ coolDown
    \/ \E n \in Names : detach(n) \/ \E d \in Disks : attach(d, n)
    \/ badNews \/ crash \/ stopVolumes

Spec == Init /\ [][Next]_vars

\* The event loop runs what is ready, timers fire, the lock is passed on, the process is restarted.
FairSpec ==
    /\ Spec
    /\ WF_vars(PassNext) /\ \A p \in Procs : WF_vars(ReqNext(p))
    /\ WF_vars(HealthNext) /\ WF_vars(refreshAll) /\ WF_vars(WatchNext) /\ WF_vars(coolDown)

-----------------------------------------------------------------------------
(* Properties.                                                             *)

SnapType == [disk : [Names -> Disks \cup {Gone}], mp : [Names -> Volumes \cup {Gone}]]

\* The types; the lock is held by whoever is inside it, and nobody waits twice.
TypeOK ==
    /\ kern.node \in [Names -> Disks \cup {Gone}] /\ kern.live \subseteq {n \in Names : kern.node[n] # Gone}
    /\ \A v \in Volumes : ToSet(kern.mnt[v]) \subseteq Names /\ kern.map[v] \in Names \cup {Gone}
    /\ \A v \in Volumes : vol[v].path \in Names \cup {Gone} /\ vol[v].mp \in Volumes \cup {Gone}
    /\ ToSet(queue) \subseteq Procs \cup {"pass"} /\ Len(queue) = Cardinality(ToSet(queue))
    /\ pass.pc \in {"walk", "mount", "verify"} /\ pass.kind = "pass" => Holds("pass")
    /\ \A p \in Procs : req[p].pc \in {"mount", "verify"} => Holds(p)
    /\ pass.snap \in SnapType /\ \A p \in Procs : req[p].snap \in SnapType

\* What a readable volume reads from is a disk that carries its identity.
ServesOwnDisk ==
    \A v \in Volumes : up /\ isReadable(vol[v]) =>
        /\ vol[v].mounted /\ Top(kern, vol[v].mp) # Gone
        /\ Carries[kern.node[Top(kern, vol[v].mp)]] = v

\* With no update in flight the fleet and the table agree about every volume.
RowsAgree ==
    \A v \in Volumes \ at_odds : up /\ (\A p \in Procs : req[p].v # v) =>
        \A f \in Flags : vol[v][f] = newVolume(row[v])[f]

\* A pass neither starts nor stops a volume the operator has disabled or is draining.
IntentRespected ==
    [][\A v \in Volumes :
          pass.kind = "pass" /\ pass' # pass /\ up' /\ vol'[v].started # vol[v].started
             => (vol[v].en \/ vol[v].del) /\ ~vol[v].dr]_vars

attached(v) == {n \in kern.live : Carries[kern.node[n]] = v}
ServesLive(v) == isReadable(vol[v]) /\ Top(kern, vol[v].mp) \in attached(v)
Settled(v) == IF Cardinality(attached(v)) = 1 THEN ServesLive(v) ELSE ~isReadable(vol[v])
Wanted(v) == up /\ ~frozen /\ ~leftAlone(v)

\* An encrypted volume's mount that an earlier process left behind, which keeps its mapper from closing.
Leftover(v) == v \in Encrypted /\ ~vol[v].mounted /\ kern.mnt[v] # <<>>
\* A volume that did not start and is still bound to a name that its disk no longer has.
Misbound(v) == ~vol[v].mounted /\ vol[v].path \notin attached(v) \cup {Gone}

\* Once nothing changes any more, a volume that is neither of these two serves exactly when one attached
\* disk carries it, and from that disk: pulled disks go missing, returned disks are remounted under their
\* new name, dead mounts are healed, a copy takes the volume offline (VolumeFleet.reconcile).
FleetSettles == \A v \in Volumes : <>[](Wanted(v) /\ ~Leftover(v) /\ ~Misbound(v)) => []<>Settled(v)

Ailing(v) == ServesLive(v) /\ (v \in ill.vols \/ kern.node[Top(kern, vol[v].mp)] \in ill.disks)

\* A volume on a failing disk, or with too many slice faults, stops taking new slices.
AilingStopsWrites == \A v \in Volumes : <>[]Ailing(v) => []<>~isWritable(vol[v])

Grown(v) == ServesLive(v) /\ sectors[kern.node[Top(kern, vol[v].mp)]] > checked[v]

\* A pending count that has grown is eventually followed by a verify of that volume.
GrowthVerified == \A v \in Volumes : []<>~Grown(v)

\* A started volume serves its own disk, and memory and database agree on it, however requests, passes of the
\* reconciler and hot-plugging interleave.
DevicesSafe == TypeOK /\ ServesOwnDisk /\ RowsAgree

\* What the watchers of the disks see has its consequence.
WatchersAct == AilingStopsWrites /\ GrowthVerified
=============================================================================
