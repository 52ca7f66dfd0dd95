--------------------------------- MODULE Keys ---------------------------------
(***************************************************************************)
(* Encrypted disks and their one recovery passphrase: provisioning a disk  *)
(* (io/device-provisioner.ts), converting a volume (handleVolumeEncrypt-   *)
(* Request of server/http/mgmt.ts), changing the passphrase and auditing   *)
(* it (io/luks-recovery-key.ts), retiring and restoring a volume.          *)
(*                                                                         *)
(* Every LUKS container has the keyfile's slot; slots is the set of        *)
(* passphrases that open it besides.  The verifier is the hash of one      *)
(* passphrase and the seal a copy of one under the keyfile: each is that   *)
(* passphrase.  part is a disk's partition uuid, new with every partition  *)
(* table.  label is who a disk says it is: the nameplate of a locked disk, *)
(* the .identity file of a plain one.                                      *)
(***************************************************************************)
EXTENDS Integers, FiniteSets, FiniteSetsExt

CONSTANTS
    Disk,      \* the disks of the rack
    InUse,     \* InUse[d]: the volume that starts on disk d, 0 for a blank disk
    Encrypted, \* the sets of disks that may start encrypted
    Drained,   \* the disks whose volumes start drained and read-only
    Retired,   \* the sets of disks whose volumes may start retired
    Pass,      \* the passphrases anybody ever types
    First,     \* the one the array starts with when a disk of it is encrypted
    MayWedge,  \* removing a keyslot may fail
    MayRace,   \* two requests may pick the same volume id, and a volume may be retired while it is made
    MaxReqs,   \* bound: provisioning requests and conversions
    MaxOps,    \* bound: passphrase changes, volumes retired or restored
    MaxEvents, \* bound: crashes, restores, disks coming, going and changing names
    MaxTotal   \* bound: all of these together

ASSUME KeysAssumption ==
    /\ IsFiniteSet(Disk) /\ IsFiniteSet(Pass) /\ First \in Pass /\ "none" \notin Pass
    /\ InUse \in [Disk -> Nat]
    /\ \A d, e \in Disk : InUse[d] = InUse[e] /\ InUse[d] # 0 => d = e
    /\ \A S \in Encrypted \cup Retired : S \subseteq {d \in Disk : InUse[d] # 0}
    /\ Drained \subseteq Disk
    /\ MayWedge \in BOOLEAN /\ MayRace \in BOOLEAN
    /\ {MaxReqs, MaxOps, MaxEvents, MaxTotal} \subseteq Nat

NoPass == "none"

VARIABLES
    disk,     \* disk[d]: what is on it, and whether it is attached
    db,       \* verifier, seal, audit and the rows of the volume table
    backup,   \* the database as it was backed up
    token,    \* which run of mongod this is
    fleet,    \* the volumes registered with ioManager
    req,      \* provisioning requests in flight
    rot,      \* the passphrase change in flight
    upd,      \* the volume update in flight
    excused,  \* history: disks whose volume was out of the table when a passphrase was recorded without them
    rewound,  \* history: the database is older than the passphrase the disks carry
    ragged,   \* history: a passphrase change left the old one on some disk, or a change, an encryption or an audit missed a disk
    harmed,   \* history: disks written to by a request that was not about them
    used

vars == <<disk, db, backup, token, fleet, req, rot, upd, excused, rewound, ragged, harmed, used>>

Id == 0 .. Cardinality(Disk)  \* bound: the ids a new volume may get
Row == [id : Nat, disk : Disk, part : Nat, deleted : BOOLEAN, ro : BOOLEAN]
PC == {"wipe", "prove", "claim", "part", "key", "open", "mkfs", "join", "row", "flag"}
Kinds == {"req", "op", "event"}

Bounded(k, n) ==
    /\ used[k] < n /\ used["req"] + used["op"] + used["event"] < MaxTotal
    /\ used' = [used EXCEPT ![k] = @ + 1]

----------------------------------------------------------------------------
(* The platters and the fleet scan.                                        *)

\* The disk a volume is recorded on is attached and still carries its partition.
volumeDiskIsAttached(v) == disk[v.disk].here /\ disk[v.disk].part = v.part

absentVolumeIds == {v.id : v \in {w \in fleet : ~w.deleted /\ ~volumeDiskIsAttached(w)}}

\* findEncryptedPartitions: containers with a nameplate, and containers nobody can place.
ours == {d \in Disk : disk[d].here /\ disk[d].kind = "luks" /\ disk[d].label # 0}
unknown == {d \in Disk : disk[d].here /\ disk[d].kind = "luks" /\ disk[d].label = 0}

\* The containers a passphrase opens, and whether a scan lists them all.
Keyed == {d \in Disk : disk[d].kind = "luks" /\ disk[d].slots # {}}
SeesAll == Keyed \subseteq ours

\* Volumes the fleet mounted from a mapper (isEncrypted; markMissing forgets it for a disk that is away).
encryptedVolumeIds == {v.id : v \in {w \in fleet : ~w.deleted /\ volumeDiskIsAttached(w)
                                                   /\ disk[w.disk].kind = "luks"}}

testPassphrase(d, p) == IF ~disk[d].here THEN "unreadable"
                        ELSE IF p \in disk[d].slots THEN "opens" ELSE "rejected"

\* The sealed copy counts only while it agrees with the recorded hash.
sealedRecoveryPassphrase == IF db.verifier # NoPass /\ db.seal = db.verifier THEN db.seal ELSE NoPass

rotating == rot.pc # "idle"
encryptionsInFlight == Cardinality({r \in DOMAIN req : req[r].enc}) + (IF upd.pc = "idle" THEN 0 ELSE 1)

withEncryptionSlot == ~rotating
\* Mutant: a change starts while encryptions are in flight.
RotateAnyway == ~rotating

withRotationSlot == ~rotating /\ encryptionsInFlight = 0

\* assertPassphraseOpensTheFleet: nothing unaskable, and the first disk that answers says yes.  The scan
\* lists the disks in no particular order.
assertPassphraseOpensTheFleet(p) ==
    /\ unknown = {} /\ absentVolumeIds = {}
    /\ IF ours = {} THEN encryptedVolumeIds = {} ELSE \E d \in ours : testPassphrase(d, p) = "opens"

----------------------------------------------------------------------------
(* Provisioning: one step per await that writes.                           *)

Idle == [r \in {} |-> 0]
Drop(f, r) == [x \in DOMAIN f \ {r} |-> f[x]]
Put(f, r, v) == [x \in DOMAIN f \cup {r} |-> IF x = r THEN v ELSE f[x]]
Go(r, pc) == req' = [req EXCEPT ![r].pc = pc]

\* The path still leads to the drive that was scanned; every write asks first.
assertStillTheSameDisk(r) == req[r].at = r /\ disk[r].here
fencedWrite(r, d, v) ==
    /\ assertStillTheSameDisk(r)
    /\ disk' = [disk EXCEPT ![d] = v]
    /\ harmed' = harmed \cup ({d} \ {r})

\* probeDeviceForStrubsIdentity of what is at the path now.
Probe(d) == CASE disk[d].kind = "blank" -> "clean"
              [] disk[d].label # 0 -> "strubs"
              [] disk[d].kind = "luks" -> "unknown"
              [] OTHER -> "clean"

\* A new volume must not carry anybody's; a conversion must carry the volume it was asked for.
assertDeviceIsNotOurs(d, convert) ==
    IF convert = 0 THEN Probe(d) = "clean" ELSE Probe(d) = "strubs" /\ disk[d].label = convert

Gate(enc) == IF enc THEN "prove" ELSE "part"
Begin(d, pc, enc, p, convert) ==
    /\ d \notin DOMAIN req /\ disk[d].here
    /\ enc => withEncryptionSlot
    /\ assertDeviceIsNotOurs(d, convert)
    /\ Bounded("req", MaxReqs)
    /\ req' = Put(req, d, [pc |-> pc, enc |-> enc, pass |-> p, convert |-> convert, id |-> 0, at |-> d,
                           mapper |-> d])
    /\ UNCHANGED <<disk, db, backup, token, rot, upd, excused, rewound, ragged, harmed>>

\* A new volume on disk d, encrypted or not, with a passphrase or with the sealed one.  The operator asks
\* for a wipe when the disk is not blank.
provision(d, enc, p) ==
    /\ Begin(d, IF disk[d].kind = "blank" THEN Gate(enc) ELSE "wipe", enc, p, 0)
    /\ UNCHANGED fleet

\* A drained volume becomes an encrypted one: it leaves the fleet, then its disk is provisioned again.
convertVolumeToEncrypted(v, p) ==
    /\ ~v.deleted /\ v.ro /\ volumeDiskIsAttached(v) /\ disk[v.disk].kind # "luks"
    /\ \A r \in DOMAIN req : req[r].convert = 0
    /\ MayRace \/ upd.pc = "idle" \/ upd.id # v.id
    /\ Begin(v.disk, "wipe", TRUE, p, v.id)
    /\ fleet' = fleet \ {v}

\* Any refusal, failed command or failed write ends the request; a conversion puts the recorded volume back.
Abandon(r) ==
    LET existing == {v \in db.rows : v.id = req[r].convert}
        joined == IF req[r].pc = "row" THEN {v \in fleet : v.id = req[r].id} ELSE {} IN
    /\ \E back \in IF existing = {} THEN {{}} ELSE {{v} : v \in existing} :
          fleet' = {v \in fleet \ joined : \A w \in back : v.id # w.id} \cup back
    /\ req' = Drop(req, r)
    /\ UNCHANGED <<disk, db, backup, token, rot, upd, excused, rewound, ragged, harmed, used>>

Blank(d) == [kind |-> "blank", slots |-> {}, label |-> 0, part |-> disk[d].part + 1, here |-> disk[d].here]

wipeDevice(r) ==
    LET d == req[r].at IN
    /\ req[r].pc = "wipe"
    /\ fencedWrite(r, d, Blank(d))
    /\ Go(r, Gate(req[r].enc))
    /\ UNCHANGED <<db, backup, token, fleet, rot, upd, excused, rewound, ragged, used>>

ensureDeviceNotRegistered(r) == req[r].convert = 0 => \A v \in fleet : v.disk # r

\* assertFleetRecoveryPassphrase: the recorded one; with none on record, only the very first container.
assertFleetRecoveryPassphrase(p) ==
    IF db.verifier # NoPass THEN p = db.verifier
    ELSE unknown = {} /\ ours = {} /\ absentVolumeIds = {}

\* The passphrase typed, else the sealed one, proven against a platter and against the record.
assertEncryptionIsPossible(r) ==
    LET known == IF req[r].pass # NoPass THEN req[r].pass ELSE sealedRecoveryPassphrase IN
    /\ req[r].pc = "prove"
    /\ ensureDeviceNotRegistered(r)
    /\ known # NoPass
    /\ assertPassphraseOpensTheFleet(known)
    /\ assertFleetRecoveryPassphrase(known)
    /\ req' = [req EXCEPT ![r].pc = IF sealedRecoveryPassphrase = NoPass THEN "claim" ELSE "part",
                          ![r].pass = known]
    /\ ragged' = (ragged \/ ~SeesAll)
    /\ UNCHANGED <<disk, db, backup, token, fleet, rot, upd, excused, rewound, harmed, used>>

\* setRuntimeConfigIfAbsent: whoever is second must have the winner's passphrase.  reseal may fail: it says
\* so and goes on.
claimRecoveryPassphrase(r) ==
    LET p == req[r].pass IN
    /\ req[r].pc = "claim"
    /\ db.verifier \in {NoPass, p}
    /\ \E seal \in {p, db.seal} : db' = [db EXCEPT !.verifier = p, !.seal = seal]
    /\ Go(r, "part")
    /\ UNCHANGED <<disk, backup, token, fleet, rot, upd, excused, rewound, ragged, harmed, used>>

\* A partition table; for an encrypted volume a LUKS header that only the keyfile opens, too.
luksFormat(enc, d) == IF enc THEN [Blank(d) EXCEPT !.kind = "luks"] ELSE Blank(d)
partitionDevice(r) ==
    LET d == req[r].at IN
    /\ req[r].pc = "part"
    /\ ensureDeviceNotRegistered(r)
    /\ fencedWrite(r, d, luksFormat(req[r].enc, d))
    /\ Go(r, IF req[r].enc THEN "key" ELSE "mkfs")
    /\ UNCHANGED <<db, backup, token, fleet, rot, upd, excused, rewound, ragged, used>>

addPassphrase(r) ==
    /\ req[r].pc = "key"
    /\ fencedWrite(r, req[r].at, [disk[req[r].at] EXCEPT !.slots = @ \cup {req[r].pass}])
    /\ Go(r, "open")
    /\ UNCHANGED <<db, backup, token, fleet, rot, upd, excused, rewound, ragged, used>>

\* Mutant: the mapper is trusted.
MapperTrusted(r) == TRUE

\* luksOpen maps whatever is at the path; the backing drive is asked for its serial afterwards.
assertMapperBackedByExpectedDisk(r) == req'[r].mapper = r
luksOpen(r) ==
    /\ req[r].pc = "open"
    /\ disk[req[r].at].here /\ disk[req[r].at].kind = "luks"
    /\ req' = [req EXCEPT ![r].pc = "mkfs", ![r].mapper = req[r].at]
    /\ assertMapperBackedByExpectedDisk(r)
    /\ UNCHANGED <<disk, db, backup, token, fleet, rot, upd, excused, rewound, ragged, harmed, used>>

getNextVolumeId(rows) == 1 + Max({0} \cup {v.id : v \in rows})
createVolumeConfig(r, rows) == IF req[r].convert # 0 THEN req[r].convert ELSE getNextVolumeId(rows)

\* mkfs is fenced by the path, and writes through the mapper when there is one.  Then the replaced volume
\* leaves the table and the fleet, and the new configuration gets its id.
formatPartition(r) ==
    LET d == IF req[r].enc THEN req[r].mapper ELSE req[r].at
        rows == {v \in db.rows : v.id # req[r].convert}
        id == createVolumeConfig(r, rows) IN
    /\ req[r].pc = "mkfs"
    /\ fencedWrite(r, d, IF req[r].enc THEN disk[d] ELSE [disk[d] EXCEPT !.kind = "ext", !.label = 0])
    /\ id \in Id
    /\ MayRace \/ \A q \in DOMAIN req \ {r} : id \notin {req[q].id, req[q].convert}
    /\ db' = [db EXCEPT !.rows = rows]
    /\ fleet' = {v \in fleet : v.id # req[r].convert}
    /\ req' = [req EXCEPT ![r].pc = "join", ![r].id = id]
    /\ UNCHANGED <<backup, token, rot, upd, excused, rewound, ragged, used>>

NewRow(r) == [id |-> req[r].id, disk |-> r, part |-> disk[r].part, deleted |-> FALSE, ro |-> TRUE]

\* The nameplate, or the .identity file: the disk says which volume it is.
stampNameplate(r) == [disk[req[r].at] EXCEPT !.label = req[r].id]

\* registerVolume: into the fleet read-only; an entry with that id is replaced.
registerVolume(r) ==
    /\ req[r].pc = "join"
    /\ fencedWrite(r, req[r].at, stampNameplate(r))
    /\ fleet' = {v \in fleet : v.id # req[r].id} \cup {NewRow(r)}
    /\ Go(r, "row")
    /\ UNCHANGED <<db, backup, token, rot, upd, excused, rewound, ragged, used>>

createVolume(r) ==
    /\ req[r].pc = "row"
    /\ db' = [db EXCEPT !.rows = @ \cup {NewRow(r)}]
    /\ Go(r, "flag")
    /\ UNCHANGED <<disk, backup, token, fleet, rot, upd, excused, rewound, ragged, harmed, used>>

\* updateVolumeFlags: one row with that id, whichever the server finds, then the fleet's entry.
updateVolumeFlags(r) ==
    LET rows == {v \in db.rows : v.id = req[r].id} IN
    /\ req[r].pc = "flag"
    /\ IF rows = {} THEN UNCHANGED db
       ELSE \E v \in rows : db' = [db EXCEPT !.rows = (@ \ {v}) \cup {[v EXCEPT !.ro = FALSE]}]
    /\ fleet' = {IF v.id = req[r].id THEN [v EXCEPT !.ro = FALSE] ELSE v : v \in fleet}
    /\ req' = Drop(req, r)
    /\ UNCHANGED <<disk, backup, token, rot, upd, excused, rewound, ragged, harmed, used>>

----------------------------------------------------------------------------
(* PUT /$/encryption/passphrase: add everywhere, record, retire the old.   *)

NoRot == [pc |-> "idle", next |-> NoPass, cur |-> NoPass, ours |-> {}, todo |-> {}]

rotate(next, cur) ==
    /\ withRotationSlot
    /\ Bounded("op", MaxOps)
    /\ next # cur
    /\ db.verifier # NoPass => cur = db.verifier
    /\ unknown = {} /\ absentVolumeIds = {}
    /\ rot' = [pc |-> IF ours = {} THEN "record" ELSE "add", next |-> next, cur |-> cur, ours |-> ours,
               todo |-> ours]
    /\ UNCHANGED <<disk, db, backup, token, fleet, req, upd, excused, rewound, ragged, harmed>>

\* One disk: asked first, written if need be, and asked again.
addNext(d) ==
    /\ rot.pc = "add" /\ d \in rot.todo /\ disk[d].here
    /\ disk' = [disk EXCEPT ![d].slots = @ \cup {rot.next}]
    /\ rot' = [rot EXCEPT !.todo = @ \ {d}, !.pc = IF rot.todo = {d} THEN "record" ELSE "add"]
    /\ UNCHANGED <<db, backup, token, fleet, req, upd, excused, rewound, ragged, harmed, used>>

\* In the table, not retired, an encrypted container: what a recovery will have to open.
InService(rows) == {v \in rows : ~v.deleted /\ disk[v.disk].part = v.part /\ disk[v.disk].kind = "luks"}

recordNext ==
    LET left == {d \in Disk : disk[d].kind = "luks" /\ rot.next \notin disk[d].slots} IN
    /\ rot.pc = "record"
    /\ db' = [db EXCEPT !.verifier = rot.next]
    /\ rot' = [rot EXCEPT !.pc = "reseal"]
    /\ excused' = left \ {v.disk : v \in InService(db.rows)}
    /\ rewound' = FALSE
    /\ ragged' = (ragged \/ ~(Keyed \subseteq rot.ours))
    /\ UNCHANGED <<disk, backup, token, fleet, req, upd, harmed, used>>

resealNext ==
    /\ rot.pc = "reseal"
    /\ db' = [db EXCEPT !.seal = rot.next]
    /\ rot' = IF rot.cur = NoPass \/ rot.ours = {} THEN NoRot ELSE [rot EXCEPT !.pc = "retire", !.todo = rot.ours]
    /\ ragged' = (ragged \/ (rot.cur = NoPass /\ rot.ours # {}))
    /\ UNCHANGED <<disk, backup, token, fleet, req, upd, excused, rewound, harmed, used>>

\* Best effort; afterwards the disk must still open with the new one.
retireOld(d) ==
    /\ rot.pc = "retire" /\ d \in rot.todo /\ disk[d].here
    /\ \E wedged \in IF MayWedge THEN BOOLEAN ELSE {FALSE} :
          /\ disk' = [disk EXCEPT ![d].slots = IF wedged THEN @ ELSE @ \ {rot.cur}]
          /\ ragged' = (ragged \/ wedged)
    /\ rot' = IF rot.todo = {d} \/ rot.next \notin disk'[d].slots THEN NoRot
              ELSE [rot EXCEPT !.todo = @ \ {d}]
    /\ UNCHANGED <<db, backup, token, fleet, req, upd, excused, rewound, harmed, used>>

\* A disk that went away stops the change where it is.
StopRotation ==
    /\ rot.pc \in {"add", "retire"} /\ \E d \in rot.todo : ~disk[d].here
    /\ rot' = NoRot
    /\ ragged' = (ragged \/ rot.pc = "retire" \/ rot.todo # rot.ours)
    /\ UNCHANGED <<disk, db, backup, token, fleet, req, upd, excused, rewound, harmed, used>>

----------------------------------------------------------------------------
(* Retiring and restoring a volume, and the audit.                         *)

NoUpd == [pc |-> "idle", id |-> 0, deleted |-> FALSE]

\* doVolumeDelete of a drained volume, or assertVolumeMayReturn of a retired one whose disk is here.
beginVolumeUpdate(v, del) ==
    /\ upd.pc = "idle" /\ withEncryptionSlot
    /\ v.deleted # del
    /\ MayRace \/ \A r \in DOMAIN req : v.id \notin {req[r].id, req[r].convert}
    /\ del \/ volumeDiskIsAttached(v)
    /\ Bounded("op", MaxOps)
    /\ upd' = [pc |-> "db", id |-> v.id, deleted |-> del]
    /\ UNCHANGED <<disk, db, backup, token, fleet, req, rot, excused, rewound, ragged, harmed>>

MarkDeleted(rows, id, del) == {IF v.id = id THEN [v EXCEPT !.deleted = del] ELSE v : v \in rows}

softDeleteVolume ==
    \/ /\ upd.pc = "db"
       /\ db' = [db EXCEPT !.rows = MarkDeleted(@, upd.id, upd.deleted)]
       /\ upd' = [upd EXCEPT !.pc = "fleet"]
       /\ UNCHANGED <<disk, backup, token, fleet, req, rot, excused, rewound, ragged, harmed, used>>
    \/ /\ upd.pc = "fleet"
       /\ fleet' = MarkDeleted(fleet, upd.id, upd.deleted)
       /\ upd' = NoUpd
       /\ UNCHANGED <<disk, db, backup, token, req, rot, excused, rewound, ragged, harmed, used>>

\* Mutant: an audit once taken is never due again.
AuditDueOnce == encryptedVolumeIds # {} /\ db.audit.token = 0

recoveryAuditIsDue == encryptedVolumeIds # {} /\ db.audit.token # token

\* After a boot when it is due, after a conversion and on request: the sealed passphrase against every
\* container that answers.
auditRecoveryKey ==
    LET opened == {d \in ours : testPassphrase(d, sealedRecoveryPassphrase) = "opens"} IN
    /\ sealedRecoveryPassphrase # NoPass
    /\ ours # {} => opened # {}
    /\ db' = [db EXCEPT !.audit = [token |-> token,
                                   healthy |-> opened = ours /\ unknown = {} /\ absentVolumeIds = {}]]
    /\ ragged' = (ragged \/ ~SeesAll)
    /\ UNCHANGED <<disk, backup, token, fleet, req, rot, upd, excused, rewound, harmed, used>>

\* An operator hands the recorded passphrase back: a platter first, then the record, then the seal.
handleEncryptionSealRequest(p) ==
    /\ sealedRecoveryPassphrase = NoPass
    /\ assertPassphraseOpensTheFleet(p)
    /\ assertFleetRecoveryPassphrase(p)
    /\ db' = [db EXCEPT !.verifier = p, !.seal = p]
    /\ ragged' = (ragged \/ ~SeesAll)
    /\ UNCHANGED <<disk, backup, token, fleet, req, rot, upd, excused, rewound, harmed, used>>

----------------------------------------------------------------------------
(* The environment.                                                        *)

\* The process dies: requests, the change in flight and the slots with it.  The fleet is read
\* back from the rows, one entry for each id.
Restart(d) ==
    /\ \E f \in SUBSET d.rows :
          /\ \A v \in d.rows : \E w \in f : w.id = v.id
          /\ \A v, w \in f : v.id = w.id => v = w
          /\ fleet' = f
    /\ req' = Idle /\ rot' = NoRot /\ upd' = NoUpd

Crash ==
    /\ Bounded("event", MaxEvents)
    /\ Restart(db)
    /\ ragged' = (ragged \/ rot.pc # "idle")
    /\ UNCHANGED <<disk, db, backup, token, excused, rewound, harmed>>

\* The database comes back from the backup, under a mongod that has just been started.
RestoreBackup ==
    /\ Bounded("event", MaxEvents)
    /\ db' = backup
    /\ token' = token + 1
    /\ Restart(backup)
    /\ rewound' = (rewound \/ backup.verifier # db.verifier)
    /\ ragged' = (ragged \/ rot.pc # "idle")
    /\ UNCHANGED <<disk, backup, excused, harmed>>

\* A disk is unplugged, or comes back.
Flap(d) ==
    /\ Bounded("event", MaxEvents)
    /\ disk' = [disk EXCEPT ![d].here = ~@]
    /\ UNCHANGED <<db, backup, token, fleet, req, rot, upd, excused, rewound, ragged, harmed>>

\* A hub drops its disks and they come back under each other's names.
Renamed(r, d) ==
    /\ r \in DOMAIN req /\ req[r].at # d /\ disk[d].here
    /\ Bounded("event", MaxEvents)
    /\ req' = [req EXCEPT ![r].at = d]
    /\ UNCHANGED <<disk, db, backup, token, fleet, rot, upd, excused, rewound, ragged, harmed>>

----------------------------------------------------------------------------
\* The array as it may stand: some of its volumes encrypted, all with one passphrase on record and audited
\* since mongod started, some retired.
Init ==
    \E E \in Encrypted, R \in Retired :
    /\ disk = [d \in Disk |-> [kind |-> IF InUse[d] = 0 THEN "blank" ELSE IF d \in E THEN "luks" ELSE "ext",
                               slots |-> IF d \in E THEN {First} ELSE {}, label |-> InUse[d], part |-> 1,
                               here |-> TRUE]]
    /\ LET p == IF E = {} THEN NoPass ELSE First
           rows == {[id |-> InUse[d], disk |-> d, part |-> 1, deleted |-> d \in R, ro |-> d \in Drained] :
                    d \in {e \in Disk : InUse[e] # 0}} IN
       /\ db = [verifier |-> p, seal |-> p, audit |-> [token |-> IF E = {} THEN 0 ELSE 1, healthy |-> E # {}], rows |-> rows]
       /\ fleet = rows
    /\ backup = db /\ token = 1
    /\ req = Idle /\ rot = NoRot /\ upd = NoUpd
    /\ excused = {} /\ rewound = FALSE /\ ragged = FALSE /\ harmed = {}
    /\ used = [k \in Kinds |-> 0]

ProvisionStep(r) ==
    \/ wipeDevice(r) \/ assertEncryptionIsPossible(r) \/ claimRecoveryPassphrase(r) \/ partitionDevice(r)
    \/ addPassphrase(r) \/ luksOpen(r) \/ formatPartition(r) \/ registerVolume(r) \/ createVolume(r)
    \/ updateVolumeFlags(r) \/ Abandon(r)

Next ==
    \/ \E d \in Disk : provision(d, FALSE, NoPass)
    \/ \E d \in Disk, p \in Pass \cup {NoPass} : provision(d, TRUE, p)
    \/ \E v \in fleet, p \in Pass \cup {NoPass} : convertVolumeToEncrypted(v, p)
    \/ \E r \in DOMAIN req : ProvisionStep(r)
    \/ \E p \in Pass, c \in Pass \cup {NoPass} : rotate(p, c)
    \/ \E d \in Disk : addNext(d) \/ retireOld(d) \/ Flap(d)
    \/ recordNext \/ resealNext \/ StopRotation
    \/ \E v \in fleet, del \in BOOLEAN : beginVolumeUpdate(v, del)
    \/ softDeleteVolume \/ auditRecoveryKey
    \/ \E p \in Pass : handleEncryptionSealRequest(p)
    \/ Crash \/ RestoreBackup
    \/ \E r \in DOMAIN req, d \in Disk : Renamed(r, d)

Spec == Init /\ [][Next]_vars

----------------------------------------------------------------------------
(* Properties.                                                             *)

\* Type invariant of the disks, the database, the fleet and the requests.
TypeOK ==
    /\ disk \in [Disk -> [kind : {"blank", "ext", "luks"}, slots : SUBSET Pass, label : Nat, part : Nat,
                          here : BOOLEAN]]
    /\ \A b \in {db, backup} :
          /\ b.verifier \in Pass \cup {NoPass} /\ b.seal \in Pass \cup {NoPass}
          /\ b.rows \subseteq Row /\ b.audit \in [token : Nat, healthy : BOOLEAN]
    /\ fleet \subseteq Row /\ \A v, w \in fleet : v.id = w.id => v = w
    /\ \A r \in DOMAIN req : r \in Disk /\ req[r].pc \in PC /\ req[r].at \in Disk
                             /\ (req[r].pc \in {"claim", "key"} => req[r].pass \in Pass)
    /\ rot.pc \in {"idle", "add", "record", "reseal", "retire"} /\ rot.todo \subseteq rot.ours
    /\ upd.pc \in {"idle", "db", "fleet"}
    /\ excused \subseteq Disk /\ harmed \subseteq Disk /\ token \in Nat

\* The passphrase on record opens every encrypted volume of the table, whatever is in flight or has
\* crashed: only a database older than the last change can be wrong (rotate records after the last disk
\* has the new passphrase; the slots keep encryptions and deletions out of a change).
RecordedOpensAll ==
    db.verifier # NoPass /\ ~rewound =>
        \A v \in InService(db.rows) : db.verifier \in disk[v.disk].slots \/ v.disk \in excused

\* Some one passphrase opens every encrypted volume of the table, a restored database included: encrypting
\* never splits the fleet (assertPassphraseOpensTheFleet, setIfAbsent) and a change never strips a disk.
\* Set aside: a database older than the last change, where a change left the old passphrase behind, or a
\* change, an encryption or an audit went on without a disk (a retired volume's disk is not missed).
OnePassphraseOpensAll ==
    ~(ragged /\ rewound) =>
        LET S == {v.disk : v \in InService(db.rows)} \ excused IN
        S = {} \/ \E p \in Pass : \A d \in S : p \in disk[d].slots

\* A request writes to the drive it was made for and to no other, however the kernel renames them
\* (fencedWrite, and the mapper's backing drive before mkfs).
OnlyItsOwnDisk == harmed = {}

\* A volume takes slices only once its row is in the database (doProvision registers it read-only first).
NotWritableUntilDurable ==
    \A v \in fleet : ~v.ro => \E w \in db.rows : w.id = v.id /\ w.disk = v.disk /\ w.part = v.part

\* A healthy audit that is not due again vouches for the passphrase on record, a restored database
\* included (recoveryAuditIsDue compares the run of mongod the audit was taken in).
HealthyMeansOpens ==
    db.audit.healthy /\ encryptedVolumeIds # {} /\ ~recoveryAuditIsDue /\ ~(ragged /\ rewound) =>
        \A v \in InService(db.rows) : db.verifier \in disk[v.disk].slots \/ v.disk \in excused

\* The passphrase the operator is told to keep opens every encrypted disk, through rotations cut short,
\* restored databases and disks that were away.
FleetOpens == RecordedOpensAll /\ OnePassphraseOpensAll

\* Provisioning touches the disk it was asked for and no other, and no slice lands on a volume before its
\* row is durable.
ProvisioningSafe == TypeOK /\ OnlyItsOwnDisk /\ NotWritableUntilDurable
=============================================================================
