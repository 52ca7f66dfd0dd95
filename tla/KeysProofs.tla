------------------------------ MODULE KeysProofs ------------------------------
(***************************************************************************)
(* The recovery passphrase opens the fleet: FleetOpens, HealthyMeansOpens  *)
(* and ProvisioningSafe of Keys, for any disks, passphrases and bounds.    *)
(*                                                                         *)
(* The invariant KInv comes first.  Every action is then reduced to its    *)
(* shape, what it changes and what it knows, next to the types (Shapes),   *)
(* and each part of KInv is shown from the shapes, one lemma per step that *)
(* can disturb it.                                                         *)
(***************************************************************************)
EXTENDS Keys, FiniteSetTheorems, WellFoundedInduction, TLAPS

\* The rows there are, and those a restored backup may bring back.
Rows == db.rows \cup backup.rows

\* The row speaks of the partition its disk carries now.
Current(v) == disk[v.disk].part = v.part
\* It is of an encrypted partition.
Locked(v) == Current(v) /\ disk[v.disk].kind = "luks"

\* The stages of a change, and of a request: with its container open, with a partition table
\* made, with a volume of its own.
Rotating == {"add", "record", "reseal", "retire"}
Opened == {"open", "mkfs", "join", "row", "flag"}
Made == {"key", "open", "mkfs", "join", "row"}
Named == {"join", "row", "flag"}

\* The types of the records.
ReqType == [pc : PC, enc : BOOLEAN, pass : Pass \cup {NoPass}, convert : Nat, id : Nat, at : Disk, mapper : Disk]
RotType == [pc : Rotating \cup {"idle"}, next : Pass \cup {NoPass}, cur : Pass \cup {NoPass},
            ours : SUBSET Disk, todo : SUBSET Disk]
UpdType == [pc : {"idle", "db", "fleet"}, id : Nat, deleted : BOOLEAN]
DbType == [verifier : Pass \cup {NoPass}, seal : Pass \cup {NoPass},
           audit : [token : Nat, healthy : BOOLEAN], rows : SUBSET Row]

\* The types.
Typed ==
    /\ disk \in [Disk -> [kind : {"blank", "ext", "luks"}, slots : SUBSET Pass, label : Nat, part : Nat,
                          here : BOOLEAN]]
    /\ db \in DbType /\ backup \in DbType
    /\ IsFiniteSet(db.rows) /\ IsFiniteSet(backup.rows)
    /\ fleet \subseteq Row /\ \A v, w \in fleet : v.id = w.id => v = w
    /\ DOMAIN req \subseteq Disk /\ \A r \in DOMAIN req : req[r] \in ReqType
    /\ rot \in RotType /\ rot.todo \subseteq rot.ours
    /\ upd \in UpdType
    /\ excused \subseteq Disk /\ harmed = {} /\ token \in Nat
    /\ rewound \in BOOLEAN /\ ragged \in BOOLEAN

\* A request, what it knows and what its disk carries.
Asked ==
    \A r \in DOMAIN req :
        /\ req[r].mapper = r
        /\ ~req[r].enc => /\ req[r].pc \notin {"prove", "claim", "key", "open"}
                          /\ req[r].convert = 0 /\ disk[r].kind # "luks"
        /\ req[r].pc = "claim" => req[r].pass # NoPass
        /\ req[r].enc /\ req[r].pc \in Opened \cup {"part", "key"} =>
               req[r].pass = db.verifier /\ db.verifier # NoPass
        /\ req[r].pc = "key" => disk[r].slots = {}
        /\ req[r].enc /\ req[r].pc \in Opened => req[r].pass \in disk[r].slots
        /\ req[r].pc \in {"row", "flag"} => disk[r].label = req[r].id
        /\ req[r].pc \in Named <=> req[r].id # 0
        /\ req[r].pc \in Named /\ req[r].convert # 0 => req[r].id = req[r].convert

\* A row is of a partition that is there or gone, and never of one that is being made.
Dated ==
    \A v \in Rows :
        /\ v.id # 0 /\ v.part <= disk[v.disk].part
        /\ v.disk \in DOMAIN req /\ req[v.disk].pc \in Made => v.part < disk[v.disk].part

\* A recorded container has its nameplate, and a nameplate comes after a passphrase.
Plated ==
    /\ \A v \in Rows : Locked(v) => disk[v.disk].label # 0
    /\ \A d \in Disk : disk[d].kind = "luks" /\ disk[d].label # 0 => disk[d].slots # {}

\* No passphrase on record, no encrypted volume.
Unset ==
    /\ backup.verifier # NoPass => db.verifier # NoPass
    /\ backup.verifier = NoPass => \A v \in backup.rows : ~Locked(v)
    /\ db.verifier = NoPass => \A v \in db.rows : ~Locked(v)

\* What RecordedOpensAll says, of every row that a restored backup may bring back as well.
Known ==
    db.verifier # NoPass /\ ~rewound =>
        \A v \in Rows : Locked(v) => db.verifier \in disk[v.disk].slots \/ v.disk \in excused

\* Two rows of one partition.
Same(v, w) == v.id = w.id /\ v.disk = w.disk /\ v.part = w.part

\* A request is making that volume anew.
Converting(id) == \E r \in DOMAIN req : req[r].convert = id

\* Ids: one row, one entry of the fleet, one request.
Single ==
    /\ \A v, w \in db.rows : v.id = w.id => v = w
    /\ \A v, w \in backup.rows : v.id = w.id => v = w
    /\ \A r, q \in DOMAIN req : r # q /\ req[r].pc \in Named => req[r].id \notin {req[q].id, req[q].convert}
    /\ upd.pc # "idle" => /\ \E v \in db.rows : v.id = upd.id
                          /\ \A r \in DOMAIN req : upd.id \notin {req[r].id, req[r].convert}

\* What a request has made of its volume.
Entered ==
    \A r \in DOMAIN req :
        /\ req[r].pc = "join" => \A v \in fleet \cup db.rows : v.id # req[r].id
        /\ req[r].pc = "row" => NewRow(r) \in fleet /\ \A v \in db.rows : v.id # req[r].id
        /\ req[r].pc = "flag" => NewRow(r) \in fleet /\ NewRow(r) \in db.rows

\* Table and fleet agree, but for the conversion, the new volume and the update in flight.
Agreed ==
    /\ \A v \in fleet : v.id # 0
    /\ \A v \in fleet : \/ \E w \in db.rows : w.id = v.id
                        \/ \E r \in DOMAIN req : req[r].pc = "row" /\ req[r].id = v.id
    /\ \A v \in db.rows :
           \/ Converting(v.id)
           \/ \E w \in fleet : Same(v, w) /\ (w.deleted = v.deleted \/ (upd.pc = "fleet" /\ upd.id = v.id))
    /\ upd.pc = "fleet" => \A v \in db.rows : v.id = upd.id => v.deleted = upd.deleted

\* A passphrase change: nothing is encrypted meanwhile, its disks are the encrypted volumes there are, and
\* those it is through with open with the new passphrase.
Changing ==
    rot.pc # "idle" =>
        /\ \A r \in DOMAIN req : ~req[r].enc
        /\ upd.pc = "idle"
        /\ rot.next \in Pass /\ rot.next # rot.cur
        /\ \A d \in rot.ours : disk[d].kind = "luks" /\ disk[d].label # 0
        /\ \A d \in rot.ours : (rot.pc = "add" /\ d \in rot.todo) \/ rot.next \in disk[d].slots
        /\ rot.pc \in {"add", "record"} => \A v \in InService(db.rows) : v.disk \in rot.ours
        /\ rot.pc \in {"reseal", "retire"} => db.verifier = rot.next

\* Outside a change: the recorded passphrase opens all or none, and an older one none.
AllOrNone ==
    /\ \A d, e \in Keyed : db.verifier \in disk[d].slots => db.verifier \in disk[e].slots
    /\ backup.verifier # db.verifier => \A d \in Keyed : backup.verifier \notin disk[d].slots

\* A passphrase opens every container that has one at all.
OpensEvery(p) == \A d \in Keyed : p \in disk[d].slots

\* Some passphrase opens them all; a healthy audit means the one on record; and outside a change the one
\* on record opens all or none.
OneKey == \E p \in Pass : OpensEvery(p)
Vouched == db.audit.healthy /\ db.audit.token = token => OpensEvery(db.verifier)
Settled == rot.pc = "idle" \/ (rot.pc = "add" /\ rot.todo = rot.ours) => AllOrNone

\* In the middle of a change: an older passphrase still opens what the change has yet to retire.
Halfway ==
    rot.pc # "idle" => \A d \in Keyed :
        backup.verifier \in disk[d].slots /\ backup.verifier # rot.next =>
            backup.verifier = rot.cur /\ (rot.pc = "retire" => d \in rot.todo)
\* Once the new passphrase is on record, the change knows of every container.
Covered ==
    /\ rot.pc \in {"reseal", "retire"} => Keyed \subseteq rot.ours
    /\ rot.pc = "retire" => rot.cur # NoPass

\* An encryption whose passphrase is proven.
Proven ==
    \A r \in DOMAIN req :
        /\ req[r].pc = "claim" /\ db.verifier \in {NoPass, req[r].pass} => OpensEvery(req[r].pass)
        /\ req[r].pc = "claim" /\ db.verifier = NoPass => Keyed = {}
        /\ req[r].enc /\ req[r].pc \in {"part", "key"} => OpensEvery(db.verifier)

\* While every disk was there for every change, encryption and audit.
Together == ~ragged => OneKey /\ Vouched /\ Settled /\ Halfway /\ Covered /\ Proven

\* No audit is of a run of mongod to come.
Audited == db.audit.token <= token /\ backup.audit.token <= token

\* The inductive invariant.
KInv ==
    /\ Typed /\ Asked /\ Dated /\ Plated /\ Unset /\ Known
    /\ Single /\ Entered /\ Agreed /\ Changing /\ Together /\ Audited /\ NotWritableUntilDurable

\* A set of naturals that is not empty has a least element.
LEMMA Least ==
    ASSUME NEW T, T \subseteq Nat, T # {}
    PROVE  \E m \in T : \A n \in T : m <= n
<1>1. \E m \in T : \A n \in T : ~(<<n, m>> \in OpToRel(<, Nat))
  BY NatLessThanWellFounded, WFMin, Zenon
<1>2. \E m \in T : \A n \in T : ~(n < m)
  BY <1>1 DEF OpToRel
<1>. QED
  BY <1>2

\* A finite set of naturals that is not empty has a greatest element: a smallest set without one would lose
\* an element and have one.
LEMMA Greatest ==
    ASSUME NEW S, S \subseteq Nat, IsFiniteSet(S), S # {}
    PROVE  Max(S) \in S /\ \A n \in S : n <= Max(S)
<1>. DEFINE Top(U, m) == m \in U /\ \A n \in U : n <= m
           Bad == {U \in SUBSET S : U # {} /\ ~\E m \in U : Top(U, m)}
           Sizes == {Cardinality(U) : U \in Bad}
<1>1. SUFFICES \E m \in S : Top(S, m)
  BY <1>1 DEF Max
<1>2. ASSUME Bad # {}
      PROVE  FALSE
  <2>1. \A U \in Bad : IsFiniteSet(U) /\ Cardinality(U) \in Nat
    BY FS_Subset, FS_CardinalityType
  <2>2. Sizes # {} /\ Sizes \subseteq Nat
    BY <1>2, <2>1
  <2>3. PICK k \in Sizes : \A n \in Sizes : k <= n
    BY <2>2, Least
  <2>4. PICK U \in Bad : k = Cardinality(U)
    BY <2>3
  <2>5. PICK x \in U : TRUE
    BY <2>4
  <2>6. /\ IsFiniteSet(U \ {x}) /\ Cardinality(U \ {x}) = Cardinality(U) - 1
    BY <2>1, <2>4, <2>5, FS_RemoveElement
  <2>7. U \ {x} \notin Bad
    <3>1. ASSUME U \ {x} \in Bad
          PROVE  FALSE
      <4>1. Cardinality(U \ {x}) \in Sizes
        BY <3>1
      <4>2. k - 1 \in Sizes
        BY <4>1, <2>4, <2>6
      <4>3. k \in Nat
        BY <2>2, <2>3
      <4>4. k <= k - 1
        BY <4>2, <2>3
      <4>. QED
        BY <4>3, <4>4
    <3>. QED
      BY <3>1
  <2>8. U \ {x} # {}
    <3>1. ASSUME U \ {x} = {}
          PROVE  FALSE
      <4>1. Top(U, x)
        BY <3>1, <2>4, <2>5
      <4>. QED
        BY <4>1, <2>4, <2>5
    <3>. QED
      BY <3>1
  <2>9. PICK m \in U \ {x} : Top(U \ {x}, m)
    BY <2>4, <2>7, <2>8
  <2>10. m \in Nat /\ x \in Nat
    BY <2>4, <2>5, <2>9
  <2>11. CASE x <= m
    <3>1. Top(U, m)
      BY <2>9, <2>11
    <3>. QED
      BY <3>1, <2>4, <2>9
  <2>12. CASE m < x
    <3>1. Top(U, x)
      BY <2>4, <2>5, <2>9, <2>10, <2>12
    <3>. QED
      BY <3>1, <2>4, <2>5
  <2>. QED
    BY <2>10, <2>11, <2>12
<1>. QED
  BY <1>2

\* The values of a function on a finite set.
LEMMA ImageFinite ==
    ASSUME NEW S, IsFiniteSet(S), NEW T, NEW f \in [S -> T], \A t \in T : \E s \in S : f[s] = t
    PROVE  IsFiniteSet(T)
<1>1. f \in Surjection(S, T)
  BY DEF Surjection
<1>. QED
  BY <1>1, FS_Surjection

\* One request moves, the others stay.
Moves(r) ==
    /\ DOMAIN req' = DOMAIN req
    /\ \A q \in DOMAIN req : q # r => req'[q] = req[q]

\* A request goes on.
LEMMA GoShape ==
    ASSUME Typed, NEW r \in DOMAIN req, NEW x \in PC, Go(r, x)
    PROVE  /\ Moves(r) /\ req'[r] \in ReqType
           /\ req'[r].pc = x /\ req'[r].enc = req[r].enc /\ req'[r].pass = req[r].pass
           /\ req'[r].convert = req[r].convert /\ req'[r].id = req[r].id
           /\ req'[r].at = req[r].at /\ req'[r].mapper = req[r].mapper
<1>1. req[r] \in ReqType
  BY DEF Typed
<1>2. DOMAIN req' = DOMAIN req /\ \A q \in DOMAIN req : q # r => req'[q] = req[q]
  BY DEF Go
<1>3. req'[r] = [req[r] EXCEPT !.pc = x]
  BY DEF Go
<1>. QED
  BY <1>1, <1>2, <1>3 DEF Moves, ReqType

\* The other requests keep their types.
LEMMA ReqsKept ==
    ASSUME Typed, NEW r \in DOMAIN req, Moves(r), req'[r] \in ReqType
    PROVE  DOMAIN req' \subseteq Disk /\ \A q \in DOMAIN req' : req'[q] \in ReqType
BY DEF Typed, Moves

\* What is on a disk.
DiskType == [kind : {"blank", "ext", "luks"}, slots : SUBSET Pass, label : Nat, part : Nat, here : BOOLEAN]

\* A wiped disk.
LEMMA BlankShape ==
    ASSUME Typed, NEW d \in Disk
    PROVE  /\ Blank(d) \in DiskType
           /\ Blank(d).kind = "blank" /\ Blank(d).slots = {} /\ Blank(d).label = 0
           /\ Blank(d).part = disk[d].part + 1 /\ Blank(d).here = disk[d].here
<1>1. disk[d] \in DiskType
  BY DEF Typed, DiskType
<1>. QED
  BY <1>1 DEF Blank, DiskType

\* What a request is about stays what it is.
Keeps(r) ==
    /\ Moves(r)
    /\ req'[r].enc = req[r].enc /\ req'[r].convert = req[r].convert
    /\ req'[r].mapper = req[r].mapper

\* The other disks stay as they are.
Only(d) ==
    /\ d \in Disk /\ disk' \in [Disk -> DiskType]
    /\ \A e \in Disk : e # d => disk'[e] = disk[e]
    /\ disk'[d].here = disk[d].here

\* A new partition table.
Remakes(r) ==
    /\ r \in DOMAIN req /\ req[r].pc \in {"wipe", "part"} /\ Keeps(r) /\ Only(r)
    /\ req'[r].id = req[r].id /\ req'[r].pass = req[r].pass
    /\ req'[r].pc \in {"prove", "part", "key", "mkfs"}
    /\ ~req[r].enc => req'[r].pc \in {"part", "mkfs"}
    /\ req[r].enc => req'[r].pc \in {"prove", "key"}
    /\ req'[r].pc = "key" => req[r].pc = "part"
    /\ disk'[r].slots = {} /\ disk'[r].label = 0 /\ disk'[r].part = disk[r].part + 1
    /\ ~req[r].enc => disk'[r].kind # "luks"
    /\ UNCHANGED <<db, backup, token, fleet, rot, upd, excused, rewound, ragged, harmed>>

\* A write changes one disk.
LEMMA DiskWrite ==
    ASSUME Typed, NEW d \in Disk, NEW v \in DiskType, disk' = [disk EXCEPT ![d] = v], v.here = disk[d].here
    PROVE  Only(d) /\ disk'[d] = v
BY DEF Typed, Only, DiskType

\* wipeDevice and partitionDevice.
LEMMA WipeShape ==
    ASSUME Typed, Asked, NEW r \in DOMAIN req, wipeDevice(r)
    PROVE  Typed' /\ Remakes(r)
<1>1. /\ r \in Disk /\ req[r] \in ReqType /\ req[r].at = r
      /\ disk' = [disk EXCEPT ![r] = Blank(r)]
      /\ harmed' = harmed
  BY DEF wipeDevice, fencedWrite, assertStillTheSameDisk, Typed
<1>2. Gate(req[r].enc) \in PC /\ Go(r, Gate(req[r].enc))
  BY DEF Gate, PC, wipeDevice
<1>3. Moves(r) /\ req'[r] \in ReqType /\ req'[r].pc = Gate(req[r].enc)
      /\ Keeps(r) /\ req'[r].id = req[r].id /\ req'[r].pass = req[r].pass
  BY <1>2, GoShape DEF Keeps
<1>4. Only(r) /\ disk'[r] = Blank(r) /\ Blank(r).slots = {} /\ Blank(r).label = 0 /\ Blank(r).kind = "blank"
      /\ Blank(r).part = disk[r].part + 1
  BY <1>1, BlankShape, DiskWrite DEF Typed, DiskType
<1>5. Typed'
  BY <1>1, <1>3, <1>4, ReqsKept DEF Typed, wipeDevice, DiskType, RotType, UpdType,
      DbType, Only
<1>. QED
  BY <1>1, <1>3, <1>4, <1>5 DEF Remakes, wipeDevice, Gate

\* A fenced write of a partition table, with a LUKS header for an encrypted volume.
LEMMA PartitionShape ==
    ASSUME Typed, Asked, NEW r \in DOMAIN req, partitionDevice(r)
    PROVE  Typed' /\ Remakes(r)
<1>. DEFINE x == IF req[r].enc THEN "key" ELSE "mkfs"
<1>1. /\ r \in Disk /\ req[r] \in ReqType /\ req[r].at = r
      /\ disk' = [disk EXCEPT ![r] = luksFormat(req[r].enc, r)]
      /\ harmed' = harmed
  BY DEF partitionDevice, fencedWrite, assertStillTheSameDisk, Typed
<1>2. x \in PC /\ Go(r, x)
  BY DEF PC, partitionDevice
<1>3. Moves(r) /\ req'[r] \in ReqType /\ req'[r].pc = x
      /\ Keeps(r) /\ req'[r].id = req[r].id /\ req'[r].pass = req[r].pass
  BY <1>2, GoShape DEF Keeps
<1>. DEFINE v == luksFormat(req[r].enc, r)
<1>4. v \in DiskType /\ v.slots = {} /\ v.label = 0 /\ (~req[r].enc => v.kind = "blank")
      /\ v.part = disk[r].part + 1 /\ v.here = disk[r].here
  BY <1>1, BlankShape DEF luksFormat, DiskType
<1>5. Only(r) /\ disk'[r] = v
  <2>. HIDE DEF v
  <2>. QED
    BY <1>1, <1>4, DiskWrite DEF v
<1>6. Typed'
  BY <1>1, <1>3, <1>5, ReqsKept DEF Typed, partitionDevice, DiskType, RotType,
      UpdType, DbType, Only
<1>. QED
  BY <1>1, <1>3, <1>4, <1>5, <1>6 DEF Remakes, partitionDevice

\* The passphrase in the keyslot.
AddsKey(r) ==
    /\ r \in DOMAIN req /\ req[r].pc = "key" /\ Keeps(r) /\ Only(r)
    /\ req'[r].id = req[r].id /\ req'[r].pass = req[r].pass /\ req'[r].pc = "open"
    /\ disk'[r].slots = disk[r].slots \cup {req[r].pass}
    /\ disk'[r].label = disk[r].label /\ disk'[r].part = disk[r].part /\ disk'[r].kind = disk[r].kind
    /\ UNCHANGED <<db, backup, token, fleet, rot, upd, excused, rewound, ragged, harmed>>

\* addPassphrase.
LEMMA AddPassphraseShape ==
    ASSUME Typed, Asked, NEW r \in DOMAIN req, addPassphrase(r)
    PROVE  Typed' /\ AddsKey(r)
<1>. DEFINE v == [disk[r] EXCEPT !.slots = @ \cup {req[r].pass}]
<1>1. /\ r \in Disk /\ req[r] \in ReqType /\ req[r].at = r /\ req[r].pc = "key"
      /\ disk' = [disk EXCEPT ![r] = v]
      /\ harmed' = harmed
  BY DEF addPassphrase, fencedWrite, assertStillTheSameDisk, Typed
<1>2. "open" \in PC /\ Go(r, "open")
  BY DEF PC, addPassphrase
<1>3. Moves(r) /\ req'[r] \in ReqType /\ req'[r].pc = "open"
      /\ Keeps(r) /\ req'[r].id = req[r].id /\ req'[r].pass = req[r].pass
  BY <1>2, GoShape DEF Keeps
<1>4. req[r].pass \in Pass
  BY <1>1 DEF Asked, ReqType
<1>5. disk[r] \in DiskType
  BY <1>1 DEF Typed, DiskType
<1>6. v \in DiskType /\ v.slots = disk[r].slots \cup {req[r].pass} /\ v.label = disk[r].label
      /\ v.part = disk[r].part /\ v.here = disk[r].here /\ v.kind = disk[r].kind
  BY <1>4, <1>5 DEF DiskType
<1>7. Only(r) /\ disk'[r] = v
  <2>. HIDE DEF v
  <2>. QED
    BY <1>1, <1>6, DiskWrite
<1>8. Typed'
  BY <1>1, <1>3, <1>7, ReqsKept DEF Typed, addPassphrase, DiskType, RotType,
      UpdType, DbType, Only
<1>. QED
  BY <1>1, <1>3, <1>6, <1>7, <1>8 DEF AddsKey, addPassphrase

\* A request is taken one step on, and its disk is not touched.
Advances(r) ==
    /\ r \in DOMAIN req /\ Keeps(r)
    /\ UNCHANGED <<disk, backup, token, fleet, rot, upd, excused, rewound, harmed>>

\* The passphrase of an encryption is settled.
Proves(r) ==
    /\ Advances(r) /\ db' = db
    /\ req[r].pc = "prove" /\ req[r].enc /\ req'[r].id = req[r].id
    /\ req'[r].pc \in {"claim", "part"} /\ req'[r].pass \in Pass
    /\ req'[r].pc = "part" => db.verifier # NoPass
    /\ assertPassphraseOpensTheFleet(req'[r].pass)
    /\ assertFleetRecoveryPassphrase(req'[r].pass)
    /\ ragged' = (ragged \/ ~SeesAll)

\* assertEncryptionIsPossible.
LEMMA ProveShape ==
    ASSUME Typed, Asked, NEW r \in DOMAIN req, assertEncryptionIsPossible(r)
    PROVE  Typed' /\ Proves(r)
<1>. DEFINE known == IF req[r].pass # NoPass THEN req[r].pass ELSE sealedRecoveryPassphrase
            x == IF sealedRecoveryPassphrase = NoPass THEN "claim" ELSE "part"
<1>1. /\ r \in Disk /\ req[r] \in ReqType /\ req[r].pc = "prove"
      /\ sealedRecoveryPassphrase \in Pass \cup {NoPass}
      /\ sealedRecoveryPassphrase # NoPass => db.verifier # NoPass
  BY DEF assertEncryptionIsPossible, Typed, sealedRecoveryPassphrase, DbType
<1>2. known # NoPass /\ known \in Pass
  BY <1>1 DEF assertEncryptionIsPossible, ReqType
<1>3. req[r].enc
  BY <1>1 DEF Asked, ReqType
<1>4. req' = [req EXCEPT ![r].pc = x, ![r].pass = known]
  BY DEF assertEncryptionIsPossible
<1>5. x \in {"claim", "part"} /\ (x = "part" => db.verifier # NoPass)
  BY <1>1
<1>6. assertPassphraseOpensTheFleet(known) /\ assertFleetRecoveryPassphrase(known)
  BY DEF assertEncryptionIsPossible
<1>. HIDE DEF known, x
<1>7. Moves(r) /\ req'[r] = [req[r] EXCEPT !.pc = x, !.pass = known]
  BY <1>4 DEF Moves
<1>8. /\ req'[r] \in ReqType /\ Keeps(r) /\ req'[r].id = req[r].id /\ req'[r].pc = x /\ req'[r].pass = known
  BY <1>1, <1>2, <1>5, <1>7 DEF ReqType, Keeps, PC
<1>9. Typed'
  BY <1>7, <1>8, ReqsKept DEF Typed, assertEncryptionIsPossible, RotType, UpdType,
      DbType
<1>. QED
  BY <1>1, <1>2, <1>3, <1>5, <1>6, <1>8, <1>9 DEF Advances, Proves,
      assertEncryptionIsPossible

\* The passphrase goes on record, or is there already.
Claims(r) ==
    /\ Advances(r) /\ ragged' = ragged
    /\ req[r].pc = "claim" /\ req'[r].pc = "part"
    /\ req'[r].id = req[r].id /\ req'[r].pass = req[r].pass /\ req[r].pass \in Pass /\ req[r].enc
    /\ db.verifier \in {NoPass, req[r].pass} /\ db'.verifier = req[r].pass
    /\ db'.rows = db.rows /\ db'.audit = db.audit

\* claimRecoveryPassphrase.
LEMMA ClaimShape ==
    ASSUME Typed, Asked, NEW r \in DOMAIN req, claimRecoveryPassphrase(r)
    PROVE  Typed' /\ Claims(r)
<1>1. /\ r \in Disk /\ req[r] \in ReqType /\ req[r].pc = "claim" /\ req[r].pass \in Pass /\ req[r].enc
  BY DEF claimRecoveryPassphrase, Typed, Asked, ReqType
<1>2. "part" \in PC /\ Go(r, "part")
  BY DEF PC, claimRecoveryPassphrase
<1>3. Moves(r) /\ req'[r] \in ReqType /\ req'[r].pc = "part"
      /\ Keeps(r) /\ req'[r].id = req[r].id /\ req'[r].pass = req[r].pass
  BY <1>2, GoShape DEF Keeps
<1>4. PICK seal \in {req[r].pass, db.seal} : db' = [db EXCEPT !.verifier = req[r].pass, !.seal = seal]
  BY DEF claimRecoveryPassphrase
<1>5. db' \in DbType /\ db'.verifier = req[r].pass /\ db'.rows = db.rows /\ db'.audit = db.audit
  BY <1>1, <1>4 DEF Typed, DbType
<1>6. Typed'
  BY <1>3, <1>5, ReqsKept DEF Typed, claimRecoveryPassphrase, RotType, UpdType
<1>. QED
  BY <1>1, <1>3, <1>5, <1>6 DEF Advances, Claims, claimRecoveryPassphrase

\* The mapper is open.
Opens(r) ==
    /\ Advances(r) /\ db' = db /\ ragged' = ragged
    /\ req[r].pc = "open" /\ req'[r].pc = "mkfs"
    /\ req'[r].id = req[r].id /\ req'[r].pass = req[r].pass

\* luksOpen.
LEMMA OpenShape ==
    ASSUME Typed, Asked, NEW r \in DOMAIN req, luksOpen(r)
    PROVE  Typed' /\ Opens(r)
<1>1. /\ r \in Disk /\ req[r] \in ReqType /\ req[r].pc = "open"
  BY DEF luksOpen, Typed
<1>2. req' = [req EXCEPT ![r].pc = "mkfs", ![r].mapper = req[r].at]
  BY DEF luksOpen
<1>3. Moves(r) /\ req'[r] = [req[r] EXCEPT !.pc = "mkfs", !.mapper = req[r].at]
  BY <1>2 DEF Moves
<1>4. req'[r].mapper = r
  BY DEF luksOpen, assertMapperBackedByExpectedDisk
<1>5. req[r].mapper = r
  BY DEF Asked
<1>6. /\ req'[r] \in ReqType /\ Keeps(r) /\ req'[r].id = req[r].id /\ req'[r].pc = "mkfs"
      /\ req'[r].pass = req[r].pass
  BY <1>1, <1>3, <1>4, <1>5 DEF ReqType, Keeps, PC
<1>7. Typed'
  BY <1>3, <1>6, ReqsKept DEF Typed, luksOpen, RotType, UpdType, DbType
<1>. QED
  BY <1>1, <1>6, <1>7 DEF Advances, Opens, luksOpen

\* A row's id is new.
LEMMA NextId ==
    ASSUME NEW R \in SUBSET Row, IsFiniteSet(R)
    PROVE  /\ getNextVolumeId(R) \in Nat \ {0}
           /\ \A v \in R : v.id # getNextVolumeId(R)
<1>. DEFINE S == {0} \cup {v.id : v \in R}
<1>1. IsFiniteSet({v.id : v \in R})
  <2>. DEFINE T == {v.id : v \in R}
              f == [v \in R |-> v.id]
  <2>1. f \in [R -> T] /\ \A t \in T : \E v \in R : f[v] = t
    OBVIOUS
  <2>. HIDE DEF f, T
  <2>2. IsFiniteSet(T)
    BY <2>1, ImageFinite
  <2>. QED
    BY <2>2 DEF T
<1>2. IsFiniteSet(S)
  BY <1>1, FS_Union, FS_Singleton
<1>3. S \subseteq Nat /\ S # {}
  BY DEF Row
<1>4. Max(S) \in S /\ \A n \in S : n <= Max(S)
  BY <1>2, <1>3, Greatest
<1>5. Max(S) \in Nat /\ \A v \in R : v.id <= Max(S) /\ v.id \in Nat
  BY <1>3, <1>4
<1>6. getNextVolumeId(R) = 1 + Max(S)
  BY DEF getNextVolumeId
<1>. HIDE DEF S
<1>. QED
  BY <1>5, <1>6

\* The file system is made; a conversion's old volume leaves, and the new one gets its id.
Formats(r) ==
    /\ r \in DOMAIN req /\ req[r].pc = "mkfs" /\ Keeps(r) /\ Only(r)
    /\ req'[r].pc = "join" /\ req'[r].pass = req[r].pass /\ req'[r].id # 0
    /\ req[r].convert # 0 => req'[r].id = req[r].convert
    /\ disk'[r].slots = disk[r].slots /\ disk'[r].part = disk[r].part
    /\ req[r].enc => disk'[r] = disk[r]
    /\ ~req[r].enc => disk'[r].kind = "ext"
    /\ db'.verifier = db.verifier /\ db'.audit = db.audit
    /\ db'.rows = {v \in db.rows : v.id # req[r].convert}
    /\ fleet' = {v \in fleet : v.id # req[r].convert}
    /\ \A v \in db'.rows : v.id # req'[r].id
    /\ MayRace \/ \A q \in DOMAIN req : q # r => req'[r].id # req[q].id /\ req'[r].id # req[q].convert
    /\ UNCHANGED <<backup, token, rot, upd, excused, rewound, ragged, harmed>>

\* formatPartition.
LEMMA FormatShape ==
    ASSUME Typed, Asked, NEW r \in DOMAIN req, formatPartition(r)
    PROVE  Typed' /\ Formats(r)
<1>. DEFINE d == IF req[r].enc THEN req[r].mapper ELSE req[r].at
            rows == {v \in db.rows : v.id # req[r].convert}
            id == createVolumeConfig(r, rows)
            x == IF req[r].enc THEN disk[d] ELSE [disk[d] EXCEPT !.kind = "ext", !.label = 0]
            y == [disk[r] EXCEPT !.kind = "ext", !.label = 0]
<1>1. r \in Disk /\ req[r] \in ReqType /\ req[r].at = r /\ req[r].mapper = r /\ req[r].pc = "mkfs"
  BY DEF formatPartition, fencedWrite, assertStillTheSameDisk, Typed, Asked
<1>2. d = r
  BY <1>1
<1>3. disk[r] \in DiskType
  BY <1>1 DEF Typed, DiskType
<1>4. y \in DiskType /\ y.slots = disk[r].slots /\ y.part = disk[r].part /\ y.kind = "ext" /\ y.here = disk[r].here
  BY <1>3 DEF DiskType
<1>5. x \in DiskType /\ x.slots = disk[r].slots /\ x.part = disk[r].part /\ x.here = disk[r].here
      /\ (req[r].enc => x = disk[r]) /\ (~req[r].enc => x.kind = "ext")
  BY <1>2, <1>3, <1>4
<1>6. disk' = [disk EXCEPT ![r] = x] /\ harmed' = harmed
  BY <1>2 DEF formatPartition, fencedWrite
<1>7. Only(r) /\ disk'[r] = x
  <2>. HIDE DEF x, d
  <2>. QED
    BY <1>1, <1>5, <1>6, DiskWrite
<1>8. rows \in SUBSET Row /\ IsFiniteSet(rows)
  BY FS_Subset DEF Typed, DbType
<1>9. id \in Nat \ {0} /\ \A v \in rows : v.id # id
  <2>1. CASE req[r].convert = 0
    BY <2>1, <1>8, NextId DEF createVolumeConfig
  <2>2. CASE req[r].convert # 0
    BY <2>2, <1>1 DEF createVolumeConfig, ReqType
  <2>. QED
    BY <2>1, <2>2
<1>10. /\ db' = [db EXCEPT !.rows = rows]
       /\ fleet' = {v \in fleet : v.id # req[r].convert}
       /\ req' = [req EXCEPT ![r].pc = "join", ![r].id = id]
       /\ MayRace \/ \A q \in DOMAIN req \ {r} : id \notin {req[q].id, req[q].convert}
  BY DEF formatPartition
<1>11. Moves(r) /\ req'[r] = [req[r] EXCEPT !.pc = "join", !.id = id]
  BY <1>10 DEF Moves
<1>20. req[r].convert # 0 => id = req[r].convert
  BY DEF createVolumeConfig
<1>. HIDE DEF id
<1>12. /\ req'[r] \in ReqType /\ Keeps(r) /\ req'[r].id = id /\ req'[r].pc = "join"
       /\ req'[r].pass = req[r].pass
  BY <1>1, <1>9, <1>11 DEF ReqType, Keeps, PC
<1>13. db' \in DbType /\ db'.verifier = db.verifier /\ db'.audit = db.audit /\ db'.rows = rows
  BY <1>8, <1>10 DEF Typed, DbType
<1>14. UNCHANGED <<backup, token, rot, upd, excused, rewound, ragged>>
  BY DEF formatPartition
<1>15. fleet' \subseteq Row /\ \A v, w \in fleet' : v.id = w.id => v = w
  BY <1>10 DEF Typed
<1>16. Typed'
  <2>. HIDE DEF rows
  <2>. QED
  BY <1>6, <1>7, <1>8, <1>11, <1>12, <1>13, <1>14, <1>15, ReqsKept DEF Typed,
      DiskType, RotType, UpdType, Only
<1>. HIDE DEF x
<1>17. Keeps(r) /\ Only(r) /\ req'[r].pc = "join" /\ req'[r].pass = req[r].pass /\ req'[r].id # 0
      /\ (req[r].convert # 0 => req'[r].id = req[r].convert)
  BY <1>7, <1>9, <1>12, <1>20
<1>18. \A v \in db'.rows : v.id # req'[r].id
  BY <1>9, <1>12, <1>13
<1>19. MayRace \/ \A q \in DOMAIN req : q # r => req'[r].id # req[q].id /\ req'[r].id # req[q].convert
  BY <1>10, <1>12
<1>. QED
  BY <1>1, <1>5, <1>6, <1>7, <1>10, <1>13, <1>14, <1>16, <1>17, <1>18, <1>19 DEF
      Formats

\* The volume enters the fleet, read-only.
Joins(r) ==
    /\ r \in DOMAIN req /\ req[r].pc = "join" /\ Keeps(r) /\ Only(r)
    /\ req'[r].pc = "row" /\ req'[r].pass = req[r].pass /\ req'[r].id = req[r].id
    /\ disk'[r].slots = disk[r].slots /\ disk'[r].part = disk[r].part /\ disk'[r].kind = disk[r].kind
    /\ disk'[r].label = req[r].id
    /\ NewRow(r) \in Row /\ NewRow(r).id = req[r].id /\ NewRow(r).ro
    /\ fleet' = {v \in fleet : v.id # req[r].id} \cup {NewRow(r)}
    /\ UNCHANGED <<db, backup, token, rot, upd, excused, rewound, ragged, harmed>>

\* The row of a new volume.
LEMMA NewRowShape ==
    ASSUME Typed, NEW r \in DOMAIN req
    PROVE  /\ NewRow(r) \in Row /\ NewRow(r).id = req[r].id /\ NewRow(r).disk = r
           /\ NewRow(r).part = disk[r].part /\ NewRow(r).ro /\ ~NewRow(r).deleted
<1>1. r \in Disk /\ req[r].id \in Nat /\ disk[r].part \in Nat
  BY DEF Typed, ReqType
<1>. QED
  BY <1>1 DEF NewRow, Row

\* registerVolume.
LEMMA RegisterShape ==
    ASSUME Typed, Asked, NEW r \in DOMAIN req, registerVolume(r)
    PROVE  Typed' /\ Joins(r)
<1>. DEFINE y == [disk[r] EXCEPT !.label = req[r].id]
<1>1. r \in Disk /\ req[r] \in ReqType /\ req[r].at = r /\ req[r].pc = "join"
  BY DEF registerVolume, fencedWrite, assertStillTheSameDisk, Typed
<1>2. disk[r] \in DiskType /\ req[r].id \in Nat
  BY <1>1 DEF Typed, DiskType, ReqType
<1>3. y \in DiskType /\ y.slots = disk[r].slots /\ y.part = disk[r].part /\ y.kind = disk[r].kind
      /\ y.here = disk[r].here /\ y.label = req[r].id
  BY <1>2 DEF DiskType
<1>4. disk' = [disk EXCEPT ![r] = y] /\ harmed' = harmed
  BY <1>1 DEF registerVolume, fencedWrite, stampNameplate
<1>5. Only(r) /\ disk'[r] = y
  <2>. HIDE DEF y
  <2>. QED
    BY <1>1, <1>3, <1>4, DiskWrite
<1>. HIDE DEF y
<1>6. "row" \in PC /\ Go(r, "row")
  BY DEF PC, registerVolume
<1>7. Moves(r) /\ req'[r] \in ReqType /\ req'[r].pc = "row"
      /\ Keeps(r) /\ req'[r].id = req[r].id /\ req'[r].pass = req[r].pass
  BY <1>6, GoShape DEF Keeps
<1>8. NewRow(r) \in Row /\ NewRow(r).id = req[r].id /\ NewRow(r).ro
  BY NewRowShape
<1>9. fleet' = {v \in fleet : v.id # req[r].id} \cup {NewRow(r)}
      /\ UNCHANGED <<db, backup, token, rot, upd, excused, rewound, ragged>>
  BY DEF registerVolume
<1>10. fleet' \subseteq Row /\ \A v, w \in fleet' : v.id = w.id => v = w
  BY <1>8, <1>9 DEF Typed
<1>11. Typed'
  BY <1>4, <1>5, <1>7, <1>9, <1>10, ReqsKept DEF Typed, DiskType, RotType, UpdType,
      DbType, Only
<1>. QED
  BY <1>1, <1>3, <1>4, <1>5, <1>7, <1>8, <1>9, <1>11 DEF Joins

\* The volume enters the table.
Records(r) ==
    /\ r \in DOMAIN req /\ req[r].pc = "row" /\ Advances(r) /\ ragged' = ragged
    /\ req'[r].pc = "flag" /\ req'[r].pass = req[r].pass /\ req'[r].id = req[r].id
    /\ NewRow(r) \in Row
    /\ db'.verifier = db.verifier /\ db'.audit = db.audit
    /\ db'.rows = db.rows \cup {NewRow(r)}

\* createVolume.
LEMMA CreateShape ==
    ASSUME Typed, Asked, NEW r \in DOMAIN req, createVolume(r)
    PROVE  Typed' /\ Records(r)
<1>1. r \in Disk /\ req[r] \in ReqType /\ req[r].pc = "row"
  BY DEF createVolume, Typed
<1>2. "flag" \in PC /\ Go(r, "flag")
  BY DEF PC, createVolume
<1>3. Moves(r) /\ req'[r] \in ReqType /\ req'[r].pc = "flag"
      /\ Keeps(r) /\ req'[r].id = req[r].id /\ req'[r].pass = req[r].pass
  BY <1>2, GoShape DEF Keeps
<1>4. NewRow(r) \in Row
  BY NewRowShape
<1>5. db' = [db EXCEPT !.rows = db.rows \cup {NewRow(r)}]
  BY DEF createVolume
<1>6. db' \in DbType /\ db'.verifier = db.verifier /\ db'.audit = db.audit /\ db'.rows = db.rows \cup {NewRow(r)}
  <2>1. db \in DbType /\ db.rows \cup {NewRow(r)} \in SUBSET Row
    BY <1>4 DEF Typed, DbType
  <2>. DEFINE R == db.rows \cup {NewRow(r)}
  <2>2. db' = [db EXCEPT !.rows = R] /\ R \in SUBSET Row
    BY <1>5, <2>1
  <2>. HIDE DEF R
  <2>3. db' \in DbType /\ db'.verifier = db.verifier /\ db'.audit = db.audit /\ db'.rows = R
    BY <2>1, <2>2 DEF DbType
  <2>. QED
    BY <2>3 DEF R
<1>7. IsFiniteSet(db'.rows)
  <2>1. IsFiniteSet(db.rows)
    BY DEF Typed
  <2>2. \A x : IsFiniteSet(db.rows \cup {x})
    BY <2>1, FS_AddElement
  <2>. QED
    BY <1>6, <2>2
<1>8. Typed'
  BY <1>3, <1>6, <1>7, ReqsKept DEF Typed, createVolume, RotType, UpdType
<1>. QED
  BY <1>1, <1>3, <1>4, <1>6, <1>8 DEF Records, Advances, createVolume

\* A request ends.
Drops(r) ==
    /\ r \in DOMAIN req /\ DOMAIN req' = DOMAIN req \ {r}
    /\ \A q \in DOMAIN req' : req'[q] = req[q]

\* The others go on.
LEMMA DropShape ==
    ASSUME Typed, NEW r \in DOMAIN req, req' = Drop(req, r)
    PROVE  Drops(r) /\ DOMAIN req' \subseteq Disk /\ \A q \in DOMAIN req' : req'[q] \in ReqType
BY DEF Drop, Drops, Typed

\* The same volumes, of which the one called id may have changed its flags.
Alike(A, B, id) ==
    /\ \A v \in A : \E w \in B : Same(v, w) /\ (v.id # id => w = v)
    /\ \A w \in B : \E v \in A : Same(v, w) /\ (w.id # id => w = v)

\* B is A with the rows called id changed as g says.
SetTo(A, B, g, id) ==
    /\ g \in [A -> Row] /\ \A v \in A : Same(v, g[v])
    /\ \A v \in A : (IF v.id = id THEN g[v] ELSE v) \in B
    /\ \A w \in B : \E v \in A : w = IF v.id = id THEN g[v] ELSE v

\* A flag set on one row is set on that row only.
LEMMA SetFlag ==
    ASSUME NEW A \in SUBSET Row, NEW B, NEW g, NEW id \in Nat, SetTo(A, B, g, id),
           \A v, w \in A : v.id = w.id => v = w
    PROVE  /\ B \subseteq Row /\ Alike(A, B, id)
           /\ \A v, w \in B : v.id = w.id => v = w
<1>. USE DEF SetTo
<1>1. B \subseteq Row
  OBVIOUS
<1>2. ASSUME NEW v \in A
      PROVE  \E w \in B : Same(v, w) /\ (v.id # id => w = v)
  <2>1. (IF v.id = id THEN g[v] ELSE v) \in B
    OBVIOUS
  <2>2. Same(v, v)
    BY DEF Same
  <2>. QED
    BY <2>1, <2>2
<1>3. ASSUME NEW w \in B
      PROVE  \E v \in A : Same(v, w) /\ (w.id # id => w = v) /\ w = IF v.id = id THEN g[v] ELSE v
  <2>1. PICK v \in A : w = IF v.id = id THEN g[v] ELSE v
    OBVIOUS
  <2>2. Same(v, v) /\ Same(v, g[v])
    BY DEF Same
  <2>3. w.id = v.id
    BY <2>1, <2>2 DEF Same
  <2>. QED
    BY <2>1, <2>2, <2>3
<1>4. \A v, w \in B : v.id = w.id => v = w
  BY <1>3 DEF Same
<1>. QED
  BY <1>1, <1>2, <1>3, <1>4 DEF Alike

\* A finite table stays finite.
LEMMA SetFlagFinite ==
    ASSUME NEW A, NEW B, NEW g, NEW id, SetTo(A, B, g, id), IsFiniteSet(A)
    PROVE  IsFiniteSet(B)
<1>. USE DEF SetTo
<1>. DEFINE f == [v \in A |-> IF v.id = id THEN g[v] ELSE v]
<1>1. f \in [A -> B] /\ \A w \in B : \E v \in A : f[v] = w
  OBVIOUS
<1>. HIDE DEF f
<1>. QED
  BY <1>1, ImageFinite

\* The last flags: the volume takes writes.
Flags(r) ==
    /\ r \in DOMAIN req /\ req[r].pc = "flag" /\ Drops(r)
    /\ db'.verifier = db.verifier /\ db'.audit = db.audit
    /\ Alike(db.rows, db'.rows, req[r].id) /\ Alike(fleet, fleet', req[r].id)
    /\ \A w \in db'.rows : w.id = req[r].id => \E v \in db.rows : Same(v, w) /\ w.deleted = v.deleted
    /\ \A v \in fleet : v.id = req[r].id => \E w \in fleet' : Same(v, w) /\ w.deleted = v.deleted
    /\ \A v, w \in db'.rows : v.id = w.id => v = w
    /\ UNCHANGED <<disk, backup, token, rot, upd, excused, rewound, ragged, harmed>>

\* updateVolumeFlags.
LEMMA FlagShape ==
    ASSUME Typed, Single, NEW r \in DOMAIN req, updateVolumeFlags(r)
    PROVE  Typed' /\ Flags(r)
<1>. DEFINE id == req[r].id
            gf == [v \in fleet |-> [v EXCEPT !.ro = FALSE]]
<1>1. r \in Disk /\ req[r] \in ReqType /\ req[r].pc = "flag" /\ id \in Nat /\ Drops(r)
      /\ DOMAIN req' \subseteq Disk /\ \A q \in DOMAIN req' : req'[q] \in ReqType
  BY DropShape DEF updateVolumeFlags, Typed, ReqType
<1>2. gf \in [fleet -> Row] /\ \A v \in fleet : Same(v, gf[v]) /\ gf[v].deleted = v.deleted
  <2>1. \A v \in fleet : v \in Row
    BY DEF Typed
  <2>2. \A v \in fleet : [v EXCEPT !.ro = FALSE] \in Row
    BY <2>1 DEF Row
  <2>3. \A v \in fleet : LET u == [v EXCEPT !.ro = FALSE] IN u.id = v.id /\ u.disk = v.disk /\ u.part = v.part /\ u.deleted = v.deleted
    BY <2>1 DEF Row
  <2>. QED
    BY <2>2, <2>3 DEF Same
<1>3. fleet' = {IF v.id = id THEN gf[v] ELSE v : v \in fleet}
  BY DEF updateVolumeFlags
<1>4. /\ fleet' \subseteq Row /\ Alike(fleet, fleet', id)
      /\ \A v, w \in fleet' : v.id = w.id => v = w
  <2>. HIDE DEF gf, id
  <2>1. id \in Nat /\ fleet \in SUBSET Row /\ \A v, w \in fleet : v.id = w.id => v = w
    BY <1>1 DEF Typed
  <2>2. \A v \in fleet : Same(v, gf[v])
    BY <1>2
  <2>3. SetTo(fleet, fleet', gf, id)
    BY <1>2, <1>3 DEF SetTo
  <2>. QED
    BY <2>1, <2>3, SetFlag
<1>5. \A v \in fleet : v.id = id => \E w \in fleet' : Same(v, w) /\ w.deleted = v.deleted
  BY <1>2, <1>3
<1>. DEFINE gd == [v \in db.rows |-> [v EXCEPT !.ro = FALSE]]
<1>6. db.rows \in SUBSET Row /\ IsFiniteSet(db.rows) /\ \A v, w \in db.rows : v.id = w.id => v = w
  BY DEF Typed, DbType, Single
<1>7. gd \in [db.rows -> Row] /\ \A v \in db.rows : Same(v, gd[v]) /\ gd[v].deleted = v.deleted
  <2>1. \A v \in db.rows : v \in Row
    BY <1>6
  <2>2. \A v \in db.rows : [v EXCEPT !.ro = FALSE] \in Row
    BY <2>1 DEF Row
  <2>3. \A v \in db.rows : LET u == [v EXCEPT !.ro = FALSE] IN
            u.id = v.id /\ u.disk = v.disk /\ u.part = v.part /\ u.deleted = v.deleted
    BY <2>1 DEF Row
  <2>. QED
    BY <2>2, <2>3 DEF Same
<1>8. /\ db'.rows = {IF v.id = id THEN gd[v] ELSE v : v \in db.rows}
      /\ db'.verifier = db.verifier /\ db'.audit = db.audit /\ db' \in DbType
  <2>1. CASE {v \in db.rows : v.id = id} = {}
    <3>1. db' = db
      BY <2>1 DEF updateVolumeFlags
    <3>2. {IF v.id = id THEN gd[v] ELSE v : v \in db.rows} = db.rows
      <4>. HIDE DEF gd, id
      <4>. QED
        BY <2>1
    <3>. QED
      BY <3>1, <3>2 DEF Typed
  <2>2. CASE {v \in db.rows : v.id = id} # {}
    <3>1. PICK v \in db.rows : v.id = id
                /\ db' = [db EXCEPT !.rows = (db.rows \ {v}) \cup {[v EXCEPT !.ro = FALSE]}]
      BY <2>2 DEF updateVolumeFlags
    <3>2. PICK R : R = (db.rows \ {v}) \cup {gd[v]}
      OBVIOUS
    <3>3. R \subseteq Row
      BY <1>6, <1>7, <3>2
    <3>4. db' = [db EXCEPT !.rows = R]
      BY <3>1, <3>2
    <3>5. db' \in DbType /\ db'.rows = R /\ db'.verifier = db.verifier /\ db'.audit = db.audit
      BY <3>3, <3>4 DEF Typed, DbType
    <3>6. \A u \in db.rows : u.id = id <=> u = v
      BY <1>6, <3>1
    <3>7. R = {IF u.id = id THEN gd[u] ELSE u : u \in db.rows}
      <4>. HIDE DEF gd, id
      <4>. QED
        BY <3>2, <3>6
    <3>. QED
      BY <3>5, <3>7
  <2>. QED
    BY <2>1, <2>2
<1>9. /\ db'.rows \subseteq Row /\ IsFiniteSet(db'.rows) /\ Alike(db.rows, db'.rows, id)
      /\ \A v, w \in db'.rows : v.id = w.id => v = w
  <2>. HIDE DEF gd, gf, id
  <2>1. id \in Nat /\ db.rows \in SUBSET Row
    BY <1>1, <1>6
  <2>2. \A v \in db.rows : Same(v, gd[v])
    BY <1>7
  <2>3. SetTo(db.rows, db'.rows, gd, id)
    BY <1>7, <1>8 DEF SetTo
  <2>. QED
    BY <1>6, <2>1, <2>3, SetFlag, SetFlagFinite
<1>10. \A w \in db'.rows : w.id = id => \E v \in db.rows : Same(v, w) /\ w.deleted = v.deleted
  <2>1. SUFFICES ASSUME NEW w \in db'.rows, w.id = id
                 PROVE  \E v \in db.rows : Same(v, w) /\ w.deleted = v.deleted
    OBVIOUS
  <2>2. PICK v \in db.rows : w = IF v.id = id THEN gd[v] ELSE v
    BY <1>8
  <2>. QED
    BY <1>7, <2>2 DEF Same
<1>11. db' \in DbType
  BY <1>8, <1>9 DEF Typed, DbType
<1>12. UNCHANGED <<disk, backup, token, rot, upd, excused, rewound, ragged, harmed>>
  BY DEF updateVolumeFlags
<1>13. req[r].pc = "flag"
  BY <1>1
<1>. HIDE DEF id, gf, gd
<1>14. Typed'
  BY <1>1, <1>4, <1>9, <1>11, <1>12 DEF Typed, RotType, UpdType
<1>. QED
  BY <1>1, <1>4, <1>5, <1>8, <1>9, <1>10, <1>12, <1>13, <1>14 DEF Flags, id

\* A request is given up: its volume leaves the fleet, the one it was to replace returns.
Ends(r) ==
    /\ r \in DOMAIN req /\ Drops(r)
    /\ fleet' = {v \in fleet : ~(req[r].pc = "row" /\ v.id = req[r].id) /\ v.id # req[r].convert}
                \cup {v \in db.rows : v.id = req[r].convert}
       \/ /\ fleet' = {v \in fleet : ~(req[r].pc = "row" /\ v.id = req[r].id)}
          /\ \A v \in db.rows : v.id # req[r].convert
    /\ UNCHANGED <<disk, db, backup, token, rot, upd, excused, rewound, ragged, harmed>>

\* Abandon.
LEMMA AbandonShape ==
    ASSUME Typed, Single, NEW r \in DOMAIN req, Abandon(r)
    PROVE  Typed' /\ Ends(r)
<1>. DEFINE existing == {v \in db.rows : v.id = req[r].convert}
            joined == IF req[r].pc = "row" THEN {v \in fleet : v.id = req[r].id} ELSE {}
<1>1. /\ Drops(r) /\ DOMAIN req' \subseteq Disk /\ \A q \in DOMAIN req' : req'[q] \in ReqType
  BY DropShape DEF Abandon
<1>2. PICK back \in IF existing = {} THEN {{}} ELSE {{v} : v \in existing} :
         fleet' = {v \in fleet \ joined : \A w \in back : v.id # w.id} \cup back
  BY DEF Abandon
<1>3. back = existing
  <2>1. CASE existing = {}
    BY <2>1, <1>2
  <2>2. CASE existing # {}
    <3>1. PICK u \in existing : back = {u}
      BY <2>2, <1>2
    <3>2. \A v \in existing : v = u
      BY <3>1 DEF Single
    <3>. QED
      BY <3>1, <3>2
  <2>. QED
    BY <2>1, <2>2
<1>4. fleet' = {v \in fleet : ~(req[r].pc = "row" /\ v.id = req[r].id) /\ v.id # req[r].convert} \cup existing
      \/ /\ fleet' = {v \in fleet : ~(req[r].pc = "row" /\ v.id = req[r].id)}
         /\ existing = {}
  <2>1. CASE existing = {}
    BY <2>1, <1>2, <1>3
  <2>2. CASE existing # {}
    <3>1. \A i : (\A w \in existing : i # w.id) <=> i # req[r].convert
      BY <2>2
    <3>. HIDE DEF existing
    <3>. QED
      BY <3>1, <1>2, <1>3
  <2>. QED
    BY <2>1, <2>2
<1>5. existing \subseteq Row /\ (\A v, w \in existing : v = w) /\ \A v \in existing : v.id = req[r].convert
  BY DEF Typed, DbType, Single
<1>6. fleet' \subseteq Row /\ \A v, w \in fleet' : v.id = w.id => v = w
  <2>. HIDE DEF existing
  <2>. QED
    BY <1>4, <1>5 DEF Typed
<1>7. UNCHANGED <<disk, db, backup, token, rot, upd, excused, rewound, ragged, harmed>>
  BY DEF Abandon
<1>8. Typed'
  BY <1>1, <1>6, <1>7 DEF Typed, RotType, UpdType, DbType
<1>. QED
  BY <1>1, <1>4, <1>7, <1>8 DEF Ends

\* A request begins.
Starts(r) ==
    /\ r \notin DOMAIN req /\ DOMAIN req' = DOMAIN req \cup {r}
    /\ \A q \in DOMAIN req : req'[q] = req[q]
    /\ req'[r].id = 0 /\ req'[r].mapper = r
    /\ req'[r].pc \in {"wipe", "prove", "part"}
    /\ req'[r].enc => rot.pc = "idle" /\ req'[r].pc # "part"
    /\ ~req'[r].enc => req'[r].convert = 0 /\ disk[r].kind # "luks" /\ req'[r].pc # "prove"
    /\ UNCHANGED <<disk, db, backup, token, rot, upd, excused, rewound, ragged, harmed>>

\* Begin.
LEMMA BeginShape ==
    ASSUME Typed, NEW d \in Disk, NEW pc \in {"wipe", "prove", "part"}, NEW enc \in BOOLEAN, NEW p \in Pass \cup {NoPass},
           NEW convert \in Nat, Begin(d, pc, enc, p, convert),
           enc => pc # "part", ~enc => convert = 0 /\ pc # "prove"
    PROVE  /\ Starts(d) /\ req'[d].convert = convert /\ req'[d].enc = enc
           /\ DOMAIN req' \subseteq Disk /\ \A q \in DOMAIN req' : req'[q] \in ReqType
<1>. DEFINE v == [pc |-> pc, enc |-> enc, pass |-> p, convert |-> convert, id |-> 0, at |-> d, mapper |-> d]
<1>1. d \notin DOMAIN req /\ req' = Put(req, d, v)
  BY DEF Begin
<1>2. v \in ReqType /\ v.pc = pc /\ v.enc = enc /\ v.convert = convert /\ v.id = 0 /\ v.mapper = d
  BY DEF ReqType, PC
<1>. HIDE DEF v
<1>3. DOMAIN req' = DOMAIN req \cup {d} /\ req'[d] = v /\ \A q \in DOMAIN req : req'[q] = req[q]
  BY <1>1 DEF Put
<1>4. enc => rot.pc = "idle"
  BY DEF Begin, withEncryptionSlot, rotating
<1>5. ~enc => disk[d].kind # "luks"
  BY DEF Begin, assertDeviceIsNotOurs, Probe
<1>6. UNCHANGED <<disk, db, backup, token, rot, upd, excused, rewound, ragged, harmed>>
  BY DEF Begin
<1>7. Starts(d)
  BY <1>1, <1>2, <1>3, <1>4, <1>5, <1>6 DEF Starts
<1>. QED
  BY <1>2, <1>3, <1>7 DEF Typed

\* A new volume is asked for.
Provisions(d) == d \in Disk /\ Starts(d) /\ req'[d].convert = 0 /\ fleet' = fleet

\* provision.
LEMMA ProvisionShape ==
    ASSUME Typed, NEW d \in Disk, NEW enc \in BOOLEAN, NEW p \in Pass \cup {NoPass}, provision(d, enc, p)
    PROVE  Typed' /\ Provisions(d)
<1>. DEFINE pc == IF disk[d].kind = "blank" THEN Gate(enc) ELSE "wipe"
<1>1. pc \in {"wipe", "prove", "part"} /\ (enc => pc # "part") /\ (~enc => pc # "prove")
  BY DEF Gate
<1>2. Begin(d, pc, enc, p, 0) /\ fleet' = fleet
  BY DEF provision
<1>. HIDE DEF pc
<1>3. /\ Starts(d) /\ req'[d].convert = 0
      /\ DOMAIN req' \subseteq Disk /\ \A q \in DOMAIN req' : req'[q] \in ReqType
  BY <1>1, <1>2, BeginShape
<1>4. Typed'
  BY <1>2, <1>3 DEF Typed, Starts, RotType, UpdType, DbType
<1>. QED
  BY <1>2, <1>3, <1>4 DEF Provisions

\* A conversion begins: the volume leaves the fleet.
Converts(v) ==
    /\ v \in fleet /\ Starts(v.disk) /\ v.disk \in Disk
    /\ req'[v.disk].convert = v.id /\ req'[v.disk].enc
    /\ MayRace \/ upd.pc = "idle" \/ upd.id # v.id
    /\ fleet' = fleet \ {v}

\* convertVolumeToEncrypted.
LEMMA ConvertShape ==
    ASSUME Typed, NEW v \in fleet, NEW p \in Pass \cup {NoPass}, convertVolumeToEncrypted(v, p)
    PROVE  Typed' /\ Converts(v)
<1>1. v.disk \in Disk /\ v.id \in Nat
  BY DEF Typed, Row
<1>2. Begin(v.disk, "wipe", TRUE, p, v.id) /\ fleet' = fleet \ {v} /\ (MayRace \/ upd.pc = "idle" \/ upd.id # v.id)
  BY DEF convertVolumeToEncrypted
<1>3. /\ Starts(v.disk) /\ req'[v.disk].convert = v.id /\ req'[v.disk].enc
      /\ DOMAIN req' \subseteq Disk /\ \A q \in DOMAIN req' : req'[q] \in ReqType
  BY <1>1, <1>2, BeginShape
<1>4. fleet' \subseteq Row /\ \A u, w \in fleet' : u.id = w.id => u = w
  BY <1>2 DEF Typed
<1>5. Typed'
  BY <1>3, <1>4 DEF Typed, Starts, RotType, UpdType, DbType
<1>. QED
  BY <1>1, <1>2, <1>3, <1>5 DEF Converts

\* What the databases, the fleet, the requests and the update hold stays.
Rest == <<backup, token, fleet, req, upd, harmed>>

\* A passphrase change begins.
Turns(next, cur) ==
    /\ rot.pc = "idle" /\ upd.pc = "idle" /\ \A r \in DOMAIN req : ~req[r].enc
    /\ next # cur /\ (db.verifier # NoPass => cur = db.verifier)
    /\ unknown = {} /\ absentVolumeIds = {}
    /\ rot'.pc = IF ours = {} THEN "record" ELSE "add"
    /\ rot'.next = next /\ rot'.cur = cur /\ rot'.ours = ours /\ rot'.todo = ours
    /\ UNCHANGED <<disk, db, Rest, excused, rewound, ragged>>

\* rotate.
LEMMA RotateShape ==
    ASSUME Typed, NEW next \in Pass, NEW cur \in Pass \cup {NoPass}, rotate(next, cur)
    PROVE  Typed' /\ Turns(next, cur)
<1>. DEFINE E == {r \in DOMAIN req : req[r].enc}
<1>1. IsFiniteSet(E)
  <2>1. IsFiniteSet(Disk) /\ E \subseteq Disk
    BY KeysAssumption DEF Typed
  <2>. QED
    BY <2>1, FS_Subset
<1>2. Cardinality(E) + (IF upd.pc = "idle" THEN 0 ELSE 1) = 0
  BY DEF rotate, withRotationSlot, encryptionsInFlight
<1>3. PICK n \in Nat : n = Cardinality(E)
  BY <1>1, FS_CardinalityType
<1>4. upd.pc = "idle" /\ n = 0
  <2>. HIDE DEF E
  <2>1. n + (IF upd.pc = "idle" THEN 0 ELSE 1) = 0
    BY <1>2, <1>3
  <2>2. CASE upd.pc = "idle"
    BY <2>1, <2>2
  <2>3. CASE upd.pc # "idle"
    BY <2>1, <2>3
  <2>. QED
    BY <2>2, <2>3
<1>5. E = {}
  BY <1>1, <1>3, <1>4, FS_EmptySet
<1>6. rot' = [pc |-> IF ours = {} THEN "record" ELSE "add", next |-> next, cur |-> cur, ours |-> ours, todo |-> ours]
  BY DEF rotate
<1>7. ours \subseteq Disk
  BY DEF ours
<1>8. rot' \in RotType /\ rot'.todo \subseteq rot'.ours
  BY <1>6, <1>7 DEF RotType, Rotating
<1>9. UNCHANGED <<disk, db, backup, token, fleet, req, upd, excused, rewound, ragged, harmed>>
  BY DEF rotate
<1>10. Typed'
  BY <1>8, <1>9 DEF Typed, UpdType, DbType
<1>. QED
  BY <1>4, <1>5, <1>6, <1>9, <1>10 DEF Turns, Rest, rotate, withRotationSlot,
      rotating

\* One more disk opens with the new passphrase.
Adds(d) ==
    /\ rot.pc = "add" /\ d \in rot.todo /\ disk[d].here /\ Only(d)
    /\ disk'[d].slots = disk[d].slots \cup {rot.next}
    /\ disk'[d].label = disk[d].label /\ disk'[d].part = disk[d].part /\ disk'[d].kind = disk[d].kind
    /\ rot'.pc = IF rot.todo = {d} THEN "record" ELSE "add"
    /\ rot'.next = rot.next /\ rot'.cur = rot.cur /\ rot'.ours = rot.ours /\ rot'.todo = rot.todo \ {d}
    /\ UNCHANGED <<db, Rest, excused, rewound, ragged>>

\* addNext.
LEMMA AddNextShape ==
    ASSUME Typed, rot.pc # "idle" => rot.next \in Pass, NEW d \in Disk, addNext(d)
    PROVE  Typed' /\ Adds(d)
<1>. DEFINE v == [disk[d] EXCEPT !.slots = @ \cup {rot.next}]
            x == IF rot.todo = {d} THEN "record" ELSE "add"
<1>1. disk[d] \in DiskType /\ rot.next \in Pass /\ rot \in RotType
  BY DEF Typed, DiskType, addNext
<1>2. v \in DiskType /\ v.slots = disk[d].slots \cup {rot.next} /\ v.label = disk[d].label
      /\ v.part = disk[d].part /\ v.here = disk[d].here /\ v.kind = disk[d].kind
  BY <1>1 DEF DiskType
<1>3. disk' = [disk EXCEPT ![d] = v]
  BY DEF addNext
<1>4. Only(d) /\ disk'[d] = v
  <2>. HIDE DEF v
  <2>. QED
    BY <1>2, <1>3, DiskWrite
<1>5. x \in Rotating /\ rot' = [rot EXCEPT !.todo = rot.todo \ {d}, !.pc = x]
  BY DEF addNext, Rotating
<1>. HIDE DEF x
<1>6. rot' \in RotType /\ rot'.pc = x /\ rot'.next = rot.next /\ rot'.cur = rot.cur /\ rot'.ours = rot.ours
      /\ rot'.todo = rot.todo \ {d}
  BY <1>1, <1>5 DEF RotType
<1>7. UNCHANGED <<db, backup, token, fleet, req, upd, excused, rewound, ragged, harmed>>
  BY DEF addNext
<1>8. rot'.todo \subseteq rot'.ours
  BY <1>6 DEF Typed
<1>9. Typed'
  BY <1>4, <1>6, <1>7, <1>8 DEF Typed, UpdType, DbType, Only, DiskType
<1>. QED
  BY <1>2, <1>4, <1>6, <1>7, <1>9 DEF Adds, Rest, addNext, x

\* The new passphrase is recorded.
Notes ==
    /\ rot.pc = "record"
    /\ db'.verifier = rot.next /\ db'.seal = db.seal /\ db'.audit = db.audit /\ db'.rows = db.rows
    /\ rot'.pc = "reseal"
    /\ rot'.next = rot.next /\ rot'.cur = rot.cur /\ rot'.ours = rot.ours /\ rot'.todo = rot.todo
    /\ excused' = {d \in Disk : disk[d].kind = "luks" /\ rot.next \notin disk[d].slots} \ {v.disk : v \in InService(db.rows)}
    /\ rewound' = FALSE /\ ragged' = (ragged \/ ~(Keyed \subseteq rot.ours))
    /\ UNCHANGED <<disk, Rest>>

\* recordNext.
LEMMA RecordShape ==
    ASSUME Typed, recordNext
    PROVE  Typed' /\ Notes
<1>1. rot.pc = "record" /\ rot \in RotType /\ db \in DbType
  BY DEF recordNext, Typed
<1>2. rot' = [rot EXCEPT !.pc = "reseal"] /\ db' = [db EXCEPT !.verifier = rot.next]
  BY DEF recordNext
<1>3. rot' \in RotType /\ rot'.pc = "reseal" /\ rot'.next = rot.next /\ rot'.cur = rot.cur /\ rot'.ours = rot.ours
      /\ rot'.todo = rot.todo
  BY <1>1, <1>2 DEF RotType, Rotating
<1>4. db' \in DbType /\ db'.verifier = rot.next /\ db'.seal = db.seal /\ db'.audit = db.audit /\ db'.rows = db.rows
  BY <1>1, <1>2 DEF DbType, RotType
<1>5. /\ excused' = {d \in Disk : disk[d].kind = "luks" /\ rot.next \notin disk[d].slots}
                    \ {v.disk : v \in InService(db.rows)}
      /\ rewound' = FALSE /\ ragged' = (ragged \/ ~(Keyed \subseteq rot.ours))
      /\ UNCHANGED <<disk, backup, token, fleet, req, upd, harmed>>
  BY DEF recordNext
<1>6. excused' \subseteq Disk /\ ragged' \in BOOLEAN
  BY <1>5 DEF Typed
<1>7. IsFiniteSet(db'.rows)
  BY <1>4 DEF Typed
<1>8. rot'.todo \subseteq rot'.ours
  BY <1>3 DEF Typed
<1>9. Typed'
  BY <1>3, <1>4, <1>5, <1>6, <1>7, <1>8 DEF Typed, UpdType
<1>. QED
  BY <1>1, <1>3, <1>4, <1>5, <1>9 DEF Notes, Rest

\* The copy under the keyfile follows, and the old passphrase is due on every disk.
Reseals ==
    /\ rot.pc = "reseal"
    /\ db'.verifier = db.verifier /\ db'.audit = db.audit /\ db'.rows = db.rows
    /\ IF rot.cur = NoPass \/ rot.ours = {} THEN rot' = NoRot
       ELSE /\ rot'.pc = "retire" /\ rot'.next = rot.next /\ rot'.cur = rot.cur
            /\ rot'.ours = rot.ours /\ rot'.todo = rot.ours
    /\ ragged' = (ragged \/ (rot.cur = NoPass /\ rot.ours # {}))
    /\ UNCHANGED <<disk, Rest, excused, rewound>>

\* No change.
LEMMA NoRotType == NoRot \in RotType /\ NoRot.todo \subseteq NoRot.ours /\ NoRot.pc = "idle"
BY DEF NoRot, RotType

\* resealNext.
LEMMA ResealShape ==
    ASSUME Typed, resealNext
    PROVE  Typed' /\ Reseals
<1>1. rot.pc = "reseal" /\ rot \in RotType /\ db \in DbType
  BY DEF resealNext, Typed
<1>2. rot' = (IF rot.cur = NoPass \/ rot.ours = {} THEN NoRot ELSE [rot EXCEPT !.pc = "retire", !.todo = rot.ours])
      /\ db' = [db EXCEPT !.seal = rot.next]
      /\ ragged' = (ragged \/ (rot.cur = NoPass /\ rot.ours # {}))
  BY DEF resealNext
<1>3. /\ IF rot.cur = NoPass \/ rot.ours = {} THEN rot' = NoRot
         ELSE /\ rot'.pc = "retire" /\ rot'.next = rot.next /\ rot'.cur = rot.cur
              /\ rot'.ours = rot.ours /\ rot'.todo = rot.ours
      /\ rot' \in RotType /\ rot'.todo \subseteq rot'.ours
  <2>1. CASE rot.cur = NoPass \/ rot.ours = {}
    BY <2>1, <1>2, NoRotType
  <2>2. CASE ~(rot.cur = NoPass \/ rot.ours = {})
    <3>1. rot' = [rot EXCEPT !.pc = "retire", !.todo = rot.ours]
      BY <2>2, <1>2
    <3>. QED
      BY <2>2, <3>1, <1>1 DEF RotType, Rotating
  <2>. QED
    BY <2>1, <2>2
<1>4. db' \in DbType /\ db'.verifier = db.verifier /\ db'.audit = db.audit /\ db'.rows = db.rows
  BY <1>1, <1>2 DEF DbType, RotType
<1>5. UNCHANGED <<disk, backup, token, fleet, req, upd, excused, rewound, harmed>>
  BY DEF resealNext
<1>6. IsFiniteSet(db'.rows) /\ ragged' \in BOOLEAN
  BY <1>2, <1>4 DEF Typed
<1>7. Typed'
  BY <1>3, <1>4, <1>5, <1>6 DEF Typed, UpdType
<1>. QED
  BY <1>1, <1>2, <1>3, <1>4, <1>5, <1>7 DEF Reseals, Rest

\* One disk fewer opens with the old passphrase, or the change goes ragged.
Strips(d) ==
    /\ rot.pc = "retire" /\ d \in rot.todo /\ disk[d].here /\ Only(d)
    /\ disk'[d].label = disk[d].label /\ disk'[d].part = disk[d].part /\ disk'[d].kind = disk[d].kind
    /\ \/ disk'[d].slots = disk[d].slots /\ ragged'
       \/ disk'[d].slots = disk[d].slots \ {rot.cur} /\ ragged' = ragged
    /\ IF rot.todo = {d} \/ rot.next \notin disk'[d].slots THEN rot' = NoRot
       ELSE /\ rot'.pc = "retire" /\ rot'.next = rot.next /\ rot'.cur = rot.cur
            /\ rot'.ours = rot.ours /\ rot'.todo = rot.todo \ {d}
    /\ UNCHANGED <<db, Rest, excused, rewound>>

\* retireOld.
LEMMA RetireShape ==
    ASSUME Typed, NEW d \in Disk, retireOld(d)
    PROVE  Typed' /\ Strips(d)
<1>1. rot.pc = "retire" /\ rot \in RotType /\ disk[d] \in DiskType
  BY DEF retireOld, Typed, DiskType
<1>2. PICK wedged \in BOOLEAN : /\ disk' = [disk EXCEPT ![d].slots = IF wedged THEN @ ELSE @ \ {rot.cur}]
                                /\ ragged' = (ragged \/ wedged)
  BY DEF retireOld
<1>. DEFINE v == [disk[d] EXCEPT !.slots = IF wedged THEN @ ELSE @ \ {rot.cur}]
<1>3. v \in DiskType /\ v.slots = (IF wedged THEN disk[d].slots ELSE disk[d].slots \ {rot.cur})
      /\ v.label = disk[d].label /\ v.part = disk[d].part /\ v.here = disk[d].here /\ v.kind = disk[d].kind
  BY <1>1 DEF DiskType
<1>4. disk' = [disk EXCEPT ![d] = v]
  BY <1>2
<1>5. Only(d) /\ disk'[d] = v
  <2>. HIDE DEF v
  <2>. QED
    BY <1>3, <1>4, DiskWrite
<1>. HIDE DEF v
<1>6. rot' = IF rot.todo = {d} \/ rot.next \notin disk'[d].slots THEN NoRot ELSE [rot EXCEPT !.todo = rot.todo \ {d}]
  BY DEF retireOld
<1>7. /\ IF rot.todo = {d} \/ rot.next \notin disk'[d].slots THEN rot' = NoRot
         ELSE /\ rot'.pc = "retire" /\ rot'.next = rot.next /\ rot'.cur = rot.cur
              /\ rot'.ours = rot.ours /\ rot'.todo = rot.todo \ {d}
      /\ rot' \in RotType /\ rot'.todo \subseteq rot'.ours
  <2>1. CASE rot.todo = {d} \/ rot.next \notin disk'[d].slots
    BY <2>1, <1>6, NoRotType
  <2>2. CASE ~(rot.todo = {d} \/ rot.next \notin disk'[d].slots)
    <3>1. rot' = [rot EXCEPT !.todo = rot.todo \ {d}]
      BY <2>2, <1>6
    <3>. QED
      BY <2>2, <3>1, <1>1 DEF RotType, Rotating, Typed
  <2>. QED
    BY <2>1, <2>2
<1>8. UNCHANGED <<db, backup, token, fleet, req, upd, excused, rewound, harmed>>
  BY DEF retireOld
<1>9. \/ disk'[d].slots = disk[d].slots /\ ragged'
      \/ disk'[d].slots = disk[d].slots \ {rot.cur} /\ ragged' = ragged
  <2>1. CASE wedged
    BY <2>1, <1>2, <1>3, <1>5
  <2>2. CASE ~wedged
    <3>1. ragged' = ragged
      BY <2>2, <1>2 DEF Typed
    <3>. QED
      BY <2>2, <3>1, <1>3, <1>5
  <2>. QED
    BY <2>1, <2>2
<1>10. ragged' \in BOOLEAN
  BY <1>2 DEF Typed
<1>11. Typed'
  BY <1>5, <1>7, <1>8, <1>10 DEF Typed, UpdType, DbType, Only, DiskType
<1>. QED
  BY <1>1, <1>3, <1>5, <1>7, <1>8, <1>9, <1>11 DEF Strips, Rest, retireOld

\* A change is cut short.
Stops ==
    /\ rot.pc \in {"add", "retire"} /\ rot' = NoRot
    /\ ragged' = (ragged \/ rot.pc = "retire" \/ rot.todo # rot.ours)
    /\ UNCHANGED <<disk, db, Rest, excused, rewound>>

\* StopRotation.
LEMMA StopShape ==
    ASSUME Typed, StopRotation
    PROVE  Typed' /\ Stops
<1>1. Stops
  BY DEF StopRotation, Stops, Rest
<1>2. Typed'
  BY <1>1, NoRotType DEF Stops, Rest, Typed, UpdType, DbType
<1>. QED
  BY <1>1, <1>2

\* A volume is to be retired or restored: until then no passphrase changes and no request is about it.
Updates(v, del) ==
    /\ v \in fleet /\ upd.pc = "idle" /\ rot.pc = "idle"
    /\ MayRace \/ \A r \in DOMAIN req : v.id # req[r].id /\ v.id # req[r].convert
    /\ upd' \in UpdType /\ upd'.pc = "db" /\ upd'.id = v.id /\ upd'.deleted = del
    /\ UNCHANGED <<disk, db, backup, token, fleet, req, rot, excused, rewound, ragged, harmed>>

\* beginVolumeUpdate.
LEMMA UpdateShape ==
    ASSUME Typed, NEW v \in fleet, NEW del \in BOOLEAN, beginVolumeUpdate(v, del)
    PROVE  Typed' /\ Updates(v, del)
<1>1. v.id \in Nat
  BY DEF Typed, Row
<1>2. upd' = [pc |-> "db", id |-> v.id, deleted |-> del]
  BY DEF beginVolumeUpdate
<1>3. upd' \in UpdType /\ upd'.pc = "db" /\ upd'.id = v.id /\ upd'.deleted = del
  BY <1>1, <1>2 DEF UpdType
<1>4. Updates(v, del)
  BY <1>3 DEF Updates, beginVolumeUpdate, withEncryptionSlot, rotating
<1>5. Typed'
  BY <1>3, <1>4 DEF Updates, Typed, RotType, DbType
<1>. QED
  BY <1>4, <1>5

\* Every row called id is marked, and the others stay as they are.
Marks(A, B, id, del) ==
    /\ B \subseteq Row
    /\ \A v \in A : \E w \in B : Same(v, w) /\ w.ro = v.ro /\ w.deleted = IF v.id = id THEN del ELSE v.deleted
    /\ \A w \in B : \E v \in A : Same(v, w) /\ w.ro = v.ro /\ w.deleted = IF v.id = id THEN del ELSE v.deleted
    /\ \A w \in A \cup B : w.id # id => w \in A /\ w \in B
    /\ \A v, w \in B : v.id = w.id => v = w

\* MarkDeleted does that.
LEMMA MarkShape ==
    ASSUME NEW A \in SUBSET Row, NEW id \in Nat, NEW del \in BOOLEAN, \A v, w \in A : v.id = w.id => v = w
    PROVE  Marks(A, MarkDeleted(A, id, del), id, del)
<1>. DEFINE m(v) == IF v.id = id THEN [v EXCEPT !.deleted = del] ELSE v
            B == MarkDeleted(A, id, del)
<1>1. \A v \in A : /\ m(v) \in Row /\ Same(v, m(v)) /\ m(v).ro = v.ro
                   /\ m(v).deleted = IF v.id = id THEN del ELSE v.deleted
                   /\ v.id # id => m(v) = v
  BY DEF Row, Same
<1>2. B = {m(v) : v \in A}
  BY DEF MarkDeleted
<1>. HIDE DEF m, B
<1>3. ASSUME NEW w \in B
      PROVE  \E v \in A : w = m(v)
  BY <1>2
<1>4. \A v, w \in B : v.id = w.id => v = w
  BY <1>1, <1>3 DEF Same
<1>5. \A w \in A \cup B : w.id # id => w \in A /\ w \in B
  <2>1. \A w \in A : w.id # id => w \in B
    BY <1>1, <1>2
  <2>2. \A w \in B : w.id # id => w \in A
    BY <1>1, <1>3 DEF Same
  <2>. QED
    BY <2>1, <2>2
<1>6. \A w \in B : \E v \in A : Same(v, w) /\ w.ro = v.ro /\ w.deleted = IF v.id = id THEN del ELSE v.deleted
  BY <1>1, <1>3
<1>7. \A v \in A : \E w \in B : Same(v, w) /\ w.ro = v.ro /\ w.deleted = IF v.id = id THEN del ELSE v.deleted
  <2>1. SUFFICES ASSUME NEW v \in A
                 PROVE  \E w \in B : Same(v, w) /\ w.ro = v.ro /\ w.deleted = IF v.id = id THEN del ELSE v.deleted
    OBVIOUS
  <2>2. m(v) \in B
    BY <1>2
  <2>. QED
    BY <2>2, <1>1
<1>8. B \subseteq Row
  BY <1>1, <1>3
<1>9. Marks(A, B, id, del)
  BY <1>4, <1>5, <1>6, <1>7, <1>8 DEF Marks
<1>. QED
  BY <1>9 DEF B

\* A finite table stays finite.
LEMMA MarkFinite ==
    ASSUME NEW A, NEW id, NEW del, IsFiniteSet(A)
    PROVE  IsFiniteSet(MarkDeleted(A, id, del))
<1>. DEFINE B == MarkDeleted(A, id, del)
            f == [v \in A |-> IF v.id = id THEN [v EXCEPT !.deleted = del] ELSE v]
<1>1. f \in [A -> B] /\ \A w \in B : \E v \in A : f[v] = w
  BY DEF MarkDeleted
<1>. HIDE DEF f, B
<1>2. IsFiniteSet(B)
  BY <1>1, ImageFinite
<1>. QED
  BY <1>2 DEF B

\* The table learns of the update, then the fleet.
MarksRows ==
    /\ upd.pc = "db" /\ upd'.pc = "fleet" /\ upd'.id = upd.id /\ upd'.deleted = upd.deleted
    /\ Marks(db.rows, db'.rows, upd.id, upd.deleted)
    /\ db'.verifier = db.verifier /\ db'.audit = db.audit
    /\ UNCHANGED <<disk, backup, token, fleet, req, rot, excused, rewound, ragged, harmed>>

MarksFleet ==
    /\ upd.pc = "fleet" /\ upd' = NoUpd
    /\ Marks(fleet, fleet', upd.id, upd.deleted)
    /\ UNCHANGED <<disk, db, backup, token, req, rot, excused, rewound, ragged, harmed>>

\* No update.
NoUpdShape == NoUpd \in UpdType /\ NoUpd.pc = "idle"

\* It is well typed.
LEMMA NoUpdType == NoUpdShape
BY DEF NoUpdShape, NoUpd, UpdType

\* softDeleteVolume.
LEMMA MarkRowsShape ==
    ASSUME Typed, Single, softDeleteVolume
    PROVE  Typed' /\ (MarksRows \/ MarksFleet)
<1>1. upd \in UpdType /\ upd.id \in Nat /\ upd.deleted \in BOOLEAN
  BY DEF Typed, UpdType
<1>2. CASE /\ upd.pc = "db"
           /\ db' = [db EXCEPT !.rows = MarkDeleted(@, upd.id, upd.deleted)]
           /\ upd' = [upd EXCEPT !.pc = "fleet"]
           /\ UNCHANGED <<disk, backup, token, fleet, req, rot, excused, rewound, ragged, harmed, used>>
  <2>. DEFINE R == MarkDeleted(db.rows, upd.id, upd.deleted)
  <2>1. db.rows \in SUBSET Row /\ IsFiniteSet(db.rows) /\ \A v, w \in db.rows : v.id = w.id => v = w
    BY DEF Typed, DbType, Single
  <2>2. Marks(db.rows, R, upd.id, upd.deleted) /\ IsFiniteSet(R)
    BY <1>1, <2>1, MarkShape, MarkFinite
  <2>. HIDE DEF R
  <2>3. db' = [db EXCEPT !.rows = R]
    BY <1>2 DEF R
  <2>4. R \subseteq Row
    BY <2>2 DEF Marks
  <2>5. db' \in DbType /\ db'.rows = R /\ db'.verifier = db.verifier /\ db'.audit = db.audit
    BY <2>3, <2>4 DEF Typed, DbType
  <2>6. upd' \in UpdType /\ upd'.pc = "fleet" /\ upd'.id = upd.id /\ upd'.deleted = upd.deleted
    BY <1>1, <1>2 DEF UpdType
  <2>7. Typed'
    BY <1>2, <2>2, <2>5, <2>6 DEF Typed, RotType
  <2>8. MarksRows
    BY <1>2, <2>2, <2>5, <2>6 DEF MarksRows
  <2>. QED
    BY <2>7, <2>8
<1>3. CASE /\ upd.pc = "fleet"
           /\ fleet' = MarkDeleted(fleet, upd.id, upd.deleted)
           /\ upd' = NoUpd
           /\ UNCHANGED <<disk, db, backup, token, req, rot, excused, rewound, ragged, harmed, used>>
  <2>1. fleet \in SUBSET Row /\ \A v, w \in fleet : v.id = w.id => v = w
    BY DEF Typed
  <2>2. Marks(fleet, fleet', upd.id, upd.deleted)
    BY <1>1, <1>3, <2>1, MarkShape
  <2>3. fleet' \subseteq Row /\ \A v, w \in fleet' : v.id = w.id => v = w
    BY <2>2 DEF Marks
  <2>4. Typed'
    BY <1>3, <2>3, NoUpdType DEF Typed, RotType, DbType, NoUpdShape
  <2>5. MarksFleet
    BY <1>3, <2>2 DEF MarksFleet
  <2>. QED
    BY <2>4, <2>5
<1>. QED
  BY <1>2, <1>3 DEF softDeleteVolume

\* An audit is recorded.
Audits ==
    /\ sealedRecoveryPassphrase \in Pass /\ db.verifier = sealedRecoveryPassphrase
    /\ db'.verifier = db.verifier /\ db'.seal = db.seal /\ db'.rows = db.rows
    /\ db'.audit.token = token
    /\ db'.audit.healthy => /\ \A d \in ours : db.verifier \in disk[d].slots
                            /\ unknown = {} /\ absentVolumeIds = {}
    /\ ragged' = (ragged \/ ~SeesAll)
    /\ UNCHANGED <<disk, Rest, rot, excused, rewound>>

\* auditRecoveryKey.
LEMMA AuditShape ==
    ASSUME Typed, auditRecoveryKey
    PROVE  Typed' /\ Audits
<1>. DEFINE opened == {d \in ours : testPassphrase(d, sealedRecoveryPassphrase) = "opens"}
            h == opened = ours /\ unknown = {} /\ absentVolumeIds = {}
<1>1. db \in DbType /\ token \in Nat /\ h \in BOOLEAN
  BY DEF Typed
<1>2. sealedRecoveryPassphrase \in Pass /\ db.verifier = sealedRecoveryPassphrase
  BY <1>1 DEF auditRecoveryKey, sealedRecoveryPassphrase, DbType
<1>3. h => (\A d \in ours : db.verifier \in disk[d].slots) /\ unknown = {} /\ absentVolumeIds = {}
  <2>1. ASSUME opened = ours, NEW d \in ours
        PROVE  db.verifier \in disk[d].slots
    <3>1. testPassphrase(d, db.verifier) = "opens"
      BY <2>1, <1>2
    <3>. QED
      BY <3>1 DEF testPassphrase
  <2>. QED
    BY <2>1
<1>4. db' = [db EXCEPT !.audit = [token |-> token, healthy |-> h]]
  BY DEF auditRecoveryKey
<1>. HIDE DEF h
<1>5. db' \in DbType /\ db'.verifier = db.verifier /\ db'.seal = db.seal /\ db'.rows = db.rows
      /\ db'.audit.token = token /\ db'.audit.healthy = h
  BY <1>1, <1>4 DEF DbType
<1>6. ragged' = (ragged \/ ~SeesAll) /\ UNCHANGED <<disk, backup, token, fleet, req, rot, upd, excused, rewound, harmed>>
  BY DEF auditRecoveryKey
<1>7. Typed'
  <2>1. IsFiniteSet(db'.rows) /\ ragged' \in BOOLEAN
    BY <1>5, <1>6 DEF Typed
  <2>. QED
    BY <1>5, <1>6, <2>1 DEF Typed, RotType, UpdType
<1>. QED
  BY <1>2, <1>3, <1>5, <1>6, <1>7 DEF Audits, Rest

\* The recorded passphrase is handed back.
Seals(p) ==
    /\ assertPassphraseOpensTheFleet(p) /\ assertFleetRecoveryPassphrase(p)
    /\ db'.verifier = p /\ db'.seal = p /\ db'.rows = db.rows /\ db'.audit = db.audit
    /\ ragged' = (ragged \/ ~SeesAll)
    /\ UNCHANGED <<disk, Rest, rot, excused, rewound>>

\* handleEncryptionSealRequest.
LEMMA SealShape ==
    ASSUME Typed, NEW p \in Pass, handleEncryptionSealRequest(p)
    PROVE  Typed' /\ Seals(p)
<1>1. db \in DbType
  BY DEF Typed
<1>2. db' = [db EXCEPT !.verifier = p, !.seal = p]
  BY DEF handleEncryptionSealRequest
<1>3. db' \in DbType /\ db'.verifier = p /\ db'.seal = p /\ db'.rows = db.rows /\ db'.audit = db.audit
  BY <1>1, <1>2 DEF DbType
<1>4. Seals(p)
  BY <1>3 DEF handleEncryptionSealRequest, Seals, Rest
<1>5. Typed'
  <2>1. IsFiniteSet(db'.rows) /\ ragged' \in BOOLEAN
    BY <1>3, <1>4 DEF Typed, Seals
  <2>. QED
    BY <1>3, <1>4, <2>1 DEF Typed, Seals, Rest, RotType, UpdType
<1>. QED
  BY <1>4, <1>5

\* The process starts again on a database whose rows have an id each.
Boots(d) ==
    /\ fleet' = d.rows /\ DOMAIN req' = {} /\ rot'.pc = "idle" /\ upd'.pc = "idle"

\* With an id for each row, the fleet that is read back is the table.
LEMMA RestartShape ==
    ASSUME Typed, NEW d \in DbType, Restart(d), \A v, w \in d.rows : v.id = w.id => v = w
    PROVE  /\ Boots(d) /\ fleet' \subseteq Row /\ (\A v, w \in fleet' : v.id = w.id => v = w)
           /\ rot' \in RotType /\ rot'.todo \subseteq rot'.ours /\ upd' \in UpdType
<1>1. PICK f \in SUBSET d.rows :
          /\ \A v \in d.rows : \E w \in f : w.id = v.id
          /\ \A v, w \in f : v.id = w.id => v = w
          /\ fleet' = f
  BY DEF Restart
<1>2. f = d.rows
  BY <1>1
<1>3. req' = Idle /\ rot' = NoRot /\ upd' = NoUpd
  BY DEF Restart
<1>4. DOMAIN req' = {}
  BY <1>3 DEF Idle
<1>. QED
  BY <1>1, <1>2, <1>3, <1>4, NoRotType, NoUpdType DEF Boots, DbType, NoUpdShape

\* The process dies; or the database is restored from its backup.
Crashes ==
    /\ Boots(db)
    /\ ragged' = (ragged \/ rot.pc # "idle")
    /\ UNCHANGED <<disk, db, backup, token, excused, rewound, harmed>>

\* Crash.
LEMMA CrashShape ==
    ASSUME Typed, Single, Crash
    PROVE  Typed' /\ Crashes
<1>1. Restart(db) /\ db \in DbType /\ \A v, w \in db.rows : v.id = w.id => v = w
  BY DEF Crash, Typed, Single
<1>2. /\ Boots(db) /\ fleet' \subseteq Row /\ (\A v, w \in fleet' : v.id = w.id => v = w)
      /\ rot' \in RotType /\ rot'.todo \subseteq rot'.ours /\ upd' \in UpdType
  BY <1>1, RestartShape
<1>3. Crashes
  BY <1>2 DEF Crash, Crashes
<1>4. Typed'
  BY <1>2, <1>3 DEF Typed, Crashes, Boots, DbType
<1>. QED
  BY <1>3, <1>4

Restores ==
    /\ Boots(backup) /\ db' = backup /\ token' = token + 1
    /\ rewound' = (rewound \/ backup.verifier # db.verifier)
    /\ ragged' = (ragged \/ rot.pc # "idle")
    /\ UNCHANGED <<disk, backup, excused, harmed>>

\* RestoreBackup.
LEMMA RestoreShape ==
    ASSUME Typed, Single, RestoreBackup
    PROVE  Typed' /\ Restores
<1>1. Restart(backup) /\ backup \in DbType /\ \A v, w \in backup.rows : v.id = w.id => v = w
  BY DEF RestoreBackup, Typed, Single
<1>2. /\ Boots(backup) /\ fleet' \subseteq Row /\ (\A v, w \in fleet' : v.id = w.id => v = w)
      /\ rot' \in RotType /\ rot'.todo \subseteq rot'.ours /\ upd' \in UpdType
  BY <1>1, RestartShape
<1>3. Restores
  BY <1>2 DEF RestoreBackup, Restores
<1>4. token' \in Nat
  BY <1>3 DEF Restores, Typed
<1>5. Typed'
  BY <1>2, <1>3, <1>4 DEF Typed, Restores, Boots, DbType
<1>. QED
  BY <1>3, <1>5

\* A disk comes or goes.
Flaps(d) ==
    /\ d \in Disk /\ disk' \in [Disk -> DiskType]
    /\ \A e \in Disk : disk'[e].kind = disk[e].kind /\ disk'[e].slots = disk[e].slots
                       /\ disk'[e].label = disk[e].label /\ disk'[e].part = disk[e].part
    /\ UNCHANGED <<db, Rest, rot, excused, rewound, ragged>>

\* Flap.
LEMMA FlapShape ==
    ASSUME Typed, NEW d \in Disk, Flap(d)
    PROVE  Typed' /\ Flaps(d)
<1>1. disk' = [disk EXCEPT ![d].here = ~@] /\ disk \in [Disk -> DiskType]
  BY DEF Flap, Typed, DiskType
<1>2. /\ disk' \in [Disk -> DiskType]
      /\ \A e \in Disk : disk'[e].kind = disk[e].kind /\ disk'[e].slots = disk[e].slots
                         /\ disk'[e].label = disk[e].label /\ disk'[e].part = disk[e].part
  BY <1>1 DEF DiskType
<1>3. Flaps(d)
  BY <1>2 DEF Flap, Flaps, Rest
<1>4. Typed'
  BY <1>2, <1>3 DEF Flaps, Rest, Typed, DiskType, RotType, UpdType, DbType
<1>. QED
  BY <1>3, <1>4

\* A disk changes its name.
Renames(r) ==
    /\ r \in DOMAIN req /\ Keeps(r) /\ req'[r].pc = req[r].pc
    /\ req'[r].pass = req[r].pass /\ req'[r].id = req[r].id
    /\ UNCHANGED <<disk, db, backup, token, fleet, rot, upd, excused, rewound, ragged, harmed>>

\* Renamed.
LEMMA RenamedShape ==
    ASSUME Typed, NEW r \in DOMAIN req, NEW d \in Disk, Renamed(r, d)
    PROVE  Typed' /\ Renames(r)
<1>1. req' = [req EXCEPT ![r].at = d] /\ req[r] \in ReqType
  BY DEF Renamed, Typed
<1>2. Moves(r) /\ req'[r] = [req[r] EXCEPT !.at = d]
  BY <1>1 DEF Moves
<1>3. req'[r] \in ReqType /\ Keeps(r) /\ req'[r].pc = req[r].pc /\ req'[r].pass = req[r].pass /\ req'[r].id = req[r].id
  BY <1>1, <1>2 DEF ReqType, Keeps
<1>4. Renames(r)
  BY <1>3 DEF Renamed, Renames
<1>5. Typed'
  BY <1>2, <1>3, <1>4, ReqsKept DEF Renames, Typed, RotType, UpdType, DbType
<1>. QED
  BY <1>4, <1>5

\* One step of one request.
Handles(r) ==
    \/ Remakes(r) \/ Proves(r) \/ Claims(r) \/ AddsKey(r) \/ Opens(r) \/ Formats(r) \/ Joins(r)
    \/ Records(r) \/ Flags(r) \/ Ends(r)

\* A step, by what it does.
Step ==
    \/ UNCHANGED vars
    \/ \E r \in DOMAIN req : Handles(r) \/ Renames(r)
    \/ \E d \in Disk : Provisions(d)
    \/ \E v \in fleet : Converts(v)
    \/ \E next \in Pass : \E cur \in Pass \cup {NoPass} : Turns(next, cur)
    \/ \E d \in Disk : Adds(d) \/ Strips(d) \/ Flaps(d)
    \/ Notes \/ Reseals \/ Stops
    \/ \E v \in fleet : \E del \in BOOLEAN : Updates(v, del)
    \/ MarksRows \/ MarksFleet \/ Audits
    \/ \E p \in Pass : Seals(p)
    \/ Crashes \/ Restores

\* Every step of a request is one of these.
LEMMA Handled ==
    ASSUME Typed, Asked, Single, NEW r \in DOMAIN req, ProvisionStep(r)
    PROVE  Typed' /\ Handles(r)
<1>1. CASE wipeDevice(r)
  BY <1>1, WipeShape DEF Handles
<1>2. CASE assertEncryptionIsPossible(r)
  BY <1>2, ProveShape DEF Handles
<1>3. CASE claimRecoveryPassphrase(r)
  BY <1>3, ClaimShape DEF Handles
<1>4. CASE partitionDevice(r)
  BY <1>4, PartitionShape DEF Handles
<1>5. CASE addPassphrase(r)
  BY <1>5, AddPassphraseShape DEF Handles
<1>6. CASE luksOpen(r)
  BY <1>6, OpenShape DEF Handles
<1>7. CASE formatPartition(r)
  BY <1>7, FormatShape DEF Handles
<1>8. CASE registerVolume(r)
  BY <1>8, RegisterShape DEF Handles
<1>9. CASE createVolume(r)
  BY <1>9, CreateShape DEF Handles
<1>10. CASE updateVolumeFlags(r)
  BY <1>10, FlagShape DEF Handles
<1>11. CASE Abandon(r)
  BY <1>11, AbandonShape DEF Handles
<1>. QED
  BY <1>1, <1>2, <1>3, <1>4, <1>5, <1>6, <1>7, <1>8, <1>9, <1>10, <1>11 DEF
      ProvisionStep

\* Every step keeps the types and is one of these.
LEMMA Shapes ==
    ASSUME KInv, [Next]_vars
    PROVE  Typed' /\ Step
<1>. USE DEF KInv
<1>1. CASE UNCHANGED vars
  BY <1>1 DEF Step, vars, Typed, DbType, RotType, UpdType
<1>2. ASSUME NEW d \in Disk, provision(d, FALSE, NoPass)
      PROVE  Typed' /\ Step
  <2>1. FALSE \in BOOLEAN /\ NoPass \in Pass \cup {NoPass}
    OBVIOUS
  <2>2. Typed' /\ Provisions(d)
    BY <1>2, <2>1, ProvisionShape
  <2>. QED
    BY <2>2 DEF Step
<1>3. ASSUME NEW d \in Disk, NEW p \in Pass \cup {NoPass}, provision(d, TRUE, p)
      PROVE  Typed' /\ Step
  <2>1. TRUE \in BOOLEAN
    OBVIOUS
  <2>2. Typed' /\ Provisions(d)
    BY <1>3, <2>1, ProvisionShape
  <2>. QED
    BY <2>2 DEF Step
<1>4. ASSUME NEW v \in fleet, NEW p \in Pass \cup {NoPass}, convertVolumeToEncrypted(v, p)
      PROVE  Typed' /\ Step
  <2>1. Typed' /\ Converts(v)
    BY <1>4, ConvertShape
  <2>. QED
    BY <2>1 DEF Step
<1>5. ASSUME NEW r \in DOMAIN req, ProvisionStep(r)
      PROVE  Typed' /\ Step
  <2>1. Typed' /\ Handles(r)
    BY <1>5, Handled
  <2>. QED
    BY <2>1 DEF Step
<1>6. ASSUME NEW p \in Pass, NEW c \in Pass \cup {NoPass}, rotate(p, c)
      PROVE  Typed' /\ Step
  <2>1. Typed' /\ Turns(p, c)
    BY <1>6, RotateShape
  <2>. QED
    BY <2>1 DEF Step
<1>7. ASSUME NEW d \in Disk, addNext(d)
      PROVE  Typed' /\ Step
  <2>1. rot.pc # "idle" => rot.next \in Pass
    BY DEF Changing
  <2>2. Typed' /\ Adds(d)
    BY <1>7, <2>1, AddNextShape
  <2>. QED
    BY <2>2 DEF Step
<1>8. ASSUME NEW d \in Disk, retireOld(d)
      PROVE  Typed' /\ Step
  <2>1. Typed' /\ Strips(d)
    BY <1>8, RetireShape
  <2>. QED
    BY <2>1 DEF Step
<1>9. ASSUME NEW d \in Disk, Flap(d)
      PROVE  Typed' /\ Step
  <2>1. Typed' /\ Flaps(d)
    BY <1>9, FlapShape
  <2>. QED
    BY <2>1 DEF Step
<1>10. CASE recordNext
  BY <1>10, RecordShape DEF Step
<1>11. CASE resealNext
  BY <1>11, ResealShape DEF Step
<1>12. CASE StopRotation
  BY <1>12, StopShape DEF Step
<1>13. ASSUME NEW v \in fleet, NEW del \in BOOLEAN, beginVolumeUpdate(v, del)
       PROVE  Typed' /\ Step
  <2>1. Typed' /\ Updates(v, del)
    BY <1>13, UpdateShape
  <2>. QED
    BY <2>1 DEF Step
<1>14. CASE softDeleteVolume
  BY <1>14, MarkRowsShape DEF Step
<1>15. CASE auditRecoveryKey
  BY <1>15, AuditShape DEF Step
<1>16. ASSUME NEW p \in Pass, handleEncryptionSealRequest(p)
       PROVE  Typed' /\ Step
  <2>1. Typed' /\ Seals(p)
    BY <1>16, SealShape
  <2>. QED
    BY <2>1 DEF Step
<1>17. CASE Crash
  BY <1>17, CrashShape DEF Step
<1>18. CASE RestoreBackup
  BY <1>18, RestoreShape DEF Step
<1>19. ASSUME NEW r \in DOMAIN req, NEW d \in Disk, Renamed(r, d)
       PROVE  Typed' /\ Step
  <2>1. Typed' /\ Renames(r)
    BY <1>19, RenamedShape
  <2>. QED
    BY <2>1 DEF Step
<1>. QED
  BY <1>1, <1>2, <1>3, <1>4, <1>5, <1>6, <1>7, <1>8, <1>9, <1>10, <1>11, <1>12,
      <1>13, <1>14, <1>15, <1>16,
     <1>17, <1>18, <1>19 DEF Next

\* The requests are where they were.
SameReqs ==
    /\ DOMAIN req' = DOMAIN req
    /\ \A q \in DOMAIN req : /\ req'[q].pc = req[q].pc /\ req'[q].enc = req[q].enc
                             /\ req'[q].pass = req[q].pass /\ req'[q].convert = req[q].convert
                             /\ req'[q].id = req[q].id /\ req'[q].mapper = req[q].mapper

\* The requests, the table and the fleet are not touched, and no partition table is.
Aside ==
    /\ SameReqs /\ db'.rows = db.rows /\ UNCHANGED <<backup, fleet, upd>>
    /\ \A e \in Disk : disk'[e].kind = disk[e].kind /\ disk'[e].label = disk[e].label /\ disk'[e].part = disk[e].part

\* A passphrase change, an audit, a seal, or the environment.
Aloof ==
    \/ UNCHANGED vars
    \/ \E r \in DOMAIN req : Renames(r)
    \/ \E next \in Pass : \E cur \in Pass \cup {NoPass} : Turns(next, cur)
    \/ \E d \in Disk : Adds(d) \/ Strips(d) \/ Flaps(d)
    \/ Notes \/ Reseals \/ Stops \/ Audits
    \/ \E p \in Pass : Seals(p)

\* Such a step stands aside.
LEMMA AloofAside ==
    ASSUME Aloof
    PROVE  Aside
<1>1. CASE UNCHANGED vars
  BY <1>1 DEF Aside, SameReqs, vars
<1>2. ASSUME NEW r \in DOMAIN req, Renames(r)
      PROVE  Aside
  BY <1>2 DEF Aside, SameReqs, Renames, Keeps, Moves
<1>3. ASSUME UNCHANGED req
      PROVE  SameReqs
  BY <1>3 DEF SameReqs
<1>4. ASSUME NEW next, NEW cur, Turns(next, cur)
      PROVE  Aside
  BY <1>4, <1>3 DEF Aside, Turns, Rest
<1>5. ASSUME NEW d \in Disk, Adds(d)
      PROVE  Aside
  BY <1>5, <1>3 DEF Aside, Adds, Only, Rest
<1>6. ASSUME NEW d \in Disk, Strips(d)
      PROVE  Aside
  BY <1>6, <1>3 DEF Aside, Strips, Only, Rest
<1>7. ASSUME NEW d \in Disk, Flaps(d)
      PROVE  Aside
  BY <1>7, <1>3 DEF Aside, Flaps, Rest
<1>8. CASE Notes
  BY <1>8, <1>3 DEF Aside, Notes, Rest
<1>9. CASE Reseals
  BY <1>9, <1>3 DEF Aside, Reseals, Rest
<1>10. CASE Stops
  BY <1>10, <1>3 DEF Aside, Stops, Rest
<1>11. CASE Audits
  BY <1>11, <1>3 DEF Aside, Audits, Rest
<1>12. ASSUME NEW p \in Pass, Seals(p)
       PROVE  Aside
  BY <1>12, <1>3 DEF Aside, Seals, Rest
<1>. QED
  BY <1>1, <1>2, <1>4, <1>5, <1>6, <1>7, <1>8, <1>9, <1>10, <1>11, <1>12 DEF Aloof

\* A request that has no volume yet: only its disk changes.
Early(r) == Remakes(r) \/ Proves(r) \/ Claims(r) \/ AddsKey(r) \/ Opens(r)

\* What such a step leaves alone.
Walks(r) ==
    /\ r \in DOMAIN req /\ Keeps(r) /\ req'[r].id = req[r].id /\ req'[r].mapper = req[r].mapper
    /\ req[r].pc \notin Named /\ req'[r].pc \notin Named
    /\ \A e \in Disk : e # r => disk'[e] = disk[e]
    /\ db'.rows = db.rows /\ UNCHANGED <<backup, fleet, upd>>

\* It leaves the table, the fleet and the named requests alone.
LEMMA EarlyWalks ==
    ASSUME NEW r, Early(r)
    PROVE  Walks(r)
<1>1. CASE Remakes(r)
  BY <1>1 DEF Walks, Remakes, Keeps, Only, Named
<1>2. CASE Proves(r)
  BY <1>2 DEF Walks, Proves, Advances, Keeps, Named
<1>3. CASE Claims(r)
  BY <1>3 DEF Walks, Claims, Advances, Keeps, Named
<1>4. CASE AddsKey(r)
  BY <1>4 DEF Walks, AddsKey, Keeps, Only, Named
<1>5. CASE Opens(r)
  BY <1>5 DEF Walks, Opens, Advances, Keeps, Named
<1>. QED
  BY <1>1, <1>2, <1>3, <1>4, <1>5 DEF Early

\* Every step is aloof, of a request or of the fleet.
LEMMA StepKinds ==
    Step <=> \/ Aloof
             \/ \E r \in DOMAIN req : \/ Early(r) \/ Formats(r) \/ Joins(r) \/ Records(r) \/ Flags(r) \/ Ends(r)
             \/ \E d \in Disk : Provisions(d)
             \/ \E v \in fleet : Converts(v)
             \/ \E v \in fleet : \E del \in BOOLEAN : Updates(v, del)
             \/ MarksRows \/ MarksFleet \/ Crashes \/ Restores
BY DEF Step, Aloof, Handles, Early

\* The requests of the step, as far as Single looks: nobody gets a name or is about another volume.
LEMMA SingleKept ==
    ASSUME Single, UNCHANGED <<backup, upd>>, db'.rows = db.rows, DOMAIN req' = DOMAIN req,
           \A q \in DOMAIN req : /\ req'[q].id = req[q].id /\ req'[q].convert = req[q].convert
                                 /\ req'[q].pc \in Named => req[q].pc \in Named
    PROVE  Single'
BY DEF Single

\* Single, step by step: first the steps that touch no row and no request.
LEMMA AsideSingle ==
    ASSUME Single, Aside
    PROVE  Single'
BY SingleKept DEF Aside, SameReqs

\* A request without a volume.
LEMMA WalksSingle ==
    ASSUME Single, NEW r, Walks(r)
    PROVE  Single'
BY SingleKept DEF Walks, Keeps, Moves

\* The id is new: no two requests pick the same.
LEMMA FormatsSingle ==
    ASSUME Typed, Asked, Single, ~MayRace, NEW r \in DOMAIN req, Formats(r)
    PROVE  Single'
<1>1. db'.rows \subseteq db.rows /\ backup' = backup /\ upd' = upd /\ DOMAIN req' = DOMAIN req
  BY DEF Formats, Keeps, Moves
<1>2. \A q \in DOMAIN req : q # r => req'[q] = req[q] /\ req'[r].id # req[q].id /\ req'[r].id # req[q].convert
  BY DEF Formats, Keeps, Moves
<1>3. req'[r].convert = req[r].convert
  BY DEF Formats, Keeps
<1>4. ASSUME NEW a \in DOMAIN req, NEW q \in DOMAIN req, a # q, req'[a].pc \in Named
      PROVE  req'[a].id \notin {req'[q].id, req'[q].convert}
  <2>1. CASE a = r
    BY <2>1, <1>2, <1>4
  <2>2. CASE a # r /\ q = r
    BY <2>2, <1>2, <1>3, <1>4 DEF Single
  <2>3. CASE a # r /\ q # r
    BY <2>3, <1>2, <1>4 DEF Single
  <2>. QED
    BY <2>1, <2>2, <2>3
<1>5. ASSUME upd.pc # "idle"
      PROVE  /\ \E v \in db'.rows : v.id = upd.id
             /\ \A q \in DOMAIN req : upd.id \notin {req'[q].id, req'[q].convert}
  <2>1. PICK v \in db.rows : v.id = upd.id
    BY <1>5 DEF Single
  <2>2. upd.id # req[r].convert
    BY <1>5 DEF Single
  <2>3. v \in db'.rows
    BY <2>1, <2>2 DEF Formats
  <2>4. upd.id # req'[r].id
    BY <2>1, <2>3 DEF Formats
  <2>. QED
    BY <1>2, <1>3, <1>5, <2>1, <2>2, <2>3, <2>4 DEF Single
<1>. QED
  BY <1>1, <1>4, <1>5 DEF Single

\* The volume enters the fleet.
LEMMA JoinsSingle ==
    ASSUME Single, NEW r \in DOMAIN req, Joins(r)
    PROVE  Single'
BY SingleKept DEF Joins, Keeps, Moves, Named

\* The row that enters the table is the only one with its id.
LEMMA RecordsSingle ==
    ASSUME Typed, Single, Entered, NEW r \in DOMAIN req, Records(r)
    PROVE  Single'
<1>1. db'.rows = db.rows \cup {NewRow(r)} /\ NewRow(r).id = req[r].id /\ backup' = backup /\ upd' = upd
  BY NewRowShape DEF Records, Advances
<1>2. \A v \in db.rows : v.id # req[r].id
  BY DEF Entered, Records
<1>3. /\ DOMAIN req' = DOMAIN req
      /\ \A q \in DOMAIN req : /\ req'[q].id = req[q].id /\ req'[q].convert = req[q].convert
                               /\ req'[q].pc \in Named => req[q].pc \in Named
  BY DEF Records, Advances, Keeps, Moves, Named
<1>4. \A v, w \in db'.rows : v.id = w.id => v = w
  BY <1>1, <1>2 DEF Single
<1>. QED
  BY <1>1, <1>3, <1>4 DEF Single

\* The flags change no id.
LEMMA FlagsSingle ==
    ASSUME Single, NEW r \in DOMAIN req, Flags(r)
    PROVE  Single'
<1>1. /\ \A v, w \in db'.rows : v.id = w.id => v = w
      /\ \A v \in db.rows : \E w \in db'.rows : w.id = v.id
      /\ backup' = backup /\ upd' = upd
  BY DEF Flags, Alike, Same
<1>2. DOMAIN req' \subseteq DOMAIN req /\ \A q \in DOMAIN req' : req'[q] = req[q]
  BY DEF Flags, Drops
<1>. QED
  BY <1>1, <1>2 DEF Single

\* A request that ends frees its ids.
LEMMA EndsSingle ==
    ASSUME Single, NEW r \in DOMAIN req, Ends(r)
    PROVE  Single'
<1>1. DOMAIN req' \subseteq DOMAIN req /\ \A q \in DOMAIN req' : req'[q] = req[q]
  BY DEF Ends, Drops
<1>2. UNCHANGED <<db, backup, upd>>
  BY DEF Ends
<1>. QED
  BY <1>1, <1>2 DEF Single

\* A new request is about no volume that another one has made or that is being updated.
LEMMA StartsSingle ==
    ASSUME Asked, Dated, Single, NEW r, Starts(r),
           req'[r].convert # 0 =>
               /\ upd.pc = "idle" \/ upd.id # req'[r].convert
               /\ \A q \in DOMAIN req : req[q].pc \in Named => req[q].id # req'[r].convert
    PROVE  Single'
<1>1. /\ DOMAIN req' = DOMAIN req \cup {r} /\ r \notin DOMAIN req /\ \A q \in DOMAIN req : req'[q] = req[q]
      /\ req'[r].id = 0 /\ req'[r].pc \notin Named
      /\ UNCHANGED <<db, backup, upd>>
  BY DEF Starts, Named
<1>2. ASSUME NEW a \in DOMAIN req', NEW q \in DOMAIN req', a # q, req'[a].pc \in Named
      PROVE  req'[a].id \notin {req'[q].id, req'[q].convert}
  <2>1. a \in DOMAIN req /\ req'[a] = req[a] /\ req[a].id # 0
    BY <1>1, <1>2 DEF Asked
  <2>2. CASE q = r
    BY <2>1, <2>2, <1>1, <1>2
  <2>3. CASE q # r
    BY <2>1, <2>3, <1>1, <1>2 DEF Single
  <2>. QED
    BY <2>2, <2>3
<1>3. ASSUME upd.pc # "idle"
      PROVE  \A q \in DOMAIN req' : upd.id \notin {req'[q].id, req'[q].convert}
  <2>1. upd.id # 0
    BY <1>3 DEF Single, Dated, Rows
  <2>2. upd.id \notin {req'[r].id, req'[r].convert}
    BY <2>1, <1>1, <1>3
  <2>. QED
    BY <2>2, <1>1, <1>3 DEF Single
<1>. QED
  BY <1>1, <1>2, <1>3 DEF Single

\* A conversion takes a volume that no request is about.
LEMMA ConvertsSingle ==
    ASSUME Typed, Asked, Dated, Single, Entered, ~MayRace, NEW v \in fleet, Converts(v)
    PROVE  Single'
<1>1. Starts(v.disk) /\ req'[v.disk].convert = v.id /\ (upd.pc = "idle" \/ upd.id # v.id) /\ v.disk \notin DOMAIN req
  BY DEF Converts, Starts
<1>2. ASSUME NEW q \in DOMAIN req, req[q].pc \in Named, req[q].id = v.id
      PROVE  FALSE
  <2>1. req[q].pc # "join"
    BY <1>2 DEF Entered
  <2>2. NewRow(q) \in fleet
    BY <1>2, <2>1 DEF Entered, Named
  <2>3. NewRow(q).id = v.id /\ NewRow(q).disk = q
    BY <1>2, NewRowShape
  <2>4. NewRow(q) = v
    BY <2>2, <2>3 DEF Typed
  <2>. QED
    BY <1>1, <2>3, <2>4
<1>. QED
  BY <1>1, <1>2, StartsSingle

\* An update takes a volume that no request is about.
LEMMA UpdatesSingle ==
    ASSUME Single, Agreed, ~MayRace, NEW v \in fleet, NEW del, Updates(v, del)
    PROVE  Single'
<1>1. \A r \in DOMAIN req : v.id # req[r].id /\ v.id # req[r].convert
  BY DEF Updates
<1>2. \E w \in db.rows : w.id = v.id
  BY <1>1 DEF Agreed
<1>3. upd'.id = v.id /\ UNCHANGED <<db, backup, req>>
  BY DEF Updates
<1>. QED
  BY <1>1, <1>2, <1>3 DEF Single

\* Marking changes no id.
LEMMA MarksSingle ==
    ASSUME Single, MarksRows \/ MarksFleet
    PROVE  Single'
<1>1. CASE MarksRows
  <2>1. /\ \A v, w \in db'.rows : v.id = w.id => v = w
        /\ \A v \in db.rows : \E w \in db'.rows : w.id = v.id
        /\ upd.pc = "db" /\ upd'.id = upd.id /\ UNCHANGED <<backup, req>>
    BY <1>1 DEF MarksRows, Marks, Same
  <2>. QED
    BY <2>1 DEF Single
<1>2. CASE MarksFleet
  BY <1>2, NoUpdType DEF MarksFleet, Single, NoUpdShape
<1>. QED
  BY <1>1, <1>2

\* A boot: no request, and a table whose rows have an id each.
LEMMA BootsSingle ==
    ASSUME Single, Crashes \/ Restores
    PROVE  Single'
<1>1. CASE Crashes
  BY <1>1 DEF Crashes, Boots, Single
<1>2. CASE Restores
  BY <1>2 DEF Restores, Boots, Single
<1>. QED
  BY <1>1, <1>2

\* Ids stay single.
LEMMA SingleStep ==
    ASSUME KInv, ~MayRace, Step
    PROVE  Single'
<1>. USE DEF KInv
<1>1. CASE Aloof
  BY <1>1, AloofAside, AsideSingle
<1>2. ASSUME NEW r \in DOMAIN req, Early(r) \/ Formats(r) \/ Joins(r) \/ Records(r) \/ Flags(r) \/ Ends(r)
      PROVE  Single'
  BY <1>2, EarlyWalks, WalksSingle, FormatsSingle, JoinsSingle, RecordsSingle,
      FlagsSingle, EndsSingle
<1>3. ASSUME NEW d \in Disk, Provisions(d)
      PROVE  Single'
  BY <1>3, StartsSingle DEF Provisions
<1>4. ASSUME NEW v \in fleet, Converts(v)
      PROVE  Single'
  BY <1>4, ConvertsSingle
<1>5. ASSUME NEW v \in fleet, NEW del \in BOOLEAN, Updates(v, del)
      PROVE  Single'
  BY <1>5, UpdatesSingle
<1>. QED
  BY <1>1, <1>2, <1>3, <1>4, <1>5, MarksSingle, BootsSingle, StepKinds

\* The row of a request on whose disk no partition is made stays the same.
LEMMA RowStays ==
    ASSUME NEW q, req'[q].id = req[q].id, disk'[q].part = disk[q].part
    PROVE  NewRow(q)' = NewRow(q)
BY DEF NewRow

\* What Entered says of one request.
Seated(q) ==
    /\ req[q].pc = "join" => \A v \in fleet \cup db.rows : v.id # req[q].id
    /\ req[q].pc = "row" => NewRow(q) \in fleet /\ \A v \in db.rows : v.id # req[q].id
    /\ req[q].pc = "flag" => NewRow(q) \in fleet /\ NewRow(q) \in db.rows

\* Entered, request by request.
LEMMA EnteredIsSeated == Entered <=> \A q \in DOMAIN req : Seated(q)
BY DEF Entered, Seated

\* A request stays seated when nobody of its id comes into the fleet or the table, and its row stays there.
LEMMA SeatedKept ==
    ASSUME NEW q, Seated(q), req'[q].pc = req[q].pc, req'[q].id = req[q].id, disk'[q].part = disk[q].part,
           req[q].pc \in Named =>
               /\ \A v \in fleet' : v.id = req[q].id => \E w \in fleet : w.id = v.id
               /\ \A v \in db'.rows : v.id = req[q].id => \E w \in db.rows : w.id = v.id
               /\ NewRow(q) \in fleet => NewRow(q) \in fleet'
               /\ NewRow(q) \in db.rows => NewRow(q) \in db'.rows
    PROVE  Seated(q)'
<1>1. NewRow(q)' = NewRow(q)
  BY RowStays
<1>. HIDE DEF NewRow
<1>2. (req[q].pc = "join" => \A v \in fleet' \cup db'.rows : v.id # req[q].id)
  BY DEF Seated, Named
<1>3. req[q].pc = "row" => NewRow(q) \in fleet' /\ \A v \in db'.rows : v.id # req[q].id
  BY DEF Seated, Named
<1>4. req[q].pc = "flag" => NewRow(q) \in fleet' /\ NewRow(q) \in db'.rows
  BY DEF Seated, Named
<1>. QED
  BY <1>1, <1>2, <1>3, <1>4 DEF Seated

\* Entered, step by step.
LEMMA AsideEntered ==
    ASSUME Typed, Entered, Aside
    PROVE  Entered'
<1>1. ASSUME NEW q \in DOMAIN req
      PROVE  Seated(q)'
  <2>1. /\ Seated(q) /\ q \in Disk
        /\ req'[q].pc = req[q].pc /\ req'[q].id = req[q].id /\ disk'[q].part = disk[q].part
        /\ fleet' = fleet /\ db'.rows = db.rows
    BY EnteredIsSeated DEF Aside, SameReqs, Typed
  <2>. QED
    BY <2>1, SeatedKept
<1>2. DOMAIN req' = DOMAIN req
  BY DEF Aside, SameReqs
<1>. QED
  BY <1>1, <1>2, EnteredIsSeated DEF Entered, Seated

\* The other requests, while r moves.
LEMMA OthersSeated ==
    ASSUME Typed, Asked, Single, Entered, NEW r \in DOMAIN req, NEW q \in DOMAIN req, q # r, req'[q] = req[q],
           disk'[q].part = disk[q].part,
           NEW id, \A a \in DOMAIN req : a # r /\ req[a].pc \in Named => req[a].id # id,
           \A v \in fleet' : v.id # id => \E w \in fleet \cup db.rows : w = v,
           \A v \in db'.rows : v.id # id => \E w \in db.rows : w = v,
           \A v \in fleet : v.id # id => v \in fleet',
           \A v \in db.rows : v.id # id => v \in db'.rows
    PROVE  Seated(q)'
<1>1. Seated(q) /\ NewRow(q).id = req[q].id /\ (req[q].pc \in Named => req[q].id # id)
  BY EnteredIsSeated, NewRowShape
<1>2. NewRow(q)' = NewRow(q)
  BY RowStays
<1>3. ASSUME req[q].pc = "join"
      PROVE  \A v \in fleet' \cup db'.rows : v.id # req[q].id
  BY <1>1, <1>3 DEF Seated, Named
<1>4. ASSUME req[q].pc = "row"
      PROVE  NewRow(q) \in fleet' /\ \A v \in db'.rows : v.id # req[q].id
  BY <1>1, <1>4 DEF Seated, Named
<1>5. ASSUME req[q].pc = "flag"
      PROVE  NewRow(q) \in fleet' /\ NewRow(q) \in db'.rows
  BY <1>1, <1>5 DEF Seated, Named
<1>. HIDE DEF NewRow
<1>. QED
  BY <1>2, <1>3, <1>4, <1>5 DEF Seated

\* A request without a volume.
LEMMA WalksEntered ==
    ASSUME Typed, Entered, NEW r, Walks(r)
    PROVE  Entered'
<1>1. ASSUME NEW q \in DOMAIN req, q # r
      PROVE  Seated(q)'
  <2>1. /\ Seated(q) /\ q \in Disk /\ req'[q] = req[q] /\ disk'[q] = disk[q]
        /\ fleet' = fleet /\ db'.rows = db.rows
    BY <1>1, EnteredIsSeated DEF Walks, Keeps, Moves, Typed
  <2>. QED
    BY <2>1, SeatedKept
<1>2. Seated(r)'
  BY DEF Walks, Seated, Named
<1>3. DOMAIN req' = DOMAIN req
  BY DEF Walks, Keeps, Moves
<1>. QED
  BY <1>1, <1>2, <1>3 DEF Entered, Seated

\* The new id is in neither the table nor the fleet.
LEMMA FormatsEntered ==
    ASSUME Typed, Asked, Single, Entered, Agreed, ~MayRace, NEW r \in DOMAIN req, Formats(r)
    PROVE  Entered'
<1>1. /\ db'.rows = {v \in db.rows : v.id # req[r].convert} /\ fleet' = {v \in fleet : v.id # req[r].convert}
      /\ \A q \in DOMAIN req : q # r => req'[q] = req[q] /\ req'[r].id # req[q].id
      /\ DOMAIN req' = DOMAIN req /\ req'[r].pc = "join" /\ req[r].pc = "mkfs"
      /\ \A v \in db'.rows : v.id # req'[r].id
      /\ \A e \in Disk : e # r => disk'[e] = disk[e]
  BY DEF Formats, Keeps, Moves, Only
<1>2. ASSUME NEW q \in DOMAIN req, q # r
      PROVE  Seated(q)'
  <2>1. \A a \in DOMAIN req : a # r /\ req[a].pc \in Named => req[a].id # req[r].convert
    BY DEF Single
  <2>2. req'[q] = req[q] /\ disk'[q].part = disk[q].part
    BY <1>1, <1>2 DEF Typed
  <2>3. /\ \A v \in fleet' : v \in fleet
        /\ \A v \in db'.rows : v \in db.rows
        /\ \A v \in fleet : v.id # req[r].convert => v \in fleet'
        /\ \A v \in db.rows : v.id # req[r].convert => v \in db'.rows
    BY <1>1
  <2>. QED
    BY <1>2, <2>1, <2>2, <2>3, OthersSeated
<1>3. ASSUME NEW v \in fleet', v.id = req'[r].id
      PROVE  FALSE
  <2>1. v \in fleet /\ v.id # req[r].convert
    BY <1>1
  <2>2. CASE \E w \in db.rows : w.id = v.id
    BY <2>1, <2>2, <1>1, <1>3
  <2>3. CASE \E q \in DOMAIN req : req[q].pc = "row" /\ req[q].id = v.id
    BY <2>3, <1>1, <1>3
  <2>. QED
    BY <2>1, <2>2, <2>3 DEF Agreed
<1>4. Seated(r)'
  BY <1>1, <1>3 DEF Seated
<1>. QED
  BY <1>1, <1>2, <1>4 DEF Entered, Seated

\* The volume enters the fleet.
LEMMA JoinsEntered ==
    ASSUME Typed, Asked, Single, Entered, NEW r \in DOMAIN req, Joins(r)
    PROVE  Entered'
<1>1. /\ db' = db /\ fleet' = {v \in fleet : v.id # req[r].id} \cup {NewRow(r)}
      /\ \A q \in DOMAIN req : q # r => req'[q] = req[q]
      /\ DOMAIN req' = DOMAIN req /\ req'[r].pc = "row" /\ req[r].pc = "join" /\ req'[r].id = req[r].id
      /\ disk'[r].part = disk[r].part /\ NewRow(r).id = req[r].id
      /\ \A e \in Disk : e # r => disk'[e] = disk[e]
  BY DEF Joins, Keeps, Moves, Only
<1>2. ASSUME NEW q \in DOMAIN req, q # r
      PROVE  Seated(q)'
  <2>1. \A a \in DOMAIN req : a # r /\ req[a].pc \in Named => req[a].id # req[r].id
    BY DEF Single
  <2>2. req'[q] = req[q] /\ disk'[q].part = disk[q].part
    BY <1>1, <1>2 DEF Typed
  <2>3. /\ \A v \in fleet' : v.id # req[r].id => v \in fleet
        /\ \A v \in fleet : v.id # req[r].id => v \in fleet'
        /\ db'.rows = db.rows
    BY <1>1
  <2>. QED
    BY <1>2, <2>1, <2>2, <2>3, OthersSeated
<1>3. NewRow(r)' = NewRow(r)
  BY <1>1, RowStays
<1>4. NewRow(r) \in fleet' /\ \A v \in db'.rows : v.id # req'[r].id
  BY <1>1 DEF Entered
<1>5. Seated(r)'
  <2>. HIDE DEF NewRow
  <2>. QED
    BY <1>1, <1>3, <1>4 DEF Seated
<1>. QED
  BY <1>1, <1>2, <1>5 DEF Entered, Seated

\* Then the table.
LEMMA RecordsEntered ==
    ASSUME Typed, Asked, Single, Entered, NEW r \in DOMAIN req, Records(r)
    PROVE  Entered'
<1>1. /\ fleet' = fleet /\ db'.rows = db.rows \cup {NewRow(r)}
      /\ \A q \in DOMAIN req : q # r => req'[q] = req[q]
      /\ DOMAIN req' = DOMAIN req /\ req'[r].pc = "flag" /\ req[r].pc = "row" /\ req'[r].id = req[r].id
      /\ disk' = disk
  BY DEF Records, Advances, Keeps, Moves
<1>2. NewRow(r).id = req[r].id
  BY NewRowShape
<1>3. ASSUME NEW q \in DOMAIN req, q # r
      PROVE  Seated(q)'
  <2>1. \A a \in DOMAIN req : a # r /\ req[a].pc \in Named => req[a].id # req[r].id
    BY <1>1 DEF Single, Named
  <2>2. req'[q] = req[q] /\ disk'[q].part = disk[q].part
    BY <1>1, <1>3
  <2>3. /\ fleet' = fleet /\ \A v \in db'.rows : v.id # req[r].id => v \in db.rows
        /\ \A v \in db.rows : v.id # req[r].id => v \in db'.rows
    BY <1>1, <1>2
  <2>. QED
    BY <1>3, <2>1, <2>2, <2>3, OthersSeated
<1>4. NewRow(r)' = NewRow(r)
  BY <1>1, RowStays
<1>5. NewRow(r) \in fleet' /\ NewRow(r) \in db'.rows
  BY <1>1 DEF Entered
<1>6. Seated(r)'
  <2>. HIDE DEF NewRow
  <2>. QED
    BY <1>1, <1>4, <1>5 DEF Seated
<1>. QED
  BY <1>1, <1>3, <1>6 DEF Entered, Seated

\* The flags change other rows only.
LEMMA FlagsEntered ==
    ASSUME Typed, Asked, Single, Entered, NEW r \in DOMAIN req, Flags(r)
    PROVE  Entered'
<1>1. /\ Alike(db.rows, db'.rows, req[r].id) /\ Alike(fleet, fleet', req[r].id)
      /\ DOMAIN req' = DOMAIN req \ {r} /\ \A q \in DOMAIN req' : req'[q] = req[q]
      /\ disk' = disk /\ req[r].pc = "flag"
  BY DEF Flags, Drops
<1>2. ASSUME NEW q \in DOMAIN req'
      PROVE  Seated(q)'
  <2>1. \A a \in DOMAIN req : a # r /\ req[a].pc \in Named => req[a].id # req[r].id
    BY <1>1 DEF Single, Named
  <2>2. q \in DOMAIN req /\ q # r /\ req'[q] = req[q] /\ disk'[q].part = disk[q].part
    BY <1>1, <1>2
  <2>3. /\ \A v \in fleet' : v.id # req[r].id => v \in fleet
        /\ \A v \in fleet : v.id # req[r].id => v \in fleet'
        /\ \A v \in db'.rows : v.id # req[r].id => v \in db.rows
        /\ \A v \in db.rows : v.id # req[r].id => v \in db'.rows
    BY <1>1 DEF Alike
  <2>. QED
    BY <2>1, <2>2, <2>3, OthersSeated
<1>. QED
  BY <1>2 DEF Entered, Seated

\* What a request that ends takes out or puts back is its own.
LEMMA EndsEntered ==
    ASSUME Typed, Asked, Single, Entered, NEW r \in DOMAIN req, Ends(r)
    PROVE  Entered'
<1>1. /\ DOMAIN req' = DOMAIN req \ {r} /\ \A q \in DOMAIN req' : req'[q] = req[q]
      /\ disk' = disk /\ db' = db
  BY DEF Ends, Drops
<1>2. ASSUME NEW q \in DOMAIN req'
      PROVE  Seated(q)'
  <2>1. q \in DOMAIN req /\ q # r /\ req'[q] = req[q] /\ disk'[q].part = disk[q].part /\ Seated(q)
    BY <1>1, <1>2, EnteredIsSeated
  <2>2. req[q].pc \in Named => req[q].id # req[r].convert
    BY <2>1 DEF Single
  <2>3. req[r].pc = "row" => (req[q].pc \in Named => req[q].id # req[r].id)
    BY <2>1 DEF Single, Named
  <2>4. NewRow(q).id = req[q].id
    BY <2>1, NewRowShape
  <2>5. ASSUME req[q].pc \in Named
        PROVE  /\ \A v \in fleet' : v.id = req[q].id => \E w \in fleet : w.id = v.id
               /\ NewRow(q) \in fleet => NewRow(q) \in fleet'
    BY <2>2, <2>3, <2>4, <2>5 DEF Ends
  <2>. QED
    BY <1>1, <2>1, <2>5, SeatedKept
<1>. QED
  BY <1>2 DEF Entered, Seated

\* A request that starts has no volume.
LEMMA StartsEntered ==
    ASSUME Typed, Entered, NEW r, Starts(r),
           fleet' \subseteq fleet, \A v \in fleet \ fleet' : v.disk = r
    PROVE  Entered'
<1>1. /\ r \notin DOMAIN req /\ DOMAIN req' = DOMAIN req \cup {r} /\ \A q \in DOMAIN req : req'[q] = req[q]
      /\ req'[r].pc \notin Named /\ disk' = disk /\ db' = db
  BY DEF Starts, Named
<1>2. ASSUME NEW q \in DOMAIN req
      PROVE  Seated(q)'
  <2>1. /\ q # r /\ req'[q] = req[q] /\ disk'[q].part = disk[q].part /\ Seated(q) /\ NewRow(q).disk = q
    BY <1>1, EnteredIsSeated, NewRowShape
  <2>2. /\ \A v \in fleet' : v.id = req[q].id => \E w \in fleet : w.id = v.id
        /\ NewRow(q) \in fleet => NewRow(q) \in fleet'
    BY <2>1
  <2>. QED
    BY <1>1, <2>1, <2>2, SeatedKept
<1>3. Seated(r)'
  BY <1>1 DEF Seated, Named
<1>. QED
  BY <1>1, <1>2, <1>3 DEF Entered, Seated

\* An update is of a volume no request is about.
LEMMA UpdatesEntered ==
    ASSUME Entered, NEW v, NEW del, Updates(v, del)
    PROVE  Entered'
<1>1. UNCHANGED <<req, fleet, db, disk>>
  BY DEF Updates
<1>2. \A q \in DOMAIN req : NewRow(q)' = NewRow(q)
  BY <1>1 DEF NewRow
<1>. HIDE DEF NewRow
<1>. QED
  BY <1>1, <1>2 DEF Entered

\* So are its marks.
LEMMA MarksEntered ==
    ASSUME Typed, Asked, Single, Entered, MarksRows \/ MarksFleet
    PROVE  Entered'
<1>1. /\ req' = req /\ disk' = disk /\ upd.pc # "idle"
      /\ db' = db \/ Marks(db.rows, db'.rows, upd.id, upd.deleted)
      /\ fleet' = fleet \/ Marks(fleet, fleet', upd.id, upd.deleted)
  BY DEF MarksRows, MarksFleet
<1>2. /\ \A v \in fleet \cup fleet' : v.id # upd.id => v \in fleet /\ v \in fleet'
      /\ \A v \in db.rows \cup db'.rows : v.id # upd.id => v \in db.rows /\ v \in db'.rows
  BY <1>1 DEF Marks
<1>3. ASSUME NEW q \in DOMAIN req
      PROVE  Seated(q)'
  <2>1. Seated(q) /\ req'[q] = req[q] /\ disk'[q].part = disk[q].part /\ NewRow(q).id = req[q].id
        /\ req[q].id # upd.id
    BY <1>1, EnteredIsSeated, NewRowShape DEF Single
  <2>2. /\ \A v \in fleet' : v.id = req[q].id => v \in fleet
        /\ \A v \in db'.rows : v.id = req[q].id => v \in db.rows
        /\ NewRow(q) \in fleet => NewRow(q) \in fleet'
        /\ NewRow(q) \in db.rows => NewRow(q) \in db'.rows
    BY <1>2, <2>1
  <2>. QED
    BY <2>1, <2>2, SeatedKept
<1>. QED
  BY <1>1, <1>3 DEF Entered, Seated

\* What a request has made of its volume stays made.
LEMMA EnteredStep ==
    ASSUME KInv, ~MayRace, Step
    PROVE  Entered'
<1>. USE DEF KInv
<1>1. CASE Aloof
  BY <1>1, AloofAside, AsideEntered
<1>2. ASSUME NEW r \in DOMAIN req, Early(r) \/ Formats(r) \/ Joins(r) \/ Records(r) \/ Flags(r) \/ Ends(r)
      PROVE  Entered'
  BY <1>2, EarlyWalks, WalksEntered, FormatsEntered, JoinsEntered, RecordsEntered,
      FlagsEntered, EndsEntered
<1>3. ASSUME NEW d \in Disk, Provisions(d)
      PROVE  Entered'
  BY <1>3, StartsEntered DEF Provisions
<1>4. ASSUME NEW v \in fleet, Converts(v)
      PROVE  Entered'
  BY <1>4, StartsEntered DEF Converts
<1>5. ASSUME NEW v \in fleet, NEW del \in BOOLEAN, Updates(v, del)
      PROVE  Entered'
  BY <1>5, UpdatesEntered
<1>6. CASE Crashes \/ Restores
  BY <1>6 DEF Crashes, Restores, Boots, Entered
<1>. QED
  BY <1>1, <1>2, <1>3, <1>4, <1>5, <1>6, MarksEntered, StepKinds

\* A volume of the fleet has a row, or a request that is about to make it.
Placed(id) ==
    \/ \E w \in db.rows : w.id = id
    \/ \E r \in DOMAIN req : req[r].pc = "row" /\ req[r].id = id

\* A row has its entry in the fleet.
Met(v) ==
    \/ Converting(v.id)
    \/ \E w \in fleet : Same(v, w) /\ (w.deleted = v.deleted \/ (upd.pc = "fleet" /\ upd.id = v.id))

Following == upd.pc = "fleet" => \A v \in db.rows : v.id = upd.id => v.deleted = upd.deleted

\* Agreed, step by step.
LEMMA AsideAgreed ==
    ASSUME Agreed, Aside
    PROVE  Agreed'
BY DEF Agreed, Aside, SameReqs, Converting

\* A request without a volume.
LEMMA WalksAgreed ==
    ASSUME Agreed, NEW r, Walks(r)
    PROVE  Agreed'
<1>1. /\ db'.rows = db.rows /\ UNCHANGED <<fleet, upd>> /\ DOMAIN req' = DOMAIN req
      /\ \A q \in DOMAIN req : req'[q].convert = req[q].convert
      /\ \A q \in DOMAIN req : req[q].pc = "row" => req'[q].pc = "row" /\ req'[q].id = req[q].id
  BY DEF Walks, Keeps, Moves, Named
<1>. QED
  BY <1>1 DEF Agreed, Converting

\* The volume a conversion replaces leaves both.
LEMMA FormatsAgreed ==
    ASSUME Typed, Agreed, NEW r \in DOMAIN req, Formats(r)
    PROVE  Agreed'
<1>1. /\ db'.rows = {v \in db.rows : v.id # req[r].convert} /\ fleet' = {v \in fleet : v.id # req[r].convert}
      /\ upd' = upd /\ DOMAIN req' = DOMAIN req
      /\ \A q \in DOMAIN req : req'[q].convert = req[q].convert
      /\ \A q \in DOMAIN req : req[q].pc = "row" => req'[q].pc = "row" /\ req'[q].id = req[q].id
  BY DEF Formats, Keeps, Moves
<1>2. \A v \in fleet' : v.id # 0 /\ Placed(v.id)'
  BY <1>1 DEF Agreed, Placed
<1>3. ASSUME NEW v \in db'.rows
      PROVE  Met(v)'
  <2>1. v \in db.rows /\ v.id # req[r].convert
    BY <1>1
  <2>2. CASE Converting(v.id)
    BY <2>2, <1>1 DEF Met, Converting
  <2>3. CASE \E w \in fleet : Same(v, w) /\ (w.deleted = v.deleted \/ (upd.pc = "fleet" /\ upd.id = v.id))
    <3>1. PICK w \in fleet : Same(v, w) /\ (w.deleted = v.deleted \/ (upd.pc = "fleet" /\ upd.id = v.id))
      BY <2>3
    <3>2. w \in fleet'
      BY <1>1, <2>1, <3>1 DEF Same
    <3>. QED
      BY <1>1, <3>1, <3>2 DEF Met
  <2>. QED
    BY <2>1, <2>2, <2>3 DEF Agreed
<1>4. Following'
  BY <1>1 DEF Agreed, Following
<1>5. \A v \in db'.rows : Met(v)'
  BY <1>3
<1>. QED
  BY <1>2, <1>4, <1>5 DEF Agreed, Placed, Met, Following

\* The fleet is one ahead.
LEMMA JoinsAgreed ==
    ASSUME Typed, Asked, Entered, Agreed, NEW r \in DOMAIN req, Joins(r)
    PROVE  Agreed'
<1>1. /\ db' = db /\ fleet' = {v \in fleet : v.id # req[r].id} \cup {NewRow(r)}
      /\ upd' = upd /\ DOMAIN req' = DOMAIN req /\ req'[r].pc = "row" /\ req'[r].id = req[r].id
      /\ NewRow(r).id = req[r].id /\ req[r].id # 0
      /\ \A q \in DOMAIN req : req'[q].convert = req[q].convert
      /\ \A q \in DOMAIN req : req[q].pc = "row" => req'[q].pc = "row" /\ req'[q].id = req[q].id
      /\ \A v \in db.rows : v.id # req[r].id
  BY DEF Joins, Keeps, Moves, Asked, Named, Entered
<1>2. \A v \in fleet' : v.id # 0 /\ Placed(v.id)'
  <2>1. Placed(req[r].id)'
    BY <1>1 DEF Placed
  <2>2. \A v \in fleet : v.id # 0 /\ Placed(v.id)'
    BY <1>1 DEF Agreed, Placed
  <2>. QED
    BY <1>1, <2>1, <2>2
<1>3. ASSUME NEW v \in db'.rows
      PROVE  Met(v)'
  <2>1. v \in db.rows /\ v.id # req[r].id
    BY <1>1
  <2>2. CASE Converting(v.id)
    BY <2>2, <1>1 DEF Met, Converting
  <2>3. CASE \E w \in fleet : Same(v, w) /\ (w.deleted = v.deleted \/ (upd.pc = "fleet" /\ upd.id = v.id))
    <3>1. PICK w \in fleet : Same(v, w) /\ (w.deleted = v.deleted \/ (upd.pc = "fleet" /\ upd.id = v.id))
      BY <2>3
    <3>2. w \in fleet'
      BY <1>1, <2>1, <3>1 DEF Same
    <3>. QED
      BY <1>1, <3>1, <3>2 DEF Met
  <2>. QED
    BY <2>1, <2>2, <2>3 DEF Agreed
<1>4. Following'
  BY <1>1 DEF Agreed, Following
<1>5. \A v \in db'.rows : Met(v)'
  BY <1>3
<1>. QED
  BY <1>2, <1>4, <1>5 DEF Agreed, Placed, Met, Following

\* The table follows.
LEMMA RecordsAgreed ==
    ASSUME Typed, Single, Entered, Agreed, NEW r \in DOMAIN req, Records(r)
    PROVE  Agreed'
<1>1. /\ db'.rows = db.rows \cup {NewRow(r)} /\ fleet' = fleet
      /\ upd' = upd /\ DOMAIN req' = DOMAIN req /\ req[r].pc = "row"
      /\ \A q \in DOMAIN req : req'[q].convert = req[q].convert
      /\ \A q \in DOMAIN req : req[q].pc = "row" => q = r \/ (req'[q].pc = "row" /\ req'[q].id = req[q].id)
  BY DEF Records, Advances, Keeps, Moves
<1>2. NewRow(r).id = req[r].id /\ NewRow(r) \in fleet
  BY <1>1, NewRowShape DEF Entered
<1>3. ASSUME NEW v \in fleet'
      PROVE  v.id # 0 /\ Placed(v.id)'
  <2>1. v.id # 0 /\ Placed(v.id)
    BY <1>1 DEF Agreed, Placed
  <2>2. CASE v.id = req[r].id
    BY <2>1, <2>2, <1>1, <1>2 DEF Placed
  <2>3. CASE v.id # req[r].id
    BY <2>1, <2>3, <1>1 DEF Placed
  <2>. QED
    BY <2>2, <2>3
<1>4. ASSUME NEW v \in db'.rows
      PROVE  Met(v)'
  <2>1. CASE v = NewRow(r)
    BY <2>1, <1>1, <1>2 DEF Met, Same
  <2>2. CASE v \in db.rows
    BY <2>2, <1>1 DEF Agreed, Met, Converting
  <2>. QED
    BY <2>1, <2>2, <1>1
<1>5. Following'
  <2>1. upd.pc # "idle" => NewRow(r).id # upd.id
    BY <1>2 DEF Single
  <2>. QED
    BY <2>1, <1>1 DEF Agreed, Following
<1>6. /\ \A v \in fleet' : v.id # 0 /\ Placed(v.id)'
      /\ \A v \in db'.rows : Met(v)'
  BY <1>3, <1>4
<1>. QED
  BY <1>5, <1>6 DEF Agreed, Placed, Met, Following

\* The flags of a volume change in both.
LEMMA FlagsAgreed ==
    ASSUME Typed, Asked, Dated, Single, Entered, Agreed, NEW r \in DOMAIN req, Flags(r)
    PROVE  Agreed'
<1>1. /\ Alike(db.rows, db'.rows, req[r].id) /\ Alike(fleet, fleet', req[r].id)
      /\ DOMAIN req' = DOMAIN req \ {r} /\ \A q \in DOMAIN req' : req'[q] = req[q]
      /\ upd' = upd /\ req[r].pc = "flag"
      /\ \A w \in db'.rows : w.id = req[r].id => \E v \in db.rows : Same(v, w) /\ w.deleted = v.deleted
      /\ \A v \in fleet : v.id = req[r].id => \E w \in fleet' : Same(v, w) /\ w.deleted = v.deleted
  BY DEF Flags, Drops
<1>2. /\ NewRow(r) \in fleet /\ NewRow(r) \in db.rows /\ NewRow(r).id = req[r].id
      /\ req[r].convert # 0 => req[r].id = req[r].convert
  BY <1>1, NewRowShape DEF Entered, Asked, Named
<1>3. ASSUME NEW v \in fleet'
      PROVE  v.id # 0 /\ Placed(v.id)'
  <2>1. PICK w \in fleet : Same(w, v)
    BY <1>1 DEF Alike
  <2>2. w.id # 0 /\ Placed(w.id) /\ w.id = v.id
    BY <2>1 DEF Agreed, Placed, Same
  <2>3. \A x \in db.rows : \E y \in db'.rows : y.id = x.id
    BY <1>1 DEF Alike, Same
  <2>. QED
    BY <1>1, <2>2, <2>3 DEF Placed
<1>4. ASSUME NEW v \in db'.rows
      PROVE  Met(v)'
  <2>1. CASE v.id = req[r].id
    <3>1. PICK x \in db.rows : Same(x, v) /\ v.deleted = x.deleted
      BY <1>1, <2>1
    <3>2. x = NewRow(r)
      BY <1>2, <2>1, <3>1 DEF Single, Same
    <3>3. PICK w \in fleet' : Same(x, w) /\ w.deleted = x.deleted
      BY <1>1, <1>2, <3>2
    <3>4. Same(v, w) /\ w.deleted = v.deleted
      BY <3>1, <3>3 DEF Same
    <3>. QED
      BY <3>4 DEF Met
  <2>2. CASE v.id # req[r].id
    <3>1. v \in db.rows /\ v.id # 0
      BY <1>1, <2>2 DEF Alike, Dated, Rows
    <3>2. CASE Converting(v.id)
      <4>1. PICK q \in DOMAIN req : req[q].convert = v.id
        BY <3>2 DEF Converting
      <4>2. q # r
        BY <1>2, <2>2, <3>1, <4>1
      <4>. QED
        BY <1>1, <4>1, <4>2 DEF Met, Converting
    <3>3. CASE \E w \in fleet : Same(v, w) /\ (w.deleted = v.deleted \/ (upd.pc = "fleet" /\ upd.id = v.id))
      <4>1. PICK w \in fleet : Same(v, w) /\ (w.deleted = v.deleted \/ (upd.pc = "fleet" /\ upd.id = v.id))
        BY <3>3
      <4>2. w \in fleet'
        BY <1>1, <2>2, <4>1 DEF Alike, Same
      <4>. QED
        BY <1>1, <4>1, <4>2 DEF Met
    <3>. QED
      BY <3>1, <3>2, <3>3 DEF Agreed
  <2>. QED
    BY <2>1, <2>2
<1>5. Following'
  <2>1. upd.pc # "idle" => upd.id # req[r].id
    BY DEF Single
  <2>2. \A v \in db'.rows : v.id # req[r].id => v \in db.rows
    BY <1>1 DEF Alike
  <2>. QED
    BY <2>1, <2>2, <1>1 DEF Agreed, Following
<1>6. /\ \A v \in fleet' : v.id # 0 /\ Placed(v.id)'
      /\ \A v \in db'.rows : Met(v)'
  BY <1>3, <1>4
<1>. QED
  BY <1>5, <1>6 DEF Agreed, Placed, Met, Following

\* The volume that was ahead leaves the fleet, the recorded one returns.
LEMMA EndsAgreed ==
    ASSUME Typed, Asked, Dated, Single, Entered, Agreed, NEW r \in DOMAIN req, Ends(r)
    PROVE  Agreed'
<1>1. /\ DOMAIN req' = DOMAIN req \ {r} /\ \A q \in DOMAIN req' : req'[q] = req[q]
      /\ db' = db /\ upd' = upd
      /\ \A v \in fleet' : \/ v \in db.rows
                           \/ v \in fleet /\ ~(req[r].pc = "row" /\ v.id = req[r].id)
      /\ \A v \in db.rows : v.id = req[r].convert => v \in fleet'
      /\ \A v \in fleet : ~(req[r].pc = "row" /\ v.id = req[r].id) /\ v.id # req[r].convert => v \in fleet'
  BY DEF Ends, Drops
<1>2. ASSUME NEW v \in fleet'
      PROVE  v.id # 0 /\ Placed(v.id)'
  <2>1. CASE v \in db.rows
    BY <2>1, <1>1 DEF Dated, Rows, Placed
  <2>2. CASE v \in fleet /\ ~(req[r].pc = "row" /\ v.id = req[r].id)
    <3>1. v.id # 0 /\ Placed(v.id)
      BY <2>2 DEF Agreed, Placed
    <3>. QED
      BY <2>2, <3>1, <1>1 DEF Placed
  <2>. QED
    BY <2>1, <2>2, <1>1
<1>3. ASSUME NEW v \in db'.rows
      PROVE  Met(v)'
  <2>1. v \in db.rows /\ ~(req[r].pc = "row" /\ v.id = req[r].id)
    BY <1>1 DEF Entered
  <2>2. CASE v.id = req[r].convert
    BY <2>1, <2>2, <1>1 DEF Met, Same
  <2>3. CASE v.id # req[r].convert
    <3>1. CASE Converting(v.id)
      BY <3>1, <2>3, <1>1 DEF Met, Converting
    <3>2. CASE \E w \in fleet : Same(v, w) /\ (w.deleted = v.deleted \/ (upd.pc = "fleet" /\ upd.id = v.id))
      <4>1. PICK w \in fleet : Same(v, w) /\ (w.deleted = v.deleted \/ (upd.pc = "fleet" /\ upd.id = v.id))
        BY <3>2
      <4>2. w \in fleet'
        BY <1>1, <2>1, <2>3, <4>1 DEF Same
      <4>. QED
        BY <1>1, <4>1, <4>2 DEF Met
    <3>. QED
      BY <2>1, <3>1, <3>2 DEF Agreed
  <2>. QED
    BY <2>2, <2>3
<1>4. Following'
  BY <1>1 DEF Agreed, Following
<1>5. /\ \A v \in fleet' : v.id # 0 /\ Placed(v.id)'
      /\ \A v \in db'.rows : Met(v)'
  BY <1>2, <1>3
<1>. QED
  BY <1>4, <1>5 DEF Agreed, Placed, Met, Following

\* A conversion takes its volume out of the fleet.
LEMMA StartsAgreed ==
    ASSUME Agreed, NEW r, Starts(r), fleet' \subseteq fleet, \A v \in fleet \ fleet' : v.id = req'[r].convert
    PROVE  Agreed'
<1>1. /\ DOMAIN req' = DOMAIN req \cup {r} /\ \A q \in DOMAIN req : req'[q] = req[q]
      /\ db' = db /\ upd' = upd
  BY DEF Starts
<1>2. \A v \in fleet' : v.id # 0 /\ Placed(v.id)'
  BY <1>1 DEF Agreed, Placed
<1>3. ASSUME NEW v \in db'.rows
      PROVE  Met(v)'
  <2>1. CASE Converting(v.id)
    BY <2>1, <1>1 DEF Met, Converting
  <2>2. CASE \E w \in fleet : Same(v, w) /\ (w.deleted = v.deleted \/ (upd.pc = "fleet" /\ upd.id = v.id))
    <3>1. PICK w \in fleet : Same(v, w) /\ (w.deleted = v.deleted \/ (upd.pc = "fleet" /\ upd.id = v.id))
      BY <2>2
    <3>2. CASE w \in fleet'
      BY <1>1, <3>1, <3>2 DEF Met
    <3>3. CASE w \notin fleet'
      <4>1. req'[r].convert = v.id /\ r \in DOMAIN req'
        BY <1>1, <3>1, <3>3 DEF Same
      <4>. QED
        BY <4>1 DEF Met, Converting
    <3>. QED
      BY <3>2, <3>3
  <2>. QED
    BY <1>1, <2>1, <2>2 DEF Agreed
<1>4. Following'
  BY <1>1 DEF Agreed, Following
<1>5. \A v \in db'.rows : Met(v)'
  BY <1>3
<1>. QED
  BY <1>2, <1>4, <1>5 DEF Agreed, Placed, Met, Following

\* An update changes neither yet.
LEMMA UpdatesAgreed ==
    ASSUME Agreed, NEW v, NEW del, Updates(v, del)
    PROVE  Agreed'
BY DEF Agreed, Updates, Converting

\* The table knows first.
LEMMA MarksRowsAgreed ==
    ASSUME Agreed, MarksRows
    PROVE  Agreed'
<1>1. /\ Marks(db.rows, db'.rows, upd.id, upd.deleted) /\ fleet' = fleet /\ req' = req
      /\ upd.pc = "db" /\ upd'.pc = "fleet" /\ upd'.id = upd.id /\ upd'.deleted = upd.deleted
  BY DEF MarksRows
<1>2. \A v \in fleet' : v.id # 0 /\ Placed(v.id)'
  <2>1. \A x \in db.rows : \E y \in db'.rows : y.id = x.id
    BY <1>1 DEF Marks, Same
  <2>. QED
    BY <1>1, <2>1 DEF Agreed, Placed
<1>3. ASSUME NEW w \in db'.rows
      PROVE  \E v \in db.rows : Same(v, w) /\ w.deleted = IF v.id = upd.id THEN upd.deleted ELSE v.deleted
  BY <1>1 DEF Marks
<1>4. ASSUME NEW w \in db'.rows
      PROVE  Met(w)'
  <2>1. PICK v \in db.rows : Same(v, w) /\ w.deleted = IF v.id = upd.id THEN upd.deleted ELSE v.deleted
    BY <1>3
  <2>2. CASE Converting(v.id)
    BY <2>1, <2>2, <1>1 DEF Met, Converting, Same
  <2>3. CASE \E x \in fleet : Same(v, x) /\ x.deleted = v.deleted
    <3>1. PICK x \in fleet : Same(v, x) /\ x.deleted = v.deleted
      BY <2>3
    <3>2. Same(w, x) /\ (x.deleted = w.deleted \/ upd.id = w.id)
      BY <2>1, <3>1 DEF Same
    <3>. QED
      BY <1>1, <3>1, <3>2 DEF Met
  <2>. QED
    BY <1>1, <2>2, <2>3 DEF Agreed
<1>5. Following'
  BY <1>1, <1>3 DEF Following, Same
<1>6. \A v \in db'.rows : Met(v)'
  BY <1>4
<1>. QED
  BY <1>2, <1>5, <1>6 DEF Agreed, Placed, Met, Following

\* Then the fleet.
LEMMA MarksFleetAgreed ==
    ASSUME Agreed, MarksFleet
    PROVE  Agreed'
<1>1. /\ Marks(fleet, fleet', upd.id, upd.deleted) /\ db' = db /\ req' = req
      /\ upd.pc = "fleet" /\ upd'.pc = "idle"
  BY NoUpdType DEF MarksFleet, NoUpdShape
<1>2. ASSUME NEW w \in fleet'
      PROVE  w.id # 0 /\ Placed(w.id)'
  <2>1. PICK v \in fleet : v.id = w.id
    BY <1>1 DEF Marks, Same
  <2>. QED
    BY <1>1, <2>1 DEF Agreed, Placed
<1>3. ASSUME NEW v \in db'.rows
      PROVE  Met(v)'
  <2>1. CASE Converting(v.id)
    BY <2>1, <1>1 DEF Met, Converting
  <2>2. CASE \E x \in fleet : Same(v, x) /\ (x.deleted = v.deleted \/ (upd.pc = "fleet" /\ upd.id = v.id))
    <3>1. PICK x \in fleet : Same(v, x) /\ (x.deleted = v.deleted \/ upd.id = v.id)
      BY <2>2
    <3>2. PICK w \in fleet' : Same(x, w) /\ w.deleted = IF x.id = upd.id THEN upd.deleted ELSE x.deleted
      BY <1>1 DEF Marks
    <3>3. v.id = upd.id => v.deleted = upd.deleted
      BY <1>1 DEF Agreed
    <3>4. Same(v, w) /\ w.deleted = v.deleted
      BY <3>1, <3>2, <3>3 DEF Same
    <3>. QED
      BY <3>4 DEF Met
  <2>. QED
    BY <1>1, <2>1, <2>2 DEF Agreed
<1>4. /\ \A v \in fleet' : v.id # 0 /\ Placed(v.id)'
      /\ \A v \in db'.rows : Met(v)'
      /\ Following'
  BY <1>1, <1>2, <1>3 DEF Following
<1>. QED
  BY <1>4 DEF Agreed, Placed, Met, Following

\* A boot reads the fleet from the table.
LEMMA BootsAgreed ==
    ASSUME Dated, Crashes \/ Restores
    PROVE  Agreed'
<1>1. fleet' = db'.rows /\ upd'.pc = "idle" /\ db'.rows \subseteq Rows
  BY DEF Crashes, Restores, Boots, Rows
<1>2. \A v \in fleet' : v.id # 0
  BY <1>1 DEF Dated
<1>. QED
  BY <1>1, <1>2 DEF Agreed, Same

\* Table and fleet go on agreeing.
LEMMA AgreedStep ==
    ASSUME KInv, ~MayRace, Step
    PROVE  Agreed'
<1>. USE DEF KInv
<1>1. CASE Aloof
  BY <1>1, AloofAside, AsideAgreed
<1>2. ASSUME NEW r \in DOMAIN req, Early(r) \/ Formats(r) \/ Joins(r) \/ Records(r) \/ Flags(r) \/ Ends(r)
      PROVE  Agreed'
  BY <1>2, EarlyWalks, WalksAgreed, FormatsAgreed, JoinsAgreed, RecordsAgreed,
      FlagsAgreed, EndsAgreed
<1>3. ASSUME NEW d \in Disk, Provisions(d)
      PROVE  Agreed'
  BY <1>3, StartsAgreed DEF Provisions
<1>4. ASSUME NEW v \in fleet, Converts(v)
      PROVE  Agreed'
  BY <1>4, StartsAgreed DEF Converts
<1>5. ASSUME NEW v \in fleet, NEW del \in BOOLEAN, Updates(v, del)
      PROVE  Agreed'
  BY <1>5, UpdatesAgreed
<1>. QED
  BY <1>1, <1>2, <1>3, <1>4, <1>5, MarksRowsAgreed, MarksFleetAgreed, BootsAgreed,
      StepKinds

\* A volume gets its flag after its row, and a row leaves with its volume.
LEMMA WritableStep ==
    ASSUME KInv, Step
    PROVE  NotWritableUntilDurable'
<1>. USE DEF KInv
<1>1. ASSUME fleet' \subseteq fleet, db'.rows = db.rows
      PROVE  NotWritableUntilDurable'
  BY <1>1 DEF NotWritableUntilDurable
<1>2. CASE Aloof
  BY <1>2, <1>1, AloofAside DEF Aside
<1>3. ASSUME NEW r \in DOMAIN req, Early(r)
      PROVE  NotWritableUntilDurable'
  BY <1>3, <1>1, EarlyWalks DEF Walks
<1>4. ASSUME NEW r \in DOMAIN req, Formats(r)
      PROVE  NotWritableUntilDurable'
  BY <1>4 DEF Formats, NotWritableUntilDurable
<1>5. ASSUME NEW r \in DOMAIN req, Joins(r)
      PROVE  NotWritableUntilDurable'
  BY <1>5 DEF Joins, NotWritableUntilDurable
<1>6. ASSUME NEW r \in DOMAIN req, Records(r)
      PROVE  NotWritableUntilDurable'
  BY <1>6 DEF Records, Advances, NotWritableUntilDurable
<1>7. ASSUME NEW r \in DOMAIN req, Flags(r)
      PROVE  NotWritableUntilDurable'
  <2>1. /\ Alike(db.rows, db'.rows, req[r].id) /\ Alike(fleet, fleet', req[r].id)
        /\ NewRow(r) \in fleet /\ NewRow(r) \in db.rows /\ NewRow(r).id = req[r].id
    BY <1>7, NewRowShape DEF Flags, Entered
  <2>2. ASSUME NEW v \in fleet', ~v.ro
        PROVE  \E w \in db'.rows : Same(v, w)
    <3>1. PICK u \in fleet : Same(u, v) /\ (v.id # req[r].id => v = u)
      BY <2>1 DEF Alike
    <3>2. CASE v.id = req[r].id
      <4>1. u = NewRow(r)
        BY <2>1, <3>1, <3>2 DEF Typed, Same
      <4>2. PICK w \in db'.rows : Same(u, w)
        BY <2>1, <4>1 DEF Alike
      <4>. QED
        BY <3>1, <4>2 DEF Same
    <3>3. CASE v.id # req[r].id
      <4>1. PICK w \in db.rows : Same(v, w)
        BY <2>2, <3>1, <3>3 DEF NotWritableUntilDurable, Same
      <4>. QED
        BY <2>1, <3>3, <4>1 DEF Alike, Same
    <3>. QED
      BY <3>2, <3>3
  <2>. QED
    BY <2>2 DEF NotWritableUntilDurable, Same
<1>8. ASSUME NEW r \in DOMAIN req, Ends(r)
      PROVE  NotWritableUntilDurable'
  <2>1. \A v \in fleet' : v \in fleet \/ v \in db.rows
    BY <1>8 DEF Ends
  <2>2. db' = db
    BY <1>8 DEF Ends
  <2>. QED
    BY <2>1, <2>2 DEF NotWritableUntilDurable
<1>9. ASSUME NEW d \in Disk, Provisions(d)
      PROVE  NotWritableUntilDurable'
  BY <1>9, <1>1 DEF Provisions, Starts
<1>10. ASSUME NEW v \in fleet, Converts(v)
       PROVE  NotWritableUntilDurable'
  BY <1>10, <1>1 DEF Converts, Starts
<1>11. ASSUME NEW v \in fleet, NEW del \in BOOLEAN, Updates(v, del)
       PROVE  NotWritableUntilDurable'
  BY <1>11, <1>1 DEF Updates
<1>12. CASE MarksRows
  <2>1. fleet' = fleet /\ \A x \in db.rows : \E y \in db'.rows : Same(x, y)
    BY <1>12 DEF MarksRows, Marks
  <2>2. ASSUME NEW v \in fleet', ~v.ro
        PROVE  \E w \in db'.rows : Same(v, w)
    <3>1. PICK x \in db.rows : Same(v, x)
      BY <2>1, <2>2 DEF NotWritableUntilDurable, Same
    <3>2. PICK y \in db'.rows : Same(x, y)
      BY <2>1
    <3>. QED
      BY <3>1, <3>2 DEF Same
  <2>. QED
    BY <2>2 DEF NotWritableUntilDurable, Same
<1>13. CASE MarksFleet
  <2>1. db' = db /\ \A w \in fleet' : \E v \in fleet : Same(v, w) /\ w.ro = v.ro
    BY <1>13 DEF MarksFleet, Marks
  <2>2. ASSUME NEW w \in fleet', ~w.ro
        PROVE  \E x \in db'.rows : Same(w, x)
    <3>1. PICK v \in fleet : Same(v, w) /\ ~v.ro
      BY <2>1, <2>2
    <3>2. PICK x \in db.rows : Same(v, x)
      BY <3>1 DEF NotWritableUntilDurable, Same
    <3>. QED
      BY <2>1, <3>1, <3>2 DEF Same
  <2>. QED
    BY <2>2 DEF NotWritableUntilDurable, Same
<1>14. CASE Crashes \/ Restores
  <2>1. fleet' = db'.rows
    BY <1>14 DEF Crashes, Restores, Boots
  <2>. QED
    BY <2>1 DEF NotWritableUntilDurable
<1>. QED
  BY <1>2, <1>3, <1>4, <1>5, <1>6, <1>7, <1>8, <1>9, <1>10, <1>11, <1>12, <1>13,
      <1>14, StepKinds

\* Every row of the database to come is one of those there are, on the same partition.
NoNewRow == /\ backup' = backup
            /\ \A w \in db'.rows : \E v \in db.rows : Same(v, w)

\* The steps that make no row and leave the backup in place: all but createVolume and a restore.
LEMMA NoNewRows ==
    ASSUME Step
    PROVE  NoNewRow \/ Restores \/ \E r \in DOMAIN req : Records(r)
<1>1. ASSUME backup' = backup, db'.rows \subseteq db.rows
      PROVE  NoNewRow
  BY <1>1 DEF NoNewRow, Same
<1>2. CASE Aloof
  BY <1>2, <1>1, AloofAside DEF Aside
<1>3. ASSUME NEW r \in DOMAIN req, Early(r)
      PROVE  NoNewRow
  BY <1>3, <1>1, EarlyWalks DEF Walks
<1>4. ASSUME NEW r \in DOMAIN req, Formats(r)
      PROVE  NoNewRow
  BY <1>4, <1>1 DEF Formats
<1>5. ASSUME NEW r \in DOMAIN req, Joins(r)
      PROVE  NoNewRow
  BY <1>5, <1>1 DEF Joins
<1>6. ASSUME NEW r \in DOMAIN req, Flags(r)
      PROVE  NoNewRow
  BY <1>6 DEF Flags, Alike, NoNewRow
<1>7. ASSUME NEW r \in DOMAIN req, Ends(r)
      PROVE  NoNewRow
  BY <1>7, <1>1 DEF Ends
<1>8. ASSUME NEW d \in Disk, Provisions(d)
      PROVE  NoNewRow
  BY <1>8, <1>1 DEF Provisions, Starts
<1>9. ASSUME NEW v \in fleet, Converts(v)
      PROVE  NoNewRow
  BY <1>9, <1>1 DEF Converts, Starts
<1>10. ASSUME NEW v \in fleet, NEW del \in BOOLEAN, Updates(v, del)
       PROVE  NoNewRow
  BY <1>10, <1>1 DEF Updates
<1>11. CASE MarksRows
  BY <1>11 DEF MarksRows, Marks, NoNewRow
<1>12. CASE MarksFleet
  BY <1>12, <1>1 DEF MarksFleet
<1>13. CASE Crashes
  BY <1>13, <1>1 DEF Crashes
<1>. QED
  BY <1>2, <1>3, <1>4, <1>5, <1>6, <1>7, <1>8, <1>9, <1>10, <1>11, <1>12, <1>13,
      StepKinds

\* A restore brings no row that was not in the backup.
LEMMA RestoreRows ==
    ASSUME Restores
    PROVE  db' = backup /\ backup' = backup /\ Rows' \subseteq Rows
BY DEF Restores, Rows

\* An audit is recorded under the run of mongod it is taken in.
LEMMA AuditedStep ==
    ASSUME Typed, Audited, Step
    PROVE  Audited'
<1>1. token \in Nat /\ db.audit.token \in Nat /\ backup.audit.token \in Nat
  BY DEF Typed, DbType
<1>2. ASSUME db'.audit = db.audit, UNCHANGED <<backup, token>>
      PROVE  Audited'
  BY <1>2 DEF Audited
<1>3. CASE Restores
  BY <1>1, <1>3 DEF Restores, Audited
<1>4. CASE Audits
  BY <1>1, <1>4 DEF Audits, Rest, Audited
<1>5. ASSUME ~Restores, ~Audits
      PROVE  db'.audit = db.audit /\ UNCHANGED <<backup, token>>
  <2>1. ASSUME NEW r \in DOMAIN req, Handles(r) \/ Renames(r)
        PROVE  db'.audit = db.audit /\ UNCHANGED <<backup, token>>
    BY <2>1 DEF Handles, Remakes, Proves, Claims, AddsKey, Opens, Formats, Joins,
        Records, Flags, Ends, Renames, Advances
  <2>2. ASSUME NEW d \in Disk, Provisions(d) \/ Adds(d) \/ Strips(d) \/ Flaps(d)
        PROVE  db'.audit = db.audit /\ UNCHANGED <<backup, token>>
    BY <2>2 DEF Provisions, Starts, Adds, Strips, Flaps, Rest
  <2>3. ASSUME NEW v \in fleet, Converts(v)
        PROVE  db'.audit = db.audit /\ UNCHANGED <<backup, token>>
    BY <2>3 DEF Converts, Starts
  <2>4. ASSUME NEW next, NEW cur, Turns(next, cur)
        PROVE  db'.audit = db.audit /\ UNCHANGED <<backup, token>>
    BY <2>4 DEF Turns, Rest
  <2>5. ASSUME NEW v, NEW del, Updates(v, del)
        PROVE  db'.audit = db.audit /\ UNCHANGED <<backup, token>>
    BY <2>5 DEF Updates
  <2>6. ASSUME NEW p, Seals(p)
        PROVE  db'.audit = db.audit /\ UNCHANGED <<backup, token>>
    BY <2>6 DEF Seals, Rest
  <2>7. CASE Notes \/ Reseals \/ Stops \/ MarksRows \/ MarksFleet \/ Crashes \/ UNCHANGED vars
    BY <2>7 DEF Notes, Reseals, Stops, MarksRows, MarksFleet, Crashes, vars, Rest
  <2>. QED
    BY <1>5, <2>1, <2>2, <2>3, <2>4, <2>5, <2>6, <2>7 DEF Step
<1>. QED
  BY <1>2, <1>3, <1>4, <1>5

\* Partition tables are remade one at a time, and a request that makes one starts with a new one.
Ages ==
    /\ \A e \in Disk : disk'[e].part = disk[e].part \/ disk'[e].part = disk[e].part + 1
    /\ \A q \in DOMAIN req' : req'[q].pc \in Made =>
           \/ q \in DOMAIN req /\ req[q].pc \in Made
           \/ disk'[q].part = disk[q].part + 1

\* Every step does that.
LEMMA AgesStep ==
    ASSUME Typed, Step
    PROVE  Ages
<1>1. ASSUME \A e \in Disk : disk'[e].part = disk[e].part,
             \A q \in DOMAIN req' : q \in DOMAIN req /\ (req'[q].pc \in Made => req[q].pc \in Made)
      PROVE  Ages
  BY <1>1 DEF Ages
<1>2. CASE Aloof
  <2>1. Aside
    BY <1>2, AloofAside
  <2>. QED
    BY <1>1, <2>1 DEF Aside, SameReqs
<1>3. ASSUME NEW r \in DOMAIN req, Remakes(r)
      PROVE  Ages
  <2>1. /\ \A e \in Disk : e # r => disk'[e].part = disk[e].part
        /\ disk'[r].part = disk[r].part + 1
        /\ \A q \in DOMAIN req' : q # r => q \in DOMAIN req /\ req'[q].pc = req[q].pc
    BY <1>3 DEF Remakes, Keeps, Moves, Only
  <2>. QED
    BY <2>1 DEF Ages
<1>4. ASSUME NEW r \in DOMAIN req, Proves(r) \/ Claims(r) \/ Opens(r)
      PROVE  Ages
  <2>1. /\ \A e \in Disk : disk'[e].part = disk[e].part
        /\ \A q \in DOMAIN req' : q \in DOMAIN req /\ (req'[q].pc \in Made => req[q].pc \in Made)
    BY <1>4 DEF Proves, Claims, Opens, Advances, Keeps, Moves, Made
  <2>. QED
    BY <1>1, <2>1
<1>5. ASSUME NEW r \in DOMAIN req, AddsKey(r) \/ Formats(r) \/ Joins(r)
      PROVE  Ages
  <2>1. /\ \A e \in Disk : disk'[e].part = disk[e].part
        /\ \A q \in DOMAIN req' : q \in DOMAIN req /\ (req'[q].pc \in Made => req[q].pc \in Made)
    BY <1>5 DEF AddsKey, Formats, Joins, Keeps, Moves, Made, Only
  <2>. QED
    BY <1>1, <2>1
<1>6. ASSUME NEW r \in DOMAIN req, Records(r)
      PROVE  Ages
  <2>1. /\ \A e \in Disk : disk'[e].part = disk[e].part
        /\ \A q \in DOMAIN req' : q \in DOMAIN req /\ (req'[q].pc \in Made => req[q].pc \in Made)
    BY <1>6 DEF Records, Advances, Keeps, Moves, Made
  <2>. QED
    BY <1>1, <2>1
<1>7. ASSUME NEW r \in DOMAIN req, Flags(r) \/ Ends(r)
      PROVE  Ages
  <2>1. /\ \A e \in Disk : disk'[e].part = disk[e].part
        /\ \A q \in DOMAIN req' : q \in DOMAIN req /\ (req'[q].pc \in Made => req[q].pc \in Made)
    BY <1>7 DEF Flags, Ends, Drops
  <2>. QED
    BY <1>1, <2>1
<1>8. ASSUME NEW r, Starts(r)
      PROVE  Ages
  BY <1>8 DEF Starts, Made, Ages
<1>9. CASE MarksRows \/ MarksFleet \/ \E v \in fleet : \E del \in BOOLEAN : Updates(v, del)
  BY <1>9, <1>1 DEF MarksRows, MarksFleet, Updates
<1>10. CASE Crashes \/ Restores
  BY <1>10 DEF Crashes, Restores, Boots, Ages
<1>. QED
  BY <1>2, <1>3, <1>4, <1>5, <1>6, <1>7, <1>8, <1>9, <1>10, StepKinds DEF Early,
      Provisions, Converts

\* A row is of a partition that is there or gone.
LEMMA DatedStep ==
    ASSUME KInv, Step, Typed'
    PROVE  Dated'
<1>. USE DEF KInv
<1>1. ASSUME NEW w \in Row, NEW v \in Rows, Same(v, w)
      PROVE  /\ w.id # 0 /\ w.part <= disk'[w.disk].part
             /\ w.disk \in DOMAIN req' /\ req'[w.disk].pc \in Made => w.part < disk'[w.disk].part
  <2>1. PICK d, p, a, b : d = v.disk /\ p = v.part /\ a = disk[d].part /\ b = disk'[d].part
    OBVIOUS
  <2>2. v \in Row /\ d \in Disk /\ p \in Nat /\ a \in Nat
    BY <2>1 DEF Rows, Row, Typed, DbType
  <2>3. v.id # 0 /\ p <= a /\ (d \in DOMAIN req /\ req[d].pc \in Made => p < a)
    BY <2>1 DEF Dated
  <2>4. (b = a \/ b = a + 1) /\ (d \in DOMAIN req' /\ req'[d].pc \in Made =>
                                 (d \in DOMAIN req /\ req[d].pc \in Made) \/ b = a + 1)
    BY <2>1, <2>2, AgesStep DEF Ages
  <2>5. p <= b /\ (d \in DOMAIN req' /\ req'[d].pc \in Made => p < b)
    BY <2>2, <2>3, <2>4
  <2>. QED
    BY <1>1, <2>1, <2>3, <2>5 DEF Same
<1>2. \A w \in Rows' : w \in Row
  BY DEF Rows, Typed, DbType
<1>3. CASE NoNewRow \/ Restores
  <2>1. \A w \in Rows' : \E v \in Rows : Same(v, w)
    BY <1>3, RestoreRows DEF NoNewRow, Rows, Same
  <2>. QED
    BY <1>1, <1>2, <2>1 DEF Dated
<1>4. ASSUME NEW r \in DOMAIN req, Records(r)
      PROVE  Dated'
  <2>1. /\ Rows' = Rows \cup {NewRow(r)} /\ disk' = disk /\ req'[r].pc = "flag"
        /\ NewRow(r).id = req[r].id /\ NewRow(r).disk = r /\ NewRow(r).part = disk[r].part
    BY <1>4, NewRowShape DEF Records, Advances, Rows
  <2>2. req[r].id # 0 /\ disk[r].part \in Nat
    BY <1>4 DEF Records, Asked, Named, Typed
  <2>3. /\ NewRow(r).id # 0 /\ NewRow(r).part <= disk'[NewRow(r).disk].part
        /\ req'[NewRow(r).disk].pc \notin Made
    <3>1. PICK n \in Nat : n = disk[r].part
      BY <2>2
    <3>2. n <= n
      BY <3>1
    <3>. QED
      BY <2>1, <2>2, <3>1, <3>2 DEF Made
  <2>4. \A v \in Rows : Same(v, v)
    BY DEF Same
  <2>5. ASSUME NEW w \in Rows'
        PROVE  /\ w.id # 0 /\ w.part <= disk'[w.disk].part
               /\ w.disk \in DOMAIN req' /\ req'[w.disk].pc \in Made => w.part < disk'[w.disk].part
    BY <1>1, <1>2, <2>1, <2>3, <2>4
  <2>. QED
    BY <2>5 DEF Dated
<1>. QED
  BY <1>3, <1>4, NoNewRows

\* No row's container comes up, and one that stays keeps its nameplate and its passphrases.
Gentle ==
    \A v \in Rows : disk'[v.disk].part = v.part /\ disk'[v.disk].kind = "luks" =>
        /\ Locked(v) /\ disk'[v.disk].label = disk[v.disk].label
        /\ disk[v.disk].slots \subseteq disk'[v.disk].slots

\* A new partition table makes the old rows stale, and has no row yet.
LEMMA RemakesGentle ==
    ASSUME Typed, Dated, NEW r \in DOMAIN req, Remakes(r)
    PROVE  Gentle
<1>1. ASSUME NEW v \in Rows, v.disk = r
      PROVE  disk'[r].part # v.part
  <2>1. PICK p, a \in Nat : p = v.part /\ a = disk[r].part
    <3>1. v.part \in Nat /\ disk[r].part \in Nat
      BY <1>1 DEF Rows, Row, Typed, DbType
    <3>. QED
      BY <3>1
  <2>2. p <= a
    BY <1>1, <2>1 DEF Dated
  <2>3. disk'[r].part = a + 1
    BY <2>1 DEF Remakes
  <2>. QED
    BY <2>1, <2>2, <2>3
<1>2. \A v \in Rows : v.disk \in Disk /\ (v.disk # r => disk'[v.disk] = disk[v.disk])
  BY DEF Rows, Row, Typed, DbType, Remakes, Only
<1>. QED
  BY <1>1, <1>2 DEF Gentle, Locked, Current

\* A disk that is being made carries nobody's partition.
LEMMA MadeGentle ==
    ASSUME Typed, Dated, NEW r \in DOMAIN req, req[r].pc \in Made, Only(r), disk'[r].part = disk[r].part
    PROVE  Gentle
<1>1. ASSUME NEW v \in Rows, v.disk = r
      PROVE  disk'[r].part # v.part
  <2>1. PICK p, a \in Nat : p = v.part /\ a = disk[r].part
    <3>1. v.part \in Nat /\ disk[r].part \in Nat
      BY <1>1 DEF Rows, Row, Typed, DbType
    <3>. QED
      BY <3>1
  <2>2. p < a
    BY <1>1, <2>1 DEF Dated
  <2>. QED
    BY <2>1, <2>2
<1>2. \A v \in Rows : v.disk \in Disk /\ (v.disk # r => disk'[v.disk] = disk[v.disk])
  BY DEF Rows, Row, Typed, DbType, Only
<1>. QED
  BY <1>1, <1>2 DEF Gentle, Locked, Current

\* Only the retirement of an old passphrase takes a key from a recorded container.
LEMMA GentleStep ==
    ASSUME KInv, Step
    PROVE  Gentle \/ \E d \in Disk : Strips(d)
<1>. USE DEF KInv
<1>1. \A v \in Rows : v.disk \in Disk
  BY DEF Rows, Row, Typed, DbType
<1>2. ASSUME \A e \in Disk : /\ disk'[e].part = disk[e].part /\ disk'[e].kind = disk[e].kind
                             /\ disk'[e].label = disk[e].label /\ disk[e].slots \subseteq disk'[e].slots
      PROVE  Gentle
  BY <1>1, <1>2 DEF Gentle, Locked, Current
<1>3. ASSUME disk' = disk
      PROVE  Gentle
  BY <1>2, <1>3
<1>4. ASSUME NEW r \in DOMAIN req, Handles(r)
      PROVE  Gentle
  <2>1. CASE Remakes(r)
    BY <2>1, RemakesGentle
  <2>2. CASE AddsKey(r)
    BY <2>2, MadeGentle DEF AddsKey, Made
  <2>3. CASE Formats(r)
    BY <2>3, MadeGentle DEF Formats, Made
  <2>4. CASE Joins(r)
    BY <2>4, MadeGentle DEF Joins, Made
  <2>5. CASE Proves(r) \/ Claims(r) \/ Opens(r) \/ Records(r) \/ Flags(r) \/ Ends(r)
    BY <2>5, <1>3 DEF Proves, Claims, Opens, Records, Advances, Flags, Ends
  <2>. QED
    BY <1>4, <2>1, <2>2, <2>3, <2>4, <2>5 DEF Handles
<1>5. ASSUME NEW d \in Disk, Adds(d)
      PROVE  Gentle
  BY <1>5, <1>2 DEF Adds, Only
<1>6. ASSUME NEW d \in Disk, Flaps(d)
      PROVE  Gentle
  BY <1>6, <1>2 DEF Flaps
<1>7. ASSUME NEW r, Renames(r) \/ Starts(r)
      PROVE  Gentle
  BY <1>7, <1>3 DEF Renames, Starts
<1>8. ASSUME NEW next, NEW cur, Turns(next, cur)
      PROVE  Gentle
  BY <1>8, <1>3 DEF Turns
<1>9. ASSUME NEW v, NEW del, Updates(v, del)
      PROVE  Gentle
  BY <1>9, <1>3 DEF Updates
<1>10. ASSUME NEW p, Seals(p)
       PROVE  Gentle
  BY <1>10, <1>3 DEF Seals
<1>11. CASE Notes \/ Reseals \/ Stops \/ MarksRows \/ MarksFleet \/ Audits \/ Crashes \/ Restores \/ UNCHANGED vars
  BY <1>11, <1>3 DEF Notes, Reseals, Stops, MarksRows, MarksFleet, Audits, Crashes,
      Restores, vars
<1>. QED
  BY <1>4, <1>5, <1>6, <1>7, <1>8, <1>9, <1>10, <1>11 DEF Step, Provisions, Converts

\* A row that is of a container after a step was so before it.
LEMMA LockedRow ==
    ASSUME KInv, Step, NEW v \in Rows, disk'[v.disk].part = v.part, disk'[v.disk].kind = "luks"
    PROVE  Locked(v) /\ disk'[v.disk].label = disk[v.disk].label
<1>1. CASE Gentle
  BY <1>1 DEF Gentle
<1>2. ASSUME NEW d \in Disk, Strips(d)
      PROVE  Locked(v) /\ disk'[v.disk].label = disk[v.disk].label
  <2>1. v.disk \in Disk
    BY DEF KInv, Rows, Row, Typed, DbType
  <2>2. \A e \in Disk : disk'[e].part = disk[e].part /\ disk'[e].kind = disk[e].kind /\ disk'[e].label = disk[e].label
    BY <1>2 DEF Strips, Only
  <2>. QED
    BY <2>1, <2>2 DEF Locked, Current
<1>. QED
  BY <1>1, <1>2, GentleStep

\* The container of a volume that is being recorded.
LEMMA NewRowLocked ==
    ASSUME Typed, Asked, NEW r \in DOMAIN req, Records(r)
    PROVE  /\ Rows' = Rows \cup {NewRow(r)} /\ db'.rows = db.rows \cup {NewRow(r)} /\ backup' = backup /\ disk' = disk
           /\ NewRow(r).disk = r /\ disk[r].label # 0
           /\ disk[r].kind = "luks" => db.verifier # NoPass /\ db.verifier \in disk[r].slots
<1>1. /\ db'.rows = db.rows \cup {NewRow(r)} /\ backup' = backup /\ disk' = disk /\ req[r].pc = "row"
      /\ NewRow(r).disk = r
  BY NewRowShape DEF Records, Advances
<1>2. disk[r].label # 0
  BY <1>1 DEF Asked, Named
<1>3. disk[r].kind = "luks" => req[r].enc
  BY DEF Asked
<1>4. req[r].enc => req[r].pass = db.verifier /\ db.verifier # NoPass /\ req[r].pass \in disk[r].slots
  BY <1>1 DEF Asked, Opened
<1>. QED
  BY <1>1, <1>2, <1>3, <1>4 DEF Rows

\* What a container with a nameplate is: somebody opens it.
Lettered(d) == disk[d].kind = "luks" /\ disk[d].label # 0 => disk[d].slots # {}

\* A container gets its nameplate after its passphrase.
LEMMA LetteredStep ==
    ASSUME KInv, Step, Typed'
    PROVE  \A d \in Disk : Lettered(d)'
<1>. USE DEF KInv
<1>1. \A d \in Disk : Lettered(d)
  BY DEF Plated, Lettered
<1>2. ASSUME \A e \in Disk : /\ disk'[e].kind = disk[e].kind /\ disk'[e].label = disk[e].label
                             /\ disk[e].slots \subseteq disk'[e].slots
      PROVE  \A d \in Disk : Lettered(d)'
  <2>1. SUFFICES ASSUME NEW d \in Disk
                 PROVE  Lettered(d)'
    OBVIOUS
  <2>. QED
    BY <1>1, <1>2 DEF Lettered
<1>3. ASSUME disk' = disk
      PROVE  \A d \in Disk : Lettered(d)'
  BY <1>2, <1>3
<1>4. ASSUME NEW r \in Disk, Only(r), Lettered(r)'
      PROVE  \A d \in Disk : Lettered(d)'
  <2>1. SUFFICES ASSUME NEW d \in Disk, d # r
                 PROVE  Lettered(d)'
    BY <1>4
  <2>2. disk'[d] = disk[d]
    BY <1>4, <2>1 DEF Only
  <2>. QED
    BY <1>1, <2>2 DEF Lettered
<1>5. ASSUME NEW r \in DOMAIN req, Handles(r)
      PROVE  \A d \in Disk : Lettered(d)'
  <2>1. r \in Disk
    BY DEF Typed
  <2>2. CASE Remakes(r)
    BY <2>1, <2>2, <1>4 DEF Remakes, Lettered
  <2>3. CASE AddsKey(r)
    BY <2>1, <2>3, <1>4 DEF AddsKey, Lettered
  <2>4. CASE Formats(r)
    <3>1. Lettered(r)'
      BY <2>1, <2>4, <1>1 DEF Formats, Lettered
    <3>. QED
      BY <2>1, <2>4, <3>1, <1>4 DEF Formats
  <2>5. CASE Joins(r)
    <3>1. disk'[r].kind = "luks" => req[r].pass \in disk'[r].slots
      BY <2>5 DEF Joins, Asked, Opened
    <3>. QED
      BY <2>1, <2>5, <3>1, <1>4 DEF Joins, Lettered
  <2>6. CASE Proves(r) \/ Claims(r) \/ Opens(r) \/ Records(r) \/ Flags(r) \/ Ends(r)
    BY <2>6, <1>3 DEF Proves, Claims, Opens, Records, Advances, Flags, Ends
  <2>. QED
    BY <1>5, <2>2, <2>3, <2>4, <2>5, <2>6 DEF Handles
<1>6. ASSUME NEW d \in Disk, Adds(d)
      PROVE  \A e \in Disk : Lettered(e)'
  BY <1>6, <1>2 DEF Adds, Only
<1>7. ASSUME NEW d \in Disk, Strips(d)
      PROVE  \A e \in Disk : Lettered(e)'
  <2>1. rot.next \in disk[d].slots /\ rot.next # rot.cur
    BY <1>7 DEF Strips, Changing, Typed
  <2>2. rot.next \in disk'[d].slots
    BY <1>7, <2>1 DEF Strips
  <2>. QED
    BY <1>7, <2>2, <1>4 DEF Strips, Lettered
<1>8. ASSUME NEW d \in Disk, Flaps(d)
      PROVE  \A e \in Disk : Lettered(e)'
  BY <1>8, <1>2 DEF Flaps
<1>9. ASSUME NEW r, Renames(r) \/ Starts(r)
      PROVE  \A e \in Disk : Lettered(e)'
  BY <1>9, <1>3 DEF Renames, Starts
<1>10. ASSUME NEW next, NEW cur, Turns(next, cur)
       PROVE  \A e \in Disk : Lettered(e)'
  BY <1>10, <1>3 DEF Turns
<1>11. ASSUME NEW v, NEW del, Updates(v, del)
       PROVE  \A e \in Disk : Lettered(e)'
  BY <1>11, <1>3 DEF Updates
<1>12. ASSUME NEW p, Seals(p)
       PROVE  \A e \in Disk : Lettered(e)'
  BY <1>12, <1>3 DEF Seals
<1>13. CASE Notes \/ Reseals \/ Stops \/ MarksRows \/ MarksFleet \/ Audits \/ Crashes \/ Restores \/ UNCHANGED vars
  BY <1>13, <1>3 DEF Notes, Reseals, Stops, MarksRows, MarksFleet, Audits, Crashes,
      Restores, vars
<1>. QED
  BY <1>5, <1>6, <1>7, <1>8, <1>9, <1>10, <1>11, <1>12, <1>13 DEF Step, Provisions,
      Converts

\* Recorded containers have nameplates.
LEMMA PlatedStep ==
    ASSUME KInv, Step, Typed'
    PROVE  Plated'
<1>. USE DEF KInv
<1>1. ASSUME NEW w \in Rows', disk'[w.disk].part = w.part, disk'[w.disk].kind = "luks"
      PROVE  disk'[w.disk].label # 0
  <2>1. ASSUME NEW v \in Rows, Same(v, w)
        PROVE  disk'[w.disk].label # 0
    BY <1>1, <2>1, LockedRow DEF Plated, Same
  <2>2. CASE NoNewRow \/ Restores
    <3>1. \E v \in Rows : Same(v, w)
      BY <2>2, RestoreRows DEF NoNewRow, Rows, Same
    <3>. QED
      BY <2>1, <3>1
  <2>3. ASSUME NEW r \in DOMAIN req, Records(r)
        PROVE  disk'[w.disk].label # 0
    <3>1. CASE w \in Rows
      BY <2>1, <3>1 DEF Same
    <3>2. CASE w = NewRow(r)
      BY <2>3, <3>2, NewRowLocked
    <3>. QED
      BY <2>3, <3>1, <3>2, NewRowLocked
  <2>. QED
    BY <2>2, <2>3, NoNewRows
<1>2. \A d \in Disk : disk'[d].kind = "luks" /\ disk'[d].label # 0 => disk'[d].slots # {}
  BY LetteredStep DEF Lettered
<1>. QED
  BY <1>1, <1>2 DEF Plated, Locked, Current

\* The recorded passphrase changes with a claim, a change, a seal or a restore.
LEMMA VerifierStep ==
    ASSUME Step
    PROVE  db'.verifier = db.verifier \/ Notes \/ Restores \/ (\E p \in Pass : Seals(p))
           \/ \E r \in DOMAIN req : Claims(r)
<1>1. ASSUME NEW r \in DOMAIN req, Handles(r), ~Claims(r)
      PROVE  db'.verifier = db.verifier
  BY <1>1 DEF Handles, Remakes, Proves, AddsKey, Opens, Formats, Joins, Records,
      Flags, Ends, Advances
<1>2. ASSUME NEW d, Adds(d) \/ Strips(d) \/ Flaps(d)
      PROVE  db'.verifier = db.verifier
  BY <1>2 DEF Adds, Strips, Flaps
<1>3. ASSUME NEW r, Renames(r) \/ Starts(r)
      PROVE  db'.verifier = db.verifier
  BY <1>3 DEF Renames, Starts
<1>4. ASSUME NEW next, NEW cur, Turns(next, cur)
      PROVE  db'.verifier = db.verifier
  BY <1>4 DEF Turns
<1>5. ASSUME NEW v, NEW del, Updates(v, del)
      PROVE  db'.verifier = db.verifier
  BY <1>5 DEF Updates
<1>6. CASE Reseals \/ Stops \/ MarksRows \/ MarksFleet \/ Audits \/ Crashes \/ UNCHANGED vars
  BY <1>6 DEF Reseals, Stops, MarksRows, MarksFleet, Audits, Crashes, vars
<1>. QED
  BY <1>1, <1>2, <1>3, <1>4, <1>5, <1>6 DEF Step, Provisions, Converts

\* Where a passphrase is recorded it is one that was typed.
LEMMA VerifierSet ==
    ASSUME KInv, Step, ~Restores, db'.verifier # db.verifier
    PROVE  db'.verifier \in Pass
<1>1. CASE Notes
  BY <1>1 DEF KInv, Notes, Changing
<1>2. ASSUME NEW p \in Pass, Seals(p)
      PROVE  db'.verifier \in Pass
  BY <1>2 DEF Seals
<1>3. ASSUME NEW r \in DOMAIN req, Claims(r)
      PROVE  db'.verifier \in Pass
  BY <1>3 DEF Claims
<1>. QED
  BY <1>1, <1>2, <1>3, VerifierStep

\* No passphrase on record, no encrypted volume.
LEMMA UnsetStep ==
    ASSUME KInv, Step, Typed'
    PROVE  Unset'
<1>. USE DEF KInv
<1>1. NoPass \notin Pass
  BY KeysAssumption DEF NoPass
<1>2. backup' = backup
  BY NoNewRows, RestoreRows DEF NoNewRow, Records, Advances
<1>3. ASSUME NEW v \in Rows, ~Locked(v)
      PROVE  ~(disk'[v.disk].part = v.part /\ disk'[v.disk].kind = "luks")
  BY <1>3, LockedRow
<1>4. backup'.verifier = NoPass => \A v \in backup'.rows : ~(disk'[v.disk].part = v.part /\ disk'[v.disk].kind = "luks")
  BY <1>2, <1>3 DEF Unset, Rows
<1>5. backup'.verifier # NoPass => db'.verifier # NoPass
  <2>1. CASE Restores
    BY <2>1, RestoreRows
  <2>2. CASE ~Restores
    BY <2>2, <1>1, <1>2, VerifierSet DEF Unset
  <2>. QED
    BY <2>1, <2>2
<1>6. ASSUME db'.verifier = NoPass, NEW w \in db'.rows
      PROVE  ~(disk'[w.disk].part = w.part /\ disk'[w.disk].kind = "luks")
  <2>1. CASE Restores
    BY <2>1, <1>4, <1>6, RestoreRows
  <2>2. CASE ~Restores
    <3>1. db.verifier = NoPass
      BY <2>2, <1>1, <1>6, VerifierSet
    <3>2. ASSUME NEW v \in db.rows, Same(v, w)
          PROVE  ~(disk'[w.disk].part = w.part /\ disk'[w.disk].kind = "luks")
      <4>1. v \in Rows /\ ~Locked(v)
        BY <3>1 DEF Unset, Rows
      <4>. QED
        BY <3>2, <4>1, <1>3 DEF Same
    <3>3. CASE NoNewRow
      BY <3>2, <3>3 DEF NoNewRow
    <3>4. ASSUME NEW r \in DOMAIN req, Records(r)
          PROVE  ~(disk'[w.disk].part = w.part /\ disk'[w.disk].kind = "luks")
      <4>1. CASE w \in db.rows
        BY <3>2, <4>1 DEF Same
      <4>2. CASE w = NewRow(r)
        BY <3>1, <3>4, <4>2, NewRowLocked
      <4>. QED
        BY <3>4, <4>1, <4>2, NewRowLocked
    <3>. QED
      BY <2>2, <3>3, <3>4, NoNewRows
  <2>. QED
    BY <2>1, <2>2
<1>. QED
  BY <1>4, <1>5, <1>6 DEF Unset, Locked, Current

\* What is set aside changes with a change that is recorded, and an old database comes with a restore.
LEMMA HistoryStep ==
    ASSUME Step, ~Notes
    PROVE  excused' = excused /\ (~Restores => rewound' = rewound)
<1>1. ASSUME NEW r \in DOMAIN req, Handles(r)
      PROVE  UNCHANGED <<excused, rewound>>
  BY <1>1 DEF Handles, Remakes, Proves, Claims, AddsKey, Opens, Formats, Joins,
      Records, Flags, Ends, Advances
<1>2. ASSUME NEW d, Adds(d) \/ Strips(d) \/ Flaps(d)
      PROVE  UNCHANGED <<excused, rewound>>
  BY <1>2 DEF Adds, Strips, Flaps
<1>3. ASSUME NEW r, Renames(r) \/ Starts(r)
      PROVE  UNCHANGED <<excused, rewound>>
  BY <1>3 DEF Renames, Starts
<1>4. ASSUME NEW next, NEW cur, Turns(next, cur)
      PROVE  UNCHANGED <<excused, rewound>>
  BY <1>4 DEF Turns
<1>5. ASSUME NEW v, NEW del, Updates(v, del)
      PROVE  UNCHANGED <<excused, rewound>>
  BY <1>5 DEF Updates
<1>6. ASSUME NEW p, Seals(p)
      PROVE  UNCHANGED <<excused, rewound>>
  BY <1>6 DEF Seals
<1>7. CASE Reseals \/ Stops \/ MarksRows \/ MarksFleet \/ Audits \/ Crashes \/ UNCHANGED vars
  BY <1>7 DEF Reseals, Stops, MarksRows, MarksFleet, Audits, Crashes, vars
<1>8. CASE Restores
  BY <1>8 DEF Restores
<1>. QED
  BY <1>1, <1>2, <1>3, <1>4, <1>5, <1>6, <1>7, <1>8 DEF Step, Provisions, Converts

\* Without a passphrase on record no row is of a container.
LEMMA UnsetRows ==
    ASSUME Unset, db.verifier = NoPass
    PROVE  \A v \in Rows : ~Locked(v)
BY DEF Unset, Rows

\* Before the change is recorded every disk in service opens with the new passphrase.
LEMMA NotesKnown ==
    ASSUME KInv, Notes
    PROVE  Known'
<1>. USE DEF KInv
<1>1. ASSUME NEW v \in Rows, Locked(v), rot.next \notin disk[v.disk].slots
      PROVE  v.disk \in excused'
  <2>1. v.disk \in Disk
    BY DEF Rows, Row, Typed, DbType
  <2>2. v.disk \in {d \in Disk : disk[d].kind = "luks" /\ rot.next \notin disk[d].slots}
    BY <2>1, <1>1 DEF Locked
  <2>3. ASSUME NEW w \in InService(db.rows), w.disk = v.disk
        PROVE  FALSE
    <3>1. w.disk \in rot.ours
      BY DEF Notes, Changing
    <3>2. rot.next \in disk[w.disk].slots
      BY <3>1 DEF Notes, Changing
    <3>. QED
      BY <3>2, <2>3, <1>1
  <2>. QED
    BY <2>2, <2>3 DEF Notes
<1>2. Rows' = Rows /\ disk' = disk /\ db'.verifier = rot.next
  BY DEF Notes, Rest, Rows
<1>. QED
  BY <1>1, <1>2 DEF Known, Locked, Current

\* The recorded passphrase goes on opening what is recorded.
LEMMA KnownStep ==
    ASSUME KInv, Step, Typed'
    PROVE  Known'
<1>. USE DEF KInv
<1>1. CASE Notes
  BY <1>1, NotesKnown
<1>2. CASE ~Notes
  <2>1. SUFFICES ASSUME db'.verifier # NoPass, ~rewound',
                        NEW w \in Rows', disk'[w.disk].part = w.part, disk'[w.disk].kind = "luks"
                 PROVE  db'.verifier \in disk'[w.disk].slots \/ w.disk \in excused'
    BY DEF Known, Locked, Current
  <2>2. excused' = excused /\ ~rewound
    <3>1. excused' = excused
      BY <1>2, HistoryStep
    <3>2. CASE Restores
      <4>1. rewound' = (rewound \/ backup.verifier # db.verifier)
        BY <3>2 DEF Restores
      <4>. QED
        BY <2>1, <3>1, <4>1
    <3>3. CASE ~Restores
      <4>1. rewound' = rewound
        BY <1>2, <3>3, HistoryStep
      <4>. QED
        BY <2>1, <3>1, <4>1
    <3>. QED
      BY <3>2, <3>3
  \* A row that was there before.
  <2>3. ASSUME NEW v \in Rows, Same(v, w)
        PROVE  db'.verifier \in disk'[w.disk].slots \/ w.disk \in excused'
    <3>1. Locked(v)
      BY <2>1, <2>3, LockedRow DEF Same
    <3>2. db.verifier # NoPass
      BY <3>1, UnsetRows
    <3>3. db.verifier \in disk[v.disk].slots \/ v.disk \in excused
      BY <2>2, <3>1, <3>2 DEF Known
    <3>4. db'.verifier = db.verifier
      <4>1. ASSUME NEW p \in Pass, Seals(p)
            PROVE  db'.verifier = db.verifier
        BY <3>2, <4>1 DEF Seals, assertFleetRecoveryPassphrase
      <4>2. ASSUME NEW r \in DOMAIN req, Claims(r)
            PROVE  db'.verifier = db.verifier
        BY <3>2, <4>2 DEF Claims
      <4>3. CASE Restores
        BY <2>1, <4>3 DEF Restores
      <4>. QED
        BY <1>2, <4>1, <4>2, <4>3, VerifierStep
    <3>5. CASE Gentle
      <4>1. disk[v.disk].slots \subseteq disk'[v.disk].slots
        BY <2>1, <2>3, <3>5 DEF Gentle, Same
      <4>. QED
        BY <2>2, <2>3, <3>3, <3>4, <4>1 DEF Same
    <3>6. ASSUME NEW d \in Disk, Strips(d)
          PROVE  db'.verifier \in disk'[w.disk].slots \/ w.disk \in excused'
      <4>1. db.verifier = rot.next /\ rot.next # rot.cur
        BY <3>6 DEF Strips, Changing
      <4>2. \A e \in Disk : db.verifier \in disk[e].slots => db.verifier \in disk'[e].slots
        BY <3>6, <4>1 DEF Strips, Only
      <4>3. v.disk \in Disk
        BY DEF Rows, Row, Typed, DbType
      <4>. QED
        BY <2>2, <2>3, <3>3, <3>4, <4>2, <4>3 DEF Same
    <3>. QED
      BY <3>5, <3>6, GentleStep
  <2>4. CASE NoNewRow \/ Restores
    <3>1. \E v \in Rows : Same(v, w)
      BY <2>4, RestoreRows DEF NoNewRow, Rows, Same
    <3>. QED
      BY <2>3, <3>1
  <2>5. ASSUME NEW r \in DOMAIN req, Records(r)
        PROVE  db'.verifier \in disk'[w.disk].slots \/ w.disk \in excused'
    <3>1. CASE w \in Rows
      BY <2>3, <3>1 DEF Same
    <3>2. CASE w = NewRow(r)
      BY <2>1, <2>5, <3>2, NewRowLocked DEF Records
    <3>. QED
      BY <2>5, <3>1, <3>2, NewRowLocked
  <2>. QED
    BY <2>4, <2>5, NoNewRows
<1>. QED
  BY <1>1, <1>2

\* What Asked says of one request.
Told(r) ==
    /\ req[r].mapper = r
    /\ ~req[r].enc => /\ req[r].pc \notin {"prove", "claim", "key", "open"}
                      /\ req[r].convert = 0 /\ disk[r].kind # "luks"
    /\ req[r].pc = "claim" => req[r].pass # NoPass
    /\ req[r].enc /\ req[r].pc \in Opened \cup {"part", "key"} =>
           req[r].pass = db.verifier /\ db.verifier # NoPass
    /\ req[r].pc = "key" => disk[r].slots = {}
    /\ req[r].enc /\ req[r].pc \in Opened => req[r].pass \in disk[r].slots
    /\ req[r].pc \in {"row", "flag"} => disk[r].label = req[r].id
    /\ req[r].pc \in Named <=> req[r].id # 0
    /\ req[r].pc \in Named /\ req[r].convert # 0 => req[r].id = req[r].convert

\* Asked, request by request.
LEMMA AskedIsTold == Asked <=> \A r \in DOMAIN req : Told(r)
BY DEF Asked, Told

\* The request and its disk stay, and so does the passphrase on record where it is about one.
LEMMA ToldKept ==
    ASSUME NEW q, Told(q),
           req'[q].pc = req[q].pc, req'[q].enc = req[q].enc, req'[q].pass = req[q].pass,
           req'[q].convert = req[q].convert, req'[q].id = req[q].id, req'[q].mapper = req[q].mapper,
           disk'[q].kind = disk[q].kind, disk'[q].label = disk[q].label,
           req[q].enc => disk'[q].slots = disk[q].slots,
           req[q].enc /\ db.verifier # NoPass => db'.verifier = db.verifier
    PROVE  Told(q)'
<1>1. req[q].pc = "key" => req[q].enc
  BY DEF Told
<1>. QED
  BY <1>1 DEF Told

\* Nothing is encrypted while the passphrase changes, so a key on a disk is nobody's business.
LEMMA AloofAsked ==
    ASSUME KInv, Aloof
    PROVE  Asked'
<1>. USE DEF KInv
<1>1. Aside
  BY AloofAside
<1>2. \A q \in DOMAIN req : q \in Disk /\ Told(q)
  BY AskedIsTold DEF Typed
<1>3. (\E d \in Disk : Adds(d) \/ Strips(d)) \/ Notes => \A q \in DOMAIN req : ~req[q].enc
  BY DEF Adds, Strips, Notes, Changing
<1>4. (\E d \in Disk : Adds(d) \/ Strips(d)) \/ \A e \in Disk : disk'[e].slots = disk[e].slots
  BY DEF Aloof, vars, Renames, Turns, Flaps, Notes, Reseals, Stops, Audits, Seals
<1>5. Notes \/ (db.verifier # NoPass => db'.verifier = db.verifier)
  <2>1. CASE UNCHANGED vars
    BY <2>1 DEF vars
  <2>2. ASSUME NEW p \in Pass, Seals(p)
        PROVE  db.verifier # NoPass => db'.verifier = db.verifier
    BY <2>2 DEF Seals, assertFleetRecoveryPassphrase
  <2>3. ASSUME NEW d, Adds(d) \/ Strips(d) \/ Flaps(d)
        PROVE  db'.verifier = db.verifier
    BY <2>3 DEF Adds, Strips, Flaps
  <2>4. ASSUME NEW r, Renames(r)
        PROVE  db'.verifier = db.verifier
    BY <2>4 DEF Renames
  <2>5. ASSUME NEW next, NEW cur, Turns(next, cur)
        PROVE  db'.verifier = db.verifier
    BY <2>5 DEF Turns
  <2>6. CASE Reseals \/ Stops \/ Audits
    BY <2>6 DEF Reseals, Stops, Audits
  <2>. QED
    BY <2>1, <2>2, <2>3, <2>4, <2>5, <2>6 DEF Aloof
<1>6. ASSUME NEW q \in DOMAIN req
      PROVE  Told(q)'
  <2>1. /\ req[q].enc => disk'[q].slots = disk[q].slots
        /\ req[q].enc /\ db.verifier # NoPass => db'.verifier = db.verifier
    BY <1>2, <1>3, <1>4, <1>5
  <2>. QED
    BY <1>1, <1>2, <2>1, ToldKept DEF Aside, SameReqs
<1>7. DOMAIN req' = DOMAIN req
  BY <1>1 DEF Aside, SameReqs
<1>. QED
  BY <1>6, <1>7 DEF Asked, Told

\* The others, while r moves or ends.
LEMMA OthersTold ==
    ASSUME Typed, Asked, NEW r, DOMAIN req' \subseteq DOMAIN req \cup {r},
           \A q \in DOMAIN req' : q # r => q \in DOMAIN req /\ req'[q] = req[q],
           \A e \in Disk : e # r => disk'[e] = disk[e],
           db.verifier # NoPass => db'.verifier = db.verifier
    PROVE  \A q \in DOMAIN req' : q # r => Told(q)'
<1>1. SUFFICES ASSUME NEW q \in DOMAIN req', q # r
               PROVE  Told(q)'
  OBVIOUS
<1>2. q \in DOMAIN req /\ q \in Disk /\ req'[q] = req[q] /\ disk'[q] = disk[q] /\ Told(q)
  BY <1>1, AskedIsTold DEF Typed
<1>. QED
  BY <1>2, ToldKept

\* The step of one request: its own part is in its shape, the others stay.
LEMMA HandlesAsked ==
    ASSUME Typed, Asked, NEW r \in DOMAIN req, Handles(r), Typed'
    PROVE  Asked'
<1>. USE DEF Opened, Named
<1>1. Told(r) /\ r \in Disk
  BY AskedIsTold DEF Typed
<1>2. ASSUME Told(r)', Keeps(r), \A e \in Disk : e # r => disk'[e] = disk[e],
             db.verifier # NoPass => db'.verifier = db.verifier
      PROVE  Asked'
  <2>1. DOMAIN req' = DOMAIN req /\ \A q \in DOMAIN req' : q # r => q \in DOMAIN req /\ req'[q] = req[q]
    BY <1>2 DEF Keeps, Moves
  <2>2. \A q \in DOMAIN req' : q # r => Told(q)'
    BY <1>2, <2>1, OthersTold
  <2>3. \A q \in DOMAIN req' : Told(q)'
    BY <1>2, <2>2
  <2>. QED
    BY <2>3 DEF Asked, Told
<1>3. CASE Remakes(r)
  <2>1. Told(r)'
    BY <1>1, <1>3 DEF Remakes, Keeps, Told
  <2>. QED
    BY <1>2, <1>3, <2>1 DEF Remakes, Only
<1>4. CASE Proves(r)
  <2>1. req'[r].pass \in Pass /\ NoPass \notin Pass
    BY <1>4, KeysAssumption DEF Proves, NoPass
  <2>2. req'[r].pc = "part" => req'[r].pass = db.verifier
    BY <1>4 DEF Proves, assertFleetRecoveryPassphrase
  <2>3. Told(r)'
    BY <1>1, <1>4, <2>1, <2>2 DEF Proves, Advances, Keeps, Told
  <2>. QED
    BY <1>2, <1>4, <2>3 DEF Proves, Advances
<1>5. CASE Claims(r)
  <2>1. NoPass \notin Pass
    BY KeysAssumption DEF NoPass
  <2>2. Told(r)'
    BY <1>1, <1>5, <2>1 DEF Claims, Advances, Keeps, Told
  <2>. QED
    BY <1>2, <1>5, <2>2 DEF Claims, Advances
<1>6. CASE AddsKey(r)
  <2>1. Told(r)'
    BY <1>1, <1>6 DEF AddsKey, Keeps, Told
  <2>. QED
    BY <1>2, <1>6, <2>1 DEF AddsKey, Only
<1>7. CASE Opens(r)
  <2>1. Told(r)'
    BY <1>1, <1>7 DEF Opens, Advances, Keeps, Told
  <2>. QED
    BY <1>2, <1>7, <2>1 DEF Opens, Advances
<1>8. CASE Formats(r)
  <2>1. Told(r)'
    BY <1>1, <1>8 DEF Formats, Keeps, Told
  <2>. QED
    BY <1>2, <1>8, <2>1 DEF Formats, Only
<1>9. CASE Joins(r)
  <2>1. Told(r)'
    BY <1>1, <1>9 DEF Joins, Keeps, Told
  <2>. QED
    BY <1>2, <1>9, <2>1 DEF Joins, Only
<1>10. CASE Records(r)
  <2>1. Told(r)'
    BY <1>1, <1>10 DEF Records, Advances, Keeps, Told
  <2>. QED
    BY <1>2, <1>10, <2>1 DEF Records, Advances
<1>11. CASE Flags(r) \/ Ends(r)
  <2>1. /\ DOMAIN req' = DOMAIN req \ {r} /\ \A q \in DOMAIN req' : req'[q] = req[q]
        /\ disk' = disk /\ db'.verifier = db.verifier
    BY <1>11 DEF Flags, Ends, Drops
  <2>2. \A q \in DOMAIN req' : Told(q)'
    BY <2>1, OthersTold
  <2>. QED
    BY <2>2 DEF Asked, Told
<1>. QED
  BY <1>3, <1>4, <1>5, <1>6, <1>7, <1>8, <1>9, <1>10, <1>11 DEF Handles

\* A request that starts knows nothing yet.
LEMMA StartsAsked ==
    ASSUME Typed, Asked, NEW r, Starts(r)
    PROVE  Asked'
<1>1. /\ DOMAIN req' = DOMAIN req \cup {r} /\ \A q \in DOMAIN req : req'[q] = req[q]
      /\ disk' = disk /\ db' = db
  BY DEF Starts
<1>2. \A q \in DOMAIN req' : q # r => Told(q)'
  BY <1>1, OthersTold
<1>3. Told(r)'
  BY DEF Starts, Told, Opened, Named
<1>4. \A q \in DOMAIN req' : Told(q)'
  BY <1>2, <1>3
<1>. QED
  BY <1>4 DEF Asked, Told

\* Requests know what they knew.
LEMMA AskedStep ==
    ASSUME KInv, Step, Typed'
    PROVE  Asked'
<1>. USE DEF KInv
<1>1. CASE Aloof
  BY <1>1, AloofAsked
<1>2. ASSUME NEW r \in DOMAIN req, Handles(r)
      PROVE  Asked'
  BY <1>2, HandlesAsked
<1>3. ASSUME NEW r, Starts(r)
      PROVE  Asked'
  BY <1>3, StartsAsked
<1>4. CASE MarksRows \/ MarksFleet \/ \E v \in fleet : \E del \in BOOLEAN : Updates(v, del)
  <2>1. UNCHANGED <<disk, req>> /\ db'.verifier = db.verifier
    BY <1>4 DEF MarksRows, MarksFleet, Updates
  <2>. QED
    BY <2>1 DEF Asked
<1>5. CASE Crashes \/ Restores
  BY <1>5 DEF Crashes, Restores, Boots, Asked
<1>. QED
  BY <1>1, <1>2, <1>3, <1>4, <1>5, StepKinds DEF Provisions, Converts, Handles,
      Early

\* A change goes on: nothing is encrypted or updated meanwhile, its disks keep what they have, and no other
\* comes into service.
LEMMA ChangingKept ==
    ASSUME Changing, rot' = rot,
           rot.pc # "idle" =>
               /\ \A q \in DOMAIN req' : ~req'[q].enc
               /\ upd'.pc = "idle"
               /\ \A d \in rot.ours : /\ disk'[d].kind = disk[d].kind /\ disk'[d].label = disk[d].label
                                      /\ disk[d].slots \subseteq disk'[d].slots
               /\ \A w \in db'.rows : ~w.deleted /\ disk'[w.disk].part = w.part /\ disk'[w.disk].kind = "luks" =>
                      \E v \in InService(db.rows) : v.disk = w.disk
               /\ db.verifier # NoPass => db'.verifier = db.verifier
    PROVE  Changing'
<1>1. SUFFICES ASSUME rot.pc # "idle"
               PROVE  Changing'
  BY DEF Changing
<1>2. rot.next # NoPass
  BY <1>1, KeysAssumption DEF Changing, NoPass
<1>3. \A w \in InService(db.rows)' : w \in db'.rows /\ ~w.deleted /\ disk'[w.disk].part = w.part /\ disk'[w.disk].kind = "luks"
  BY DEF InService
<1>. QED
  BY <1>1, <1>2, <1>3 DEF Changing

\* A row in service was in service before.
LEMMA StillInService ==
    ASSUME KInv, Step, NEW w, ~w.deleted, disk'[w.disk].part = w.part, disk'[w.disk].kind = "luks",
           NEW v \in db.rows, Same(v, w), ~v.deleted
    PROVE  v \in InService(db.rows) /\ v.disk = w.disk
<1>1. v \in Rows
  BY DEF Rows
<1>2. Locked(v)
  BY <1>1, LockedRow DEF Same
<1>. QED
  BY <1>2 DEF InService, Locked, Current, Same

\* A plain request goes on during a change: it touches none of the change's disks.
LEMMA HandlesChanging ==
    ASSUME KInv, NEW r \in DOMAIN req, Handles(r)
    PROVE  Changing'
<1>. USE DEF KInv
<1>1. Step
  BY DEF Step
<1>2. rot' = rot /\ upd' = upd
  BY DEF Handles, Remakes, Proves, Claims, AddsKey, Opens, Formats, Joins, Records,
      Flags, Ends, Advances
<1>3. CASE rot.pc = "idle"
  BY <1>2, <1>3 DEF Changing
<1>4. CASE rot.pc # "idle"
  <2>1. /\ \A q \in DOMAIN req : ~req[q].enc
        /\ upd.pc = "idle" /\ rot.ours \subseteq Disk /\ \A d \in rot.ours : disk[d].kind = "luks"
    BY <1>4 DEF Changing, Typed, RotType
  <2>2. disk[r].kind # "luks" /\ req[r].pc \notin {"prove", "claim", "key", "open"}
    BY <2>1 DEF Asked
  <2>3. Remakes(r) \/ Formats(r) \/ Joins(r) \/ Records(r) \/ Flags(r) \/ Ends(r)
    BY <2>2 DEF Handles, Proves, Claims, AddsKey, Opens
  <2>4. \A q \in DOMAIN req' : ~req'[q].enc
    <3>1. ASSUME Keeps(r)
          PROVE  \A q \in DOMAIN req' : ~req'[q].enc
      BY <2>1, <3>1 DEF Keeps, Moves
    <3>2. ASSUME Drops(r)
          PROVE  \A q \in DOMAIN req' : ~req'[q].enc
      BY <2>1, <3>2 DEF Drops
    <3>. QED
      BY <2>3, <3>1, <3>2 DEF Remakes, Formats, Joins, Records, Advances, Flags,
          Ends
  <2>5. \A e \in Disk : e # r => disk'[e] = disk[e]
    BY <2>3 DEF Remakes, Formats, Joins, Records, Advances, Flags, Ends, Only
  <2>6. \A d \in rot.ours : disk'[d] = disk[d]
    BY <2>1, <2>2, <2>5
  <2>7. db'.verifier = db.verifier
    BY <2>3 DEF Remakes, Formats, Joins, Records, Flags, Ends
  <2>8. ASSUME NEW w \in db'.rows, ~w.deleted, disk'[w.disk].part = w.part, disk'[w.disk].kind = "luks"
        PROVE  \E v \in InService(db.rows) : v.disk = w.disk
    <3>1. CASE w \in db.rows
      BY <1>1, <2>8, <3>1, StillInService DEF Same
    <3>2. CASE w \notin db.rows
      <4>1. CASE Remakes(r) \/ Formats(r) \/ Joins(r) \/ Ends(r)
        BY <4>1, <3>2, <2>8 DEF Remakes, Formats, Joins, Ends
      <4>2. CASE Records(r)
        BY <4>2, <3>2, <2>2, <2>8, NewRowLocked
      <4>3. CASE Flags(r)
        <5>1. PICK v \in db.rows : Same(v, w) /\ w.deleted = v.deleted
          BY <4>3, <3>2, <2>8 DEF Flags, Alike
        <5>. QED
          BY <1>1, <2>8, <5>1, StillInService
      <4>. QED
        BY <2>3, <4>1, <4>2, <4>3
    <3>. QED
      BY <3>1, <3>2
  <2>. QED
    BY <1>2, <2>1, <2>4, <2>6, <2>7, <2>8, ChangingKept
<1>. QED
  BY <1>3, <1>4

\* A change begins on every encrypted volume of the table.
LEMMA TurnsChanging ==
    ASSUME KInv, NEW next \in Pass, NEW cur, Turns(next, cur)
    PROVE  Changing'
<1>. USE DEF KInv
<1>1. \A d \in ours : d \in Disk /\ disk[d].here /\ disk[d].kind = "luks" /\ disk[d].label # 0
  BY DEF ours
<1>2. ASSUME NEW v \in InService(db.rows)
      PROVE  v.disk \in ours
  <2>1. v \in db.rows /\ ~v.deleted /\ Locked(v) /\ v \in Rows /\ v.disk \in Disk
    BY DEF InService, Locked, Current, Rows, Row, Typed, DbType
  <2>2. ~Converting(v.id)
    <3>1. \A r \in DOMAIN req : req[r].convert = 0
      BY DEF Turns, Asked
    <3>2. v.id # 0
      BY <2>1 DEF Dated
    <3>. QED
      BY <3>1, <3>2 DEF Converting
  <2>3. PICK w \in fleet : Same(v, w) /\ ~w.deleted
    BY <2>1, <2>2 DEF Agreed, Turns
  <2>4. volumeDiskIsAttached(w)
    <3>1. absentVolumeIds = {}
      BY DEF Turns
    <3>2. ASSUME ~volumeDiskIsAttached(w)
          PROVE  FALSE
      <4>1. w.id \in absentVolumeIds
        BY <2>3, <3>2 DEF absentVolumeIds
      <4>. QED
        BY <3>1, <4>1
    <3>. QED
      BY <3>2
  <2>5. disk[v.disk].here
    BY <2>3, <2>4 DEF volumeDiskIsAttached, Same
  <2>6. disk[v.disk].label # 0
    BY <2>1 DEF Plated
  <2>. QED
    BY <2>1, <2>5, <2>6 DEF ours, Locked
<1>3. UNCHANGED <<disk, db, req, upd>>
  BY DEF Turns, Rest
<1>4. InService(db.rows)' = InService(db.rows)
  BY <1>3 DEF InService
<1>5. ours = {} \/ rot'.pc = "add"
  BY DEF Turns
<1>6. /\ rot'.pc \in {"record", "add"} /\ rot'.next = next /\ rot'.cur = cur /\ next # cur
      /\ rot'.ours = ours /\ rot'.todo = ours
      /\ \A r \in DOMAIN req : ~req[r].enc
      /\ upd.pc = "idle"
  BY DEF Turns
<1>. HIDE DEF ours
<1>. QED
  BY <1>1, <1>2, <1>3, <1>4, <1>5, <1>6 DEF Changing

\* One more disk of the change opens.
LEMMA AddsChanging ==
    ASSUME KInv, NEW d \in Disk, Adds(d)
    PROVE  Changing'
<1>. USE DEF KInv
<1>1. /\ rot.pc = "add" /\ d \in rot.todo /\ rot.ours \subseteq Disk
      /\ \A e \in Disk : disk'[e].kind = disk[e].kind /\ disk'[e].label = disk[e].label /\ disk'[e].part = disk[e].part
                         /\ disk[e].slots \subseteq disk'[e].slots
      /\ rot.next \in disk'[d].slots
      /\ rot'.pc \in {"record", "add"} /\ (rot'.pc = "record" => rot.todo = {d})
      /\ rot'.next = rot.next /\ rot'.cur = rot.cur /\ rot'.ours = rot.ours /\ rot'.todo = rot.todo \ {d}
      /\ UNCHANGED <<db, req, upd>>
  BY DEF Adds, Only, Rest, Typed, RotType
<1>2. \A v \in InService(db.rows)' : v \in InService(db.rows)
  <2>1. \A v \in db.rows : v.disk \in Disk
    BY DEF Typed, DbType, Row
  <2>. QED
    BY <1>1, <2>1 DEF InService
<1>3. \A e \in rot'.ours : (rot'.pc = "add" /\ e \in rot'.todo) \/ rot'.next \in disk'[e].slots
  <2>1. SUFFICES ASSUME NEW e \in rot.ours
                 PROVE  (rot'.pc = "add" /\ e \in rot'.todo) \/ rot'.next \in disk'[e].slots
    BY <1>1
  <2>2. CASE e = d
    BY <1>1, <2>2
  <2>3. CASE e # d /\ e \in rot.todo
    <3>1. rot'.pc = "add" /\ e \in rot'.todo
      BY <1>1, <2>3
    <3>. QED
      BY <3>1
  <2>4. CASE e # d /\ e \notin rot.todo
    BY <1>1, <2>4 DEF Changing
  <2>. QED
    BY <2>2, <2>3, <2>4
<1>4. \A e \in rot'.ours : disk'[e].kind = "luks" /\ disk'[e].label # 0
  BY <1>1 DEF Changing
<1>5. \A v \in InService(db.rows)' : v.disk \in rot'.ours
  BY <1>1, <1>2 DEF Changing
<1>. QED
  BY <1>1, <1>3, <1>4, <1>5 DEF Changing

\* The new passphrase goes on record.
LEMMA NotesChanging ==
    ASSUME KInv, Notes
    PROVE  Changing'
<1>1. /\ rot.pc = "record" /\ db'.verifier = rot.next /\ rot'.pc = "reseal"
      /\ rot'.next = rot.next /\ rot'.cur = rot.cur /\ rot'.ours = rot.ours
      /\ UNCHANGED <<disk, req, upd>>
  BY DEF Notes, Rest
<1>. QED
  BY <1>1 DEF Changing, KInv

\* The old one is due.
LEMMA ResealsChanging ==
    ASSUME KInv, Reseals
    PROVE  Changing'
<1>1. CASE rot' = NoRot
  BY <1>1, NoRotType DEF Changing
<1>2. CASE rot' # NoRot
  <2>1. /\ rot.pc = "reseal" /\ rot'.pc = "retire" /\ db'.verifier = db.verifier
        /\ rot'.next = rot.next /\ rot'.cur = rot.cur /\ rot'.ours = rot.ours
        /\ UNCHANGED <<disk, req, upd>>
    BY <1>2 DEF Reseals, Rest
  <2>. QED
    BY <2>1 DEF Changing, KInv
<1>. QED
  BY <1>1, <1>2

\* It goes from one disk; the new one stays.
LEMMA StripsChanging ==
    ASSUME KInv, NEW d \in Disk, Strips(d)
    PROVE  Changing'
<1>1. CASE rot' = NoRot
  BY <1>1, NoRotType DEF Changing
<1>2. CASE rot' # NoRot
  <2>1. /\ rot.pc = "retire" /\ rot'.pc = "retire" /\ db' = db
        /\ rot'.next = rot.next /\ rot'.cur = rot.cur /\ rot'.ours = rot.ours
        /\ UNCHANGED <<req, upd>> /\ rot.ours \subseteq Disk
    BY <1>2 DEF Strips, Rest, KInv, Typed, RotType
  <2>2. \A e \in Disk : disk'[e].kind = disk[e].kind /\ disk'[e].label = disk[e].label
    BY DEF Strips, Only
  <2>3. \A e \in Disk : rot.next \in disk[e].slots => rot.next \in disk'[e].slots
    BY <2>1 DEF Strips, Only, KInv, Changing
  <2>. QED
    BY <2>1, <2>2, <2>3 DEF Changing, KInv
<1>. QED
  BY <1>1, <1>2

\* A change goes on as it began.
LEMMA ChangingStep ==
    ASSUME KInv, Step
    PROVE  Changing'
<1>. USE DEF KInv
<1>1. ASSUME NEW w \in InService(db.rows), \A e \in Disk : disk'[e].part = disk[e].part /\ disk'[e].kind = disk[e].kind
      PROVE  disk'[w.disk].part = w.part
  BY <1>1 DEF InService, Typed, DbType, Row
\* A step that touches no row, no request and no key.
<1>2. ASSUME rot' = rot, upd' = upd, db'.rows = db.rows,
             \A q \in DOMAIN req' : q \in DOMAIN req /\ req'[q].enc = req[q].enc,
             \A e \in Disk : disk'[e].part = disk[e].part /\ disk'[e].kind = disk[e].kind
                             /\ disk'[e].label = disk[e].label /\ disk'[e].slots = disk[e].slots,
             db.verifier # NoPass => db'.verifier = db.verifier
      PROVE  Changing'
  <2>1. rot.ours \subseteq Disk /\ \A w \in db.rows : w.disk \in Disk
    BY DEF Typed, RotType, DbType, Row
  <2>2. \A w \in db'.rows : ~w.deleted /\ disk'[w.disk].part = w.part /\ disk'[w.disk].kind = "luks" =>
            w \in InService(db.rows)
    BY <1>2, <2>1 DEF InService
  <2>3. \A d \in rot.ours : disk'[d].kind = disk[d].kind /\ disk'[d].label = disk[d].label
                            /\ disk[d].slots \subseteq disk'[d].slots
    BY <1>2, <2>1
  <2>. QED
    BY <1>2, <2>2, <2>3, ChangingKept DEF Changing
<1>3. ASSUME NEW r \in DOMAIN req, Handles(r)
      PROVE  Changing'
  BY <1>3, HandlesChanging
<1>4. ASSUME NEW r \in DOMAIN req, Renames(r)
      PROVE  Changing'
  <2>1. \A q \in DOMAIN req' : q \in DOMAIN req /\ req'[q].enc = req[q].enc
    BY <1>4 DEF Renames, Keeps, Moves
  <2>. QED
    BY <1>2, <1>4, <2>1 DEF Renames
<1>5. ASSUME NEW r, Starts(r)
      PROVE  Changing'
  <2>1. CASE rot.pc = "idle"
    BY <1>5, <2>1 DEF Starts, Changing
  <2>2. CASE rot.pc # "idle"
    <3>1. \A q \in DOMAIN req' : ~req'[q].enc
      BY <1>5, <2>2 DEF Starts, Changing
    <3>2. /\ rot' = rot /\ upd' = upd /\ db' = db /\ disk' = disk
      BY <1>5 DEF Starts
    <3>3. \A w \in db'.rows : ~w.deleted /\ disk'[w.disk].part = w.part /\ disk'[w.disk].kind = "luks" =>
              w \in InService(db.rows)
      BY <3>2 DEF InService
    <3>. QED
      BY <3>1, <3>2, <3>3, ChangingKept DEF Changing
  <2>. QED
    BY <2>1, <2>2
<1>6. ASSUME NEW d \in Disk, Flaps(d)
      PROVE  Changing'
  BY <1>2, <1>6 DEF Flaps, Rest
<1>7. ASSUME NEW v, NEW del, Updates(v, del)
      PROVE  Changing'
  BY <1>7 DEF Updates, Changing
<1>8. CASE MarksRows \/ MarksFleet
  BY <1>8 DEF MarksRows, MarksFleet, Changing
<1>9. ASSUME NEW p \in Pass, Seals(p)
      PROVE  Changing'
  <2>1. db.verifier # NoPass => db'.verifier = db.verifier
    BY <1>9 DEF Seals, assertFleetRecoveryPassphrase
  <2>. QED
    BY <1>2, <1>9, <2>1 DEF Seals, Rest
<1>10. CASE Audits
  BY <1>2, <1>10 DEF Audits, Rest
<1>11. CASE UNCHANGED vars
  BY <1>2, <1>11 DEF vars
<1>12. CASE Stops
  BY <1>12, NoRotType DEF Stops, Changing
<1>13. CASE Crashes \/ Restores
  BY <1>13 DEF Crashes, Restores, Boots, Changing
<1>. QED
  BY <1>3, <1>4, <1>5, <1>6, <1>7, <1>8, <1>9, <1>10, <1>11, <1>12, <1>13,
     TurnsChanging, AddsChanging, NotesChanging, ResealsChanging, StripsChanging DEF
         Step, Provisions, Converts

\* Nothing Together speaks of changes, but that containers lose all their keys.
Tame ==
    /\ ~ragged' => ~ragged
    /\ \A d \in Keyed' : d \in Keyed /\ disk'[d].slots = disk[d].slots
    /\ db'.verifier = db.verifier /\ db'.audit = db.audit /\ UNCHANGED <<token, backup, rot>>
    /\ \A q \in DOMAIN req' :
          /\ req'[q].pc = "claim" => q \in DOMAIN req /\ req[q].pc = "claim" /\ req'[q].pass = req[q].pass
          /\ req'[q].enc /\ req'[q].pc \in {"part", "key"} =>
                 q \in DOMAIN req /\ req[q].enc /\ req[q].pc \in {"part", "key"}

\* Such a step keeps what Together says.
LEMMA TameTogether ==
    ASSUME Together, Tame
    PROVE  Together'
<1>1. SUFFICES ASSUME ~ragged'
               PROVE  (OneKey /\ Vouched /\ Settled /\ Halfway /\ Covered /\ Proven)'
  BY DEF Together
<1>2. OneKey /\ Vouched /\ Settled /\ Halfway /\ Covered /\ Proven
  BY <1>1 DEF Tame, Together
<1>3. /\ \A d \in Keyed' : d \in Keyed /\ disk'[d].slots = disk[d].slots
      /\ \A p : OpensEvery(p) => OpensEvery(p)'
  BY DEF Tame, OpensEvery
<1>4. db'.verifier = db.verifier /\ db'.audit = db.audit /\ token' = token /\ backup' = backup /\ rot' = rot
  BY DEF Tame
<1>. HIDE DEF Keyed, OpensEvery
<1>5. OneKey' /\ Vouched'
  BY <1>2, <1>3, <1>4 DEF OneKey, Vouched
<1>6. Settled'
  BY <1>2, <1>3, <1>4 DEF Settled, AllOrNone
<1>7. Halfway' /\ Covered'
  BY <1>2, <1>3, <1>4 DEF Halfway, Covered
<1>8. Proven'
  <2>1. SUFFICES ASSUME NEW q \in DOMAIN req'
                 PROVE  (/\ req[q].pc = "claim" /\ db.verifier \in {NoPass, req[q].pass} => OpensEvery(req[q].pass)
                         /\ req[q].pc = "claim" /\ db.verifier = NoPass => Keyed = {}
                         /\ req[q].enc /\ req[q].pc \in {"part", "key"} => OpensEvery(db.verifier))'
    BY DEF Proven
  <2>2. CASE req'[q].pc = "claim"
    <3>1. q \in DOMAIN req /\ req[q].pc = "claim" /\ req'[q].pass = req[q].pass
      BY <2>2 DEF Tame
    <3>2. db.verifier \in {NoPass, req[q].pass} => OpensEvery(req[q].pass)
      BY <1>2, <3>1 DEF Proven
    <3>3. db.verifier = NoPass => Keyed' = {}
      BY <1>2, <1>3, <3>1 DEF Proven
    <3>. QED
      BY <1>3, <1>4, <2>2, <3>1, <3>2, <3>3
  <2>3. CASE req'[q].enc /\ req'[q].pc \in {"part", "key"}
    <3>1. OpensEvery(db.verifier)
      BY <1>2, <2>3 DEF Tame, Proven
    <3>. QED
      BY <1>3, <1>4, <2>3, <3>1
  <2>. QED
    BY <2>2, <2>3
<1>. QED
  BY <1>5, <1>6, <1>7, <1>8

\* A disk that is encrypted and has a slot is Keyed.
LEMMA KeyedPass ==
    ASSUME Typed, NEW d \in Disk, NEW p \in disk[d].slots, disk[d].kind = "luks"
    PROVE  d \in Keyed /\ p \in Pass /\ p # NoPass
BY KeysAssumption DEF Typed, Keyed, NoPass

\* The container gets the passphrase the others have.
LEMMA KeysTogether ==
    ASSUME KInv, NEW r \in DOMAIN req, AddsKey(r)
    PROVE  Together'
<1>. USE DEF KInv
<1>1. SUFFICES ASSUME ~ragged'
               PROVE  (OneKey /\ Vouched /\ Settled /\ Halfway /\ Covered /\ Proven)'
  BY DEF Together
<1>2. /\ r \in Disk /\ req[r].enc /\ req[r].pc = "key" /\ disk[r].slots = {} /\ req[r].pass = db.verifier
      /\ db.verifier # NoPass
      /\ Only(r) /\ disk'[r].slots = {db.verifier} /\ disk'[r].kind = disk[r].kind
      /\ Moves(r) /\ req'[r].pc = "open"
      /\ UNCHANGED <<db, backup, token, rot, ragged>>
  BY DEF AddsKey, Keeps, Asked, Typed, ReqType, Opened
<1>3. db.verifier \in Pass
  BY <1>2 DEF Typed, DbType
<1>4. OpensEvery(db.verifier) /\ AllOrNone /\ Vouched /\ rot.pc = "idle"
  BY <1>1, <1>2 DEF Together, Proven, Settled, Changing
<1>5. \A d \in Keyed' : (d = r \/ (d \in Keyed /\ disk'[d].slots = disk[d].slots)) /\ d \in Disk
  BY <1>2 DEF Keyed, Only
<1>6. OpensEvery(db.verifier)'
  BY <1>2, <1>4, <1>5 DEF OpensEvery
<1>7. OneKey' /\ Vouched' /\ Halfway' /\ Covered'
  BY <1>2, <1>3, <1>4, <1>6 DEF OneKey, Vouched, Halfway, Covered
<1>8. Settled'
  BY <1>2, <1>4, <1>5, <1>6 DEF Settled, AllOrNone, OpensEvery
<1>9. Proven'
  BY <1>2, <1>6 DEF Proven, Moves
<1>. QED
  BY <1>7, <1>8, <1>9

\* A passphrase that opens one container, and is on record, opens them all.
LEMMA ProvesTogether ==
    ASSUME KInv, NEW r \in DOMAIN req, Proves(r)
    PROVE  Together'
<1>. USE DEF KInv
<1>1. SUFFICES ASSUME ~ragged'
               PROVE  (OneKey /\ Vouched /\ Settled /\ Halfway /\ Covered /\ Proven)'
  BY DEF Together
<1>. DEFINE p == req'[r].pass
<1>2. /\ r \in DOMAIN req /\ req[r].enc /\ Moves(r) /\ p \in Pass
      /\ req'[r].pc \in {"claim", "part"} /\ (req'[r].pc = "part" => db.verifier # NoPass)
      /\ UNCHANGED <<disk, db, backup, token, rot>> /\ ~ragged /\ SeesAll
      /\ assertPassphraseOpensTheFleet(p) /\ assertFleetRecoveryPassphrase(p)
  BY <1>1 DEF Proves, Advances, Keeps
<1>3. OneKey /\ Vouched /\ AllOrNone /\ Proven /\ rot.pc = "idle"
  BY <1>2 DEF Together, Settled, Changing
<1>4. Keyed' = Keyed /\ \A x : OpensEvery(x)' <=> OpensEvery(x)
  BY <1>2 DEF Keyed, OpensEvery
<1>5. OneKey' /\ Vouched' /\ Settled' /\ Halfway' /\ Covered'
  BY <1>2, <1>3, <1>4 DEF OneKey, Vouched, Settled, AllOrNone, Halfway, Covered
<1>6. ASSUME db.verifier = p
      PROVE  OpensEvery(p)
  <2>1. CASE ours = {}
    BY <1>2, <2>1 DEF SeesAll, OpensEvery
  <2>2. CASE ours # {}
    <3>1. PICK d \in ours : testPassphrase(d, p) = "opens"
      BY <1>2, <2>2 DEF assertPassphraseOpensTheFleet
    <3>2. p \in disk[d].slots /\ disk[d].kind = "luks" /\ d \in Disk
      BY <3>1 DEF testPassphrase, ours
    <3>3. d \in Keyed
      BY <3>2, KeyedPass
    <3>. QED
      BY <1>3, <1>6, <3>2, <3>3 DEF AllOrNone, OpensEvery
  <2>. QED
    BY <2>1, <2>2
<1>7. ASSUME db.verifier = NoPass
      PROVE  Keyed = {} /\ OpensEvery(p)
  <2>1. ours = {}
    BY <1>2, <1>7 DEF assertFleetRecoveryPassphrase
  <2>. QED
    BY <1>2, <2>1 DEF SeesAll, OpensEvery
<1>8. req'[r].pc = "part" => OpensEvery(db.verifier)
  BY <1>2, <1>6 DEF assertFleetRecoveryPassphrase
<1>9. Proven'
  <2>. HIDE DEF Keyed, OpensEvery
  <2>1. db' = db /\ DOMAIN req' = DOMAIN req
    BY <1>2 DEF Moves
  <2>2. SUFFICES ASSUME NEW q \in DOMAIN req
                 PROVE  /\ req'[q].pc = "claim" /\ db.verifier \in {NoPass, req'[q].pass} => OpensEvery(req'[q].pass)
                        /\ req'[q].pc = "claim" /\ db.verifier = NoPass => Keyed = {}
                        /\ req'[q].enc /\ req'[q].pc \in {"part", "key"} => OpensEvery(db.verifier)
    BY <1>4, <2>1 DEF Proven
  <2>3. CASE q = r
    BY <1>2, <1>6, <1>7, <1>8, <2>3
  <2>4. CASE q # r
    <3>1. req'[q] = req[q]
      BY <1>2, <2>4 DEF Moves
    <3>. QED
      BY <1>3, <3>1 DEF Proven
  <2>. QED
    BY <2>3, <2>4
<1>. QED
  BY <1>5, <1>9

\* It goes on record.
LEMMA ClaimsTogether ==
    ASSUME KInv, NEW r \in DOMAIN req, Claims(r)
    PROVE  Together'
<1>. USE DEF KInv
<1>1. SUFFICES ASSUME ~ragged'
               PROVE  (OneKey /\ Vouched /\ Settled /\ Halfway /\ Covered /\ Proven)'
  BY DEF Together
<1>. DEFINE p == req[r].pass
<1>2. /\ req[r].enc /\ Moves(r) /\ p \in Pass /\ req[r].pc = "claim" /\ req'[r].pc = "part"
      /\ db.verifier \in {NoPass, p} /\ db'.verifier = p /\ db'.audit = db.audit
      /\ UNCHANGED <<disk, backup, token, rot, ragged>>
  BY <1>1 DEF Claims, Advances, Keeps
<1>3. OneKey /\ Vouched /\ AllOrNone /\ Proven /\ rot.pc = "idle"
  BY <1>1, <1>2 DEF Together, Settled, Changing
<1>4. Keyed' = Keyed /\ \A x : OpensEvery(x)' <=> OpensEvery(x)
  BY <1>2 DEF Keyed, OpensEvery
<1>5. OpensEvery(p) /\ (db.verifier = NoPass => Keyed = {})
  BY <1>2, <1>3 DEF Proven
<1>6. OneKey' /\ Vouched' /\ Halfway' /\ Covered'
  BY <1>2, <1>3, <1>4, <1>5 DEF OneKey, Vouched, Halfway, Covered
<1>7. AllOrNone'
  <2>1. \A d, e \in Keyed : p \in disk[e].slots
    BY <1>5 DEF OpensEvery
  <2>2. backup.verifier # p => \A d \in Keyed : backup.verifier \notin disk[d].slots
    BY <1>2, <1>3, <1>5 DEF AllOrNone
  <2>. QED
    BY <1>2, <1>4, <2>1, <2>2 DEF AllOrNone
<1>8. Proven'
  <2>. HIDE DEF Keyed, OpensEvery
  <2>1. p # NoPass
    BY <1>2, KeysAssumption DEF NoPass
  <2>2. SUFFICES ASSUME NEW q \in DOMAIN req
                 PROVE  req'[q].pc = "claim" /\ req'[q].pass = p => OpensEvery(req'[q].pass)
    BY <1>2, <1>4, <1>5, <2>1 DEF Proven, Moves
  <2>. QED
    BY <1>5
<1>. QED
  BY <1>6, <1>7, <1>8 DEF Settled

\* A change begins: the one on record is the one it will retire.
LEMMA TurnsTogether ==
    ASSUME KInv, NEW next \in Pass, NEW cur \in Pass \cup {NoPass}, Turns(next, cur)
    PROVE  Together'
<1>. USE DEF KInv
<1>1. SUFFICES ASSUME ~ragged'
               PROVE  (OneKey /\ Vouched /\ Settled /\ Halfway /\ Covered /\ Proven)'
  BY DEF Together
<1>2. /\ db.verifier # NoPass => cur = db.verifier
      /\ rot.pc = "idle" /\ rot'.pc \in {"record", "add"} /\ rot'.cur = cur
      /\ UNCHANGED <<disk, db, req, backup, token, ragged>>
  BY DEF Turns, Rest
<1>3. OneKey /\ Vouched /\ AllOrNone /\ Proven
  BY <1>1, <1>2 DEF Together, Settled
<1>4. Keyed' = Keyed /\ \A x : OpensEvery(x)' <=> OpensEvery(x)
  BY <1>2 DEF Keyed, OpensEvery
<1>5. OneKey' /\ Vouched' /\ Settled' /\ Covered' /\ Proven'
  BY <1>2, <1>3, <1>4 DEF OneKey, Vouched, Settled, AllOrNone, Covered, Proven
<1>6. ASSUME NEW d \in Keyed, backup.verifier \in disk[d].slots
      PROVE  backup.verifier = cur
  <2>1. backup.verifier = db.verifier
    BY <1>3, <1>6 DEF AllOrNone
  <2>2. backup.verifier # NoPass
    BY <1>6, KeyedPass DEF Keyed
  <2>. QED
    BY <1>2, <2>1, <2>2
<1>7. Halfway'
  BY <1>2, <1>4, <1>6 DEF Halfway
<1>. QED
  BY <1>5, <1>7

\* One more container opens with the new one; none opens with less.
LEMMA AddsTogether ==
    ASSUME KInv, NEW d \in Disk, Adds(d)
    PROVE  Together'
<1>. USE DEF KInv
<1>1. SUFFICES ASSUME ~ragged'
               PROVE  (OneKey /\ Vouched /\ Settled /\ Halfway /\ Covered /\ Proven)'
  BY DEF Together
<1>2. /\ rot.pc = "add" /\ d \in rot.todo /\ Only(d)
      /\ disk'[d].slots = disk[d].slots \cup {rot.next} /\ disk'[d].kind = disk[d].kind
      /\ rot'.pc \in {"record", "add"} /\ rot'.next = rot.next /\ rot'.cur = rot.cur
      /\ rot'.ours = rot.ours /\ rot'.todo = rot.todo \ {d}
      /\ UNCHANGED <<db, req, backup, token, ragged>>
  BY DEF Adds, Rest
<1>3. d \in rot.ours
  BY <1>2 DEF Typed
<1>4. rot'.todo # rot'.ours /\ \A r \in DOMAIN req : ~req[r].enc /\ req[r].pc # "claim"
  BY <1>2, <1>3 DEF Changing, Asked
<1>5. d \in Keyed
  BY <1>2, <1>3 DEF Changing, Plated, Keyed
<1>6. \A e \in Disk : disk'[e].kind = disk[e].kind /\ disk[e].slots \subseteq disk'[e].slots
                      /\ disk'[e].slots \subseteq disk[e].slots \cup {rot.next} /\ (e # d => disk'[e] = disk[e])
  BY <1>2 DEF Only
<1>7. Keyed' = Keyed /\ Keyed \subseteq Disk
  BY <1>5, <1>6 DEF Keyed
<1>8. OneKey /\ Vouched /\ Halfway
  BY <1>1, <1>2 DEF Together
<1>9. \A p : OpensEvery(p) => OpensEvery(p)'
  BY <1>6, <1>7 DEF OpensEvery
<1>10. OneKey' /\ Vouched' /\ Settled' /\ Covered' /\ Proven'
  BY <1>2, <1>4, <1>8, <1>9 DEF OneKey, Vouched, Settled, Covered, Proven
<1>11. Halfway'
  <2>1. SUFFICES ASSUME NEW e \in Keyed, backup.verifier \in disk'[e].slots, backup.verifier # rot.next
                 PROVE  backup.verifier = rot.cur
    BY <1>2, <1>7 DEF Halfway
  <2>2. backup.verifier \in disk[e].slots
    BY <1>6, <1>7, <2>1
  <2>. QED
    BY <1>2, <1>8, <2>1, <2>2 DEF Halfway
<1>. QED
  BY <1>10, <1>11

\* All the change knows of open with the new one.
LEMMA NotesTogether ==
    ASSUME KInv, Notes
    PROVE  Together'
<1>. USE DEF KInv
<1>1. SUFFICES ASSUME ~ragged'
               PROVE  (OneKey /\ Vouched /\ Settled /\ Halfway /\ Covered /\ Proven)'
  BY DEF Together
<1>2. /\ rot.pc = "record" /\ rot'.pc = "reseal" /\ db'.verifier = rot.next /\ db'.audit = db.audit
      /\ rot'.next = rot.next /\ rot'.cur = rot.cur /\ rot'.ours = rot.ours /\ rot'.todo = rot.todo
      /\ UNCHANGED <<disk, req, backup, token>> /\ ~ragged /\ Keyed \subseteq rot.ours
  BY <1>1 DEF Notes, Rest
<1>3. OneKey /\ Halfway /\ \A r \in DOMAIN req : ~req[r].enc /\ req[r].pc # "claim"
  BY <1>2 DEF Together, Changing, Asked
<1>4. Keyed' = Keyed /\ \A x : OpensEvery(x)' <=> OpensEvery(x)
  BY <1>2 DEF Keyed, OpensEvery
<1>5. OpensEvery(rot.next)
  BY <1>2 DEF Changing, OpensEvery
<1>. QED
  BY <1>2, <1>3, <1>4, <1>5 DEF OneKey, Vouched, Settled, Halfway, Covered, Proven

\* Where none is to be retired, there is no container.
LEMMA ResealsTogether ==
    ASSUME KInv, Reseals
    PROVE  Together'
<1>. USE DEF KInv
<1>1. SUFFICES ASSUME ~ragged'
               PROVE  (OneKey /\ Vouched /\ Settled /\ Halfway /\ Covered /\ Proven)'
  BY DEF Together
<1>2. /\ rot.pc = "reseal" /\ db'.verifier = db.verifier /\ db'.audit = db.audit
      /\ UNCHANGED <<disk, req, backup, token>> /\ ~ragged /\ (rot.cur # NoPass \/ rot.ours = {})
  BY <1>1 DEF Reseals, Rest
<1>3. OneKey /\ Vouched /\ Halfway /\ Covered /\ Proven
  BY <1>2 DEF Together
<1>4. Keyed' = Keyed /\ \A x : OpensEvery(x)' <=> OpensEvery(x)
  BY <1>2 DEF Keyed, OpensEvery
<1>5. OneKey' /\ Vouched' /\ Proven'
  <2>. HIDE DEF Keyed
  <2>. QED
    BY <1>2, <1>3, <1>4 DEF OneKey, Vouched, Proven
<1>6. CASE rot' = NoRot
  <2>1. rot.ours = {} /\ rot'.pc = "idle"
    BY <1>2, <1>6, NoRotType DEF Reseals
  <2>2. Keyed' = {}
    BY <1>2, <1>3, <1>4, <2>1 DEF Covered
  <2>3. AllOrNone'
    BY <2>2 DEF AllOrNone
  <2>. QED
    BY <1>5, <2>1, <2>3 DEF Settled, Halfway, Covered
<1>7. CASE rot' # NoRot
  <2>1. /\ rot'.pc = "retire" /\ rot'.next = rot.next /\ rot'.cur = rot.cur /\ rot.cur # NoPass
        /\ rot'.ours = rot.ours /\ rot'.todo = rot.ours
    BY <1>7 DEF Reseals
  <2>2. Keyed \subseteq rot.ours
    BY <1>2, <1>3 DEF Covered
  <2>. QED
    BY <1>2, <1>3, <1>4, <1>5, <2>1, <2>2 DEF Settled, Halfway, Covered
<1>. QED
  BY <1>6, <1>7

\* The old passphrase goes from one more container, in the end from all.
LEMMA StripsTogether ==
    ASSUME KInv, NEW d \in Disk, Strips(d)
    PROVE  Together'
<1>. USE DEF KInv
<1>1. SUFFICES ASSUME ~ragged'
               PROVE  (OneKey /\ Vouched /\ Settled /\ Halfway /\ Covered /\ Proven)'
  BY DEF Together
<1>2. /\ rot.pc = "retire" /\ d \in rot.todo /\ Only(d) /\ ~ragged
      /\ disk'[d].slots = disk[d].slots \ {rot.cur} /\ disk'[d].kind = disk[d].kind
      /\ UNCHANGED <<db, req, backup, token>>
  BY <1>1 DEF Strips, Rest
<1>3. Halfway /\ Covered
  BY <1>2 DEF Together
<1>4. /\ rot.next \in Pass /\ rot.next # rot.cur /\ db.verifier = rot.next
      /\ \A r \in DOMAIN req : ~req[r].enc /\ req[r].pc # "claim"
      /\ \A e \in rot.ours : rot.next \in disk[e].slots
  BY <1>2 DEF Changing, Asked
<1>5. \A e \in Keyed' : e \in Keyed /\ disk'[e].slots \subseteq disk[e].slots /\ (e # d => disk'[e] = disk[e])
                        /\ rot.next \in disk'[e].slots
  <2>1. \A e \in Keyed' : e \in Keyed /\ disk'[e].slots \subseteq disk[e].slots /\ (e # d => disk'[e] = disk[e])
    BY <1>2 DEF Keyed, Only
  <2>2. \A e \in Keyed : rot.next \in disk[e].slots
    BY <1>2, <1>3, <1>4 DEF Covered
  <2>. QED
    BY <1>2, <1>4, <2>1, <2>2
<1>6. OpensEvery(db.verifier)'
  BY <1>2, <1>4, <1>5 DEF OpensEvery
<1>7. db'.verifier \in Pass
  BY <1>2, <1>4
<1>8. OneKey' /\ Vouched' /\ Proven'
  BY <1>2, <1>4, <1>6, <1>7 DEF OneKey, Vouched, Proven
<1>9. ASSUME NEW e \in Keyed', backup.verifier \in disk'[e].slots, backup.verifier # rot.next
      PROVE  backup.verifier = rot.cur /\ e \in rot.todo /\ e # d
  <2>1. e \in Keyed /\ backup.verifier \in disk[e].slots
    BY <1>5, <1>9
  <2>2. backup.verifier = rot.cur /\ e \in rot.todo
    BY <1>2, <1>3, <1>9, <2>1 DEF Halfway
  <2>. QED
    BY <1>2, <1>9, <2>2
<1>10. CASE rot.todo = {d}
  <2>1. rot'.pc = "idle"
    BY <1>10, NoRotType DEF Strips
  <2>2. AllOrNone'
    <3>1. \A e \in Keyed' : db'.verifier \in disk'[e].slots
      BY <1>6 DEF OpensEvery
    <3>2. \A e \in Keyed' : backup.verifier # rot.next => backup.verifier \notin disk'[e].slots
      BY <1>9, <1>10
    <3>. QED
      BY <1>2, <1>4, <3>1, <3>2 DEF AllOrNone
  <2>. QED
    BY <1>8, <2>1, <2>2 DEF Settled, Halfway, Covered
<1>11. CASE rot.todo # {d}
  <2>1. d \in Keyed'
    <3>1. d \in rot.ours
      BY <1>2 DEF Typed
    <3>2. rot.next \in disk'[d].slots /\ disk'[d].kind = "luks"
      BY <1>2, <1>4, <3>1 DEF Changing
    <3>. QED
      BY <3>2 DEF Keyed
  <2>2. rot.next \in disk'[d].slots
    BY <1>5, <2>1
  <2>3. /\ rot'.pc = "retire" /\ rot'.next = rot.next /\ rot'.cur = rot.cur
        /\ rot'.ours = rot.ours /\ rot'.todo = rot.todo \ {d}
    BY <1>11, <2>2 DEF Strips
  <2>4. Settled' /\ Covered'
    <3>1. Keyed' \subseteq rot.ours
      BY <1>2, <1>3, <1>5 DEF Covered
    <3>. QED
      BY <1>2, <1>3, <2>3, <3>1 DEF Settled, Covered
  <2>5. Halfway'
    BY <1>2, <1>9, <2>3 DEF Halfway
  <2>. QED
    BY <1>8, <2>4, <2>5
<1>. QED
  BY <1>10, <1>11

\* A change that is cut short before it touched a disk changed nothing.
LEMMA StopsTogether ==
    ASSUME KInv, Stops
    PROVE  Together'
<1>1. SUFFICES ASSUME ~ragged'
               PROVE  (OneKey /\ Vouched /\ Settled /\ Halfway /\ Covered /\ Proven)'
  BY DEF Together
<1>2. /\ rot.pc = "add" /\ rot.todo = rot.ours /\ rot'.pc = "idle" /\ ~ragged
      /\ UNCHANGED <<disk, db, req, backup, token>>
  BY <1>1, NoRotType DEF Stops, Rest
<1>3. OneKey /\ Vouched /\ AllOrNone /\ Proven
  BY <1>2 DEF KInv, Together, Settled
<1>4. Keyed' = Keyed /\ \A x : OpensEvery(x)' <=> OpensEvery(x)
  BY <1>2 DEF Keyed, OpensEvery
<1>. QED
  BY <1>2, <1>3, <1>4 DEF OneKey, Vouched, Settled, AllOrNone, Halfway, Covered,
      Proven

\* An audit that saw every container.
LEMMA AuditsTogether ==
    ASSUME KInv, Audits
    PROVE  Together'
<1>1. SUFFICES ASSUME ~ragged'
               PROVE  (OneKey /\ Vouched /\ Settled /\ Halfway /\ Covered /\ Proven)'
  BY DEF Together
<1>2. /\ db'.verifier = db.verifier /\ ~ragged /\ SeesAll
      /\ UNCHANGED <<disk, req, backup, token, rot>>
  BY <1>1 DEF Audits, Rest
<1>3. OneKey /\ Vouched /\ Settled /\ Halfway /\ Covered /\ Proven
  BY <1>2 DEF KInv, Together
<1>4. Keyed' = Keyed /\ \A x : OpensEvery(x)' <=> OpensEvery(x)
  BY <1>2 DEF Keyed, OpensEvery
<1>5. db'.audit.healthy => OpensEvery(db.verifier)
  BY <1>2 DEF Audits, SeesAll, OpensEvery
<1>. HIDE DEF OpensEvery, Keyed
<1>. QED
  BY <1>2, <1>3, <1>4, <1>5 DEF OneKey, Vouched, Settled, AllOrNone, Halfway,
      Covered, Proven

\* The passphrase on record is handed back, or the first there is.
LEMMA SealsTogether ==
    ASSUME KInv, NEW p \in Pass, Seals(p)
    PROVE  Together'
<1>1. SUFFICES ASSUME ~ragged'
               PROVE  (OneKey /\ Vouched /\ Settled /\ Halfway /\ Covered /\ Proven)'
  BY DEF Together
<1>2. /\ db'.verifier = p /\ db'.audit = db.audit /\ ~ragged /\ SeesAll
      /\ UNCHANGED <<disk, req, backup, token, rot>>
  BY <1>1 DEF Seals, Rest
<1>3. OneKey /\ Vouched /\ Settled /\ Halfway /\ Covered /\ Proven
  BY <1>2 DEF KInv, Together
<1>4. Keyed' = Keyed /\ \A x : OpensEvery(x)' <=> OpensEvery(x)
  BY <1>2 DEF Keyed, OpensEvery
<1>5. CASE db.verifier # NoPass
  <2>1. p = db.verifier
    BY <1>5 DEF Seals, assertFleetRecoveryPassphrase
  <2>. QED
    BY <1>2, <1>3, <1>4, <2>1 DEF OneKey, Vouched, Settled, AllOrNone, Halfway,
        Covered, Proven
<1>6. CASE db.verifier = NoPass
  <2>1. ours = {}
    BY <1>6 DEF Seals, assertFleetRecoveryPassphrase
  <2>2. Keyed = {}
    BY <1>2, <2>1 DEF SeesAll
  <2>3. \A x : OpensEvery(x)'
    BY <1>4, <2>2 DEF OpensEvery
  <2>. HIDE DEF OpensEvery, Keyed
  <2>4. OneKey' /\ Vouched'
    BY <1>4, <2>2, <2>3 DEF OneKey, Vouched
  <2>5. Settled' /\ Halfway' /\ Covered' /\ Proven'
    BY <1>2, <1>3, <1>4, <2>2, <2>3 DEF Settled, AllOrNone, Halfway, Covered, Proven
  <2>. QED
    BY <2>4, <2>5
<1>. QED
  BY <1>5, <1>6

\* A restored database has an old passphrase that opens all or none, and an audit of another run of mongod.
LEMMA BootsTogether ==
    ASSUME KInv, Crashes \/ Restores
    PROVE  Together'
<1>1. SUFFICES ASSUME ~ragged'
               PROVE  (OneKey /\ Vouched /\ Settled /\ Halfway /\ Covered /\ Proven)'
  BY DEF Together
<1>2. /\ ~ragged /\ rot.pc = "idle" /\ rot'.pc = "idle" /\ DOMAIN req' = {}
      /\ UNCHANGED <<disk, backup>>
  BY <1>1 DEF Crashes, Restores, Boots
<1>3. OneKey /\ Vouched /\ AllOrNone
  BY <1>2 DEF KInv, Together, Settled
<1>4. Keyed' = Keyed /\ \A x : OpensEvery(x)' <=> OpensEvery(x)
  BY <1>2 DEF Keyed, OpensEvery
<1>5. OneKey' /\ Halfway' /\ Covered' /\ Proven'
  BY <1>2, <1>3, <1>4 DEF OneKey, Halfway, Covered, Proven
<1>6. Vouched'
  <2>1. CASE Crashes
    BY <1>3, <1>4, <2>1 DEF Crashes, Vouched
  <2>2. CASE Restores
    <3>1. token \in Nat /\ backup.audit.token \in Nat /\ backup.audit.token <= token
      BY DEF KInv, Typed, DbType, Audited
    <3>2. token' = token + 1 /\ db' = backup
      BY <2>2 DEF Restores
    <3>3. backup.audit.token # token + 1
      BY <3>1
    <3>. QED
      BY <3>2, <3>3 DEF Vouched
  <2>. QED
    BY <2>1, <2>2
<1>7. AllOrNone'
  <2>1. CASE Crashes
    BY <1>2, <1>3, <1>4, <2>1 DEF Crashes, AllOrNone
  <2>2. CASE Restores
    BY <1>2, <1>3, <1>4, <2>2 DEF Restores, AllOrNone
  <2>. QED
    BY <2>1, <2>2
<1>. QED
  BY <1>5, <1>6, <1>7 DEF Settled

\* The fleet stays together.
LEMMA TogetherStep ==
    ASSUME KInv, Step
    PROVE  Together'
<1>. USE DEF KInv
\* The containers and the keys they have stay.
<1>1. ASSUME \A e \in Disk : disk'[e].kind = disk[e].kind /\ disk'[e].slots = disk[e].slots
      PROVE  \A d \in Keyed' : d \in Keyed /\ disk'[d].slots = disk[d].slots
  BY <1>1 DEF Keyed
<1>2. ASSUME NEW r \in DOMAIN req, Only(r), disk'[r].slots = {} \/ disk'[r].kind # "luks"
                                            \/ (disk'[r].slots = disk[r].slots /\ disk'[r].kind = disk[r].kind)
      PROVE  \A d \in Keyed' : d \in Keyed /\ disk'[d].slots = disk[d].slots
  BY <1>2 DEF Keyed, Only
<1>3. ASSUME NEW r \in DOMAIN req, Remakes(r)
      PROVE  Tame
  BY <1>2, <1>3 DEF Remakes, Keeps, Moves, Tame
<1>4. ASSUME NEW r \in DOMAIN req, Opens(r) \/ Records(r) \/ Renames(r)
      PROVE  Tame
  <2>1. /\ disk' = disk /\ backup' = backup /\ token' = token /\ rot' = rot /\ ragged' = ragged
        /\ db'.verifier = db.verifier /\ db'.audit = db.audit
        /\ Keeps(r) /\ req'[r].pass = req[r].pass /\ (req'[r].pc = req[r].pc \/ req'[r].pc \in {"mkfs", "flag"})
    BY <1>4 DEF Opens, Records, Renames, Advances
  <2>. QED
    BY <1>1, <2>1 DEF Keeps, Moves, Tame
<1>5. ASSUME NEW r \in DOMAIN req, Formats(r) \/ Joins(r)
      PROVE  Tame
  <2>1. \A d \in Keyed' : d \in Keyed /\ disk'[d].slots = disk[d].slots
    <3>1. Only(r) /\ (disk'[r].kind # "luks" \/ (disk'[r].slots = disk[r].slots /\ disk'[r].kind = disk[r].kind))
      BY <1>5 DEF Formats, Joins
    <3>. QED
      BY <1>2, <3>1
  <2>2. /\ backup' = backup /\ token' = token /\ rot' = rot /\ ragged' = ragged
        /\ db'.verifier = db.verifier /\ db'.audit = db.audit
        /\ Keeps(r) /\ req'[r].pc \in {"join", "row"}
    BY <1>5 DEF Formats, Joins
  <2>. QED
    BY <2>1, <2>2 DEF Keeps, Moves, Tame
<1>6. ASSUME NEW r \in DOMAIN req, Flags(r) \/ Ends(r)
      PROVE  Tame
  BY <1>1, <1>6 DEF Flags, Ends, Drops, Tame
<1>7. ASSUME NEW r, Starts(r)
      PROVE  Tame
  BY <1>1, <1>7 DEF Starts, Tame
<1>8. ASSUME \/ \E v, del : Updates(v, del)
             \/ MarksRows \/ MarksFleet \/ UNCHANGED vars
      PROVE  Tame
  <2>1. UNCHANGED <<disk, backup, token, rot, ragged, req>> /\ db'.verifier = db.verifier /\ db'.audit = db.audit
    BY <1>8 DEF Updates, MarksRows, MarksFleet, vars
  <2>. QED
    BY <1>1, <2>1 DEF Tame
<1>9. ASSUME NEW d \in Disk, Flaps(d)
      PROVE  Tame
  BY <1>1, <1>9 DEF Flaps, Rest, Tame
<1>10. CASE \E r \in DOMAIN req : Handles(r) \/ Renames(r)
  <2>1. PICK r \in DOMAIN req : Handles(r) \/ Renames(r)
    BY <1>10
  <2>. QED
    BY <2>1, <1>3, <1>4, <1>5, <1>6, TameTogether, KeysTogether, ProvesTogether,
        ClaimsTogether DEF Handles
<1>11. CASE \E next \in Pass : \E cur \in Pass \cup {NoPass} : Turns(next, cur)
  BY <1>11, TurnsTogether
<1>12. CASE \E d \in Disk : Adds(d) \/ Strips(d) \/ Flaps(d)
  BY <1>12, <1>9, TameTogether, AddsTogether, StripsTogether
<1>13. CASE (\E d \in Disk : Provisions(d)) \/ (\E v \in fleet : Converts(v))
  BY <1>13, <1>7, TameTogether DEF Provisions, Converts
<1>. QED
  BY <1>8, <1>10, <1>11, <1>12, <1>13, TameTogether, NotesTogether, ResealsTogether,
      StopsTogether,
     AuditsTogether, SealsTogether, BootsTogether DEF Step

\* The array as it starts.
LEMMA KeysInit ==
    ASSUME Init
    PROVE  KInv
<1>1. PICK E \in Encrypted, R \in Retired :
         /\ disk = [d \in Disk |-> [kind |-> IF InUse[d] = 0 THEN "blank" ELSE IF d \in E THEN "luks" ELSE "ext",
                                    slots |-> IF d \in E THEN {First} ELSE {}, label |-> InUse[d], part |-> 1,
                                    here |-> TRUE]]
         /\ LET p == IF E = {} THEN NoPass ELSE First
                rows == {[id |-> InUse[d], disk |-> d, part |-> 1, deleted |-> d \in R, ro |-> d \in Drained] :
                         d \in {e \in Disk : InUse[e] # 0}} IN
            /\ db = [verifier |-> p, seal |-> p, audit |-> [token |-> IF E = {} THEN 0 ELSE 1, healthy |-> E # {}],
                     rows |-> rows]
            /\ fleet = rows
  BY DEF Init
<1>. DEFINE p == IF E = {} THEN NoPass ELSE First
            Used == {e \in Disk : InUse[e] # 0}
            row(d) == [id |-> InUse[d], disk |-> d, part |-> 1, deleted |-> d \in R, ro |-> d \in Drained]
            rows == {row(d) : d \in Used}
            audit == [token |-> IF E = {} THEN 0 ELSE 1, healthy |-> E # {}]
<1>2. db = [verifier |-> p, seal |-> p, audit |-> audit, rows |-> rows] /\ fleet = rows
  BY <1>1
<1>3. /\ backup = db /\ token = 1 /\ req = Idle /\ rot = NoRot /\ upd = NoUpd
      /\ excused = {} /\ rewound = FALSE /\ ragged = FALSE /\ harmed = {}
  BY DEF Init
<1>4. DOMAIN req = {}
  BY <1>3 DEF Idle
<1>5. /\ IsFiniteSet(Disk) /\ First \in Pass /\ First # NoPass /\ InUse \in [Disk -> Nat]
      /\ \A d, e \in Disk : InUse[d] = InUse[e] /\ InUse[d] # 0 => d = e
      /\ E \subseteq Used
  BY KeysAssumption DEF NoPass
<1>6. \A v \in rows : /\ v.disk \in Used /\ v = row(v.disk) /\ v \in Row
                      /\ v.id = InUse[v.disk] /\ v.id # 0 /\ v.part = 1
  <2>1. SUFFICES ASSUME NEW d \in Used
                 PROVE  /\ row(d).disk = d /\ row(d) \in Row /\ row(d).id = InUse[d]
                        /\ InUse[d] # 0 /\ row(d).part = 1
    OBVIOUS
  <2>2. InUse[d] \in Nat /\ InUse[d] # 0 /\ d \in Disk
    BY <1>5
  <2>. QED
    BY <2>2 DEF Row
<1>7. IsFiniteSet(rows)
  <2>. DEFINE f == [d \in Used |-> row(d)]
  <2>1. f \in [Used -> rows] /\ \A t \in rows : \E d \in Used : f[d] = t
    OBVIOUS
  <2>2. IsFiniteSet(Used)
    BY <1>5, FS_Subset
  <2>. HIDE DEF f, rows, Used
  <2>. QED
    BY <2>1, <2>2, ImageFinite
<1>8. \A v, w \in rows : v.id = w.id => v = w
  <2>1. SUFFICES ASSUME NEW v \in rows, NEW w \in rows, v.id = w.id
                 PROVE  v = w
    OBVIOUS
  <2>2. v.disk = w.disk
    BY <1>5, <1>6, <2>1
  <2>. QED
    BY <1>6, <2>2
<1>9. \A d \in Disk : /\ disk[d].kind = "luks" <=> d \in E
                      /\ disk[d].slots = IF d \in E THEN {First} ELSE {}
                      /\ disk[d].label = InUse[d] /\ disk[d].part = 1
  BY <1>1, <1>5
<1>10. disk \in [Disk -> [kind : {"blank", "ext", "luks"}, slots : SUBSET Pass, label : Nat, part : Nat,
                          here : BOOLEAN]]
  BY <1>1, <1>5
<1>11. db.verifier = p /\ db.rows = rows /\ db.audit = audit /\ backup = db /\ Rows = rows
  BY <1>2, <1>3 DEF Rows
<1>12. p \in Pass \cup {NoPass} /\ (p = NoPass <=> E = {}) /\ (p # NoPass => p = First)
       /\ audit \in [token : Nat, healthy : BOOLEAN] /\ audit.token <= 1 /\ (audit.healthy => p = First)
  <2>1. CASE E = {}
    <3>1. p = NoPass /\ audit.token = 0 /\ audit.healthy = FALSE
      BY <2>1
    <3>2. audit = [token |-> 0, healthy |-> FALSE]
      BY <2>1
    <3>. HIDE DEF p, audit
    <3>. QED
      BY <2>1, <3>1, <3>2
  <2>2. CASE E # {}
    BY <1>5, <2>2
  <2>. QED
    BY <2>1, <2>2
<1>13. db \in DbType
  BY <1>2, <1>6, <1>12 DEF DbType
<1>14. fleet = rows
  BY <1>2
<1>. HIDE DEF rows, p, audit
<1>15. Typed
  BY <1>3, <1>4, <1>6, <1>7, <1>8, <1>10, <1>11, <1>13, <1>14, NoRotType, NoUpdType
      DEF Typed, NoUpdShape
<1>16. Asked /\ Entered
  BY <1>4 DEF Asked, Entered
<1>17. Dated
  BY <1>4, <1>6, <1>9, <1>11 DEF Dated
<1>18. \A v \in rows : Locked(v) => v.disk \in E
  BY <1>6, <1>9 DEF Locked
<1>19. Plated
  <2>1. \A v \in Rows : Locked(v) => disk[v.disk].label # 0
    BY <1>6, <1>9, <1>11
  <2>. QED
    BY <1>9, <2>1 DEF Plated
<1>20. Unset /\ Known
  <2>1. \A v \in rows : Locked(v) => First \in disk[v.disk].slots
    BY <1>6, <1>9, <1>18
  <2>. QED
    BY <1>11, <1>12, <1>18, <2>1 DEF Unset, Known
<1>21. Single
  BY <1>3, <1>4, <1>8, <1>11, NoUpdType DEF Single, NoUpdShape
<1>22. Agreed
  BY <1>3, <1>6, <1>11, <1>14, NoUpdType DEF Agreed, Same, NoUpdShape
<1>23. Changing /\ Halfway /\ Covered /\ Proven
  BY <1>3, <1>4, NoRotType DEF Changing, Halfway, Covered, Proven
<1>24. \A d \in Keyed : d \in E /\ disk[d].slots = {First}
  BY <1>9 DEF Keyed
<1>25. OneKey /\ Vouched /\ Settled
  BY <1>5, <1>11, <1>12, <1>24 DEF OneKey, OpensEvery, Vouched, Settled, AllOrNone
<1>26. Audited
  BY <1>3, <1>11, <1>12 DEF Audited
<1>27. NotWritableUntilDurable
  BY <1>11, <1>14 DEF NotWritableUntilDurable
<1>. QED
  BY <1>15, <1>16, <1>17, <1>19, <1>20, <1>21, <1>22, <1>23, <1>25, <1>26, <1>27 DEF
      KInv, Together

\* Every step keeps the invariant.
LEMMA KeysStep ==
    ASSUME KInv, ~MayRace, [Next]_vars
    PROVE  KInv'
<1>1. Typed' /\ Step
  BY Shapes
<1>. HIDE DEF Step
<1>2. Asked' /\ Dated' /\ Plated' /\ Unset' /\ Known'
  BY <1>1, AskedStep, DatedStep, PlatedStep, UnsetStep, KnownStep
<1>3. Single' /\ Entered' /\ Agreed' /\ Changing' /\ Together'
  BY <1>1, SingleStep, EnteredStep, AgreedStep, ChangingStep, TogetherStep
<1>4. Audited' /\ NotWritableUntilDurable'
  BY <1>1, AuditedStep, WritableStep DEF KInv
<1>. QED
  BY <1>1, <1>2, <1>3, <1>4 DEF KInv

\* The invariant holds, unless two requests pick one volume id or a volume is retired while it is
\* made (createVolumeConfig, doVolumeDelete: the races MayRace lets in).
THEOREM KeysInvariant ==
    ASSUME ~MayRace
    PROVE  Spec => []KInv
<1>1. Init => KInv
  BY KeysInit
<1>2. KInv /\ [Next]_vars => KInv'
  BY KeysStep
<1>. QED
  BY <1>1, <1>2, PTL DEF Spec

\* A volume in service is on a container that has a passphrase.
LEMMA ServedIsKeyed ==
    ASSUME Typed, Plated, NEW v \in InService(db.rows)
    PROVE  v \in Rows /\ Locked(v) /\ v.disk \in Keyed
<1>1. v \in db.rows /\ v \in Rows /\ v.disk \in Disk /\ Locked(v)
  BY DEF InService, Locked, Current, Rows, Typed, DbType, Row
<1>. QED
  BY <1>1 DEF Plated, Keyed, Locked

\* Whatever the record is worth, unless the database is older: it opens what is in service.
LEMMA RecordOpens ==
    ASSUME Typed, Plated, Unset, Known, ~rewound, NEW v \in InService(db.rows)
    PROVE  db.verifier \in Pass /\ (db.verifier \in disk[v.disk].slots \/ v.disk \in excused)
<1>1. v \in db.rows /\ v \in Rows /\ Locked(v)
  BY ServedIsKeyed DEF InService
<1>2. db.verifier # NoPass /\ db.verifier \in Pass
  BY <1>1 DEF Unset, Typed, DbType
<1>. QED
  BY <1>1, <1>2 DEF Known

\* It implies what the operator is promised.
LEMMA KeysOpen ==
    ASSUME KInv
    PROVE  FleetOpens
<1>. USE DEF KInv
<1>1. RecordedOpensAll
  BY RecordOpens DEF RecordedOpensAll
<1>2. OnePassphraseOpensAll
  <2>. DEFINE S == {v.disk : v \in InService(db.rows)} \ excused
  <2>1. SUFFICES ASSUME ~(ragged /\ rewound), S # {}
                 PROVE  \E p \in Pass : \A d \in S : p \in disk[d].slots
    BY DEF OnePassphraseOpensAll
  <2>2. CASE ~ragged
    <3>1. PICK p \in Pass : OpensEvery(p)
      BY <2>2 DEF Together, OneKey
    <3>2. \A d \in S : d \in Keyed
      BY ServedIsKeyed
    <3>. QED
      BY <3>1, <3>2 DEF OpensEvery
  <2>3. CASE ~rewound
    <3>1. \A v \in InService(db.rows) : db.verifier \in Pass
                                        /\ (db.verifier \in disk[v.disk].slots \/ v.disk \in excused)
      BY <2>3, RecordOpens
    <3>. QED
      BY <2>1, <3>1
  <2>. QED
    BY <2>1, <2>2, <2>3
<1>. QED
  BY <1>1, <1>2 DEF FleetOpens

\* And what a healthy audit means.
LEMMA KeysVouch ==
    ASSUME KInv
    PROVE  HealthyMeansOpens
<1>. USE DEF KInv
<1>1. SUFFICES ASSUME db.audit.healthy, encryptedVolumeIds # {}, ~recoveryAuditIsDue, ~(ragged /\ rewound),
                      NEW v \in InService(db.rows)
               PROVE  db.verifier \in disk[v.disk].slots \/ v.disk \in excused
  BY DEF HealthyMeansOpens
<1>2. CASE ~rewound
  BY <1>2, RecordOpens
<1>3. CASE ~ragged
  <2>1. db.audit.token = token
    BY <1>1 DEF recoveryAuditIsDue
  <2>. QED
    BY <1>1, <1>3, <2>1, ServedIsKeyed DEF Together, Vouched, OpensEvery
<1>. QED
  BY <1>1, <1>2, <1>3

\* And that provisioning touches its own disk only.
LEMMA KeysProvision ==
    ASSUME KInv
    PROVE  ProvisioningSafe
<1>. USE DEF KInv
<1>1. TypeOK
  <2>1. \A b \in {db, backup} :
          /\ b.verifier \in Pass \cup {NoPass} /\ b.seal \in Pass \cup {NoPass}
          /\ b.rows \subseteq Row /\ b.audit \in [token : Nat, healthy : BOOLEAN]
    BY DEF Typed, DbType
  <2>2. \A r \in DOMAIN req : r \in Disk /\ req[r].pc \in PC /\ req[r].at \in Disk
    BY DEF Typed, ReqType
  <2>3. ASSUME NEW r \in DOMAIN req, req[r].pc \in {"claim", "key"}
        PROVE  req[r].pass \in Pass
    <3>1. req[r].pass \in Pass \cup {NoPass} /\ req[r].enc \in BOOLEAN
      BY DEF Typed, ReqType
    <3>2. req[r].enc
      BY <2>3, <3>1 DEF Asked
    <3>3. req[r].pass # NoPass
      BY <2>3, <3>2 DEF Asked
    <3>. QED
      BY <3>1, <3>3
  <2>4. rot.pc \in {"idle", "add", "record", "reseal", "retire"} /\ rot.todo \subseteq rot.ours
        /\ upd.pc \in {"idle", "db", "fleet"} /\ harmed \subseteq Disk
    BY DEF Typed, RotType, Rotating, UpdType
  <2>. QED
    BY <2>1, <2>2, <2>3, <2>4 DEF TypeOK, Typed
<1>. QED
  BY <1>1 DEF ProvisioningSafe, OnlyItsOwnDisk, Typed

\* The passphrase on record opens every encrypted volume in service, and where the database is older
\* than a change some one passphrase does, through rotations cut short, crashes, restored databases and
\* disks that come and go (luks-recovery-key.ts rotateRecoveryPassphrase, assertPassphraseOpensTheFleet,
\* claimRecoveryPassphrase; mgmt.ts withEncryptionSlot, withRotationSlot), without those two races.
THEOREM PassphraseOpensFleet ==
    ASSUME ~MayRace
    PROVE  Spec => []FleetOpens
BY KeysInvariant, KeysOpen, PTL

\* A request writes to the drive it was made for and to no other, and no volume takes slices before its
\* row is in the database (device-provisioner.ts fencedWrite, registerVolume, doProvision), likewise.
THEOREM ProvisioningIsSafe ==
    ASSUME ~MayRace
    PROVE  Spec => []ProvisioningSafe
BY KeysInvariant, KeysProvision, PTL

\* An audit that is healthy and not due vouches for the passphrase on record, a restored database
\* included (luks-recovery-key.ts auditRecoveryKey, recoveryAuditIsDue), likewise.
THEOREM AuditsVouch ==
    ASSUME ~MayRace
    PROVE  Spec => []HealthyMeansOpens
BY KeysInvariant, KeysVouch, PTL
=============================================================================
