---------------------------- MODULE RecoveryProofs ----------------------------
(***************************************************************************)
(* What survives the loss of the database, for any disks and bounds:       *)
(* DiskNeverForgets and the four parts of RecoverySafe.                    *)
(*                                                                         *)
(* The invariant IInv is a conjunction of ten parts.  Each is kept by every*)
(* step given itself and those before it, and the theorems are stated as   *)
(* soon as the parts they need are there: the pointers never regress       *)
(* (part 6, whatever disks are attached), no emptied namespace is served   *)
(* (part 8), a restore reads the latest journal and the fleet is kept      *)
(* (part 11).  The heart of it is that two majorities meet on a disk: the  *)
(* one that won the vote of a recovery and the one that names a volume.    *)
(***************************************************************************)
EXTENDS Recovery, FiniteSetTheorems, WellFoundedInduction, TLAPS

(***************************************************************************)
(* Part 1: the inductive invariant.                                        *)
(***************************************************************************)

\* A recovery of the fleet is being written, a restore of the names is.
Recovering == op.pc \in {"mark", "mark2", "adopt", "volumes"}
Replaying == op.pc \in {"apply", "rest", "end", "clear"}

\* The types of the records.
DbType == [tab : SUBSET Disk, fleetMark : BOOLEAN, namesMark : BOOLEAN, flight : BOOLEAN,
           ns : {"whole", "partial", "empty"}]
MemType == [snap : Nat, jl : Nat, from : Nat, live : BOOLEAN, lost : BOOLEAN]
PassType == [todo : SUBSET Disk, body : Man, busy : BOOLEAN, queued : BOOLEAN]
JobType == [pc : {"idle", "check", "wait"}, no : Nat, back : Nat, after : Nat]
OpType == [pc : {"idle", "mark", "mark2", "adopt", "volumes", "apply", "rest", "end", "clear"},
           id : {"none", "ours", "other"}, tab : SUBSET Disk, todo : SUBSET Disk]

\* The types, those of what is in flight included.
Shaped ==
    /\ man \in [Disk -> Man] /\ st \in [Disk -> {"ok", "eio", "dead"}]
    /\ db \in DbType
    /\ ident \in {"none", "ours", "other"}
    /\ mode \in {"down", "bare", "mounted", "hydrated", "names", "normal"}
    /\ mounted \subseteq fleet /\ fleet \subseteq Disk
    /\ mem \in MemType /\ pass \in PassType /\ job \in JobType /\ op \in OpType
    /\ jloc \in Nat /\ clock \in Nat /\ snaps \in Nat /\ good \subseteq 1..snaps
    /\ forced \in BOOLEAN /\ hearsay \in BOOLEAN /\ used \in [Kinds -> Nat]

\* Where in start() what may be running: a pass only in service, a recovery only where an operator can type.
Staged ==
    /\ pass.busy => mode = "normal" /\ pass.body.tab \subseteq db.tab
    /\ pass.todo \subseteq fleet /\ fleet \subseteq db.tab
    /\ mode \in {"down", "bare"} => fleet = {}
    /\ mode \in {"down", "mounted", "hydrated"} => op.pc = "idle"
    /\ mode \in {"mounted", "hydrated"} => fleet = db.tab /\ ~db.fleetMark
    /\ Replaying => mode = "names" /\ fleet # {} /\ mounted = fleet /\ ~mem.lost /\ mem.snap # 0 /\ ~db.fleetMark
    /\ op.pc = "mark2" => db.fleetMark
    /\ op.pc \in {"adopt", "volumes"} => db.fleetMark /\ db.namesMark
    /\ op.pc = "volumes" => op.tab \subseteq db.tab \cup op.todo

\* A manifest is not of the future, and the pass in flight is the youngest.
Dated ==
    /\ \A v \in Vol : man[v].at <= clock
    /\ pass.busy => pass.body.at <= clock /\ \A v \in Vol : man[v].at <= pass.body.at

\* As long as no pass was built from hearsay, each says of the journal at least what every disk says.
Located ==
    /\ mem.live => mem.jl = jloc
    /\ ~hearsay =>
         /\ \A v \in Vol : man[v].jl <= jloc
         /\ pass.busy => mem.live /\ pass.body.jl <= jloc /\ \A v \in Vol : man[v].jl <= pass.body.jl

\* The disks of other arrays are outnumbered, and no vote is forced; or there are none.
OwnArray == Foreign = {} \/ (~MayForce /\ Cardinality(Foreign) < Cardinality(Vol))

\* Nothing of another array gets in.
Kin ==
    /\ ident # "other"
    /\ mode \in {"mounted", "hydrated", "names", "normal"} => ident = "ours"
    /\ \A v \in Vol : (man[v] = Absent \/ man[v].id = "ours") /\ man[v].tab \subseteq Vol
    /\ \A d \in First : man[d] # Absent
    /\ \A d \in Foreign : man[d] # Absent /\ man[d].id = "other"
    /\ db.tab \subseteq Vol /\ op.tab \subseteq Vol /\ op.todo \subseteq Vol
    /\ Recovering => op.id = "ours"
    /\ pass.busy => pass.body.id = "ours"

\* A pointer, wherever it is kept, names a snapshot of a whole namespace.
Vouched ==
    /\ \A v \in Vol : man[v].snap \in good \cup {0}
    /\ mem.snap \in good \cup {0} /\ pass.body.snap \in good \cup {0} /\ job.back \in good \cup {0}
    /\ job.pc # "idle" => job.no \in good
    /\ \A v \in Vol : man[v].jl <= jloc
    /\ mem.jl <= jloc /\ pass.body.jl <= jloc

\* A table without a marker stands beside a whole namespace.
Marked ==
    /\ db.flight => db.namesMark
    /\ db.tab # {} /\ ~db.fleetMark /\ ~db.namesMark => db.ns = "whole"
    /\ mode = "normal" /\ fleet # {} => db.ns = "whole"
    /\ Replaying => db.namesMark
    /\ op.pc \in {"end", "clear"} => db.ns = "whole"
    /\ op.pc = "clear" => ~db.flight

\* The later manifest places the journal no earlier, and a restore reads where the best informed says.
Ordered ==
    ~hearsay =>
       /\ \A u, v \in Vol : man[u].at <= man[v].at => man[u].jl <= man[v].jl
       /\ pass.busy => \A v \in Vol : man[v].at = pass.body.at => man[v].jl = pass.body.jl
       /\ mode \in {"hydrated", "names"} /\ ~mem.lost /\ mem.snap # 0 => \A v \in mounted : man[v].jl <= mem.jl

\* Only where there is no namespace is a fleet recovered, and memory and database know the same volumes.
Unforced ==
    forced \/
       /\ db.fleetMark => db.ns = "empty"
       /\ db.tab = {} => db.ns = "empty" \/ \A v \in Vol : man[v] = Absent
       /\ Recovering => db.ns = "empty" /\ (db.fleetMark \/ db.tab = {})
       /\ mode = "names" /\ fleet # {} => fleet = db.tab /\ ~db.fleetMark
       /\ mode = "normal" /\ db.ns = "whole" => fleet = db.tab /\ ~db.fleetMark

\* The later manifest names no volume less.
Growing == \A u, v \in Vol : man[u].at <= man[v].at => man[u].tab \subseteq man[v].tab

\* With one loss of the database at most: the tables grow until the loss and stay as they are until the fleet
\* is recovered, and what most manifests name is in the table or on its way into it.
Remembered ==
    forced \/ used["loss"] > 1 \/
       /\ used["loss"] = 0 \/ db.fleetMark \/ db.tab = {} => Growing
       /\ used["loss"] = 0 =>
            /\ \A v \in Vol : man[v].tab \subseteq db.tab
            /\ pass.busy => \A v \in Vol : man[v].tab \subseteq pass.body.tab
                                           /\ (man[v].at = pass.body.at => man[v].tab = pass.body.tab)
       /\ ~db.fleetMark /\ db.tab # {} => \A v \in Vol : MostName(v) => v \in db.tab
       /\ Recovering => \A v \in Vol : MostName(v) => v \in op.tab
(***************************************************************************)
(* Part 2: extremes and majorities.                                        *)
(***************************************************************************)

\* A finite set of integers that is not empty has a least and a greatest element: a smallest set without one of
\* them would lose an element and have both.
LEMMA Extremes ==
    ASSUME NEW S, S \subseteq Int, IsFiniteSet(S), S # {}
    PROVE  /\ Min(S) \in S /\ \A n \in S : Min(S) <= n
           /\ Max(S) \in S /\ \A n \in S : n <= Max(S)
<1>. DEFINE Low(U, m) == m \in U /\ \A n \in U : m <= n
            High(U, m) == m \in U /\ \A n \in U : n <= m
            Good(U) == (\E m \in U : Low(U, m)) /\ (\E m \in U : High(U, m))
            Bad == {U \in SUBSET S : U # {} /\ ~Good(U)}
<1>1. SUFFICES Good(S)
  <2>1. \A n, m \in S : n <= m <=> m >= n
    OBVIOUS
  <2>. QED
    BY <1>1, <2>1 DEF Min, Max
<1>2. ASSUME Bad # {}
      PROVE  FALSE
  <2>1. Bad \subseteq FiniteSubsetsOf(S)
    BY FS_Subset DEF FiniteSubsetsOf
  <2>2. PICK U \in Bad : \A V \in Bad : ~(<<V, U>> \in StrictSubsetOrdering(S))
    BY <1>2, <2>1, FS_StrictSubsetOrderingWellFounded, WFMin, Zenon
  <2>3. U \in SUBSET S /\ U # {} /\ ~Good(U)
    BY <2>2
  <2>4. PICK x \in U : TRUE
    BY <2>3
  <2>5. U \ {x} \notin Bad
    BY <2>2, <2>3, <2>4 DEF StrictSubsetOrdering
  <2>6. x \in Int /\ U \subseteq Int
    BY <2>3, <2>4
  <2>7. CASE U \ {x} = {}
    <3>1. Low(U, x) /\ High(U, x)
      BY <2>4, <2>6, <2>7
    <3>. QED
      BY <3>1, <2>3, <2>4
  <2>8. CASE U \ {x} # {}
    <3>1. Good(U \ {x})
      BY <2>3, <2>5, <2>8
    <3>2. PICK l \in U \ {x} : Low(U \ {x}, l)
      BY <3>1
    <3>3. PICK h \in U \ {x} : High(U \ {x}, h)
      BY <3>1
    <3>4. l \in Int /\ h \in Int
      BY <2>6
    <3>5. \E m \in U : Low(U, m)
      <4>1. CASE l <= x
        <5>1. Low(U, l)
          BY <3>2, <4>1
        <5>. QED
          BY <5>1
      <4>2. CASE x < l
        <5>1. Low(U, x)
          BY <2>6, <3>2, <3>4, <4>2
        <5>. QED
          BY <5>1
      <4>. QED
        BY <4>1, <4>2, <2>6, <3>4
    <3>6. \E m \in U : High(U, m)
      <4>1. CASE x <= h
        <5>1. High(U, h)
          BY <3>3, <4>1
        <5>. QED
          BY <5>1
      <4>2. CASE h < x
        <5>1. High(U, x)
          BY <2>6, <3>3, <3>4, <4>2
        <5>. QED
          BY <5>1
      <4>. QED
        BY <4>1, <4>2, <2>6, <3>4
    <3>. QED
      BY <3>5, <3>6, <2>3
  <2>. QED
    BY <2>7, <2>8
<1>. QED
  <2>1. S \notin Bad
    BY <1>2
  <2>. QED
    BY <2>1

\* The disks are finitely many integers.
LEMMA Disks ==
    /\ Disk \subseteq Int /\ Vol \subseteq Disk /\ Foreign \subseteq Disk /\ First \subseteq Vol
    /\ \A S \in SUBSET Disk : IsFiniteSet(S)
<1>1. IsFiniteSet(Disk)
  BY RecoveryAssumption DEF Disk
<1>. QED
  BY <1>1, RecoveryAssumption, FS_Subset DEF Disk, First

\* Some manifest of a set is the newest.
LEMMA NewestIs ==
    ASSUME man \in [Disk -> Man], NEW S \in SUBSET Disk, S # {}
    PROVE  Newest(S) \in S /\ \A e \in S : man[e].at <= man[Newest(S)].at
<1>. DEFINE f == [d \in S |-> man[d].at]
            T == {man[d].at : d \in S}
<1>1. T \subseteq Int /\ T # {}
  BY DEF Man
<1>2. IsFiniteSet(S)
  BY Disks
<1>3. f \in Surjection(S, T)
  BY DEF Surjection
<1>4. IsFiniteSet(T)
  BY <1>2, <1>3, FS_Surjection
<1>. HIDE DEF T
<1>5. Max(T) \in T /\ \A n \in T : n <= Max(T)
  BY <1>1, <1>4, Extremes
<1>6. \E d \in S : \A e \in S : man[e].at <= man[d].at
  BY <1>5 DEF T
<1>. QED
  BY <1>6 DEF Newest

\* The newest snapshot named on a set of disks is named on one of them.
LEMMA NewestSnap ==
    ASSUME man \in [Disk -> Man], NEW S \in SUBSET Disk, S # {}
    PROVE  \E d \in S : Max({man[e].snap : e \in S}) = man[d].snap
<1>. DEFINE f == [d \in S |-> man[d].snap]
            T == {man[d].snap : d \in S}
<1>1. T \subseteq Int /\ T # {}
  BY DEF Man
<1>2. IsFiniteSet(S)
  BY Disks
<1>3. f \in Surjection(S, T)
  BY DEF Surjection
<1>4. IsFiniteSet(T)
  BY <1>2, <1>3, FS_Surjection
<1>. HIDE DEF T
<1>5. Max(T) \in T
  BY <1>1, <1>4, Extremes
<1>. QED
  BY <1>5 DEF T

\* The next disk of a pass, or of a table, is one of them.
LEMMA NextDisk ==
    ASSUME NEW S \in SUBSET Disk, S # {}
    PROVE  Min(S) \in S
<1>. QED
  BY Disks, Extremes

(***************************************************************************)
(* Part 3: the types.                                                      *)
(***************************************************************************)

\* A request for a pass starts one, or is noted.
LEMMA RequestShape ==
    ASSUME Shaped, NEW table \in SUBSET Disk, NEW b \in MemType, NEW targets \in SUBSET Disk,
           Request(table, b, targets)
    PROVE  pass' \in PassType /\ clock' \in Nat /\ hearsay' \in BOOLEAN
<1>1. pass \in PassType /\ clock \in Nat /\ hearsay \in BOOLEAN
  BY DEF Shaped
<1>2. CASE pass.busy
  BY <1>1, <1>2 DEF Request, PassType
<1>3. CASE ~pass.busy
  <2>1. build(table, b) \in Man
    BY <1>1 DEF build, Man, MemType, Shaped
  <2>2. /\ pass' = [NoPass EXCEPT !.todo = targets, !.body = build(table, b), !.busy = TRUE]
        /\ clock' = clock + 1
        /\ hearsay' = (hearsay \/ ~b.live)
    BY <1>3 DEF Request
  <2>3. pass' \in PassType
    BY <2>1, <2>2 DEF PassType, NoPass
  <2>4. hearsay' \in BOOLEAN
    BY <2>2
  <2>. QED
    BY <1>1, <2>2, <2>3, <2>4
<1>. QED
  BY <1>2, <1>3

\* What the journal may tell.
LEMMA HearsShape ==
    ASSUME Shaped, NEW b \in Hears(mem)
    PROVE  b \in MemType
<1>. QED
  BY DEF Hears, Shaped, MemType

\* Down.
LEMMA DownShape ==
    ASSUME Down
    PROVE  /\ mode' = "down" /\ fleet' = {} /\ mounted' = {} /\ mem' \in MemType
           /\ pass' \in PassType /\ job' \in JobType /\ op' \in OpType
<1>1. Absent \in Man
  BY DEF Absent, Man
<1>. QED
  BY <1>1 DEF Down, NoMem, NoPass, NoJob, NoOp, MemType, PassType, JobType, OpType

\* One more event.
LEMMA SpendShape ==
    ASSUME Shaped, NEW k \in Kinds, Spend(k)
    PROVE  used' \in [Kinds -> Nat]
<1>. QED
  BY DEF Spend, Shaped

\* The first state is well typed.
LEMMA ShapedInit ==
    ASSUME Init
    PROVE  Shaped
<1>1. man \in [Disk -> Man]
  BY Disks DEF Init, Man, Absent, Disk
<1>2. db \in DbType
  BY Disks DEF Init, DbType
<1>3. mem \in MemType /\ job \in JobType /\ op \in OpType
  BY DEF Init, NoMem, NoJob, NoOp, MemType, JobType, OpType
<1>4. pass \in PassType
  BY DEF Init, NoPass, PassType, Absent, Man
<1>5. used \in [Kinds -> Nat]
  BY DEF Init
<1>6. st \in [Disk -> {"ok", "eio", "dead"}]
  BY DEF Init
<1>7. /\ ident = "ours" /\ mode = "down" /\ fleet = {} /\ mounted = {}
      /\ jloc = 1 /\ good = {1} /\ forced = FALSE /\ hearsay = FALSE /\ clock = 1 /\ snaps = 1
  BY DEF Init
<1>8. good \subseteq 1..snaps /\ jloc \in Nat /\ clock \in Nat /\ snaps \in Nat
  BY <1>7
<1>9. forced \in BOOLEAN /\ hearsay \in BOOLEAN
  BY <1>7
<1>. QED
  BY <1>1, <1>2, <1>3, <1>4, <1>5, <1>6, <1>7, <1>8, <1>9 DEF Shaped

\* The start-up keeps the types.
LEMMA ShapedBoot ==
    ASSUME Shaped, Boot
    PROVE  Shaped'
<1>1. CASE BootGate
  <2>1. db.tab \subseteq Disk
    BY DEF Shaped, DbType
  <2>2. mounted' \subseteq fleet' /\ fleet' \subseteq Disk
    BY <1>1, <2>1 DEF BootGate, Shaped
  <2>3. mode' \in {"bare", "mounted"}
    BY <1>1 DEF BootGate
  <2>. QED
    BY <1>1, <2>2, <2>3 DEF BootGate, Shaped
<1>2. CASE hydrateFromDisk
  <2>. DEFINE withSnap == {d \in OnDisk : man[d].snap # 0}
              last == Newest(OnDisk)
  <2>1. mem' \in MemType
    <3>1. CASE withSnap = {}
      BY <1>2, <3>1 DEF hydrateFromDisk, NoMem, MemType
    <3>2. CASE withSnap # {}
      <4>1. withSnap \in SUBSET Disk /\ OnDisk \in SUBSET Disk /\ OnDisk # {}
        BY <3>2 DEF OnDisk, Shaped
      <4>2. last \in Disk
        BY <4>1, NewestIs DEF Shaped
      <4>3. PICK d \in withSnap : Max({man[e].snap : e \in withSnap}) = man[d].snap
        BY <3>2, <4>1, NewestSnap DEF Shaped
      <4>4. d \in Disk /\ man[d].snap \in Nat /\ man[last].jl \in Nat /\ man[last].at \in Nat
        BY <4>1, <4>2 DEF Shaped, Man
      <4>5. mem' = [NoMem EXCEPT !.snap = man[d].snap, !.jl = man[last].jl, !.from = man[last].at,
                                 !.lost = \E e \in mounted : ~Readable(e)]
        BY <1>2, <3>2, <4>3 DEF hydrateFromDisk
      <4>. QED
        BY <4>4, <4>5 DEF NoMem, MemType
    <3>. QED
      BY <3>1, <3>2
  <2>. QED
    BY <1>2, <2>1 DEF hydrateFromDisk, Shaped
<1>3. CASE Serve
  <2>1. mem' \in MemType /\ used' \in [Kinds -> Nat]
    <3>1. Spend("mute") => used' \in [Kinds -> Nat]
      BY SpendShape DEF Kinds
    <3>2. mem \in MemType /\ jloc \in Nat /\ used \in [Kinds -> Nat]
      BY DEF Shaped
    <3>3. [mem EXCEPT !.live = TRUE, !.lost = FALSE, !.jl = jloc] \in MemType
      BY <3>2 DEF MemType
    <3>. QED
      BY <1>3, <3>1, <3>2, <3>3 DEF Serve
  <2>2. db.tab \in SUBSET Disk /\ mounted \in SUBSET Disk
    BY DEF Shaped, DbType
  <2>3. pass' \in PassType /\ clock' \in Nat /\ hearsay' \in BOOLEAN
    <3>1. CASE UNCHANGED <<pass, clock, hearsay>>
      BY <3>1 DEF Shaped
    <3>2. CASE Request(db.tab, mem', mounted)
      BY <2>1, <2>2, <3>2, RequestShape
    <3>. QED
      BY <1>3, <3>1, <3>2 DEF Serve
  <2>. QED
    BY <1>3, <2>1, <2>3 DEF Serve, Shaped
<1>. QED
  BY <1>1, <1>2, <1>3 DEF Boot

\* The writer keeps the types.
LEMMA ShapedWriter ==
    ASSUME Shaped, Writer
    PROVE  Shaped'
<1>0. man \in [Disk -> Man] /\ pass \in PassType /\ mem \in MemType
  BY DEF Shaped
<1>1. CASE WriteOne
  <2>. DEFINE d == Min(pass.todo)
              new == [pass.body EXCEPT !.snap = IF keepSnapshot(d) THEN man[d].snap ELSE @,
                                       !.jl = IF keepJournal(d) THEN man[d].jl ELSE @]
  <2>1. pass.todo \in SUBSET Disk /\ pass.todo # {}
    BY <1>0, <1>1 DEF WriteOne, PassType
  <2>2. d \in Disk
    BY <2>1, NextDisk
  <2>3. man[d] \in Man /\ pass.body \in Man
    BY <1>0, <2>2 DEF PassType
  <2>4. new \in Man
    BY <2>3 DEF Man
  <2>5. man' \in [Disk -> Man]
    BY <1>0, <1>1, <2>2, <2>4 DEF WriteOne
  <2>6. pass' \in PassType
    BY <1>0, <1>1 DEF WriteOne, PassType
  <2>. QED
    BY <1>1, <2>5, <2>6 DEF WriteOne, Shaped
<1>2. CASE PassEnds
  <2>1. pass' \in PassType /\ clock' \in Nat /\ hearsay' \in BOOLEAN
    <3>1. CASE pass.queued
      <4>1. build(db.tab, mem) \in Man /\ mounted \in SUBSET Disk
        BY <1>0 DEF build, Man, MemType, Shaped, DbType
      <4>2. pass' = [NoPass EXCEPT !.todo = mounted, !.body = build(db.tab, mem), !.busy = TRUE]
            /\ clock' = clock + 1 /\ hearsay' = (hearsay \/ ~mem.live)
        BY <1>2, <3>1 DEF PassEnds
      <4>3. pass' \in PassType
        BY <4>1, <4>2 DEF PassType, NoPass
      <4>4. hearsay' \in BOOLEAN
        BY <4>2
      <4>5. clock \in Nat
        BY DEF Shaped
      <4>. QED
        BY <4>2, <4>3, <4>4, <4>5
    <3>2. CASE ~pass.queued
      <4>1. NoPass \in PassType
        BY DEF Absent, Man, NoPass, PassType
      <4>2. pass' \in PassType
        BY <1>2, <3>2, <4>1 DEF PassEnds
      <4>. QED
        BY <1>2, <3>2, <4>2 DEF PassEnds, Shaped
    <3>. QED
      BY <3>1, <3>2
  <2>. QED
    BY <1>2, <2>1 DEF PassEnds, Shaped
<1>. QED
  BY <1>1, <1>2 DEF Writer

\* A running array keeps the types.
LEMMA ShapedService ==
    ASSUME Shaped, Periodic \/ JournalMoves \/ TakeSnapshot \/ \E v \in Vol : registerVolume(v) \/ Reconcile(v)
    PROVE  Shaped'
<1>0. /\ mem \in MemType /\ db \in DbType /\ job \in JobType /\ pass \in PassType /\ jloc \in Nat
      /\ fleet \subseteq Disk /\ mounted \subseteq fleet /\ db.tab \subseteq Disk
      /\ snaps \in Nat /\ good \subseteq 1..snaps
  BY DEF Shaped, DbType
<1>1. CASE Periodic
  <2>1. used' \in [Kinds -> Nat]
    BY <1>1, SpendShape DEF Periodic, Kinds
  <2>2. pass' \in PassType /\ clock' \in Nat /\ hearsay' \in BOOLEAN
    BY <1>0, <1>1, RequestShape DEF Periodic
  <2>. QED
    BY <1>1, <2>1, <2>2 DEF Periodic, Shaped
<1>2. CASE JournalMoves
  <2>1. used' \in [Kinds -> Nat]
    BY <1>2, SpendShape DEF JournalMoves, Kinds
  <2>2. mem' \in MemType /\ jloc' \in Nat
    BY <1>0, <1>2 DEF JournalMoves, MemType
  <2>3. pass' \in PassType /\ clock' \in Nat /\ hearsay' \in BOOLEAN
    BY <1>0, <1>2, <2>2, RequestShape DEF JournalMoves
  <2>. QED
    BY <1>2, <2>1, <2>2, <2>3 DEF JournalMoves, Shaped
<1>3. CASE TakeSnapshot
  <2>1. used' \in [Kinds -> Nat]
    BY <1>3, SpendShape DEF TakeSnapshot, Kinds
  <2>2. snaps' \in Nat /\ good' \subseteq 1..snaps'
    BY <1>0, <1>3 DEF TakeSnapshot
  <2>3. job' = [NoJob EXCEPT !.pc = "check", !.no = snaps + 1] /\ snaps + 1 \in Nat
    BY <1>0, <1>3 DEF TakeSnapshot
  <2>4. job' \in JobType
    BY <2>3 DEF NoJob, JobType
  <2>. QED
    BY <1>3, <2>1, <2>2, <2>4 DEF TakeSnapshot, Shaped
<1>4. ASSUME NEW v \in Vol, registerVolume(v)
      PROVE  Shaped'
  <2>1. used' \in [Kinds -> Nat]
    BY <1>4, SpendShape DEF registerVolume, Kinds
  <2>2. v \in Disk
    BY Disks
  <2>3. db' \in DbType /\ db'.tab \in SUBSET Disk
    BY <1>0, <1>4, <2>2 DEF registerVolume, DbType
  <2>4. mounted' \subseteq fleet' /\ fleet' \subseteq Disk
    BY <1>0, <1>4, <2>2 DEF registerVolume
  <2>5. mem' \in MemType
    BY <1>4, HearsShape DEF registerVolume
  <2>6. pass' \in PassType /\ clock' \in Nat /\ hearsay' \in BOOLEAN
    BY <1>4, <2>3, <2>4, <2>5, RequestShape DEF registerVolume
  <2>. QED
    BY <1>4, <2>1, <2>3, <2>4, <2>5, <2>6 DEF registerVolume, Shaped
<1>5. ASSUME NEW v \in Vol, Reconcile(v)
      PROVE  Shaped'
  <2>1. mounted' \subseteq fleet
    BY <1>0, <1>5 DEF Reconcile
  <2>2. mem' \in MemType
    BY <1>0, <1>5, HearsShape DEF Reconcile
  <2>3. pass' \in PassType /\ clock' \in Nat /\ hearsay' \in BOOLEAN
    <3>1. CASE UNCHANGED <<pass, clock, hearsay>>
      BY <3>1 DEF Shaped
    <3>2. CASE Request(db.tab, mem', mounted')
      BY <1>0, <2>1, <2>2, <3>2, RequestShape
    <3>. QED
      BY <1>5, <3>1, <3>2 DEF Reconcile
  <2>. QED
    BY <1>5, <2>1, <2>2, <2>3 DEF Reconcile, Shaped
<1>. QED
  BY <1>1, <1>2, <1>3, <1>4, <1>5

\* The snapshot job keeps the types.
LEMMA ShapedSnapshot ==
    ASSUME Shaped, Snapshot
    PROVE  Shaped'
<1>0. mem \in MemType /\ db.tab \subseteq Disk /\ job \in JobType /\ pass \in PassType /\ clock \in Nat
      /\ fleet \subseteq Disk /\ mounted \subseteq fleet
  BY DEF Shaped, DbType
<1>1. CASE publish
  <2>1. mem' \in MemType
    BY <1>0, <1>1 DEF publish, MemType, JobType
  <2>2. pass' \in PassType /\ clock' \in Nat /\ hearsay' \in BOOLEAN
    <3>1. CASE UNCHANGED <<pass, clock, hearsay>>
      BY <3>1 DEF Shaped
    <3>2. CASE Request(db.tab, mem', mounted)
      BY <1>0, <2>1, <3>2, RequestShape
    <3>. QED
      BY <1>1, <3>1, <3>2 DEF publish
  <2>3. job' \in JobType
    <3>1. CASE job' = NoJob
      BY <3>1 DEF NoJob, JobType
    <3>2. CASE job' = [job EXCEPT !.pc = "wait", !.back = mem.snap,
                                  !.after = IF pass.busy THEN clock + 1 ELSE clock']
      <4>1. mem.snap \in Nat
        BY <1>0 DEF MemType
      <4>2. (IF pass.busy THEN clock + 1 ELSE clock') \in Nat
        BY <1>0, <2>2
      <4>. QED
        BY <1>0, <3>2, <4>1, <4>2 DEF JobType
    <3>. QED
      BY <1>1, <3>1, <3>2 DEF publish
  <2>. QED
    BY <1>1, <2>1, <2>2, <2>3 DEF publish, Shaped
<1>2. CASE PublishEnds
  <2>1. mem' \in MemType
    BY <1>0, <1>2 DEF PublishEnds, MemType, JobType
  <2>2. job' \in JobType
    BY <1>2 DEF PublishEnds, NoJob, JobType
  <2>. QED
    BY <1>2, <2>1, <2>2 DEF PublishEnds, Shaped
<1>. QED
  BY <1>1, <1>2 DEF Snapshot

\* The recoveries keep the types.
LEMMA ShapedRecovery ==
    ASSUME Shaped, FleetSteps \/ RestoreSteps \/ \E force \in BOOLEAN : recoverFleet(force)
    PROVE  Shaped'
<1>0. op \in OpType /\ db \in DbType /\ man \in [Disk -> Man]
  BY DEF Shaped
<1>1. CASE beginFleetRestore
  <2>1. db' \in DbType
    BY <1>0, <1>1 DEF beginFleetRestore, DbType
  <2>2. op' \in OpType
    BY <1>0, <1>1 DEF beginFleetRestore, OpType
  <2>. QED
    BY <1>1, <2>1, <2>2 DEF beginFleetRestore, Shaped
<1>2. CASE adoptIdentity
  <2>1. op' \in OpType
    <3>1. [op EXCEPT !.pc = "volumes", !.todo = op.tab] \in OpType /\ NoOp \in OpType
      BY <1>0 DEF OpType, NoOp
    <3>. QED
      BY <1>2, <3>1 DEF adoptIdentity
  <2>2. ident' \in {"none", "ours", "other"}
    BY <1>0, <1>2 DEF adoptIdentity, OpType, Shaped
  <2>. QED
    BY <1>2, <2>1, <2>2 DEF adoptIdentity, Shaped
<1>3. CASE restoreVolumes
  <2>1. op' \in OpType
    BY <1>0, <1>3 DEF restoreVolumes, OpType, NoOp
  <2>2. op.todo # {} => Min(op.todo) \in Disk
    BY <1>0, NextDisk DEF OpType
  <2>3. db' \in DbType
    <3>1. CASE op.todo # {}
      <4>1. db' = [db EXCEPT !.tab = @ \cup {Min(op.todo)}]
        BY <1>3, <3>1 DEF restoreVolumes
      <4>. QED
        BY <1>0, <2>2, <3>1, <4>1 DEF DbType
    <3>2. CASE op.todo = {}
      BY <1>0, <1>3, <3>2 DEF restoreVolumes, DbType
    <3>. QED
      BY <3>1, <3>2
  <2>. QED
    BY <1>3, <2>1, <2>3 DEF restoreVolumes, Shaped
<1>4. CASE restoreBegin
  <2>1. op' \in OpType
    BY <1>0, <1>4 DEF restoreBegin, OpType, NoOp
  <2>2. db' \in DbType
    BY <1>0, <1>4 DEF restoreBegin, DbType
  <2>. QED
    BY <1>4, <2>1, <2>2 DEF restoreBegin, Shaped
<1>5. CASE restoreApply
  <2>1. op' \in OpType
    BY <1>0, <1>5 DEF restoreApply, OpType, NoOp
  <2>2. db' \in DbType
    BY <1>0, <1>5 DEF restoreApply, DbType
  <2>. QED
    BY <1>5, <2>1, <2>2 DEF restoreApply, Shaped
<1>6. ASSUME NEW force \in BOOLEAN, recoverFleet(force)
      PROVE  Shaped'
  <2>1. PICK i \in {man[d].id : d \in found} :
             /\ forced' = (forced \/ ~Complete(i) \/ (db.tab # {} /\ ~db.fleetMark))
             /\ op' = [NoOp EXCEPT !.pc = "mark", !.id = i, !.tab = man[Newest(Group(i))].tab]
    BY <1>6 DEF recoverFleet
  <2>2. PICK d \in Disk : d \in found /\ man[d].id = i
    BY <2>1 DEF found
  <2>3. i \in {"none", "ours", "other"}
    BY <1>0, <2>2 DEF Man
  <2>4. Group(i) \in SUBSET Disk /\ Group(i) # {}
    BY <2>2 DEF Group, found
  <2>5. Newest(Group(i)) \in Disk
    BY <1>0, <2>4, NewestIs
  <2>6. man[Newest(Group(i))].tab \in SUBSET Disk
    BY <1>0, <2>5 DEF Man
  <2>7. op' \in OpType
    BY <2>1, <2>3, <2>6 DEF NoOp, OpType
  <2>8. forced' \in BOOLEAN
    BY <2>1
  <2>. QED
    BY <1>6, <2>7, <2>8 DEF recoverFleet, Shaped
<1>. QED
  BY <1>1, <1>2, <1>3, <1>4, <1>5, <1>6 DEF FleetSteps, RestoreSteps

\* What befalls the array keeps the types.
LEMMA ShapedWorld ==
    ASSUME Shaped, Restart \/ Crash \/ Disaster \/ \E d \in Disk : Fails(d) \/ Answers(d)
    PROVE  Shaped'
<1>1. CASE Restart
  BY <1>1, DownShape DEF Restart, Shaped
<1>2. CASE Crash
  <2>1. used' \in [Kinds -> Nat]
    BY <1>2, SpendShape DEF Crash, Kinds
  <2>2. Down
    BY <1>2 DEF Crash
  <2>. QED
    BY <1>2, <2>1, <2>2, DownShape DEF Crash, Shaped
<1>3. CASE Disaster
  <2>1. used' \in [Kinds -> Nat]
    BY <1>3, SpendShape DEF Disaster, Kinds
  <2>2. db' \in DbType
    BY <1>3 DEF Disaster, DbType
  <2>3. ident' \in {"none", "ours", "other"}
    BY <1>3 DEF Disaster, Shaped
  <2>. QED
    BY <1>3, <2>1, <2>2, <2>3 DEF Disaster, Shaped
<1>4. ASSUME NEW d \in Disk, Fails(d)
      PROVE  Shaped'
  <2>1. used' \in [Kinds -> Nat]
    BY <1>4, SpendShape DEF Fails, Kinds
  <2>2. st' \in [Disk -> {"ok", "eio", "dead"}]
    BY <1>4 DEF Fails, Shaped
  <2>. QED
    BY <1>4, <2>1, <2>2 DEF Fails, Shaped
<1>5. ASSUME NEW d \in Disk, Answers(d)
      PROVE  Shaped'
  <2>1. st' \in [Disk -> {"ok", "eio", "dead"}]
    BY <1>5 DEF Answers, Shaped
  <2>. QED
    BY <1>5, <2>1 DEF Answers, Shaped
<1>. QED
  BY <1>1, <1>2, <1>3, <1>4, <1>5

\* Every step keeps the types.
LEMMA ShapedStep ==
    ASSUME Shaped, [Next]_vars
    PROVE  Shaped'
<1>1. CASE UNCHANGED vars
  BY <1>1 DEF vars, Shaped
<1>2. CASE Next
  BY <1>2, ShapedBoot, ShapedWriter, ShapedSnapshot, ShapedService, ShapedRecovery, ShapedWorld DEF Next
<1>. QED
  BY <1>1, <1>2

(***************************************************************************)
(* Part 4: what a step does to the pass, and to what the process believes. *)
(***************************************************************************)

\* The pass goes on, starts, or is over.
PassKept ==
    pass'.busy = pass.busy /\ pass'.body = pass.body /\ pass'.todo = pass.todo /\ UNCHANGED <<clock, hearsay>>

PassStarts(table, b, targets) ==
    /\ pass'.busy /\ pass'.todo = targets
    /\ pass'.body.id = ident /\ pass'.body.at = clock + 1 /\ pass'.body.snap = b.snap
    /\ pass'.body.jl = b.jl /\ pass'.body.tab = table
    /\ clock' = clock + 1 /\ hearsay' = (hearsay \/ ~b.live)

PassStops == ~pass'.busy /\ pass'.todo = {} /\ pass'.body = Absent /\ UNCHANGED <<clock, hearsay>>

\* One disk is written, or passed over.
Writes(d) ==
    /\ pass.busy /\ d \in pass.todo
    /\ pass'.busy /\ pass'.body = pass.body /\ pass'.todo = pass.todo \ {d}
    /\ \/ man' = man
       \/ \E new \in Man :
            /\ man' = [man EXCEPT ![d] = new]
            /\ new.id = pass.body.id /\ new.at = pass.body.at /\ new.tab = pass.body.tab
            /\ new.snap = IF keepSnapshot(d) THEN man[d].snap ELSE pass.body.snap
            /\ new.jl = IF keepJournal(d) THEN man[d].jl ELSE pass.body.jl
    /\ UNCHANGED <<st, db, ident, mode, fleet, mounted, mem, job, op, jloc, good, forced, hearsay, clock,
                   snaps, used>>

\* What becomes of a pass in a step that writes no disk.
PassMoves ==
    /\ UNCHANGED man
    /\ \/ PassKept
       \/ PassStarts(db'.tab, mem', mounted') /\ mode' = "normal" /\ UNCHANGED ident
       \/ PassStops

\* A request starts a pass or is coalesced.
LEMMA RequestIs ==
    ASSUME Shaped, NEW table, NEW b, NEW targets, Request(table, b, targets)
    PROVE  PassKept \/ PassStarts(table, b, targets)
<1>0. pass \in PassType
  BY DEF Shaped
<1>1. CASE pass.busy
  BY <1>0, <1>1 DEF Request, PassKept, PassType
<1>2. CASE ~pass.busy
  <2>1. pass' = [todo |-> targets, body |-> build(table, b), busy |-> TRUE, queued |-> FALSE]
    BY <1>2 DEF Request, NoPass
  <2>. QED
    BY <1>2, <2>1 DEF Request, PassStarts, build
<1>. QED
  BY <1>1, <1>2

\* A step writes one disk, or none.
LEMMA PassSteps ==
    ASSUME Shaped, pass.busy => mode = "normal", [Next]_vars
    PROVE  (\E d \in Disk : Writes(d)) \/ PassMoves
<1>0. pass \in PassType /\ man \in [Disk -> Man]
  BY DEF Shaped
<1>1. ASSUME UNCHANGED <<man, pass, clock, hearsay>>
      PROVE  PassMoves
  BY <1>1 DEF PassMoves, PassKept
<1>2. CASE UNCHANGED vars
  BY <1>1, <1>2 DEF vars
<1>3. CASE BootGate
  BY <1>1, <1>3 DEF BootGate
<1>4. CASE hydrateFromDisk
  BY <1>1, <1>4 DEF hydrateFromDisk
<1>5. CASE Serve
  <2>1. CASE UNCHANGED <<pass, clock, hearsay>>
    BY <1>1, <1>5, <2>1 DEF Serve
  <2>2. CASE mode' = "normal" /\ Request(db.tab, mem', mounted)
    <3>1. PassKept \/ PassStarts(db.tab, mem', mounted)
      BY <2>2, RequestIs
    <3>. QED
      BY <1>5, <2>2, <3>1 DEF Serve, PassMoves
  <2>. QED
    BY <1>5, <2>1, <2>2 DEF Serve
<1>6. CASE WriteOne
  <2>. DEFINE d == Min(pass.todo)
              new == [pass.body EXCEPT !.snap = IF keepSnapshot(d) THEN man[d].snap ELSE @,
                                       !.jl = IF keepJournal(d) THEN man[d].jl ELSE @]
  <2>1. pass.todo \in SUBSET Disk /\ pass.todo # {} /\ pass.body \in Man
    BY <1>0, <1>6 DEF WriteOne, PassType
  <2>2. d \in pass.todo /\ d \in Disk
    BY <2>1, NextDisk
  <2>3. man[d] \in Man
    BY <1>0, <2>2
  <2>4. new \in Man
    BY <2>1, <2>3 DEF Man
  <2>5. /\ new.id = pass.body.id /\ new.at = pass.body.at /\ new.tab = pass.body.tab
        /\ new.snap = IF keepSnapshot(d) THEN man[d].snap ELSE pass.body.snap
        /\ new.jl = IF keepJournal(d) THEN man[d].jl ELSE pass.body.jl
    BY <2>1 DEF Man
  <2>6. man' = man \/ man' = [man EXCEPT ![d] = new]
    BY <1>6 DEF WriteOne
  <2>7. pass.busy /\ pass'.busy /\ pass'.body = pass.body /\ pass'.todo = pass.todo \ {d}
    BY <1>0, <1>6 DEF WriteOne, PassType
  <2>. HIDE DEF new
  <2>8. Writes(d)
    BY <1>6, <2>2, <2>4, <2>5, <2>6, <2>7 DEF WriteOne, Writes
  <2>. QED
    BY <2>2, <2>8
<1>7. CASE PassEnds
  <2>1. CASE pass.queued
    <3>1. pass' = [todo |-> mounted, body |-> build(db.tab, mem), busy |-> TRUE, queued |-> FALSE]
      BY <1>7, <2>1 DEF PassEnds, NoPass
    <3>2. PassStarts(db.tab, mem, mounted)
      BY <1>7, <2>1, <3>1 DEF PassEnds, PassStarts, build
    <3>. QED
      BY <1>7, <3>2 DEF PassEnds, PassMoves
  <2>2. CASE ~pass.queued
    BY <1>7, <2>2 DEF PassEnds, PassMoves, PassStops, NoPass
  <2>. QED
    BY <2>1, <2>2
<1>8. CASE publish
  <2>1. CASE UNCHANGED <<pass, clock, hearsay>>
    BY <1>1, <1>8, <2>1 DEF publish
  <2>2. CASE Request(db.tab, mem', mounted)
    <3>1. PassKept \/ PassStarts(db.tab, mem', mounted)
      BY <2>2, RequestIs
    <3>. QED
      BY <1>8, <3>1 DEF publish, PassMoves
  <2>. QED
    BY <1>8, <2>1, <2>2 DEF publish
<1>9. CASE PublishEnds
  BY <1>1, <1>9 DEF PublishEnds
<1>10. CASE FleetSteps
  BY <1>1, <1>10 DEF FleetSteps, beginFleetRestore, adoptIdentity, restoreVolumes
<1>11. CASE RestoreSteps
  BY <1>1, <1>11 DEF RestoreSteps, restoreBegin, restoreApply
<1>12. ASSUME NEW force \in BOOLEAN, recoverFleet(force)
       PROVE  PassMoves
  BY <1>1, <1>12 DEF recoverFleet
<1>13. ASSUME Down, UNCHANGED <<man, clock, hearsay>>
       PROVE  PassMoves
  BY <1>13 DEF Down, PassMoves, PassStops, NoPass
<1>14. CASE Restart
  BY <1>13, <1>14 DEF Restart
<1>15. CASE Crash
  BY <1>13, <1>15 DEF Crash
<1>16. CASE Disaster
  BY <1>1, <1>16 DEF Disaster
<1>17. CASE TakeSnapshot
  BY <1>1, <1>17 DEF TakeSnapshot
<1>18. CASE Periodic
  <2>1. PassKept \/ PassStarts(db.tab, mem, mounted)
    BY <1>18, RequestIs DEF Periodic
  <2>. QED
    BY <1>18, <2>1 DEF Periodic, PassMoves
<1>19. CASE JournalMoves
  <2>1. PassKept \/ PassStarts(db.tab, mem', mounted)
    BY <1>19, RequestIs DEF JournalMoves
  <2>. QED
    BY <1>19, <2>1 DEF JournalMoves, PassMoves
<1>20. ASSUME NEW v \in Vol, registerVolume(v)
       PROVE  PassMoves
  <2>1. PassKept \/ PassStarts(db'.tab, mem', mounted')
    BY <1>20, RequestIs DEF registerVolume
  <2>. QED
    BY <1>20, <2>1 DEF registerVolume, PassMoves
<1>21. ASSUME NEW v \in Vol, Reconcile(v)
       PROVE  PassMoves
  <2>1. CASE UNCHANGED <<pass, clock, hearsay>>
    BY <1>1, <1>21, <2>1 DEF Reconcile
  <2>2. CASE Request(db.tab, mem', mounted')
    <3>1. PassKept \/ PassStarts(db.tab, mem', mounted')
      BY <2>2, RequestIs
    <3>. QED
      BY <1>21, <3>1 DEF Reconcile, PassMoves
  <2>. QED
    BY <1>21, <2>1, <2>2 DEF Reconcile
<1>22. ASSUME NEW d \in Disk, Fails(d) \/ Answers(d)
       PROVE  PassMoves
  BY <1>1, <1>22 DEF Fails, Answers
<1>23. Next => \/ Boot \/ Writer \/ Snapshot \/ FleetSteps \/ RestoreSteps
               \/ (\E force \in BOOLEAN : recoverFleet(force))
               \/ Restart \/ TakeSnapshot \/ Periodic \/ JournalMoves
               \/ (\E v \in Vol : registerVolume(v) \/ Reconcile(v))
               \/ Crash \/ Disaster \/ (\E d \in Disk : Fails(d) \/ Answers(d))
  BY DEF Next
<1>. QED
  BY <1>2, <1>3, <1>4, <1>5, <1>6, <1>7, <1>8, <1>9, <1>10, <1>11, <1>12, <1>14, <1>15, <1>16, <1>17, <1>18,
     <1>19, <1>20, <1>21, <1>22, <1>23 DEF Boot, Writer, Snapshot

(***************************************************************************)
(* Part 5: what may be running when.                                       *)
(***************************************************************************)

\* At first nothing runs.
LEMMA StagedInit ==
    ASSUME Init
    PROVE  Staged
<1>1. pass = NoPass /\ op = NoOp /\ fleet = {} /\ mode = "down"
  BY DEF Init
<1>2. ~pass.busy /\ pass.todo = {} /\ op.pc = "idle"
  BY <1>1 DEF NoPass, NoOp
<1>. QED
  BY <1>1, <1>2 DEF Staged, Replaying

\* The pass in flight stays a pass of the fleet in service, whose table only grows.
LEMMA StagedPass ==
    ASSUME Shaped, Staged, [Next]_vars, fleet' \subseteq db'.tab, mounted' \subseteq fleet',
           \/ fleet \subseteq fleet' /\ db.tab \subseteq db'.tab /\ (mode = "normal" => mode' = "normal")
           \/ PassStops
           \/ mode # "normal" /\ UNCHANGED pass /\ fleet \subseteq fleet'
    PROVE  /\ pass'.busy => mode' = "normal" /\ pass'.body.tab \subseteq db'.tab
           /\ pass'.todo \subseteq fleet'
<1>1. (\E d \in Disk : Writes(d)) \/ PassMoves
  BY PassSteps DEF Staged
<1>2. CASE PassStops
  BY <1>2 DEF PassStops
<1>3. ASSUME NEW d \in Disk, Writes(d)
      PROVE  /\ pass'.busy => mode' = "normal" /\ pass'.body.tab \subseteq db'.tab
             /\ pass'.todo \subseteq fleet'
  BY <1>3 DEF Writes, Staged
<1>4. CASE PassStarts(db'.tab, mem', mounted') /\ mode' = "normal"
  BY <1>4 DEF PassStarts
<1>5. CASE PassKept
  BY <1>2, <1>5 DEF PassKept, Staged
<1>. QED
  BY <1>1, <1>2, <1>3, <1>4, <1>5 DEF PassMoves

\* The start-up.
LEMMA StagedBoot ==
    ASSUME Shaped, Staged, Boot
    PROVE  Staged'
<1>0. /\ op.pc = "idle" /\ mode \in {"down", "mounted", "hydrated"} /\ UNCHANGED <<db, op>>
      /\ ~pass.busy
      /\ mode' = "names" \/ mode' = "normal" => fleet' = fleet
  BY DEF Boot, BootGate, hydrateFromDisk, Serve, Staged
<1>1. /\ fleet' \subseteq db.tab
      /\ mode' \in {"bare", "mounted", "hydrated", "names", "normal"}
      /\ mode' = "bare" => fleet' = {}
      /\ mode' \in {"mounted", "hydrated"} => fleet' = db.tab /\ ~db.fleetMark
      /\ fleet \subseteq fleet'
  BY <1>0 DEF Boot, BootGate, hydrateFromDisk, Serve, Staged
<1>2. Shaped' /\ [Next]_vars
  BY ShapedBoot DEF Next
<1>3. mounted' \subseteq fleet'
  BY <1>2 DEF Shaped
<1>4. /\ pass'.busy => mode' = "normal" /\ pass'.body.tab \subseteq db'.tab
      /\ pass'.todo \subseteq fleet'
  <2>1. fleet \subseteq fleet' /\ db.tab \subseteq db'.tab /\ mode # "normal" /\ fleet' \subseteq db'.tab
    BY <1>0, <1>1
  <2>. QED
    BY <1>2, <1>3, <2>1, StagedPass
<1>. QED
  BY <1>0, <1>1, <1>4 DEF Staged, Replaying

\* What a running array does.
LEMMA StagedService ==
    ASSUME Shaped, Staged,
           Writer \/ Snapshot \/ Periodic \/ JournalMoves \/ TakeSnapshot
              \/ \E v \in Vol : registerVolume(v) \/ Reconcile(v)
    PROVE  Staged'
<1>0. op \in OpType /\ db \in DbType
  BY DEF Shaped
<1>1. /\ mode = "normal" /\ mode' = "normal" /\ op' = op
      /\ fleet \subseteq fleet' /\ fleet' \subseteq db'.tab /\ db.tab \subseteq db'.tab
      /\ db'.fleetMark = db.fleetMark /\ db'.namesMark = db.namesMark
  BY <1>0 DEF Writer, WriteOne, PassEnds, Snapshot, publish, PublishEnds, Periodic, JournalMoves, TakeSnapshot,
         registerVolume, Reconcile, Staged, DbType
<1>2. Shaped' /\ [Next]_vars
  BY ShapedWriter, ShapedSnapshot, ShapedService DEF Next
<1>3. mounted' \subseteq fleet'
  BY <1>2 DEF Shaped
<1>4. /\ pass'.busy => mode' = "normal" /\ pass'.body.tab \subseteq db'.tab
      /\ pass'.todo \subseteq fleet'
  BY <1>1, <1>2, <1>3, StagedPass
<1>. QED
  BY <1>1, <1>4 DEF Staged, Replaying

\* The recoveries.
LEMMA StagedRecovery ==
    ASSUME Shaped, Staged, FleetSteps \/ RestoreSteps \/ \E force \in BOOLEAN : recoverFleet(force)
    PROVE  Staged'
<1>0. op \in OpType /\ db \in DbType
  BY DEF Shaped
<1>1. UNCHANGED <<pass, fleet, mode, mounted, mem>>
  BY DEF FleetSteps, RestoreSteps, recoverFleet, beginFleetRestore, adoptIdentity, restoreVolumes,
         restoreBegin, restoreApply
<1>2. CASE beginFleetRestore
  <2>1. CASE op.pc = "mark"
    <3>1. op'.pc = "mark2" /\ db'.tab = db.tab /\ db'.fleetMark
      BY <1>0, <1>2, <2>1 DEF beginFleetRestore, OpType, DbType
    <3>2. fleet' \subseteq db'.tab /\ mode' \notin {"down", "mounted", "hydrated"}
      BY <1>1, <2>1, <3>1 DEF Staged
    <3>. QED
      BY <1>1, <3>1, <3>2 DEF Staged, Replaying
  <2>2. CASE op.pc = "mark2"
    <3>1. op'.pc = "adopt" /\ db'.tab = db.tab /\ db'.fleetMark = db.fleetMark /\ db'.namesMark
      BY <1>0, <1>2, <2>2 DEF beginFleetRestore, OpType, DbType
    <3>2. fleet' \subseteq db'.tab /\ mode' \notin {"down", "mounted", "hydrated"} /\ db'.fleetMark
      BY <1>1, <2>2, <3>1 DEF Staged
    <3>. QED
      BY <1>1, <3>1, <3>2 DEF Staged, Replaying
  <2>. QED
    BY <1>2, <2>1, <2>2 DEF beginFleetRestore
<1>3. CASE adoptIdentity
  <2>1. db' = db /\ op.pc = "adopt"
    BY <1>3 DEF adoptIdentity
  <2>2. op'.pc = "idle" \/ (op'.pc = "volumes" /\ op'.tab = op'.todo)
    <3>1. op' = [op EXCEPT !.pc = "volumes", !.todo = op.tab] \/ op' = NoOp
      BY <1>3 DEF adoptIdentity
    <3>2. CASE op' = [op EXCEPT !.pc = "volumes", !.todo = op.tab]
      <4>1. op'.pc = "volumes" /\ op'.todo = op.tab /\ op'.tab = op.tab
        BY <1>0, <3>2 DEF OpType
      <4>. QED
        BY <4>1
    <3>3. CASE op' = NoOp
      BY <3>3 DEF NoOp
    <3>. QED
      BY <3>1, <3>2, <3>3
  <2>. QED
    BY <1>1, <2>1, <2>2 DEF Staged, Replaying
<1>4. CASE restoreVolumes
  <2>1. CASE op.todo # {}
    <3>1. op'.pc = "volumes" /\ op'.tab = op.tab /\ op'.todo = op.todo \ {Min(op.todo)}
      BY <1>0, <1>4, <2>1 DEF restoreVolumes, OpType
    <3>2. db'.tab = db.tab \cup {Min(op.todo)} /\ db'.fleetMark = db.fleetMark /\ db'.namesMark = db.namesMark
      BY <1>0, <1>4, <2>1 DEF restoreVolumes, DbType
    <3>. QED
      BY <1>1, <1>4, <3>1, <3>2 DEF restoreVolumes, Staged, Replaying
  <2>2. CASE op.todo = {}
    BY <1>0, <1>1, <1>4, <2>2 DEF restoreVolumes, Staged, Replaying, OpType, DbType, NoOp
  <2>. QED
    BY <2>1, <2>2
<1>5. CASE restoreBegin
  <2>1. op'.pc = "apply"
    BY <1>5 DEF restoreBegin, NoOp
  <2>2. db'.tab = db.tab /\ db'.fleetMark = db.fleetMark /\ db'.namesMark = db.namesMark
    BY <1>0, <1>5 DEF restoreBegin, DbType
  <2>. QED
    BY <1>1, <1>5, <2>1, <2>2 DEF restoreBegin, MayRestore, plattersOrRefuse, Staged, Replaying
<1>6. CASE restoreApply
  <2>1. op'.pc \in {"idle", "rest", "end", "clear"}
    BY <1>0, <1>6 DEF restoreApply, NoOp, OpType
  <2>2. db'.tab = db.tab /\ db'.fleetMark = db.fleetMark
    BY <1>0, <1>6 DEF restoreApply, DbType
  <2>. QED
    BY <1>1, <1>6, <2>1, <2>2 DEF restoreApply, Staged, Replaying
<1>7. ASSUME NEW force \in BOOLEAN, recoverFleet(force)
      PROVE  Staged'
  <2>1. op'.pc = "mark"
    BY <1>7 DEF recoverFleet, NoOp
  <2>. QED
    BY <1>1, <1>7, <2>1 DEF recoverFleet, Staged, Replaying
<1>. QED
  BY <1>2, <1>3, <1>4, <1>5, <1>6, <1>7 DEF FleetSteps, RestoreSteps

\* Every step.
LEMMA StagedStep ==
    ASSUME Shaped, Staged, [Next]_vars
    PROVE  Staged'
<1>1. CASE UNCHANGED vars
  BY <1>1 DEF vars, Staged, Replaying
<1>2. CASE Restart \/ Crash
  <2>1. Down
    BY <1>2 DEF Restart, Crash
  <2>2. mode' = "down" /\ fleet' = {} /\ ~pass'.busy /\ pass'.todo = {} /\ op'.pc = "idle"
    BY <2>1 DEF Down, NoPass, NoOp
  <2>. QED
    BY <2>2 DEF Staged, Replaying
<1>3. CASE Disaster
  BY <1>3 DEF Disaster, Staged, Replaying
<1>4. CASE \E d \in Disk : Fails(d) \/ Answers(d)
  BY <1>4 DEF Fails, Answers, Staged, Replaying
<1>. QED
  BY <1>1, <1>2, <1>3, <1>4, StagedBoot, StagedService, StagedRecovery DEF Next

(***************************************************************************)
(* Part 6: no disk forgets.                                                *)
(***************************************************************************)

\* The first pass, dated 1, is over.
LEMMA DatedInit ==
    ASSUME Init
    PROVE  Dated
<1>1. clock = 1 /\ pass = NoPass
  BY DEF Init
<1>2. \A v \in Vol : man[v].at \in {0, 1}
  BY Disks, RecoveryAssumption DEF Init, Disk, Absent
<1>. QED
  BY <1>1, <1>2 DEF Dated, NoPass

\* Each pass is dated after the manifests there are.
LEMMA DatedStep ==
    ASSUME Shaped, Staged, Dated, [Next]_vars
    PROVE  Dated'
<1>0. /\ man \in [Disk -> Man] /\ clock \in Nat /\ pass.body.at \in Nat
      /\ Vol \subseteq Disk /\ \A v \in Vol : man[v].at \in Nat
  BY Disks DEF Shaped, PassType, Man
<1>1. (\E d \in Disk : Writes(d)) \/ PassMoves
  BY PassSteps DEF Staged
<1>2. ASSUME NEW d \in Disk, Writes(d)
      PROVE  Dated'
  <2>1. \A v \in Vol : man'[v].at = man[v].at \/ man'[v].at = pass.body.at
    BY <1>0, <1>2 DEF Writes
  <2>2. pass.busy /\ pass'.body = pass.body /\ clock' = clock
    BY <1>2 DEF Writes
  <2>. QED
    BY <1>0, <2>1, <2>2 DEF Dated
<1>3. ASSUME PassStarts(db'.tab, mem', mounted'), man' = man
      PROVE  Dated'
  <2>1. clock' = clock + 1 /\ pass'.body.at = clock + 1
    BY <1>3 DEF PassStarts
  <2>2. \A v \in Vol : man[v].at <= clock + 1
    BY <1>0 DEF Dated
  <2>. QED
    BY <1>0, <1>3, <2>1, <2>2 DEF Dated
<1>4. ASSUME PassStops, man' = man
      PROVE  Dated'
  BY <1>4 DEF PassStops, Dated
<1>5. ASSUME PassKept, man' = man
      PROVE  Dated'
  BY <1>5 DEF PassKept, Dated
<1>. QED
  BY <1>1, <1>2, <1>3, <1>4, <1>5 DEF PassMoves

\* What a step does to what the process believes of the journal.
MemMoves ==
    \/ mem'.live = mem.live /\ mem'.jl = mem.jl /\ UNCHANGED jloc
    \/ ~mem'.live /\ ~pass'.busy /\ UNCHANGED jloc
    \/ mem'.live /\ mem'.jl = jloc /\ UNCHANGED jloc
    \/ mem.live /\ mem'.live /\ mem'.jl = jloc + 1 /\ jloc' = jloc + 1

\* The journal says where it is, or its word is gone.
LEMMA MemSteps ==
    ASSUME Shaped, Staged, [Next]_vars
    PROVE  MemMoves
<1>0. mem \in MemType
  BY DEF Shaped
<1>1. ASSUME UNCHANGED <<mem, jloc>>
      PROVE  MemMoves
  BY <1>1 DEF MemMoves
<1>2. CASE UNCHANGED vars
  BY <1>1, <1>2 DEF vars
<1>3. CASE BootGate
  BY <1>1, <1>3 DEF BootGate
<1>4. CASE hydrateFromDisk
  <2>1. ~pass.busy /\ UNCHANGED <<pass, jloc>>
    BY <1>4 DEF hydrateFromDisk, Staged
  <2>2. mem'.live = FALSE
    BY <1>4 DEF hydrateFromDisk, NoMem
  <2>. QED
    BY <2>1, <2>2 DEF MemMoves
<1>5. ASSUME mem' = [mem EXCEPT !.live = TRUE, !.lost = FALSE, !.jl = jloc], UNCHANGED jloc
      PROVE  MemMoves
  BY <1>0, <1>5 DEF MemType, MemMoves
<1>6. CASE Serve
  BY <1>1, <1>5, <1>6 DEF Serve
<1>7. CASE Writer
  BY <1>1, <1>7 DEF Writer, WriteOne, PassEnds
<1>8. CASE Snapshot
  BY <1>0, <1>1, <1>8 DEF Snapshot, publish, PublishEnds, MemMoves, MemType
<1>9. CASE FleetSteps \/ RestoreSteps \/ \E force \in BOOLEAN : recoverFleet(force)
  BY <1>1, <1>9 DEF FleetSteps, beginFleetRestore, adoptIdentity, restoreVolumes, RestoreSteps, restoreBegin,
       restoreApply, recoverFleet
<1>10. CASE Restart \/ Crash
  BY <1>10 DEF Restart, Crash, Down, NoMem, NoPass, MemMoves
<1>11. CASE TakeSnapshot \/ Periodic \/ Disaster \/ \E d \in Disk : Fails(d) \/ Answers(d)
  BY <1>1, <1>11 DEF TakeSnapshot, Periodic, Disaster, Fails, Answers
<1>12. CASE JournalMoves
  BY <1>0, <1>12 DEF JournalMoves, MemType, MemMoves
<1>13. CASE \E v \in Vol : registerVolume(v) \/ Reconcile(v)
  BY <1>1, <1>5, <1>13 DEF registerVolume, Reconcile, Hears
<1>. QED
  BY <1>2, <1>3, <1>4, <1>6, <1>7, <1>8, <1>9, <1>10, <1>11, <1>12, <1>13 DEF Next, Boot

\* The disks say where the journal is, and no process has said anything.
LEMMA LocatedInit ==
    ASSUME Init
    PROVE  Located
<1>1. jloc = 1 /\ pass = NoPass /\ mem = NoMem
  BY DEF Init
<1>2. \A v \in Vol : man[v].jl \in {0, 1}
  BY Disks, RecoveryAssumption DEF Init, Disk, Absent
<1>. QED
  BY <1>1, <1>2 DEF Located, NoPass, NoMem

\* Until a pass is built from hearsay, what is written of the journal is what the journal said last.
LEMMA LocatedStep ==
    ASSUME Shaped, Staged, Located, [Next]_vars
    PROVE  Located'
<1>0. /\ man \in [Disk -> Man] /\ jloc \in Nat /\ pass.body.jl \in Nat /\ mem.jl \in Nat
      /\ Vol \subseteq Disk /\ \A v \in Vol : man[v].jl \in Nat
  BY Disks DEF Shaped, PassType, Man, MemType
<1>1. (\E d \in Disk : Writes(d)) \/ PassMoves
  BY PassSteps DEF Staged
<1>2. MemMoves
  BY MemSteps
<1>3. ASSUME NEW d \in Disk, Writes(d)
      PROVE  Located'
  <2>1. \A v \in Vol : man'[v].jl = man[v].jl \/ man'[v].jl = pass.body.jl
    BY <1>0, <1>3 DEF Writes
  <2>2. /\ pass.busy /\ pass'.busy /\ pass'.body = pass.body /\ UNCHANGED <<mem, jloc, hearsay>>
    BY <1>3 DEF Writes
  <2>. QED
    BY <1>0, <2>1, <2>2 DEF Located
<1>4. mem'.live => mem'.jl = jloc'
  BY <1>2 DEF MemMoves, Located
<1>5. jloc' \in Nat /\ jloc <= jloc'
  BY <1>0, <1>2 DEF MemMoves
<1>6. ASSUME UNCHANGED man, ~hearsay' => ~hearsay
      PROVE  ~hearsay' => \A v \in Vol : man'[v].jl <= jloc'
  BY <1>0, <1>5, <1>6 DEF Located
<1>7. ASSUME PassStarts(db'.tab, mem', mounted'), man' = man
      PROVE  Located'
  <2>1. pass'.body.jl = mem'.jl /\ hearsay' = (hearsay \/ ~mem'.live)
    BY <1>7 DEF PassStarts
  <2>2. CASE ~hearsay'
    <3>1. mem'.live /\ ~hearsay
      BY <2>1, <2>2
    <3>2. \A v \in Vol : man'[v].jl <= jloc'
      BY <1>6, <1>7, <2>2, <3>1
    <3>. QED
      BY <1>4, <1>5, <2>1, <3>1, <3>2 DEF Located
  <2>3. CASE hearsay'
    BY <1>4, <2>3 DEF Located
  <2>. QED
    BY <2>2, <2>3
<1>8. ASSUME PassStops, man' = man
      PROVE  Located'
  BY <1>4, <1>6, <1>8 DEF PassStops, Located
<1>9. ASSUME PassKept, man' = man
      PROVE  Located'
  <2>1. pass'.busy = pass.busy /\ pass'.body = pass.body /\ hearsay' = hearsay
    BY <1>9 DEF PassKept
  <2>2. pass'.busy /\ ~hearsay' => mem'.live
    BY <1>2, <2>1 DEF MemMoves, Located
  <2>3. pass'.busy /\ ~hearsay' => pass'.body.jl <= jloc'
    BY <1>0, <1>5, <2>1 DEF Located
  <2>. QED
    BY <1>4, <1>6, <1>9, <2>1, <2>2, <2>3 DEF Located
<1>. QED
  BY <1>1, <1>3, <1>7, <1>8, <1>9 DEF PassMoves

\* The invariant so far, which needs nothing of the attached disks.
RInv == Shaped /\ Staged /\ Dated /\ Located

\* It is inductive, with any disks attached.
LEMMA RInvHolds == Spec => []RInv
<1>1. Init => RInv
  BY ShapedInit, StagedInit, DatedInit, LocatedInit DEF RInv
<1>2. RInv /\ [Next]_vars => RInv'
  BY ShapedStep, StagedStep, DatedStep, LocatedStep DEF RInv
<1>. QED
  BY <1>1, <1>2, PTL DEF Spec

\* No pass takes back what a disk says of the snapshot, or of the journal.
LEMMA NoRegress ==
    ASSUME RInv, [Next]_vars
    PROVE  \A v \in Vol : man'[v].snap >= man[v].snap /\ (hearsay \/ man'[v].jl >= man[v].jl)
<1>. TAKE v \in Vol
<1>0. /\ man \in [Disk -> Man] /\ pass.body.jl \in Nat /\ pass.body.snap \in Nat
      /\ v \in Disk /\ man[v].jl \in Nat /\ man[v].snap \in Nat
  BY Disks DEF RInv, Shaped, PassType, Man
<1>1. (\E d \in Disk : Writes(d)) \/ PassMoves
  BY PassSteps DEF RInv, Staged
<1>2. CASE man' = man
  BY <1>0, <1>2
<1>3. ASSUME NEW d \in Disk, Writes(d), man' # man
      PROVE  man'[v].snap >= man[v].snap /\ (hearsay \/ man'[v].jl >= man[v].jl)
  <2>1. PICK new \in Man :
           /\ man' = [man EXCEPT ![d] = new]
           /\ new.snap = IF keepSnapshot(d) THEN man[d].snap ELSE pass.body.snap
           /\ new.jl = IF keepJournal(d) THEN man[d].jl ELSE pass.body.jl
    BY <1>3 DEF Writes
  <2>2. CASE v # d
    BY <1>0, <2>1, <2>2
  <2>3. CASE v = d
    <3>1. man'[v] = new
      BY <1>0, <2>1, <2>3
    <3>2. new.snap >= man[v].snap
      BY <1>0, <2>1, <2>3 DEF keepSnapshot, isNewer
    <3>3. hearsay \/ new.jl >= man[v].jl
      BY <1>0, <1>3, <2>1, <2>3 DEF Writes, RInv, Located
    <3>. QED
      BY <3>1, <3>2, <3>3
  <2>. QED
    BY <2>2, <2>3
<1>. QED
  BY <1>1, <1>2, <1>3 DEF PassMoves

\* A manifest pass never replaces the snapshot a disk names by an older one nor, as long as every pass was
\* built from the journal's own word, the place of the journal by an earlier one: whatever disks are attached,
\* however many crashes, losses, recoveries and forced recoveries there were (bootstrap-manifest.ts _writeOnce,
\* hydrateFromDisk, setJournalVolumeIds).
THEOREM PointersNeverRegress == Spec => DiskNeverForgets
<1>1. RInv /\ [Next]_vars
         => [\A v \in Vol : man'[v].snap >= man[v].snap /\ (hearsay \/ man'[v].jl >= man[v].jl)]_vars
  BY NoRegress
<1>. QED
  BY <1>1, RInvHolds, PTL DEF Spec, DiskNeverForgets

(***************************************************************************)
(* Part 7: whose array is this?                                            *)
(***************************************************************************)

\* An array of its own, with the disks of others beside it.
LEMMA KinInit ==
    ASSUME Init
    PROVE  Kin
<1>1. /\ ident = "ours" /\ mode = "down" /\ pass = NoPass /\ op = NoOp /\ db.tab = First
  BY DEF Init
<1>2. \A v \in First : man[v] = [id |-> "ours", at |-> 1, snap |-> 1, jl |-> 1, tab |-> First]
  BY Disks DEF Init
<1>3. \A v \in Foreign : man[v] = [id |-> "other", at |-> 9, snap |-> 9, jl |-> 1, tab |-> Foreign]
  BY Disks, RecoveryAssumption DEF Init
<1>4. \A v \in Vol : v \notin First => man[v] = Absent
  BY Disks, RecoveryAssumption DEF Init
<1>5. \A v \in Vol : (man[v] = Absent \/ man[v].id = "ours") /\ man[v].tab \subseteq Vol
  <2>. TAKE v \in Vol
  <2>1. CASE v \in First
    <3>1. man[v].id = "ours" /\ man[v].tab = First
      BY <1>2, <2>1
    <3>. QED
      BY <3>1, Disks
  <2>2. CASE v \notin First
    <3>1. man[v] = Absent
      BY <1>4, <2>2
    <3>. QED
      BY <3>1 DEF Absent
  <2>. QED
    BY <2>1, <2>2
<1>6. \A v \in First : man[v] # Absent
  BY <1>2 DEF Absent
<1>7. \A v \in Foreign : man[v] # Absent /\ man[v].id = "other"
  BY <1>3 DEF Absent
<1>. QED
  BY <1>1, <1>5, <1>6, <1>7, Disks DEF Kin, NoPass, NoOp, Recovering

\* Only this array wins the vote.
LEMMA OursWins ==
    ASSUME Shaped, Kin, OwnArray, NEW force \in BOOLEAN, force => MayForce,
           NEW i \in {man[d].id : d \in found}, Complete(i) \/ force
    PROVE  i = "ours"
<1>1. PICK d \in found : man[d].id = i
  OBVIOUS
<1>2. d \in Disk /\ man[d] # Absent
  BY DEF found, readManifestReadOnly
<1>3. CASE d \in Vol
  BY <1>1, <1>2, <1>3 DEF Kin
<1>4. CASE d \in Foreign
  <2>. SUFFICES ASSUME TRUE
                PROVE  FALSE
    OBVIOUS
  <2>1. i = "other"
    BY <1>1, <1>4 DEF Kin
  <2>2. Complete(i) /\ Cardinality(Foreign) < Cardinality(Vol)
    BY <1>4 DEF OwnArray
  <2>3. Group(i) \subseteq Foreign
    BY <2>1 DEF Group, Kin, found, readManifestReadOnly, Disk
  <2>4. found \cap silent = {} /\ First \cup Foreign \subseteq found \cup silent
    <3>1. found \cap silent = {}
      BY DEF found, silent
    <3>2. ASSUME NEW e \in First \cup Foreign
          PROVE  e \in found \cup silent
      <4>1. e \in Disk /\ man[e] # Absent
        BY <3>2, Disks DEF Kin
      <4>. QED
        BY <4>1 DEF found, silent, readManifestReadOnly
    <3>. QED
      BY <3>1, <3>2
  <2>5. /\ IsFiniteSet(found) /\ IsFiniteSet(silent) /\ IsFiniteSet(Foreign) /\ IsFiniteSet(First)
        /\ IsFiniteSet(Vol) /\ IsFiniteSet(Group(i)) /\ IsFiniteSet(found \cup silent)
        /\ IsFiniteSet(First \cup Foreign)
    BY Disks DEF found, silent, Group
  <2>6. /\ Cardinality(found) \in Nat /\ Cardinality(silent) \in Nat /\ Cardinality(Foreign) \in Nat
        /\ Cardinality(First) \in Nat /\ Cardinality(Vol) \in Nat /\ Cardinality(Group(i)) \in Nat
    BY <2>5, FS_CardinalityType
  <2>7. Cardinality(Group(i)) <= Cardinality(Foreign)
    BY <2>3, <2>5, FS_Subset
  <2>8. Cardinality(found \cup silent) = Cardinality(found) + Cardinality(silent)
    <3>1. Cardinality(found \cup silent) = Cardinality(found) + Cardinality(silent) - Cardinality(found \cap silent)
      BY <2>5, FS_Union
    <3>2. Cardinality(found \cap silent) = 0
      BY <2>4, FS_EmptySet
    <3>. QED
      BY <3>1, <3>2, <2>6
  <2>9. Cardinality(First \cup Foreign) = Cardinality(First) + Cardinality(Foreign)
    <3>1. First \cap Foreign = {}
      BY Disks, RecoveryAssumption
    <3>2. Cardinality(First \cup Foreign)
             = Cardinality(First) + Cardinality(Foreign) - Cardinality(First \cap Foreign)
      BY <2>5, FS_Union
    <3>3. Cardinality(First \cap Foreign) = 0
      BY <3>1, FS_EmptySet
    <3>. QED
      BY <3>2, <3>3, <2>6
  <2>10. Cardinality(First \cup Foreign) <= Cardinality(found \cup silent)
    BY <2>4, <2>5, FS_Subset
  <2>11. Cardinality(First) >= Cardinality(Vol) - 1
    BY <2>5, <2>6, FS_RemoveElement DEF First
  <2>12. 2 * Cardinality(Group(i)) > Cardinality(found) + Cardinality(silent)
    BY <2>2 DEF Complete
  <2>. QED
    BY <2>2, <2>6, <2>7, <2>8, <2>9, <2>10, <2>11, <2>12
<1>. QED
  BY <1>2, <1>3, <1>4 DEF Disk

\* The newest manifest of the winner is one of this array's.
LEMMA RecoverShape ==
    ASSUME Shaped, Kin, OwnArray, NEW force \in BOOLEAN, recoverFleet(force)
    PROVE  \E e \in Vol :
             /\ e \in Group("ours") /\ man[e].id = "ours" /\ man[e] # Absent
             /\ \A d \in Group("ours") : man[d].at <= man[e].at
             /\ op'.pc = "mark" /\ op'.id = "ours" /\ op'.tab = man[e].tab /\ op'.todo = {}
             /\ forced' = (forced \/ ~Complete("ours") \/ (db.tab # {} /\ ~db.fleetMark))
<1>0. man \in [Disk -> Man]
  BY DEF Shaped
<1>1. PICK i \in {man[d].id : d \in found} :
         /\ Complete(i) \/ force
         /\ forced' = (forced \/ ~Complete(i) \/ (db.tab # {} /\ ~db.fleetMark))
         /\ op' = [NoOp EXCEPT !.pc = "mark", !.id = i, !.tab = man[Newest(Group(i))].tab]
  BY DEF recoverFleet
<1>2. force => MayForce
  BY DEF recoverFleet
<1>3. i = "ours"
  BY <1>1, <1>2, OursWins
<1>4. PICK d \in found : man[d].id = "ours"
  BY <1>3
<1>5. Group("ours") \in SUBSET Disk /\ Group("ours") # {}
  BY <1>4 DEF Group, found
<1>. DEFINE e == Newest(Group("ours"))
<1>6. e \in Group("ours") /\ \A c \in Group("ours") : man[c].at <= man[e].at
  BY <1>0, <1>5, NewestIs
<1>7. e \in Disk /\ man[e].id = "ours" /\ man[e] # Absent
  BY <1>6 DEF Group, found, readManifestReadOnly
<1>8. e \in Vol
  BY <1>7 DEF Kin, Disk
<1>9. op'.pc = "mark" /\ op'.id = "ours" /\ op'.tab = man[e].tab /\ op'.todo = {}
  BY <1>1, <1>3 DEF NoOp
<1>. HIDE DEF e
<1>. QED
  BY <1>1, <1>3, <1>6, <1>7, <1>8, <1>9

\* What Kin says of the disks, of the database and what is loaded from it, of a recovery.
KinDisks ==
    /\ \A v \in Vol : (man[v] = Absent \/ man[v].id = "ours") /\ man[v].tab \subseteq Vol
    /\ \A d \in First : man[d] # Absent
    /\ \A d \in Foreign : man[d] # Absent /\ man[d].id = "other"
    /\ pass.busy => pass.body.id = "ours"

KinRest ==
    /\ ident # "other"
    /\ mode \in {"mounted", "hydrated", "names", "normal"} => ident = "ours"
    /\ db.tab \subseteq Vol /\ op.tab \subseteq Vol /\ op.todo \subseteq Vol
    /\ Recovering => op.id = "ours"

\* Only disks of this array are written.
LEMMA KinDisksStep ==
    ASSUME Shaped, Staged, Kin, [Next]_vars, KinRest'
    PROVE  KinDisks'
<1>0. man \in [Disk -> Man] /\ Vol \subseteq Disk /\ Foreign \subseteq Disk /\ First \subseteq Vol
      /\ Vol \cap Foreign = {}
  BY Disks, RecoveryAssumption DEF Shaped
<1>1. (\E d \in Disk : Writes(d)) \/ PassMoves
  BY PassSteps DEF Staged
<1>2. ASSUME NEW d \in Disk, Writes(d)
      PROVE  KinDisks'
  <2>1. d \in Vol /\ pass.body.tab \subseteq Vol /\ pass.body.id = "ours" /\ pass'.body = pass.body
    BY <1>2 DEF Writes, Staged, Kin
  <2>2. CASE man' = man
    BY <2>1, <2>2 DEF Kin, KinDisks
  <2>3. CASE man' # man
    <3>1. PICK new \in Man : man' = [man EXCEPT ![d] = new] /\ new.id = pass.body.id /\ new.tab = pass.body.tab
      BY <1>2, <2>3 DEF Writes
    <3>2. new.id = "ours" /\ new.tab \subseteq Vol /\ new # Absent
      BY <2>1, <3>1 DEF Absent
    <3>3. \A e \in Disk : man'[e] = man[e] \/ (e \in Vol /\ man'[e] = new)
      BY <1>0, <2>1, <3>1
    <3>4. \A e \in Foreign : man'[e] = man[e]
      BY <1>0, <3>3
    <3>. QED
      BY <1>0, <2>1, <3>2, <3>3, <3>4 DEF Kin, KinDisks
  <2>. QED
    BY <2>2, <2>3
<1>3. ASSUME man' = man, pass'.busy => pass'.body.id = "ours"
      PROVE  KinDisks'
  BY <1>3 DEF Kin, KinDisks
<1>4. CASE PassStarts(db'.tab, mem', mounted') /\ mode' = "normal" /\ ident' = ident /\ man' = man
  BY <1>3, <1>4 DEF PassStarts, KinRest
<1>5. CASE PassStops /\ man' = man
  BY <1>3, <1>5 DEF PassStops
<1>6. CASE PassKept /\ man' = man
  BY <1>3, <1>6 DEF PassKept, Kin
<1>. QED
  BY <1>1, <1>2, <1>4, <1>5, <1>6 DEF PassMoves

\* The table, and what is put into it, is of this array.
LEMMA KinRestStep ==
    ASSUME Shaped, Staged, Kin, OwnArray, [Next]_vars
    PROVE  KinRest'
<1>0. op \in OpType /\ db \in DbType
  BY DEF Shaped
<1>1. CASE UNCHANGED vars
  BY <1>1 DEF vars, Kin, KinRest, Recovering
<1>2. CASE Boot
  <2>1. UNCHANGED <<db, ident, op>>
    BY <1>2 DEF Boot, BootGate, hydrateFromDisk, Serve
  <2>2. mode' \in {"mounted", "hydrated", "names", "normal"} => ident = "ours"
    BY <1>2 DEF Boot, BootGate, hydrateFromDisk, Serve, Kin, Shaped
  <2>. QED
    BY <2>1, <2>2 DEF Kin, KinRest, Recovering
<1>3. CASE Writer \/ Snapshot \/ Periodic \/ JournalMoves \/ TakeSnapshot
             \/ \E d \in Disk : Fails(d) \/ Answers(d)
  <2>1. UNCHANGED <<db, ident, mode, op>>
    BY <1>3 DEF Writer, WriteOne, PassEnds, Snapshot, publish, PublishEnds, Periodic, JournalMoves, TakeSnapshot,
       Fails, Answers
  <2>. QED
    BY <2>1 DEF Kin, KinRest, Recovering
<1>4. ASSUME NEW v \in Vol, registerVolume(v)
      PROVE  KinRest'
  <2>1. db'.tab = db.tab \cup {v} /\ UNCHANGED <<ident, mode, op>>
    BY <1>0, <1>4 DEF registerVolume, DbType
  <2>. QED
    BY <2>1 DEF Kin, KinRest, Recovering
<1>5. ASSUME NEW v \in Vol, Reconcile(v)
      PROVE  KinRest'
  <2>1. UNCHANGED <<db, ident, mode, op>>
    BY <1>5 DEF Reconcile
  <2>. QED
    BY <2>1 DEF Kin, KinRest, Recovering
<1>6. CASE Restart \/ Crash
  <2>1. mode' = "down" /\ op'.pc = "idle" /\ op'.tab = {} /\ op'.todo = {} /\ UNCHANGED <<db, ident>>
    BY <1>6 DEF Restart, Crash, Down, NoOp
  <2>. QED
    BY <2>1 DEF Kin, KinRest, Recovering
<1>7. CASE Disaster
  <2>1. mode' = "down" /\ UNCHANGED op /\ db'.tab = {} /\ ident' \in {"none", ident}
    BY <1>7 DEF Disaster
  <2>. QED
    BY <2>1 DEF Kin, KinRest, Recovering
<1>8. CASE beginFleetRestore
  <2>1. UNCHANGED <<ident, mode>> /\ db'.tab = db.tab
    BY <1>0, <1>8 DEF beginFleetRestore, DbType
  <2>2. op'.id = op.id /\ op'.tab = op.tab /\ op'.todo = op.todo /\ Recovering
    BY <1>0, <1>8 DEF beginFleetRestore, OpType, Recovering
  <2>. QED
    BY <2>1, <2>2 DEF Kin, KinRest
<1>9. CASE adoptIdentity
  <2>1. UNCHANGED <<mode, db>> /\ op.id = "ours"
    BY <1>9 DEF adoptIdentity, Kin, Recovering
  <2>2. \/ op' = [op EXCEPT !.pc = "volumes", !.todo = op.tab] /\ ident' = op.id
        \/ op' = NoOp /\ ident' = ident
    BY <1>9 DEF adoptIdentity
  <2>3. CASE op' = [op EXCEPT !.pc = "volumes", !.todo = op.tab] /\ ident' = op.id
    <3>1. op'.id = op.id /\ op'.tab = op.tab /\ op'.todo = op.tab
      BY <1>0, <2>3 DEF OpType
    <3>. QED
      BY <2>1, <2>3, <3>1 DEF Kin, KinRest
  <2>4. CASE op' = NoOp /\ ident' = ident
    BY <2>1, <2>4 DEF NoOp, Kin, KinRest, Recovering
  <2>. QED
    BY <2>2, <2>3, <2>4
<1>10. CASE restoreVolumes
  <2>1. CASE op.todo # {}
    <3>1. op'.id = op.id /\ op'.tab = op.tab /\ op'.todo = op.todo \ {Min(op.todo)} /\ Recovering
      BY <1>0, <1>10, <2>1 DEF restoreVolumes, OpType, Recovering
    <3>2. db'.tab = db.tab \cup {Min(op.todo)} /\ UNCHANGED <<ident, mode>>
      BY <1>0, <1>10, <2>1 DEF restoreVolumes, DbType
    <3>3. Min(op.todo) \in op.todo
      BY <1>0, <2>1, NextDisk DEF OpType
    <3>. QED
      BY <3>1, <3>2, <3>3 DEF Kin, KinRest
  <2>2. CASE op.todo = {}
    <3>1. op' = NoOp /\ db'.tab = db.tab /\ UNCHANGED <<ident, mode>>
      BY <1>0, <1>10, <2>2 DEF restoreVolumes, DbType
    <3>. QED
      BY <3>1 DEF Kin, KinRest, NoOp, Recovering
  <2>. QED
    BY <2>1, <2>2
<1>11. CASE restoreBegin
  <2>1. op'.pc = "apply" /\ op'.tab = {} /\ op'.todo = {} /\ db'.tab = db.tab /\ UNCHANGED <<ident, mode>>
    BY <1>0, <1>11 DEF restoreBegin, NoOp, DbType
  <2>. QED
    BY <2>1 DEF Kin, KinRest, Recovering
<1>12. CASE restoreApply
  <2>1. db'.tab = db.tab /\ UNCHANGED <<ident, mode>>
    BY <1>0, <1>12 DEF restoreApply, DbType
  <2>2. op'.tab \subseteq op.tab /\ op'.todo \subseteq op.todo /\ op'.pc \in {"rest", "end", "clear", "idle"}
    BY <1>0, <1>12 DEF restoreApply, NoOp, OpType
  <2>. QED
    BY <2>1, <2>2 DEF Kin, KinRest, Recovering
<1>13. ASSUME NEW force \in BOOLEAN, recoverFleet(force)
       PROVE  KinRest'
  <2>1. PICK e \in Vol : op'.pc = "mark" /\ op'.id = "ours" /\ op'.tab = man[e].tab /\ op'.todo = {}
    BY <1>13, RecoverShape
  <2>2. UNCHANGED <<db, ident, mode>>
    BY <1>13 DEF recoverFleet
  <2>. QED
    BY <2>1, <2>2 DEF Kin, KinRest
<1>. QED
  BY <1>1, <1>2, <1>3, <1>4, <1>5, <1>6, <1>7, <1>8, <1>9, <1>10, <1>11, <1>12, <1>13
     DEF Next, FleetSteps, RestoreSteps

\* Every step: a manifest carries the identity of the process that wrote it, and the vote is this array's.
LEMMA KinStep ==
    ASSUME Shaped, Staged, Kin, OwnArray, [Next]_vars
    PROVE  Kin'
<1>1. KinRest'
  BY KinRestStep
<1>2. KinDisks'
  BY <1>1, KinDisksStep
<1>. QED
  BY <1>1, <1>2 DEF Kin, KinDisks, KinRest

(***************************************************************************)
(* Part 8: no emptied namespace is served or recorded.                     *)
(***************************************************************************)

\* What is hydrated is what the disks of this array say.
LEMMA HydrateShape ==
    ASSUME Shaped, Staged, Kin, hydrateFromDisk
    PROVE  \/ mem' = NoMem
           \/ \E d, last \in mounted :
                /\ d \in Vol /\ last \in Vol
                /\ mem'.snap = man[d].snap /\ man[d].snap # 0
                /\ mem'.jl = man[last].jl /\ ~mem'.live
                /\ \A e \in mounted : Readable(e) /\ man[e].id = ident => man[e].at <= man[last].at
                /\ ~mem'.lost => \A e \in mounted : Readable(e)
<1>0. man \in [Disk -> Man] /\ mounted \subseteq Vol /\ Vol \subseteq Disk
  BY Disks DEF Shaped, Staged, Kin
<1>. DEFINE withSnap == {d \in OnDisk : man[d].snap # 0}
            last == Newest(OnDisk)
<1>1. CASE withSnap = {}
  BY <1>1 DEF hydrateFromDisk
<1>2. CASE withSnap # {}
  <2>1. withSnap \in SUBSET Disk /\ OnDisk \in SUBSET Disk /\ OnDisk # {} /\ OnDisk \subseteq mounted
    BY <1>0, <1>2 DEF OnDisk
  <2>2. last \in OnDisk /\ \A e \in OnDisk : man[e].at <= man[last].at
    BY <1>0, <2>1, NewestIs
  <2>3. PICK d \in withSnap : Max({man[e].snap : e \in withSnap}) = man[d].snap
    BY <1>0, <1>2, <2>1, NewestSnap
  <2>4. mem' = [NoMem EXCEPT !.snap = man[d].snap, !.jl = man[last].jl, !.from = man[last].at,
                             !.lost = \E e \in mounted : ~Readable(e)]
    BY <1>2, <2>3 DEF hydrateFromDisk
  <2>. HIDE DEF last
  <2>5. /\ mem'.snap = man[d].snap /\ mem'.jl = man[last].jl /\ ~mem'.live
        /\ mem'.lost = \E e \in mounted : ~Readable(e)
    BY <2>4 DEF NoMem
  <2>6. man[d].snap # 0 /\ d \in mounted /\ last \in mounted
    BY <2>1, <2>2, <2>3
  <2>7. \A e \in mounted : Readable(e) /\ man[e].id = ident => man[e].at <= man[last].at
    BY <2>2 DEF OnDisk
  <2>. QED
    BY <1>0, <2>5, <2>6, <2>7
<1>. QED
  BY <1>1, <1>2

\* What Vouched says of the process, and of the disks.
VouchedMind ==
    /\ mem.snap \in good \cup {0} /\ job.back \in good \cup {0}
    /\ job.pc # "idle" => job.no \in good
    /\ mem.jl <= jloc

VouchedDisks ==
    /\ \A v \in Vol : man[v].snap \in good \cup {0}
    /\ pass.body.snap \in good \cup {0}
    /\ \A v \in Vol : man[v].jl <= jloc
    /\ pass.body.jl <= jloc

\* The first snapshot is of a whole namespace.
LEMMA VouchedInit ==
    ASSUME Init
    PROVE  Vouched
<1>1. jloc = 1 /\ good = {1} /\ pass = NoPass /\ mem = NoMem /\ job = NoJob
  BY DEF Init
<1>2. \A v \in Vol : man[v].jl \in {0, 1} /\ man[v].snap \in {0, 1}
  BY Disks, RecoveryAssumption DEF Init, Disk, Absent
<1>3. mem.jl <= jloc /\ pass.body.jl <= jloc
  BY <1>1 DEF NoPass, NoMem, Absent
<1>4. mem.snap = 0 /\ pass.body.snap = 0 /\ job.back = 0 /\ job.pc = "idle"
  BY <1>1 DEF NoPass, NoMem, NoJob, Absent
<1>. QED
  BY <1>1, <1>2, <1>3, <1>4 DEF Vouched

\* The snapshots there are do not go, and the journal moves on.
LEMMA GoodGrows ==
    ASSUME Shaped, [Next]_vars
    PROVE  good \subseteq good' /\ jloc <= jloc' /\ jloc' \in Nat
<1>0. jloc \in Nat
  BY DEF Shaped
<1>1. good \subseteq good'
  BY DEF vars, Next, Boot, BootGate, hydrateFromDisk, Serve, Writer, WriteOne, PassEnds, Snapshot, publish,
     PublishEnds, FleetSteps, beginFleetRestore, adoptIdentity, restoreVolumes, RestoreSteps, restoreBegin,
     restoreApply, recoverFleet, Restart, TakeSnapshot, Periodic, JournalMoves, registerVolume, Reconcile,
     Crash, Disaster, Fails, Answers
<1>2. jloc' = jloc \/ jloc' = jloc + 1
  BY DEF vars, Next, Boot, BootGate, hydrateFromDisk, Serve, Writer, WriteOne, PassEnds, Snapshot, publish,
     PublishEnds, FleetSteps, beginFleetRestore, adoptIdentity, restoreVolumes, RestoreSteps, restoreBegin,
     restoreApply, recoverFleet, Restart, TakeSnapshot, Periodic, JournalMoves, registerVolume, Reconcile,
     Crash, Disaster, Fails, Answers
<1>. QED
  BY <1>0, <1>1, <1>2

\* A snapshot is taken of a whole namespace, and what the process knows of snapshots it has from the disks.
LEMMA VouchedMindStep ==
    ASSUME Shaped, Staged, Kin, Vouched, Marked, [Next]_vars
    PROVE  VouchedMind'
<1>0. mem \in MemType /\ job \in JobType /\ jloc \in Nat /\ fleet \subseteq Disk
  BY DEF Shaped
<1>1. good \subseteq good' /\ jloc <= jloc' /\ jloc' \in Nat
  BY GoodGrows
<1>2. mem.jl \in Nat
  BY <1>0 DEF MemType
<1>3. ASSUME UNCHANGED job, mem'.snap = mem.snap,
             mem'.jl = jloc' \/ mem'.jl = mem.jl
      PROVE  VouchedMind'
  <2>1. mem'.jl <= jloc'
    BY <1>0, <1>1, <1>2, <1>3 DEF Vouched
  <2>. QED
    BY <1>1, <1>3, <2>1 DEF Vouched, VouchedMind
<1>4. ASSUME mem' = mem, UNCHANGED job
      PROVE  VouchedMind'
  BY <1>3, <1>4
<1>5. ASSUME mem' = NoMem, job' \in {job, NoJob}
      PROVE  VouchedMind'
  BY <1>1, <1>5 DEF Vouched, VouchedMind, NoMem, NoJob
<1>6. ASSUME mem' = [mem EXCEPT !.live = TRUE, !.lost = FALSE, !.jl = jloc], UNCHANGED <<jloc, job>>
      PROVE  VouchedMind'
  <2>1. mem'.snap = mem.snap /\ mem'.jl = jloc
    BY <1>0, <1>6 DEF MemType
  <2>. QED
    BY <1>3, <1>6, <2>1
<1>7. CASE UNCHANGED vars
  BY <1>4, <1>7 DEF vars
<1>8. CASE BootGate
  BY <1>4, <1>8 DEF BootGate
<1>9. CASE hydrateFromDisk
  <2>1. UNCHANGED <<job, jloc, good>>
    BY <1>9 DEF hydrateFromDisk
  <2>2. ASSUME NEW d \in Vol, NEW last \in Vol, mem'.snap = man[d].snap, mem'.jl = man[last].jl
        PROVE  VouchedMind'
    BY <2>1, <2>2 DEF Vouched, VouchedMind
  <2>. QED
    BY <1>5, <1>9, <2>1, <2>2, HydrateShape
<1>10. CASE Serve
  <2>1. UNCHANGED <<job, jloc>>
    BY <1>10 DEF Serve
  <2>2. mem' = mem \/ mem' = [mem EXCEPT !.live = TRUE, !.lost = FALSE, !.jl = jloc]
    BY <1>10 DEF Serve
  <2>. QED
    BY <1>4, <1>6, <2>1, <2>2
<1>11. CASE Writer
  BY <1>4, <1>11 DEF Writer, WriteOne, PassEnds
<1>12. CASE publish
  <2>1. CASE UNCHANGED mem /\ job' = NoJob
    <3>1. job'.pc = "idle" /\ job'.back = 0 /\ UNCHANGED <<good, jloc>>
      BY <1>12, <2>1 DEF publish, NoJob
    <3>. QED
      BY <2>1, <3>1 DEF Vouched, VouchedMind
  <2>2. CASE mem' = [mem EXCEPT !.snap = job.no] /\ job.pc = "check"
             /\ job' = [job EXCEPT !.pc = "wait", !.back = mem.snap,
                                   !.after = IF pass.busy THEN clock + 1 ELSE clock']
    <3>1. mem'.snap = job.no /\ mem'.jl = mem.jl
      BY <1>0, <2>2 DEF MemType
    <3>2. job'.back = mem.snap /\ job'.no = job.no
      BY <1>0, <2>2 DEF JobType
    <3>3. UNCHANGED <<good, jloc>>
      BY <1>12 DEF publish
    <3>. QED
      BY <2>2, <3>1, <3>2, <3>3 DEF Vouched, VouchedMind
  <2>. QED
    BY <1>12, <2>1, <2>2 DEF publish
<1>13. CASE PublishEnds
  <2>1. mem'.snap \in {mem.snap, job.back} /\ mem'.jl = mem.jl /\ UNCHANGED <<good, jloc>>
    BY <1>0, <1>13 DEF PublishEnds, MemType
  <2>2. job' = NoJob
    BY <1>13 DEF PublishEnds
  <2>. QED
    BY <2>1, <2>2 DEF Vouched, VouchedMind, NoJob
<1>14. CASE FleetSteps \/ RestoreSteps \/ \E force \in BOOLEAN : recoverFleet(force)
  BY <1>4, <1>14 DEF FleetSteps, beginFleetRestore, adoptIdentity, restoreVolumes, RestoreSteps, restoreBegin,
     restoreApply, recoverFleet
<1>15. CASE Restart \/ Crash
  BY <1>5, <1>15 DEF Restart, Crash, Down
<1>16. CASE TakeSnapshot
  <2>1. db.ns = "whole"
    BY <1>16 DEF TakeSnapshot, Marked, Shaped
  <2>2. good' = good \cup {snaps + 1} /\ mem' = mem /\ jloc' = jloc
    BY <1>16, <2>1 DEF TakeSnapshot
  <2>3. job'.no = snaps + 1 /\ job'.back = 0
    BY <1>16 DEF TakeSnapshot, NoJob
  <2>. QED
    BY <2>2, <2>3 DEF Vouched, VouchedMind
<1>17. CASE Periodic \/ Disaster \/ \E d \in Disk : Fails(d) \/ Answers(d)
  BY <1>4, <1>17 DEF Periodic, Disaster, Fails, Answers
<1>18. CASE JournalMoves
  <2>1. mem'.snap = mem.snap /\ mem'.jl = jloc' /\ UNCHANGED job
    BY <1>0, <1>18 DEF JournalMoves, MemType
  <2>. QED
    BY <1>3, <2>1
<1>19. CASE \E v \in Vol : registerVolume(v) \/ Reconcile(v)
  BY <1>4, <1>6, <1>19 DEF registerVolume, Reconcile, Hears
<1>. QED
  BY <1>7, <1>8, <1>9, <1>10, <1>11, <1>12, <1>13, <1>14, <1>15, <1>16, <1>17, <1>18, <1>19
     DEF Next, Boot, Snapshot

\* And the disks have it from the process.
LEMMA VouchedDisksStep ==
    ASSUME Shaped, Staged, Vouched, VouchedMind', [Next]_vars
    PROVE  VouchedDisks'
<1>0. /\ man \in [Disk -> Man] /\ jloc \in Nat /\ Vol \subseteq Disk /\ pass.body.jl \in Nat
      /\ \A v \in Vol : man[v].jl \in Nat
  BY Disks DEF Shaped, PassType, Man
<1>1. good \subseteq good' /\ jloc <= jloc' /\ jloc' \in Nat
  BY GoodGrows
<1>2. ASSUME man' = man
      PROVE  \A v \in Vol : man'[v].snap \in good' \cup {0} /\ man'[v].jl <= jloc'
  BY <1>0, <1>1, <1>2 DEF Vouched
<1>3. (\E d \in Disk : Writes(d)) \/ PassMoves
  BY PassSteps DEF Staged
<1>4. ASSUME NEW d \in Disk, Writes(d)
      PROVE  VouchedDisks'
  <2>1. pass'.body = pass.body /\ UNCHANGED <<good, jloc>>
    BY <1>4 DEF Writes
  <2>2. \A v \in Vol : man'[v].snap \in {man[v].snap, pass.body.snap} /\ man'[v].jl \in {man[v].jl, pass.body.jl}
    BY <1>0, <1>4 DEF Writes
  <2>. QED
    BY <2>1, <2>2 DEF Vouched, VouchedDisks
<1>5. ASSUME PassStarts(db'.tab, mem', mounted'), man' = man
      PROVE  VouchedDisks'
  BY <1>2, <1>5 DEF PassStarts, VouchedMind, VouchedDisks
<1>6. ASSUME PassStops, man' = man
      PROVE  VouchedDisks'
  <2>1. pass'.body.snap = 0 /\ pass'.body.jl = 0
    BY <1>6 DEF PassStops, Absent
  <2>. QED
    BY <1>1, <1>2, <1>6, <2>1 DEF VouchedDisks
<1>7. ASSUME PassKept, man' = man
      PROVE  VouchedDisks'
  <2>1. pass'.body = pass.body
    BY <1>7 DEF PassKept
  <2>2. pass'.body.jl <= jloc'
    BY <1>0, <1>1, <2>1 DEF Vouched
  <2>. QED
    BY <1>1, <1>2, <1>7, <2>1, <2>2 DEF Vouched, VouchedDisks
<1>. QED
  BY <1>3, <1>4, <1>5, <1>6, <1>7 DEF PassMoves

\* Every step.
LEMMA VouchedStep ==
    ASSUME Shaped, Staged, Kin, Vouched, Marked, [Next]_vars
    PROVE  Vouched'
<1>1. VouchedMind'
  BY VouchedMindStep
<1>2. VouchedDisks'
  BY <1>1, VouchedDisksStep
<1>. QED
  BY <1>1, <1>2 DEF Vouched, VouchedMind, VouchedDisks

\* An array in service, with no marker.
LEMMA MarkedInit ==
    ASSUME Init
    PROVE  Marked
<1>1. db.ns = "whole" /\ ~db.flight /\ mode = "down" /\ op.pc = "idle"
  BY DEF Init, NoOp
<1>. QED
  BY <1>1 DEF Marked, Replaying

\* A table is without a marker only beside a whole namespace.
LEMMA MarkedStep ==
    ASSUME Shaped, Staged, Vouched, Marked, [Next]_vars
    PROVE  Marked'
<1>0. op \in OpType /\ db \in DbType
  BY DEF Shaped
<1>1. ASSUME UNCHANGED <<db, op, mode, fleet>>
      PROVE  Marked'
  BY <1>1 DEF Marked, Replaying
<1>2. ASSUME UNCHANGED <<db, op>>, mode' # "normal"
      PROVE  Marked'
  BY <1>2 DEF Marked, Replaying
<1>3. CASE UNCHANGED vars
  BY <1>1, <1>3 DEF vars
<1>4. CASE BootGate \/ hydrateFromDisk
  BY <1>2, <1>4 DEF BootGate, hydrateFromDisk
<1>5. CASE Serve
  <2>1. fleet = db.tab /\ ~db.fleetMark
    BY <1>5 DEF Serve, Staged
  <2>2. UNCHANGED <<db, op, fleet>> /\ (mode' = "normal" => ~db.namesMark)
    BY <1>5 DEF Serve
  <2>. QED
    BY <2>1, <2>2 DEF Marked, Replaying
<1>6. CASE Writer \/ Snapshot \/ Periodic \/ JournalMoves \/ TakeSnapshot
             \/ \E d \in Disk : Fails(d) \/ Answers(d)
  BY <1>1, <1>6 DEF Writer, WriteOne, PassEnds, Snapshot, publish, PublishEnds, Periodic, JournalMoves,
     TakeSnapshot, Fails, Answers
<1>7. CASE \E v \in Vol : Reconcile(v)
  BY <1>1, <1>7 DEF Reconcile
<1>8. ASSUME NEW v \in Vol, registerVolume(v)
      PROVE  Marked'
  <2>1. /\ db'.flight = db.flight /\ db'.namesMark = db.namesMark /\ db'.ns = "whole" /\ UNCHANGED op
        /\ db.ns = "whole"
    BY <1>0, <1>8 DEF registerVolume, DbType
  <2>. QED
    BY <2>1 DEF Marked, Replaying
<1>9. CASE Restart \/ Crash
  <2>1. mode' = "down" /\ op'.pc = "idle" /\ UNCHANGED db
    BY <1>9 DEF Restart, Crash, Down, NoOp
  <2>. QED
    BY <2>1 DEF Marked, Replaying
<1>10. CASE Disaster
  <2>1. mode' = "down" /\ op.pc = "idle" /\ UNCHANGED op /\ ~db'.flight /\ db'.tab = {}
    BY <1>10 DEF Disaster, Staged
  <2>. QED
    BY <2>1 DEF Marked, Replaying
<1>11. CASE beginFleetRestore
  <2>1. /\ db'.ns = db.ns /\ db'.flight = db.flight /\ db'.tab = db.tab /\ UNCHANGED <<mode, fleet>>
        /\ (db.namesMark => db'.namesMark)
        /\ db'.fleetMark /\ op'.pc \in {"mark2", "adopt"}
    BY <1>0, <1>11 DEF beginFleetRestore, DbType, OpType, Staged
  <2>. QED
    BY <2>1 DEF Marked, Replaying
<1>12. CASE adoptIdentity
  <2>1. UNCHANGED <<db, mode, fleet>>
    BY <1>12 DEF adoptIdentity
  <2>2. op' = [op EXCEPT !.pc = "volumes", !.todo = op.tab] \/ op' = NoOp
    BY <1>12 DEF adoptIdentity
  <2>3. op'.pc \in {"volumes", "idle"}
    <3>1. [op EXCEPT !.pc = "volumes", !.todo = op.tab].pc = "volumes"
      BY <1>0 DEF OpType
    <3>2. NoOp.pc = "idle"
      BY DEF NoOp
    <3>. QED
      BY <2>2, <3>1, <3>2
  <2>. QED
    BY <2>1, <2>3 DEF Marked, Replaying
<1>13. CASE restoreVolumes
  <2>1. db.fleetMark /\ db.namesMark
    BY <1>13 DEF restoreVolumes, Staged
  <2>2. op'.pc \in {"volumes", "idle"} /\ UNCHANGED <<mode, fleet>>
    BY <1>0, <1>13 DEF restoreVolumes, NoOp, OpType
  <2>3. db'.ns = db.ns /\ db'.flight = db.flight /\ db'.namesMark = db.namesMark
    <3>1. CASE op.todo # {}
      BY <1>0, <1>13, <3>1 DEF restoreVolumes, DbType
    <3>2. CASE op.todo = {}
      BY <1>0, <1>13, <3>2 DEF restoreVolumes, DbType
    <3>. QED
      BY <3>1, <3>2
  <2>. QED
    BY <2>1, <2>2, <2>3 DEF Marked, Replaying
<1>14. CASE restoreBegin
  <2>1. /\ db'.ns = db.ns /\ db'.flight /\ db'.namesMark = db.namesMark /\ db'.tab = db.tab
        /\ db'.fleetMark = db.fleetMark
    BY <1>0, <1>14 DEF restoreBegin, DbType
  <2>2. op'.pc = "apply" /\ mode = "names" /\ UNCHANGED mode
    BY <1>14 DEF restoreBegin, NoOp
  <2>3. ~db.fleetMark /\ db.tab # {}
    BY <1>14 DEF restoreBegin, MayRestore, plattersOrRefuse, Staged
  <2>4. db.namesMark
    <3>1. db.flight \/ db.namesMark \/ db.ns = "empty"
      BY <1>14 DEF restoreBegin, resuming
    <3>. QED
      BY <2>3, <3>1 DEF Marked
  <2>. QED
    BY <2>1, <2>2, <2>4 DEF Marked, Replaying
<1>15. CASE restoreApply
  <2>1. mode = "names" /\ mem.snap # 0 /\ db.namesMark
    BY <1>15 DEF restoreApply, Staged, Replaying, Marked
  <2>2. mem.snap \in good /\ UNCHANGED <<mode, fleet>>
    BY <1>15, <2>1 DEF Vouched, restoreApply
  <2>3. CASE op.pc = "apply"
    <3>1. db'.namesMark /\ op'.pc = "rest"
      BY <1>0, <1>15, <2>1, <2>3 DEF restoreApply, DbType, OpType
    <3>. QED
      BY <2>1, <2>2, <3>1 DEF Marked, Replaying
  <2>4. CASE op.pc = "rest"
    <3>1. db'.namesMark /\ op'.pc = "end" /\ db'.ns = "whole"
      BY <1>0, <1>15, <2>1, <2>2, <2>4 DEF restoreApply, DbType, OpType
    <3>. QED
      BY <2>1, <2>2, <3>1 DEF Marked, Replaying
  <2>5. CASE op.pc = "end"
    <3>1. db'.namesMark /\ op'.pc = "clear" /\ db'.ns = "whole" /\ ~db'.flight
      BY <1>0, <1>15, <2>1, <2>2, <2>5 DEF restoreApply, DbType, OpType, Marked
    <3>. QED
      BY <2>1, <2>2, <3>1 DEF Marked, Replaying
  <2>6. CASE op.pc = "clear"
    <3>1. op'.pc = "idle" /\ db'.ns = "whole" /\ ~db'.flight
      BY <1>0, <1>15, <2>1, <2>2, <2>6 DEF restoreApply, DbType, NoOp, Marked
    <3>. QED
      BY <2>1, <2>2, <3>1 DEF Marked, Replaying
  <2>. QED
    BY <1>15, <2>3, <2>4, <2>5, <2>6 DEF restoreApply
<1>16. ASSUME NEW force \in BOOLEAN, recoverFleet(force)
       PROVE  Marked'
  <2>1. op'.pc = "mark" /\ UNCHANGED <<db, mode, fleet>>
    BY <1>16 DEF recoverFleet, NoOp
  <2>. QED
    BY <2>1 DEF Marked, Replaying
<1>. QED
  BY <1>3, <1>4, <1>5, <1>6, <1>7, <1>8, <1>9, <1>10, <1>11, <1>12, <1>13, <1>14, <1>15, <1>16
     DEF Next, Boot, FleetSteps, RestoreSteps

\* The parts so far.
SInv == RInv /\ Kin /\ Vouched /\ Marked

\* They are inductive, with the disks of other arrays outnumbered.
LEMMA SInvHolds ==
    ASSUME OwnArray
    PROVE  Spec => []SInv
<1>1. Init => SInv
  BY ShapedInit, StagedInit, DatedInit, LocatedInit, KinInit, VouchedInit, MarkedInit DEF SInv, RInv
<1>2. SInv /\ [Next]_vars => SInv'
  BY ShapedStep, StagedStep, DatedStep, LocatedStep, KinStep, VouchedStep, MarkedStep, OwnArray DEF SInv, RInv
<1>. QED
  BY <1>1, <1>2, PTL DEF Spec

\* The types: no manifest of this array is of the future, and none names a snapshot or a move of the journal
\* that never was, with the disks of other arrays outnumbered (bootstrap-manifest.ts, reconcileManifests).
THEOREM TypeCorrect ==
    ASSUME OwnArray
    PROVE  Spec => []TypeOK
<1>1. SInv => TypeOK
  <2>. SUFFICES ASSUME SInv
                PROVE  TypeOK
    OBVIOUS
  <2>1. \A v \in Vol : man[v].snap <= snaps
    <3>1. snaps \in Nat /\ good \subseteq 1..snaps
      BY DEF SInv, RInv, Shaped
    <3>2. \A v \in Vol : man[v].snap \in good \cup {0}
      BY DEF SInv, Vouched
    <3>3. \A s \in good \cup {0} : s <= snaps
      BY <3>1
    <3>. QED
      BY <3>2, <3>3
  <2>. QED
    BY <2>1 DEF SInv, RInv, Shaped, Dated, Vouched, TypeOK, MemType, DbType
<1>. QED
  BY <1>1, SInvHolds, PTL

\* The array serves, and snapshots, a whole namespace or none: whatever crashes, losses of the database,
\* repeated and half-done recoveries there were, with the disks of other arrays outnumbered and no vote
\* forced, or with none attached (core.ts, THE FLEET IS BACK. THE NAMES ARE NOT; restore.ts).
THEOREM NoEmptiedNamespace ==
    ASSUME OwnArray
    PROVE  Spec => []NeverServesEmpty
<1>1. SInv => NeverServesEmpty
  BY DEF SInv, RInv, Vouched, Marked, Shaped, NeverServesEmpty
<1>. QED
  BY <1>1, SInvHolds, PTL

(***************************************************************************)
(* Part 9: the latest word on the journal.                                 *)
(***************************************************************************)

\* One pass has been, and it said one thing.
LEMMA OrderedInit ==
    ASSUME Init
    PROVE  Ordered
<1>1. pass = NoPass /\ mode = "down"
  BY DEF Init
<1>2. \A v \in Vol : (v \in First /\ man[v].at = 1 /\ man[v].jl = 1) \/ (man[v].at = 0 /\ man[v].jl = 0)
  BY Disks, RecoveryAssumption DEF Init, Disk, Absent
<1>3. \A u, v \in Vol : man[u].at <= man[v].at => man[u].jl <= man[v].jl
  BY <1>2
<1>. QED
  BY <1>1, <1>3 DEF Ordered, NoPass

\* What Ordered says of the disks and of the pass.
OrderedDisks ==
    ~hearsay =>
       /\ \A u, v \in Vol : man[u].at <= man[v].at => man[u].jl <= man[v].jl
       /\ pass.busy => \A v \in Vol : man[v].at = pass.body.at => man[v].jl = pass.body.jl

\* And of the process that reads them.
OrderedMind ==
    ~hearsay =>
       (mode \in {"hydrated", "names"} /\ ~mem.lost /\ mem.snap # 0 => \A v \in mounted : man[v].jl <= mem.jl)

\* The youngest pass writes the latest place, the same one on every disk.
LEMMA OrderedDisksStep ==
    ASSUME Shaped, Staged, Dated, Located, Ordered, [Next]_vars
    PROVE  OrderedDisks'
<1>0. /\ man \in [Disk -> Man] /\ Vol \subseteq Disk /\ pass.body.jl \in Nat /\ pass.body.at \in Nat
      /\ \A v \in Vol : man[v].jl \in Nat /\ man[v].at \in Nat
      /\ clock \in Nat
  BY Disks DEF Shaped, PassType, Man
<1>1. (\E d \in Disk : Writes(d)) \/ PassMoves
  BY PassSteps DEF Staged
<1>2. ASSUME NEW d \in Disk, Writes(d)
      PROVE  OrderedDisks'
  <2>1. pass.busy /\ pass'.busy /\ pass'.body = pass.body /\ hearsay' = hearsay
    BY <1>2 DEF Writes
  <2>2. SUFFICES ASSUME ~hearsay
                 PROVE  OrderedDisks'
    BY <2>1 DEF OrderedDisks
  <2>3. CASE man' = man
    BY <2>1, <2>2, <2>3 DEF OrderedDisks, Ordered
  <2>4. CASE man' # man
    <3>1. ~keepJournal(d)
      BY <2>1, <2>2 DEF Located, keepJournal
    <3>2. PICK new \in Man :
             man' = [man EXCEPT ![d] = new] /\ new.at = pass.body.at /\ new.jl = pass.body.jl
      BY <1>2, <2>4, <3>1 DEF Writes
    <3>3. \A v \in Vol : \/ man'[v] = man[v]
                         \/ man'[v].at = pass.body.at /\ man'[v].jl = pass.body.jl
      BY <1>0, <3>2
    <3>4. \A v \in Vol : /\ man[v].at <= pass.body.at /\ man[v].jl <= pass.body.jl
                         /\ man[v].at = pass.body.at => man[v].jl = pass.body.jl
      BY <2>1, <2>2 DEF Dated, Located, Ordered
    <3>5. \A v \in Vol : man'[v].at = pass.body.at => man'[v].jl = pass.body.jl
      BY <3>3, <3>4
    <3>6. ASSUME NEW u \in Vol, NEW v \in Vol, man'[u].at <= man'[v].at
          PROVE  man'[u].jl <= man'[v].jl
      <4>1. CASE man'[u] = man[u] /\ man'[v] = man[v]
        BY <2>2, <3>6, <4>1 DEF Ordered
      <4>2. CASE man'[v].at = pass.body.at /\ man'[v].jl = pass.body.jl
        BY <1>0, <3>3, <3>4, <4>2
      <4>3. CASE man'[u].at = pass.body.at /\ man'[u].jl = pass.body.jl /\ man'[v] = man[v]
        <5>1. man[v].at = pass.body.at
          BY <1>0, <3>4, <3>6, <4>3
        <5>. QED
          BY <1>0, <3>4, <4>3, <5>1
      <4>. QED
        BY <3>3, <4>1, <4>2, <4>3
    <3>. QED
      BY <2>1, <3>5, <3>6 DEF OrderedDisks
  <2>. QED
    BY <2>3, <2>4
<1>3. ASSUME man' = man, ~hearsay' => ~hearsay,
             pass'.busy /\ ~hearsay' => \A v \in Vol : man[v].at = pass'.body.at => man[v].jl = pass'.body.jl
      PROVE  OrderedDisks'
  BY <1>3 DEF OrderedDisks, Ordered
<1>4. ASSUME PassStarts(db'.tab, mem', mounted'), man' = man
      PROVE  OrderedDisks'
  <2>1. pass'.body.at = clock + 1 /\ hearsay' = (hearsay \/ ~mem'.live)
    BY <1>4 DEF PassStarts
  <2>2. \A v \in Vol : man[v].at # clock + 1
    BY <1>0 DEF Dated
  <2>3. ~hearsay' => ~hearsay
    BY <2>1
  <2>. QED
    BY <1>3, <1>4, <2>1, <2>2, <2>3
<1>5. ASSUME PassStops, man' = man
      PROVE  OrderedDisks'
  BY <1>3, <1>5 DEF PassStops
<1>6. ASSUME PassKept, man' = man
      PROVE  OrderedDisks'
  BY <1>3, <1>6 DEF PassKept, Ordered
<1>. QED
  BY <1>1, <1>2, <1>4, <1>5, <1>6 DEF PassMoves

\* When every disk has answered, the newest manifest says it best, and nothing is written before service.
LEMMA OrderedMindStep ==
    ASSUME Shaped, Staged, Kin, Ordered, [Next]_vars
    PROVE  OrderedMind'
<1>0. man \in [Disk -> Man] /\ mounted \subseteq Vol /\ Vol \subseteq Disk
  BY Disks DEF Shaped, Staged, Kin
<1>1. CASE mode' \notin {"hydrated", "names"}
  BY <1>1 DEF OrderedMind
<1>2. ASSUME UNCHANGED <<man, mode, mem, mounted, hearsay>>
      PROVE  OrderedMind'
  BY <1>2 DEF OrderedMind, Ordered
<1>3. CASE hydrateFromDisk
  <2>1. mode = "mounted" /\ UNCHANGED <<man, mounted, hearsay, ident>> /\ ident = "ours"
    BY <1>3 DEF hydrateFromDisk, Kin
  <2>2. CASE mem' = NoMem
    BY <2>2 DEF OrderedMind, NoMem
  <2>3. ASSUME NEW last \in Vol, mem'.jl = man[last].jl, ~mem'.lost, ~hearsay,
               \A e \in mounted : Readable(e) /\ man[e].id = ident => man[e].at <= man[last].at,
               \A e \in mounted : Readable(e),
               NEW v \in mounted
        PROVE  man[v].jl <= mem'.jl
    <3>1. man[last].jl \in Nat /\ v \in Vol
      BY <1>0 DEF Man
    <3>2. CASE man[v] = Absent
      <4>1. man[v].jl = 0
        BY <3>2 DEF Absent
      <4>. QED
        BY <2>3, <3>1, <4>1
    <3>3. CASE man[v].id = "ours"
      BY <2>1, <2>3, <3>1, <3>3 DEF Ordered
    <3>. QED
      BY <3>1, <3>2, <3>3 DEF Kin
  <2>. QED
    BY <1>3, <2>1, <2>2, <2>3, HydrateShape DEF OrderedMind
<1>4. CASE Serve
  <2>1. mode' = "names" => mode = "hydrated" /\ UNCHANGED <<man, mem, mounted, hearsay>>
    BY <1>4 DEF Serve
  <2>2. mode' \in {"names", "normal"}
    BY <1>4 DEF Serve
  <2>. QED
    BY <1>1, <2>1, <2>2 DEF OrderedMind, Ordered
<1>5. CASE UNCHANGED vars
  BY <1>2, <1>5 DEF vars
<1>6. CASE BootGate
  <2>1. mode' \in {"bare", "mounted"}
    BY <1>6 DEF BootGate
  <2>. QED
    BY <1>1, <2>1
<1>7. CASE Writer \/ Snapshot \/ Periodic \/ JournalMoves \/ TakeSnapshot
             \/ \E v \in Vol : registerVolume(v) \/ Reconcile(v)
  <2>1. mode' = "normal"
    BY <1>7 DEF Writer, WriteOne, PassEnds, Snapshot, publish, PublishEnds, Periodic, JournalMoves, TakeSnapshot,
       registerVolume, Reconcile, Staged
  <2>. QED
    BY <1>1, <2>1
<1>8. CASE FleetSteps \/ RestoreSteps \/ \E force \in BOOLEAN : recoverFleet(force)
  BY <1>2, <1>8 DEF FleetSteps, beginFleetRestore, adoptIdentity, restoreVolumes, RestoreSteps, restoreBegin,
     restoreApply, recoverFleet
<1>9. CASE Restart \/ Crash
  <2>1. mode' = "down"
    BY <1>9 DEF Restart, Crash, Down
  <2>. QED
    BY <1>1, <2>1
<1>10. CASE Disaster \/ \E d \in Disk : Fails(d) \/ Answers(d)
  BY <1>2, <1>10 DEF Disaster, Fails, Answers
<1>. QED
  BY <1>3, <1>4, <1>5, <1>6, <1>7, <1>8, <1>9, <1>10 DEF Next, Boot

\* Every step.
LEMMA OrderedStep ==
    ASSUME Shaped, Staged, Dated, Located, Kin, Ordered, [Next]_vars
    PROVE  Ordered'
<1>1. OrderedDisks' /\ OrderedMind'
  BY OrderedDisksStep, OrderedMindStep
<1>. QED
  BY <1>1 DEF Ordered, OrderedDisks, OrderedMind

(***************************************************************************)
(* Part 10: what most disks name is in the fleet.                          *)
(***************************************************************************)

\* A table beside a whole namespace, and nobody forced anything.
LEMMA UnforcedInit ==
    ASSUME Init
    PROVE  Unforced
<1>1. db.ns = "whole" /\ ~db.fleetMark /\ mode = "down" /\ op.pc = "idle" /\ db.tab = First
  BY DEF Init, NoOp
<1>2. First = {} => \A v \in Vol : man[v] = Absent
  BY Disks, RecoveryAssumption DEF Init
<1>. QED
  BY <1>1, <1>2 DEF Unforced, Recovering

\* Unless it is forced, a fleet is recovered only where there is no namespace and no table.
LEMMA UnforcedStep ==
    ASSUME Shaped, Staged, Kin, Marked, Unforced, OwnArray, [Next]_vars
    PROVE  Unforced'
<1>0. op \in OpType /\ db \in DbType /\ Vol \subseteq Disk
  BY Disks DEF Shaped
<1>1. SUFFICES ASSUME ~forced'
               PROVE  Unforced'
  BY DEF Unforced
<1>2. ~forced
  BY <1>1 DEF vars, Next, Boot, BootGate, hydrateFromDisk, Serve, Writer, WriteOne, PassEnds, Snapshot, publish,
     PublishEnds, FleetSteps, beginFleetRestore, adoptIdentity, restoreVolumes, RestoreSteps, restoreBegin,
     restoreApply, recoverFleet, Restart, TakeSnapshot, Periodic, JournalMoves, registerVolume, Reconcile,
     Crash, Disaster, Fails, Answers
<1>3. /\ db.fleetMark => db.ns = "empty"
      /\ db.tab = {} => db.ns = "empty" \/ \A v \in Vol : man[v] = Absent
      /\ Recovering => db.ns = "empty" /\ (db.fleetMark \/ db.tab = {})
      /\ mode = "names" /\ fleet # {} => fleet = db.tab /\ ~db.fleetMark
      /\ mode = "normal" /\ db.ns = "whole" => fleet = db.tab /\ ~db.fleetMark
  BY <1>2 DEF Unforced
<1>4. ASSUME UNCHANGED <<db, op, mode, fleet, man>>
      PROVE  Unforced'
  BY <1>3, <1>4 DEF Unforced, Recovering
<1>5. ASSUME UNCHANGED <<db, op, man>>, mode' \notin {"names", "normal"}
      PROVE  Unforced'
  BY <1>3, <1>5 DEF Unforced, Recovering
<1>6. CASE UNCHANGED vars
  BY <1>4, <1>6 DEF vars
<1>7. CASE BootGate
  BY <1>5, <1>7 DEF BootGate
<1>8. CASE hydrateFromDisk
  BY <1>5, <1>8 DEF hydrateFromDisk
<1>9. CASE Serve
  <2>1. fleet = db.tab /\ ~db.fleetMark
    BY <1>9 DEF Serve, Staged
  <2>2. UNCHANGED <<db, op, man, fleet>>
    BY <1>9 DEF Serve
  <2>. QED
    BY <1>3, <2>1, <2>2 DEF Unforced, Recovering
<1>10. CASE WriteOne
  <2>1. UNCHANGED <<db, op, mode, fleet>>
    BY <1>10 DEF WriteOne
  <2>2. db.tab # {}
    BY <1>10 DEF WriteOne, Staged
  <2>. QED
    BY <1>3, <2>1, <2>2 DEF Unforced, Recovering
<1>11. CASE PassEnds \/ Snapshot \/ Periodic \/ JournalMoves \/ TakeSnapshot
              \/ \E d \in Disk : Fails(d) \/ Answers(d)
  BY <1>4, <1>11 DEF PassEnds, Snapshot, publish, PublishEnds, Periodic, JournalMoves, TakeSnapshot, Fails, Answers
<1>12. CASE \E v \in Vol : Reconcile(v)
  BY <1>4, <1>12 DEF Reconcile
<1>13. ASSUME NEW v \in Vol, registerVolume(v)
       PROVE  Unforced'
  <2>1. db.ns = "whole" /\ mode = "normal" /\ UNCHANGED <<op, mode, man>> /\ fleet' = fleet \cup {v}
    BY <1>13 DEF registerVolume
  <2>2. db'.tab = db.tab \cup {v} /\ db'.ns = db.ns /\ db'.fleetMark = db.fleetMark
    BY <1>0, <1>13 DEF registerVolume, DbType
  <2>. QED
    BY <1>3, <2>1, <2>2 DEF Unforced, Recovering
<1>14. CASE Restart \/ Crash
  <2>1. mode' = "down" /\ op'.pc = "idle" /\ UNCHANGED <<db, man>>
    BY <1>14 DEF Restart, Crash, Down, NoOp
  <2>. QED
    BY <1>3, <2>1 DEF Unforced, Recovering
<1>15. CASE Disaster
  <2>1. mode' = "down" /\ op.pc = "idle" /\ UNCHANGED <<op, man>> /\ db'.ns = "empty"
    BY <1>15 DEF Disaster, Staged
  <2>. QED
    BY <2>1 DEF Unforced, Recovering
<1>16. CASE beginFleetRestore
  <2>1. db.ns = "empty" /\ (db.fleetMark \/ db.tab = {})
    BY <1>3, <1>16 DEF beginFleetRestore, Recovering
  <2>2. db'.ns = db.ns /\ db'.tab = db.tab /\ db'.fleetMark /\ UNCHANGED <<mode, fleet, man>>
    BY <1>0, <1>16 DEF beginFleetRestore, DbType, Staged
  <2>3. mode = "names" => fleet = {}
    BY <1>3, <2>1
  <2>. QED
    BY <2>1, <2>2, <2>3 DEF Unforced
<1>17. CASE adoptIdentity
  <2>1. UNCHANGED <<db, mode, fleet, man>> /\ Recovering
    BY <1>17 DEF adoptIdentity, Recovering
  <2>. QED
    BY <1>3, <2>1 DEF Unforced
<1>18. CASE restoreVolumes
  <2>1. db.ns = "empty" /\ db.fleetMark /\ UNCHANGED <<mode, fleet, man>>
    BY <1>3, <1>18 DEF restoreVolumes, Staged
  <2>2. db'.ns = db.ns
    <3>1. CASE op.todo # {}
      BY <1>0, <1>18, <3>1 DEF restoreVolumes, DbType
    <3>2. CASE op.todo = {}
      BY <1>0, <1>18, <3>2 DEF restoreVolumes, DbType
    <3>. QED
      BY <3>1, <3>2
  <2>3. op'.pc = "idle" \/ db'.fleetMark
    <3>1. CASE op.todo # {}
      BY <1>0, <1>18, <2>1, <3>1 DEF restoreVolumes, DbType
    <3>2. CASE op.todo = {}
      BY <1>18, <3>2 DEF restoreVolumes, NoOp
    <3>. QED
      BY <3>1, <3>2
  <2>4. mode = "names" => fleet = {}
    BY <1>3, <2>1
  <2>. QED
    BY <2>1, <2>2, <2>3, <2>4 DEF Unforced, Recovering
<1>19. CASE restoreBegin
  <2>1. UNCHANGED <<mode, fleet, man>> /\ op'.pc = "apply"
    BY <1>19 DEF restoreBegin, NoOp
  <2>2. db'.ns = db.ns /\ db'.tab = db.tab /\ db'.fleetMark = db.fleetMark
    BY <1>0, <1>19 DEF restoreBegin, DbType
  <2>. QED
    BY <1>3, <2>1, <2>2 DEF Unforced, Recovering
<1>20. CASE restoreApply
  <2>1. mode = "names" /\ ~db.fleetMark /\ db.tab # {}
    BY <1>20 DEF restoreApply, Staged, Replaying
  <2>2. db'.tab = db.tab /\ db'.fleetMark = db.fleetMark /\ UNCHANGED <<mode, fleet, man>>
    BY <1>0, <1>20 DEF restoreApply, DbType
  <2>3. op'.pc \in {"rest", "end", "clear", "idle"}
    BY <1>0, <1>20 DEF restoreApply, NoOp, OpType
  <2>. QED
    BY <1>3, <2>1, <2>2, <2>3 DEF Unforced, Recovering
<1>21. ASSUME NEW force \in BOOLEAN, recoverFleet(force)
       PROVE  Unforced'
  <2>1. PICK e \in Vol :
           /\ man[e] # Absent
           /\ forced' = (forced \/ ~Complete("ours") \/ (db.tab # {} /\ ~db.fleetMark))
    BY <1>21, RecoverShape
  <2>2. db.tab = {} \/ db.fleetMark
    BY <1>1, <2>1
  <2>3. db.ns = "empty"
    BY <1>3, <2>1, <2>2
  <2>4. UNCHANGED <<db, mode, fleet, man>>
    BY <1>21 DEF recoverFleet
  <2>. QED
    BY <1>3, <2>2, <2>3, <2>4 DEF Unforced
<1>. QED
  BY <1>6, <1>7, <1>8, <1>9, <1>10, <1>11, <1>12, <1>13, <1>14, <1>15, <1>16, <1>17, <1>18, <1>19, <1>20, <1>21
     DEF Next, Boot, Writer, FleetSteps, RestoreSteps

(***************************************************************************)
(* Part 11: what most disks name outlives the database.                    *)
(***************************************************************************)

\* A loss of the database is counted, and only a loss takes a volume from the table.
LEMMA LossSteps ==
    ASSUME Shaped, [Next]_vars
    PROVE  /\ used["loss"] \in Nat
           /\ \/ Disaster /\ used'["loss"] = used["loss"] + 1
              \/ used'["loss"] = used["loss"] /\ db.tab \subseteq db'.tab
           /\ forced => forced'
<1>0. used \in [Kinds -> Nat] /\ op \in OpType /\ db \in DbType
  BY DEF Shaped
<1>1. forced => forced'
  BY DEF vars, Next, Boot, BootGate, hydrateFromDisk, Serve, Writer, WriteOne, PassEnds, Snapshot, publish,
     PublishEnds, FleetSteps, beginFleetRestore, adoptIdentity, restoreVolumes, RestoreSteps, restoreBegin,
     restoreApply, recoverFleet, Restart, TakeSnapshot, Periodic, JournalMoves, registerVolume, Reconcile,
     Crash, Disaster, Fails, Answers
<1>2. ASSUME NEW k \in Kinds, Spend(k)
      PROVE  used'["loss"] = IF k = "loss" THEN used["loss"] + 1 ELSE used["loss"]
  BY <1>0, <1>2 DEF Spend, Kinds
<1>3. CASE Disaster
  <2>1. Spend("loss")
    BY <1>3 DEF Disaster
  <2>2. used'["loss"] = used["loss"] + 1
    BY <1>2, <2>1 DEF Kinds
  <2>. QED
    BY <1>0, <1>1, <1>3, <2>2 DEF Kinds
<1>4. ASSUME UNCHANGED used \/ Spend("mute") \/ Spend("change") \/ Spend("crash") \/ Spend("fault")
      PROVE  used'["loss"] = used["loss"]
  <2>1. CASE UNCHANGED used
    BY <2>1
  <2>2. CASE Spend("mute")
    BY <1>2, <2>2 DEF Kinds
  <2>3. CASE Spend("change")
    BY <1>2, <2>3 DEF Kinds
  <2>4. CASE Spend("crash")
    BY <1>2, <2>4 DEF Kinds
  <2>5. CASE Spend("fault")
    BY <1>2, <2>5 DEF Kinds
  <2>. QED
    BY <1>4, <2>1, <2>2, <2>3, <2>4, <2>5
<1>5. Disaster \/ UNCHANGED used \/ Spend("mute") \/ Spend("change") \/ Spend("crash") \/ Spend("fault")
  BY DEF vars, Next, Boot, BootGate, hydrateFromDisk, Serve, Writer, WriteOne, PassEnds, Snapshot, publish,
     PublishEnds, FleetSteps, beginFleetRestore, adoptIdentity, restoreVolumes, RestoreSteps, restoreBegin,
     restoreApply, recoverFleet, Restart, TakeSnapshot, Periodic, JournalMoves, registerVolume, Reconcile,
     Crash, Fails, Answers
<1>6. Disaster \/ db.tab \subseteq db'.tab
  <2>1. CASE beginFleetRestore
    BY <1>0, <2>1 DEF beginFleetRestore, DbType
  <2>2. CASE restoreVolumes
    <3>1. CASE op.todo # {}
      BY <1>0, <2>2, <3>1 DEF restoreVolumes, DbType
    <3>2. CASE op.todo = {}
      BY <1>0, <2>2, <3>2 DEF restoreVolumes, DbType
    <3>. QED
      BY <3>1, <3>2
  <2>3. CASE restoreBegin
    BY <1>0, <2>3 DEF restoreBegin, DbType
  <2>4. CASE restoreApply
    BY <1>0, <2>4 DEF restoreApply, DbType
  <2>5. CASE \E v \in Vol : registerVolume(v)
    BY <1>0, <2>5 DEF registerVolume, DbType
  <2>6. \/ UNCHANGED db \/ Disaster \/ beginFleetRestore \/ restoreVolumes \/ restoreBegin \/ restoreApply
        \/ \E v \in Vol : registerVolume(v)
    BY DEF vars, Next, Boot, BootGate, hydrateFromDisk, Serve, Writer, WriteOne, PassEnds, Snapshot, publish,
       PublishEnds, FleetSteps, adoptIdentity, RestoreSteps, recoverFleet, Restart, TakeSnapshot, Periodic,
       JournalMoves, Reconcile, Crash, Fails, Answers
  <2>. QED
    BY <2>1, <2>2, <2>3, <2>4, <2>5, <2>6
<1>7. used["loss"] \in Nat
  BY <1>0 DEF Kinds
<1>8. CASE ~Disaster
  BY <1>1, <1>4, <1>5, <1>6, <1>7, <1>8
<1>. QED
  BY <1>3, <1>8

\* Nothing is written while there is no table, or while one is being restored.
LEMMA NoWriteInWreckage ==
    ASSUME Shaped, Staged, Marked, Unforced, ~forced, NEW d \in Disk, Writes(d)
    PROVE  db.tab # {} /\ ~db.fleetMark /\ ~Recovering
<1>1. mode = "normal" /\ fleet # {} /\ db.tab # {}
  BY DEF Writes, Staged
<1>2. db.ns = "whole"
  BY <1>1 DEF Marked
<1>. QED
  BY <1>1, <1>2 DEF Unforced

\* What Remembered says of the disks, and of the tables.
RememberedDisks ==
    forced \/ used["loss"] > 1 \/
       /\ used["loss"] = 0 \/ db.fleetMark \/ db.tab = {} => Growing
       /\ used["loss"] = 0 =>
            /\ \A v \in Vol : man[v].tab \subseteq db.tab
            /\ pass.busy => \A v \in Vol : man[v].tab \subseteq pass.body.tab
                                           /\ (man[v].at = pass.body.at => man[v].tab = pass.body.tab)

RememberedTables ==
    forced \/ used["loss"] > 1 \/
       /\ ~db.fleetMark /\ db.tab # {} => \A v \in Vol : MostName(v) => v \in db.tab
       /\ Recovering => \A v \in Vol : MostName(v) => v \in op.tab

\* Most disks name what the table holds: the disks of the first pass.
LEMMA RememberedInit ==
    ASSUME Init
    PROVE  Remembered
<1>1. /\ pass = NoPass /\ op.pc = "idle" /\ db.tab = First
  BY DEF Init, NoOp
<1>2. \A v \in Vol : \/ v \in First /\ man[v].at = 1 /\ man[v].tab = First
                     \/ man[v].at = 0 /\ man[v].tab = {}
  BY Disks, RecoveryAssumption DEF Init, Disk, Absent
<1>3. Growing
  BY <1>2 DEF Growing
<1>4. ASSUME NEW v \in Vol, MostName(v)
      PROVE  v \in First
  <2>. DEFINE W == {d \in Vol : man[d] # Absent}
              N == {d \in W : v \in man[d].tab}
  <2>1. 2 * Cardinality(N) > Cardinality(W)
    BY <1>4 DEF MostName
  <2>2. IsFiniteSet(W) /\ IsFiniteSet(N) /\ IsFiniteSet({})
    BY Disks
  <2>3. Cardinality(W) \in Nat
    BY <2>2, FS_CardinalityType
  <2>. HIDE DEF W
  <2>4. N # {}
    <3>1. ASSUME N = {}
          PROVE  FALSE
      <4>1. Cardinality(N) = 0
        BY <3>1, FS_EmptySet
      <4>. QED
        BY <2>1, <2>3, <4>1
    <3>. QED
      BY <3>1
  <2>5. PICK d \in W : v \in man[d].tab
    BY <2>4
  <2>. QED
    BY <1>2, <2>5 DEF W
<1>. QED
  BY <1>1, <1>2, <1>3, <1>4 DEF Remembered, NoPass, Recovering

\* A disaster is counted.
LEMMA DisasterCounts ==
    ASSUME Shaped, Disaster
    PROVE  used'["loss"] = used["loss"] + 1
<1>. QED
  BY DEF Shaped, Disaster, Spend, Kinds

\* A fleet restore is marked begun only by a recovery.
LEMMA MarkRises ==
    ASSUME Shaped, [Next]_vars
    PROVE  db'.fleetMark => db.fleetMark \/ Recovering
<1>0. op \in OpType /\ db \in DbType
  BY DEF Shaped
<1>1. CASE beginFleetRestore
  BY <1>1 DEF beginFleetRestore, Recovering
<1>2. CASE restoreVolumes
  BY <1>2 DEF restoreVolumes, Recovering
<1>3. CASE restoreBegin
  BY <1>0, <1>3 DEF restoreBegin, DbType
<1>4. CASE restoreApply
  BY <1>0, <1>4 DEF restoreApply, DbType
<1>5. CASE \E v \in Vol : registerVolume(v)
  BY <1>0, <1>5 DEF registerVolume, DbType
<1>6. CASE Disaster
  BY <1>6 DEF Disaster
<1>7. \/ UNCHANGED db \/ Disaster \/ beginFleetRestore \/ restoreVolumes \/ restoreBegin \/ restoreApply
      \/ \E v \in Vol : registerVolume(v)
  BY DEF vars, Next, Boot, BootGate, hydrateFromDisk, Serve, Writer, WriteOne, PassEnds, Snapshot, publish,
     PublishEnds, FleetSteps, adoptIdentity, RestoreSteps, recoverFleet, Restart, TakeSnapshot, Periodic,
     JournalMoves, Reconcile, Crash, Fails, Answers
<1>. QED
  BY <1>1, <1>2, <1>3, <1>4, <1>5, <1>6, <1>7

\* Until a loss the youngest pass carries the largest table; from then on nothing is written that could tell
\* until the fleet is recovered.
LEMMA RememberedDisksStep ==
    ASSUME Shaped, Staged, Dated, Marked, Unforced, Remembered, [Next]_vars
    PROVE  RememberedDisks'
<1>0. /\ man \in [Disk -> Man] /\ Vol \subseteq Disk /\ pass.body.at \in Nat /\ clock \in Nat
      /\ \A v \in Vol : man[v].at \in Nat
  BY Disks DEF Shaped, PassType, Man
<1>1. SUFFICES ASSUME ~forced', used'["loss"] <= 1
               PROVE  RememberedDisks'
  <2>1. used'["loss"] \in Nat
    BY LossSteps
  <2>. QED
    BY <1>1, <2>1 DEF RememberedDisks
<1>2. /\ used["loss"] \in Nat /\ used["loss"] <= used'["loss"] /\ used["loss"] <= 1 /\ ~forced
      /\ Disaster => used["loss"] = 0 /\ used'["loss"] = 1
      /\ ~Disaster => used'["loss"] = used["loss"] /\ db.tab \subseteq db'.tab
  <2>1. PICK l \in Nat : l = used["loss"]
    BY LossSteps
  <2>2. PICK m : m = used'["loss"]
    OBVIOUS
  <2>3. \/ (Disaster /\ m = l + 1)
        \/ (m = l /\ db.tab \subseteq db'.tab)
    <3>1. \/ (Disaster /\ used'["loss"] = used["loss"] + 1)
          \/ (used'["loss"] = used["loss"] /\ db.tab \subseteq db'.tab)
      BY LossSteps
    <3>. QED
      BY <2>1, <2>2, <3>1
  <2>4. m <= 1
    BY <1>1, <2>2
  <2>. ~forced
    BY <1>1, LossSteps
  <2>. l <= m /\ l <= 1 /\ (m = l \/ (l = 0 /\ m = 1))
    <3>1. m = l \/ m = l + 1
      BY <2>3
    <3>. QED
      BY <2>1, <2>4, <3>1
  <2>5. CASE m = l
    <3>1. ~Disaster /\ db.tab \subseteq db'.tab
      <4>1. Disaster => m = l + 1
        BY <2>1, <2>2, DisasterCounts
      <4>. QED
        BY <2>3, <2>5, <4>1
    <3>. QED
      BY <2>1, <2>2, <2>3, <2>4, <2>5, <3>1
  <2>6. CASE m # l
    BY <2>1, <2>2, <2>3, <2>4, <2>6
  <2>. QED
    BY <2>5, <2>6
<1>3. /\ used["loss"] = 0 \/ db.fleetMark \/ db.tab = {} => Growing
      /\ used["loss"] = 0 =>
            /\ \A v \in Vol : man[v].tab \subseteq db.tab
            /\ pass.busy => \A v \in Vol : man[v].tab \subseteq pass.body.tab
                                           /\ (man[v].at = pass.body.at => man[v].tab = pass.body.tab)
  BY <1>2 DEF Remembered
<1>4. (\E d \in Disk : Writes(d)) \/ PassMoves
  BY PassSteps DEF Staged
<1>5. ASSUME NEW d \in Disk, Writes(d)
      PROVE  RememberedDisks'
  <2>1. db.tab # {} /\ ~db.fleetMark
    BY <1>2, <1>5, NoWriteInWreckage
  <2>2. pass.busy /\ pass'.busy /\ pass'.body = pass.body /\ db' = db /\ used' = used
    BY <1>5 DEF Writes
  <2>3. CASE used["loss"] # 0
    BY <2>1, <2>2, <2>3 DEF RememberedDisks
  <2>4. CASE used["loss"] = 0
    <3>1. \A v \in Vol : \/ man'[v] = man[v]
                         \/ man'[v].at = pass.body.at /\ man'[v].tab = pass.body.tab
      <4>1. CASE man' = man
        BY <4>1
      <4>2. CASE man' # man
        <5>1. PICK new \in Man :
                 man' = [man EXCEPT ![d] = new] /\ new.at = pass.body.at /\ new.tab = pass.body.tab
          BY <1>5, <4>2 DEF Writes
        <5>. QED
          BY <1>0, <5>1
      <4>. QED
        BY <4>1, <4>2
    <3>2. \A v \in Vol : /\ man[v].at <= pass.body.at /\ man[v].tab \subseteq pass.body.tab
                         /\ man[v].at = pass.body.at => man[v].tab = pass.body.tab
      BY <1>3, <2>2, <2>4 DEF Dated
    <3>3. pass.body.tab \subseteq db.tab
      BY <2>2 DEF Staged
    <3>4. \A v \in Vol : /\ man'[v].tab \subseteq db.tab /\ man'[v].tab \subseteq pass.body.tab
                         /\ man'[v].at = pass.body.at => man'[v].tab = pass.body.tab
      BY <3>1, <3>2, <3>3
    <3>5. ASSUME NEW u \in Vol, NEW v \in Vol, man'[u].at <= man'[v].at
          PROVE  man'[u].tab \subseteq man'[v].tab
      <4>1. CASE man'[u] = man[u] /\ man'[v] = man[v]
        BY <1>3, <2>4, <3>5, <4>1 DEF Growing
      <4>2. CASE man'[v].at = pass.body.at /\ man'[v].tab = pass.body.tab
        BY <3>4, <4>2
      <4>3. CASE man'[u].at = pass.body.at /\ man'[u].tab = pass.body.tab /\ man'[v] = man[v]
        <5>1. man[v].at = pass.body.at
          BY <1>0, <3>2, <3>5, <4>3
        <5>. QED
          BY <3>2, <4>3, <5>1
      <4>. QED
        BY <3>1, <4>1, <4>2, <4>3
    <3>6. Growing'
      BY <3>5 DEF Growing
    <3>. QED
      BY <2>2, <3>4, <3>6 DEF RememberedDisks
  <2>. QED
    BY <2>3, <2>4
<1>6. CASE PassMoves
  <2>1. man' = man
    BY <1>6 DEF PassMoves
  <2>2. used'["loss"] = 0 \/ db'.fleetMark \/ db'.tab = {} => Growing'
    <3>1. db'.fleetMark => Growing
      BY <1>2, <1>3, MarkRises DEF Unforced
    <3>2. used'["loss"] = 0 \/ db'.tab = {} => Growing
      BY <1>2, <1>3
    <3>3. Growing => Growing'
      BY <2>1 DEF Growing
    <3>. QED
      BY <3>1, <3>2, <3>3
  <2>3. used'["loss"] = 0 => used["loss"] = 0 /\ db.tab \subseteq db'.tab
    BY <1>2
  <2>4. used'["loss"] = 0 => \A v \in Vol : man'[v].tab \subseteq db'.tab
    BY <1>3, <2>1, <2>3
  <2>5. ASSUME used'["loss"] = 0, pass'.busy, NEW v \in Vol
        PROVE  /\ man'[v].tab \subseteq pass'.body.tab
               /\ man'[v].at = pass'.body.at => man'[v].tab = pass'.body.tab
    <3>1. CASE PassKept
      BY <1>3, <2>1, <2>3, <2>5, <3>1 DEF PassKept
    <3>2. CASE PassStarts(db'.tab, mem', mounted')
      <4>1. pass'.body.tab = db'.tab /\ pass'.body.at = clock + 1
        BY <3>2 DEF PassStarts
      <4>2. man[v].at # clock + 1
        BY <1>0 DEF Dated
      <4>. QED
        BY <2>1, <2>4, <2>5, <4>1, <4>2
    <3>3. CASE PassStops
      BY <2>5, <3>3 DEF PassStops
    <3>. QED
      BY <1>6, <3>1, <3>2, <3>3 DEF PassMoves
  <2>. QED
    BY <2>2, <2>4, <2>5 DEF RememberedDisks
<1>. QED
  BY <1>4, <1>5, <1>6
\* A volume that most disks name, one disk names.
LEMMA SomeName ==
    ASSUME NEW v \in Vol, MostName(v)
    PROVE  \E d \in Vol : man[d] # Absent /\ v \in man[d].tab
<1>. DEFINE W == {d \in Vol : man[d] # Absent}
            N == {d \in W : v \in man[d].tab}
<1>1. 2 * Cardinality(N) > Cardinality(W)
  BY DEF MostName
<1>2. IsFiniteSet(W) /\ IsFiniteSet({})
  BY Disks
<1>3. Cardinality(W) \in Nat
  BY <1>2, FS_CardinalityType
<1>4. ASSUME N = {}
      PROVE  FALSE
  <2>1. Cardinality(N) = 0
    BY <1>4, FS_EmptySet
  <2>. HIDE DEF N, W
  <2>. QED
    BY <1>1, <1>3, <2>1
<1>. QED
  BY <1>4

\* A pass that does not name a volume wins it no vote.
LEMMA FewerName ==
    ASSUME Shaped, Staged, Kin, NEW d \in Disk, Writes(d), NEW v \in Vol, v \notin pass.body.tab,
           MostName(v)'
    PROVE  MostName(v)
<1>. DEFINE W == {c \in Vol : man[c] # Absent}
            N == {c \in W : v \in man[c].tab}
            W1 == {c \in Vol : man'[c] # Absent}
            N1 == {c \in W1 : v \in man'[c].tab}
<1>0. man \in [Disk -> Man] /\ Vol \subseteq Disk
  BY Disks DEF Shaped
<1>1. \A c \in Vol : \/ man'[c] = man[c]
                     \/ man'[c] # Absent /\ v \notin man'[c].tab
  <2>1. CASE man' = man
    BY <2>1
  <2>2. CASE man' # man
    <3>1. PICK new \in Man :
             man' = [man EXCEPT ![d] = new] /\ new.id = pass.body.id /\ new.tab = pass.body.tab
      BY <2>2 DEF Writes
    <3>2. new # Absent /\ v \notin new.tab
      BY <3>1 DEF Writes, Kin, Absent
    <3>. QED
      BY <1>0, <3>1, <3>2
  <2>. QED
    BY <2>1, <2>2
<1>2. W \subseteq W1 /\ N1 \subseteq N
  BY <1>1
<1>3. IsFiniteSet(W1) /\ IsFiniteSet(N)
  BY Disks
<1>4. 2 * Cardinality(N1) > Cardinality(W1)
  BY DEF MostName
<1>. HIDE DEF W, W1, N, N1
<1>5. /\ Cardinality(W) <= Cardinality(W1) /\ Cardinality(N1) <= Cardinality(N)
      /\ IsFiniteSet(W) /\ IsFiniteSet(N1)
  BY <1>2, <1>3, FS_Subset
<1>6. /\ Cardinality(W) \in Nat /\ Cardinality(W1) \in Nat
      /\ Cardinality(N) \in Nat /\ Cardinality(N1) \in Nat
  BY <1>3, <1>5, FS_CardinalityType
<1>7. 2 * Cardinality(N) > Cardinality(W)
  BY <1>4, <1>5, <1>6
<1>. QED
  BY <1>7 DEF MostName, W, N

\* Two majorities meet: among the disks that won the vote is one that names what most disks name, and the newest
\* of the winners names what that one does.
LEMMA RecoverKnows ==
    ASSUME Shaped, Kin, OwnArray, Growing, NEW force \in BOOLEAN, recoverFleet(force), ~forced',
           NEW v \in Vol, MostName(v)
    PROVE  v \in op'.tab
<1>. DEFINE W == {d \in Vol : man[d] # Absent}
            N == {d \in W : v \in man[d].tab}
            G == Group("ours")
            A == found \cup silent
<1>1. PICK e \in Vol :
         /\ \A d \in G : man[d].at <= man[e].at
         /\ op'.tab = man[e].tab
         /\ forced' = (forced \/ ~Complete("ours") \/ (db.tab # {} /\ ~db.fleetMark))
  BY RecoverShape
<1>2. Complete("ours")
  BY <1>1
<1>3. found \subseteq Disk /\ silent \subseteq Disk /\ found \cap silent = {}
  BY DEF found, silent
<1>4. W \subseteq A
  <2>1. ASSUME NEW d \in W
        PROVE  d \in A
    <3>1. d \in Disk /\ man[d] # Absent
      BY <2>1, Disks
    <3>. QED
      BY <3>1 DEF found, silent, readManifestReadOnly
  <2>. QED
    BY <2>1
<1>5. G \subseteq W
  <2>1. ASSUME NEW d \in G
        PROVE  d \in W
    <3>1. d \in Disk /\ man[d] # Absent /\ man[d].id = "ours"
      BY <2>1 DEF Group, found, readManifestReadOnly
    <3>. QED
      BY <3>1 DEF Kin, Disk
  <2>. QED
    BY <2>1
<1>6. /\ IsFiniteSet(W) /\ IsFiniteSet(N) /\ IsFiniteSet(G) /\ IsFiniteSet(A)
      /\ IsFiniteSet(found) /\ IsFiniteSet(silent)
  BY <1>3, Disks DEF Group
<1>7. Cardinality(A) = Cardinality(found) + Cardinality(silent)
  <2>1. Cardinality(A) = Cardinality(found) + Cardinality(silent) - Cardinality(found \cap silent)
    BY <1>6, FS_Union
  <2>2. Cardinality(found \cap silent) = 0
    BY <1>3, FS_EmptySet
  <2>3. Cardinality(found) \in Nat /\ Cardinality(silent) \in Nat
    BY <1>6, FS_CardinalityType
  <2>. HIDE DEF A
  <2>. QED
    BY <2>1, <2>2, <2>3
<1>8. 2 * Cardinality(G) > Cardinality(A)
  BY <1>2, <1>7 DEF Complete
<1>9. 2 * Cardinality(N) > Cardinality(W)
  BY DEF MostName
<1>10. N \subseteq W
  OBVIOUS
<1>. HIDE DEF W, N, G, A
<1>11. Cardinality(W) <= Cardinality(A)
  BY <1>4, <1>6, FS_Subset
<1>12. /\ Cardinality(W) \in Nat /\ Cardinality(A) \in Nat
       /\ Cardinality(N) \in Nat /\ Cardinality(G) \in Nat
  BY <1>6, FS_CardinalityType
<1>13. Cardinality(N) + Cardinality(G) > Cardinality(W)
  BY <1>8, <1>9, <1>11, <1>12
<1>14. G \cap N # {}
  BY <1>5, <1>6, <1>10, <1>13, FS_MajoritiesIntersect
<1>15. PICK d : d \in G /\ d \in N
  BY <1>14
<1>16. d \in Vol /\ v \in man[d].tab
  BY <1>15 DEF N, W
<1>17. man[d].at <= man[e].at
  BY <1>1, <1>15
<1>. QED
  BY <1>1, <1>16, <1>17 DEF Growing
\* A step of a recovery, or of the operator, as the table, the marker and the recovery under way see it.
LEMMA TableSteps ==
    ASSUME Shaped, Staged, [Next]_vars
    PROVE  \/ UNCHANGED db /\ (op'.tab = op.tab \/ ~Recovering') /\ (Recovering' => Recovering)
           \/ Disaster /\ db'.tab = {} /\ UNCHANGED op /\ ~Recovering
           \/ beginFleetRestore /\ db'.fleetMark /\ op'.tab = op.tab /\ Recovering
           \/ restoreVolumes /\ Recovering /\ db'.fleetMark /\ op'.tab = op.tab
           \/ restoreVolumes /\ Recovering /\ ~Recovering' /\ db'.tab = db.tab /\ op.tab \subseteq db.tab
           \/ RestoreSteps /\ db'.tab = db.tab /\ db'.fleetMark = db.fleetMark /\ ~Recovering'
           \/ (\E v \in Vol : registerVolume(v)) /\ db.tab \subseteq db'.tab /\ UNCHANGED op
                 /\ db'.fleetMark = db.fleetMark
           \/ (\E force \in BOOLEAN : recoverFleet(force)) /\ UNCHANGED db
<1>0. op \in OpType /\ db \in DbType
  BY DEF Shaped
<1>1. CASE UNCHANGED vars
  BY <1>1 DEF vars, Recovering
<1>2. CASE Restart \/ Crash
  <2>1. op'.pc = "idle" /\ UNCHANGED db
    BY <1>2 DEF Restart, Crash, Down, NoOp
  <2>. QED
    BY <2>1 DEF Recovering
<1>3. CASE Disaster
  BY <1>3 DEF Disaster, Staged, Recovering
<1>4. CASE beginFleetRestore
  <2>1. db'.fleetMark /\ op'.tab = op.tab
    BY <1>0, <1>4 DEF beginFleetRestore, Staged, DbType, OpType
  <2>. QED
    BY <1>4, <2>1 DEF beginFleetRestore, Recovering
<1>5. CASE restoreVolumes
  <2>1. op.pc = "volumes" /\ db.fleetMark /\ op.tab \subseteq db.tab \cup op.todo /\ Recovering
    BY <1>5 DEF restoreVolumes, Staged, Recovering
  <2>2. CASE op.todo # {}
    <3>1. db'.fleetMark /\ op'.tab = op.tab
      BY <1>0, <1>5, <2>1, <2>2 DEF restoreVolumes, DbType, OpType
    <3>. QED
      BY <1>5, <2>1, <3>1
  <2>3. CASE op.todo = {}
    <3>1. op'.pc = "idle" /\ db'.tab = db.tab
      BY <1>0, <1>5, <2>3 DEF restoreVolumes, DbType, NoOp
    <3>. QED
      BY <1>5, <2>1, <2>3, <3>1 DEF Recovering
  <2>. QED
    BY <2>2, <2>3
<1>6. CASE adoptIdentity
  <2>1. UNCHANGED db /\ Recovering
    BY <1>6 DEF adoptIdentity, Recovering
  <2>2. op' = [op EXCEPT !.pc = "volumes", !.todo = op.tab] \/ op' = NoOp
    BY <1>6 DEF adoptIdentity
  <2>3. op'.tab = op.tab \/ op'.pc = "idle"
    <3>1. CASE op' = [op EXCEPT !.pc = "volumes", !.todo = op.tab]
      <4>1. op'.tab = op.tab
        BY <1>0, <3>1 DEF OpType
      <4>. QED
        BY <4>1
    <3>2. CASE op' = NoOp
      BY <3>2 DEF NoOp
    <3>. QED
      BY <2>2, <3>1, <3>2
  <2>. QED
    BY <2>1, <2>3 DEF Recovering
<1>7. CASE restoreBegin
  <2>1. db'.tab = db.tab /\ db'.fleetMark = db.fleetMark
    BY <1>0, <1>7 DEF restoreBegin, DbType
  <2>2. op'.pc = "apply"
    BY <1>7 DEF restoreBegin, NoOp
  <2>. QED
    BY <1>7, <2>1, <2>2 DEF RestoreSteps, Recovering
<1>8. CASE restoreApply
  <2>1. db'.tab = db.tab /\ db'.fleetMark = db.fleetMark
    BY <1>0, <1>8 DEF restoreApply, DbType
  <2>2. op'.pc \in {"rest", "end", "clear", "idle"}
    BY <1>0, <1>8 DEF restoreApply, NoOp, OpType
  <2>. QED
    BY <1>8, <2>1, <2>2 DEF RestoreSteps, Recovering
<1>9. CASE \E v \in Vol : registerVolume(v)
  <2>1. db.tab \subseteq db'.tab /\ db'.fleetMark = db.fleetMark /\ UNCHANGED op
    BY <1>0, <1>9 DEF registerVolume, DbType
  <2>. QED
    BY <1>9, <2>1
<1>10. CASE \E force \in BOOLEAN : recoverFleet(force)
  BY <1>10 DEF recoverFleet
<1>11. CASE Boot \/ Writer \/ Snapshot \/ TakeSnapshot \/ Periodic \/ JournalMoves
              \/ (\E v \in Vol : Reconcile(v)) \/ \E d \in Disk : Fails(d) \/ Answers(d)
  <2>1. UNCHANGED <<db, op>>
    BY <1>11 DEF Boot, BootGate, hydrateFromDisk, Serve, Writer, WriteOne, PassEnds, Snapshot, publish,
       PublishEnds, TakeSnapshot, Periodic, JournalMoves, Reconcile, Fails, Answers
  <2>. QED
    BY <2>1 DEF Recovering
<1>. QED
  BY <1>1, <1>2, <1>3, <1>4, <1>5, <1>6, <1>7, <1>8, <1>9, <1>10, <1>11 DEF Next, FleetSteps, RestoreSteps

\* The table in use, and the one being restored, hold what most disks name.
LEMMA RememberedTablesStep ==
    ASSUME Shaped, Staged, Kin, Marked, Unforced, Remembered, OwnArray, [Next]_vars
    PROVE  RememberedTables'
<1>1. SUFFICES ASSUME ~forced', used'["loss"] <= 1
               PROVE  RememberedTables'
  <2>1. used'["loss"] \in Nat
    BY LossSteps
  <2>. QED
    BY <1>1, <2>1 DEF RememberedTables
<1>2. ~forced /\ used["loss"] \in Nat /\ used["loss"] <= 1
  <2>1. PICK l \in Nat : l = used["loss"]
    BY LossSteps
  <2>2. PICK m : m = used'["loss"]
    OBVIOUS
  <2>3. m = l + 1 \/ m = l
    <3>1. used'["loss"] = used["loss"] + 1 \/ used'["loss"] = used["loss"]
      BY LossSteps
    <3>. QED
      BY <2>1, <2>2, <3>1
  <2>4. m <= 1
    BY <1>1, <2>2
  <2>5. l <= 1
    BY <2>1, <2>3, <2>4
  <2>6. ~forced
    BY <1>1, LossSteps
  <2>. QED
    BY <2>1, <2>5, <2>6
<1>3. /\ used["loss"] = 0 \/ db.fleetMark \/ db.tab = {} => Growing
      /\ ~db.fleetMark /\ db.tab # {} => \A v \in Vol : MostName(v) => v \in db.tab
      /\ Recovering => \A v \in Vol : MostName(v) => v \in op.tab
  BY <1>2 DEF Remembered
<1>4. (\E d \in Disk : Writes(d)) \/ PassMoves
  BY PassSteps DEF Staged
<1>5. ASSUME NEW d \in Disk, Writes(d)
      PROVE  RememberedTables'
  <2>1. db.tab # {} /\ ~db.fleetMark /\ ~Recovering
    BY <1>2, <1>5, NoWriteInWreckage
  <2>2. UNCHANGED <<db, op>> /\ pass.body.tab \subseteq db.tab
    BY <1>5 DEF Writes, Staged
  <2>3. ASSUME NEW v \in Vol, MostName(v)'
        PROVE  v \in db.tab
    <3>1. CASE v \in pass.body.tab
      BY <2>2, <3>1
    <3>2. CASE v \notin pass.body.tab
      <4>1. MostName(v)
        BY <1>5, <2>3, <3>2, FewerName
      <4>. QED
        BY <1>3, <2>1, <2>3, <4>1
    <3>. QED
      BY <3>1, <3>2
  <2>. QED
    BY <2>1, <2>2, <2>3 DEF RememberedTables, Recovering
<1>6. CASE PassMoves
  <2>1. \A v \in Vol : MostName(v)' => MostName(v)
    BY <1>6 DEF PassMoves, MostName
  <2>2. ASSUME Recovering' => \A v \in Vol : MostName(v) => v \in op'.tab,
               ~db'.fleetMark /\ db'.tab # {} => \A v \in Vol : MostName(v) => v \in db'.tab
        PROVE  RememberedTables'
    BY <2>1, <2>2 DEF RememberedTables
  <2>3. CASE UNCHANGED db /\ (op'.tab = op.tab \/ ~Recovering') /\ (Recovering' => Recovering)
    BY <1>3, <2>2, <2>3
  <2>4. CASE db'.tab = {} /\ UNCHANGED op /\ ~Recovering
    BY <2>2, <2>4 DEF Recovering
  <2>5. CASE db'.fleetMark /\ op'.tab = op.tab /\ Recovering
    BY <1>3, <2>2, <2>5
  <2>6. CASE Recovering /\ ~Recovering' /\ db'.tab = db.tab /\ op.tab \subseteq db.tab
    BY <1>3, <2>2, <2>6
  <2>7. CASE db'.tab = db.tab /\ db'.fleetMark = db.fleetMark /\ ~Recovering'
    BY <1>3, <2>2, <2>7
  <2>8. CASE /\ (\E v \in Vol : registerVolume(v)) /\ db.tab \subseteq db'.tab /\ UNCHANGED op
             /\ db'.fleetMark = db.fleetMark
    <3>1. db.tab = {} => \A v \in Vol : ~MostName(v)
      <4>1. db.ns = "whole"
        BY <2>8 DEF registerVolume
      <4>2. db.tab = {} => \A v \in Vol : man[v] = Absent
        BY <1>2, <4>1 DEF Unforced
      <4>. QED
        BY <4>2, SomeName
    <3>. QED
      BY <1>3, <2>2, <2>8, <3>1 DEF Recovering
  <2>9. ASSUME NEW force \in BOOLEAN, recoverFleet(force), UNCHANGED db
        PROVE  RememberedTables'
    <3>1. Growing
      <4>1. db.tab = {} \/ db.fleetMark
        BY <1>1, <2>9, RecoverShape
      <4>. QED
        BY <1>3, <4>1
    <3>2. \A v \in Vol : MostName(v) => v \in op'.tab
      BY <1>1, <2>9, <3>1, RecoverKnows
    <3>. QED
      BY <1>3, <2>2, <2>9, <3>2
  <2>. QED
    BY <2>3, <2>4, <2>5, <2>6, <2>7, <2>8, <2>9, TableSteps
<1>. QED
  BY <1>4, <1>5, <1>6

\* The whole invariant.
IInv == SInv /\ Ordered /\ Unforced /\ Remembered

\* It is inductive.
LEMMA IInvHolds ==
    ASSUME OwnArray
    PROVE  Spec => []IInv
<1>1. Init => IInv
  BY ShapedInit, StagedInit, DatedInit, LocatedInit, KinInit, VouchedInit, MarkedInit, OrderedInit, UnforcedInit,
     RememberedInit DEF IInv, SInv, RInv
<1>2. IInv /\ [Next]_vars => IInv'
  <2>. SUFFICES ASSUME IInv, [Next]_vars
                PROVE  IInv'
    OBVIOUS
  <2>1. /\ Shaped /\ Staged /\ Dated /\ Located /\ Kin /\ Vouched /\ Marked
        /\ Ordered /\ Unforced /\ Remembered
    BY DEF IInv, SInv, RInv
  <2>2. SInv'
    BY <2>1, ShapedStep, StagedStep, DatedStep, LocatedStep, KinStep, VouchedStep, MarkedStep, OwnArray
       DEF SInv, RInv
  <2>3. Ordered' /\ Unforced'
    BY <2>1, OrderedStep, UnforcedStep, OwnArray
  <2>4. RememberedDisks' /\ RememberedTables'
    BY <2>1, RememberedDisksStep, RememberedTablesStep, OwnArray
  <2>5. Remembered'
    BY <2>4 DEF Remembered, RememberedDisks, RememberedTables
  <2>. QED
    BY <2>2, <2>3, <2>5 DEF IInv
<1>. QED
  BY <1>1, <1>2, PTL DEF Spec

\* Every restore of the names reads the journal where the best informed disk of the table says it is, as long as
\* no recovery was forced and no manifest was written by a process that had the list from memory: all disks of
\* the table answered when the list was read from them, and nothing has been written since (restore.ts,
\* journalLocationUncertain; core.ts, the names gate).
THEOREM ReplaysTheLatestJournal ==
    ASSUME OwnArray
    PROVE  Spec => []RestoresFromJournal
<1>1. IInv => RestoresFromJournal
  <2>. SUFFICES ASSUME IInv, Replaying, ~forced, ~hearsay, NEW v \in db.tab
                PROVE  man[v].jl <= mem.jl
    BY DEF RestoresFromJournal, Replaying
  <2>1. mode = "names" /\ fleet # {} /\ mounted = fleet /\ ~mem.lost /\ mem.snap # 0
    BY DEF IInv, SInv, RInv, Staged
  <2>2. fleet = db.tab
    BY <2>1 DEF IInv, Unforced
  <2>. QED
    BY <2>1, <2>2 DEF IInv, Ordered
<1>. QED
  BY <1>1, IInvHolds, PTL

\* With one loss of the database at most, a volume that most manifests name is in the fleet whenever one is up:
\* the manifests are rewritten by a pass of the whole table, and two majorities meet on a disk (bootstrap.ts
\* reconcileManifests; database.ts restoreVolumes; core.ts, the fleet gate).
THEOREM FleetSurvivesALoss ==
    ASSUME OwnArray
    PROVE  Spec => [](used["loss"] <= 1 => FleetKept)
<1>1. IInv => (used["loss"] <= 1 => FleetKept)
  <2>. SUFFICES ASSUME IInv, used["loss"] <= 1, ~forced
                PROVE  /\ ident # "other"
                       /\ mode \in {"names", "normal"} /\ fleet # {} =>
                             \A v \in Vol : MostName(v) => v \in fleet
    BY DEF FleetKept
  <2>1. ident # "other"
    BY DEF IInv, SInv, Kin
  <2>2. ASSUME mode \in {"names", "normal"}, fleet # {}, NEW v \in Vol, MostName(v)
        PROVE  v \in fleet
    <3>1. mode = "normal" => db.ns = "whole"
      BY <2>2 DEF IInv, SInv, Marked
    <3>2. fleet = db.tab /\ ~db.fleetMark
      BY <2>2, <3>1 DEF IInv, Unforced
    <3>3. ~(used["loss"] > 1)
      <4>1. used["loss"] \in Nat
        BY DEF IInv, SInv, RInv, Shaped, Kinds
      <4>. QED
        BY <4>1
    <3>. QED
      BY <2>2, <3>2, <3>3 DEF IInv, Remembered
  <2>. QED
    BY <2>1, <2>2
<1>. QED
  BY <1>1, IInvHolds, PTL

\* All of it: whatever crashes, faults and half-done recoveries there were, with one loss of the database at most
\* and the disks of other arrays outnumbered, the types hold, the fleet is kept, no emptied namespace is served
\* and a restore replays the journal that is the latest (core.ts, the gates of start(); restore.ts).
THEOREM RecoveryIsSafe ==
    ASSUME OwnArray
    PROVE  Spec => [](used["loss"] <= 1 => RecoverySafe)
<1>1. TypeOK /\ NeverServesEmpty /\ RestoresFromJournal /\ (used["loss"] <= 1 => FleetKept)
         => (used["loss"] <= 1 => RecoverySafe)
  BY DEF RecoverySafe
<1>. QED
  BY <1>1, TypeCorrect, NoEmptiedNamespace, ReplaysTheLatestJournal, FleetSurvivesALoss, PTL
===============================================================================
