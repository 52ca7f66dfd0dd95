----------------------- MODULE ObjectLifecycleProofs -----------------------
(***************************************************************************)
(* Proofs about ObjectLifecycle: no phantom rows, no slice unlinked under  *)
(* a live row, and no name that a restore would lose, for any number of    *)
(* objects, slices and requests.                                           *)
(***************************************************************************)
EXTENDS ObjectLifecycle, FiniteSetTheorems, TLAPS

USE LifecycleAssumption

-----------------------------------------------------------------------------
\* The journal of an object stays a sequence of records when one is appended,
\* whether append() acknowledged it or not.
LEMMA JournalType ==
    ASSUME journal \in [Obj -> Seq(Op)], NEW o \in Obj, NEW op \in Op,
           Append1(o, op) \/ Rejected(o, op)
    PROVE  journal' \in [Obj -> Seq(Op)]
<1>1. Append(journal[o], op) \in Seq(Op)
    OBVIOUS
<1>2. QED
    BY <1>1 DEF Append1, Rejected

\* Every step of PUT, putObject() and its abort and cleanup paths, keeps the types.
LEMMA PutType ==
    ASSUME TypeOK, NEW o \in Obj, PutNext(o)
    PROVE  TypeOK'
<1>1. CASE PutStart(o) \/ UploadFails(o) \/ UploadDone(o) \/ CommitFails(o)
            \/ CommitDone(o) \/ InsertFails(o) \/ InsertReturns(o)
            \/ InsertReplyLost(o) \/ AbortEnds(o)
    BY <1>1 DEF TypeOK, PutStart, UploadFails, UploadDone, CommitFails,
        CommitDone, InsertFails, InsertReturns, InsertReplyLost, AbortEnds,
        PutAt, PutState, scan
<1>2. CASE JournalPut(o) \/ JournalPutFails(o) \/ CleanupJournal(o)
            \/ CleanupJournalFails(o)
    <2>1. journal' \in [Obj -> Seq(Op)]
        BY <1>2, JournalType DEF TypeOK, JournalPut, JournalPutFails,
            CleanupJournal, CleanupJournalFails, Op
    <2>2. QED
        BY <1>2, <2>1 DEF TypeOK, JournalPut, JournalPutFails, CleanupJournal,
            CleanupJournalFails, PutAt, PutState, scan
<1>3. CASE Insert(o)
    <2>1. row' \in [Obj -> BOOLEAN]
        BY <1>3 DEF TypeOK, Insert
    <2>2. QED
        BY <1>3, <2>1 DEF TypeOK, Insert, PutAt, PutState, scan
<1>4. CASE \E s \in Slice : CommitSlice(o, s) \/ AbortSlice(o, s)
    <2>1. slices' \in [Obj -> SUBSET Slice]
        <3>1. PICK s \in Slice : CommitSlice(o, s) \/ AbortSlice(o, s)
            BY <1>4
        <3>2. slices[o] \cup {s} \in SUBSET Slice
            BY DEF TypeOK
        <3>3. slices[o] \ {s} \in SUBSET Slice
            BY DEF TypeOK
        <3>4. QED
            BY <3>1, <3>2, <3>3 DEF TypeOK, CommitSlice, AbortSlice
    <2>2. put' \in [Obj -> PutState]
        BY <1>4 DEF TypeOK, CommitSlice, AbortSlice, PutAt, PutState
    <2>3. UNCHANGED <<row, journal, snapped, snap, mode, del, target, scan>>
        BY <1>4 DEF CommitSlice, AbortSlice, PutAt
    <2>4. QED
        BY <2>1, <2>2, <2>3 DEF TypeOK, scan
<1>5. QED
    BY <1>1, <1>2, <1>3, <1>4 DEF PutNext

\* Every step of DELETE keeps the types.
LEMMA DeleteType ==
    ASSUME TypeOK, NEW d \in Deleter, DeleteNext(d)
    PROVE  TypeOK'
<1>1. CASE \E o \in Obj : DeleteStart(d, o)
    BY <1>1 DEF TypeOK, DeleteStart, DelAt, DelState, scan
<1>2. CASE DeleteJournal(d) \/ DeleteJournalFails(d) \/ Compensate(d)
            \/ CompensateFails(d)
    <2>1. target[d] \in Obj
        BY <1>2 DEF TypeOK, DeleteJournal, DeleteJournalFails, Compensate,
            CompensateFails, DelAt
    <2>2. journal' \in [Obj -> Seq(Op)]
        BY <1>2, <2>1, JournalType DEF TypeOK, DeleteJournal,
            DeleteJournalFails, Compensate, CompensateFails, Op
    <2>3. QED
        BY <1>2, <2>2 DEF TypeOK, DeleteJournal, DeleteJournalFails,
            Compensate, CompensateFails, DelAt, DelState, scan
<1>3. CASE DeleteRow(d) \/ DeleteRowFails(d) \/ DestroyEnds(d)
    <2>1. row' \in [Obj -> BOOLEAN]
        BY <1>3 DEF TypeOK, DeleteRow, DeleteRowFails, DestroyEnds
    <2>2. QED
        BY <1>3, <2>1 DEF TypeOK, DeleteRow, DeleteRowFails, DestroyEnds,
            DelAt, DelState, scan
<1>4. CASE \E s \in Slice : DestroySlice(d, s)
    <2>1. slices' \in [Obj -> SUBSET Slice]
        BY <1>4 DEF TypeOK, DestroySlice
    <2>2. QED
        BY <1>4, <2>1 DEF TypeOK, DestroySlice, DelAt, DelState, scan
<1>5. QED
    BY <1>1, <1>2, <1>3, <1>4 DEF DeleteNext

\* Snapshots, restores, a crash and the loss of MongoDB keep the types.
LEMMA OtherType ==
    ASSUME TypeOK, SnapshotNext \/ RestoreNext \/ Crash \/ MongoLost
    PROVE  TypeOK'
<1>1. CASE SnapshotNext
    BY <1>1 DEF TypeOK, SnapshotNext, SnapshotStart, SnapshotRead,
        SnapshotPublish, SnapshotUnchanged
<1>2. CASE RestoreNext
    <2>1. row' \in [Obj -> BOOLEAN]
        <3>1. CASE RestoreFinish
            BY <3>1 DEF RestoreFinish
        <3>2. CASE \E o \in Obj : RestoreWrite(o)
            BY <3>2 DEF TypeOK, RestoreWrite
        <3>3. QED
            BY <1>2, <3>1, <3>2 DEF RestoreNext
    <2>2. UNCHANGED <<slices, journal, snapped, snap, put, del, target, scan>>
        BY <1>2 DEF RestoreNext, RestoreWrite, RestoreFinish
    <2>3. mode' \in {"up", "recovery"}
        BY <1>2 DEF TypeOK, RestoreNext, RestoreWrite, RestoreFinish
    <2>4. QED
        BY <2>1, <2>2, <2>3 DEF TypeOK, scan
<1>3. CASE Crash \/ MongoLost
    BY <1>3 DEF TypeOK, Crash, MongoLost, Forget, PutState, DelState, disk
<1>4. QED
    BY <1>1, <1>2, <1>3

\* Every variable keeps its type, and a DELETE past its first step always
\* holds the record it loaded.
THEOREM TypeCorrect == Spec => []TypeOK
<1>1. Init => TypeOK
    <2>1. SUFFICES ASSUME Init PROVE TypeOK
        OBVIOUS
    <2>2. row \in [Obj -> BOOLEAN]
        BY <2>1 DEF Init
    <2>3. slices \in [Obj -> SUBSET Slice]
        BY <2>1 DEF Init
    <2>4. journal \in [Obj -> Seq(Op)]
        BY <2>1 DEF Init
    <2>5. QED
        BY <2>1, <2>2, <2>3, <2>4 DEF Init, TypeOK, PutState, DelState
<1>2. TypeOK /\ [Next]_vars => TypeOK'
    <2>1. CASE UNCHANGED vars
        BY <2>1 DEF TypeOK, vars, disk, scan
    <2>2. CASE Next
        BY <2>2, PutType, DeleteType, OtherType DEF Next
    <2>3. QED
        BY <2>1, <2>2
<1>3. QED
    BY <1>1, <1>2, PTL DEF Spec

-----------------------------------------------------------------------------
(***************************************************************************)
(* The inductive invariant.  NoLivePhantom is not inductive by itself: it  *)
(* has to know that nobody can delete an object before its row exists,     *)
(* that the slices are whole when the insert happens, and that whoever is  *)
(* unlinking does so under no row.                                         *)
(***************************************************************************)
Early == {"idle", "upload", "commit", "leaking", "journal", "insert"}

\* Before the insert there is no row, and so no DELETE has loaded the object.
Fresh == \A o \in Obj : put[o] \in Early => ~row[o] /\ \A d \in Deleter : target[d] # o

Empty == \A o \in Obj : put[o] \in {"idle", "upload"} => slices[o] = {}
Whole == \A o \in Obj : put[o] \in {"journal", "insert"} => slices[o] = Slice

\* An upload cleans up only when its row was never written...
Undone == \A o \in Told : put[o] \in {"cleanup", "abort"} => ~row[o]

\* ...and a DELETE unlinks only after the row is gone.
Unlinking == \A d \in Deleter : del[d] = "unlink" => ~row[target[d]]

\* In recovery mode nothing but the restore runs.
Quiet ==
    mode = "recovery" =>
        /\ \A o \in Obj : put[o] \in {"idle", "created", "failed"}
        /\ \A d \in Deleter : del[d] \in {"idle", "deleted", "failed"}
        /\ ~scanning

Inv == Fresh /\ Empty /\ Whole /\ Undone /\ Unlinking /\ Quiet /\ NoLivePhantom

\* The empty system satisfies the inductive invariant.
LEMMA InvInit ==
    ASSUME Init PROVE Inv
<1> USE DEF Told
<1>1. PICK L \in Legacy :
        /\ slices = [o \in Obj |-> IF o \in L THEN Slice ELSE {}]
        /\ row = [o \in Obj |-> o \in L]
        /\ put = [o \in Obj |-> IF o \in L THEN "created" ELSE "idle"]
    BY DEF Init
<1>2. mode = "up" /\ del = [d \in Deleter |-> "idle"] /\ target = [d \in Deleter |-> NoObj]
    BY DEF Init
<1>3. Fresh /\ Empty /\ Whole /\ Undone
    BY <1>1, <1>2 DEF Fresh, Empty, Whole, Undone, Early
<1>4. Unlinking /\ Quiet
    BY <1>2 DEF Unlinking, Quiet
<1>5. NoLivePhantom
    BY <1>1 DEF NoLivePhantom
<1>6. QED
    BY <1>3, <1>4, <1>5 DEF Inv

\* Every step of PUT keeps the invariant.
LEMMA PutInv ==
    ASSUME TypeOK, Inv, NEW o \in Obj, PutNext(o)
    PROVE  Inv'
<1> USE DEF Inv, PutAt, scan, Told
<1>0. UNCHANGED <<snapped, snap, mode, del, target, scan>> /\ mode = "up"
    BY DEF PutNext, PutStart, UploadFails, UploadDone, CommitFails, CommitDone,
        InsertFails, InsertReturns, InsertReplyLost, AbortEnds, JournalPut,
        JournalPutFails, CleanupJournal, CleanupJournalFails, Insert,
        CommitSlice, AbortSlice
<1>1. CASE PutStart(o) \/ UploadFails(o) \/ UploadDone(o) \/ CommitFails(o)
            \/ InsertReturns(o) \/ AbortEnds(o)
    <2>1. UNCHANGED <<slices, row>>
        BY <1>1 DEF PutStart, UploadFails, UploadDone, CommitFails,
            InsertReturns, AbortEnds
    <2>2. \/ put[o] = "idle" /\ put' = [put EXCEPT ![o] = "upload"]
          \/ put[o] = "upload" /\ put' = [put EXCEPT ![o] = "failed"]
          \/ put[o] = "upload" /\ put' = [put EXCEPT ![o] = "commit"]
          \/ put[o] = "commit" /\ put' = [put EXCEPT ![o] = "leaking"]
          \/ put[o] = "inserted" /\ put' = [put EXCEPT ![o] = "created"]
          \/ put[o] = "abort" /\ put' = [put EXCEPT ![o] = "failed"]
        BY <1>1 DEF PutStart, UploadFails, UploadDone, CommitFails,
            InsertReturns, AbortEnds
    <2>3. Fresh' /\ Empty' /\ Whole' /\ Undone'
        BY <1>0, <2>1, <2>2 DEF TypeOK, Fresh, Empty, Whole, Undone, Early
    <2>4. Unlinking' /\ Quiet' /\ NoLivePhantom'
        BY <1>0, <2>1 DEF Unlinking, Quiet, NoLivePhantom
    <2>5. QED
        BY <2>3, <2>4
<1>7. CASE InsertFails(o) \/ InsertReplyLost(o)
    <2>1. UNCHANGED <<slices, row>> /\ put' = [put EXCEPT ![o] = "cleanup"]
        BY <1>7 DEF InsertFails, InsertReplyLost
    <2>2. o \in Told => ~row[o]
        BY <1>7 DEF InsertFails, InsertReplyLost, Fresh, Early
    <2>3. Undone'
        BY <2>1, <2>2 DEF TypeOK, Undone
    <2>4. Fresh' /\ Empty' /\ Whole'
        BY <1>0, <2>1 DEF TypeOK, Fresh, Empty, Whole, Early
    <2>5. Unlinking' /\ Quiet' /\ NoLivePhantom'
        BY <1>0, <2>1 DEF Unlinking, Quiet, NoLivePhantom
    <2>6. QED
        BY <2>3, <2>4, <2>5
<1>2. CASE CommitDone(o)
    BY <1>0, <1>2 DEF TypeOK, CommitDone, Fresh, Empty, Whole, Undone,
        Unlinking, Quiet, Early, NoLivePhantom
<1>3. CASE JournalPut(o) \/ JournalPutFails(o) \/ CleanupJournal(o)
            \/ CleanupJournalFails(o)
    <2>1. UNCHANGED <<slices, row>>
        BY <1>3 DEF JournalPut, JournalPutFails, CleanupJournal,
            CleanupJournalFails
    <2>2. \/ put[o] = "journal" /\ put' = [put EXCEPT ![o] = "insert"]
          \/ put[o] = "journal" /\ put' = [put EXCEPT ![o] = "abort"]
          \/ put[o] = "cleanup" /\ put' = [put EXCEPT ![o] = "abort"]
          \/ put[o] = "cleanup" /\ put' = [put EXCEPT ![o] = "failed"]
        BY <1>3 DEF JournalPut, JournalPutFails, CleanupJournal,
            CleanupJournalFails
    <2>3. QED
        BY <1>0, <2>1, <2>2 DEF TypeOK, Fresh, Empty, Whole, Undone,
            Unlinking, Quiet, Early, NoLivePhantom
<1>4. CASE Insert(o)
    BY <1>0, <1>4 DEF TypeOK, Insert, Fresh, Empty, Whole, Undone,
        Unlinking, Quiet, Early, NoLivePhantom
<1>5. CASE \E s \in Slice : CommitSlice(o, s) \/ AbortSlice(o, s)
    <2>1. UNCHANGED <<row, put>>
        BY <1>5 DEF TypeOK, CommitSlice, AbortSlice
    <2>2. put[o] \in {"commit", "leaking", "abort"}
        BY <1>5 DEF CommitSlice, AbortSlice
    <2>3. \A p \in Obj : p # o => slices'[p] = slices[p]
        BY <1>5 DEF TypeOK, CommitSlice, AbortSlice
    <2>4. o \in Told => ~row[o]
        BY <2>2 DEF Fresh, Undone, Early
    <2>5. Fresh' /\ Undone' /\ Unlinking' /\ Quiet'
        BY <1>0, <2>1 DEF Fresh, Undone, Unlinking, Quiet
    <2>6. Empty' /\ Whole'
        BY <2>1, <2>2, <2>3 DEF Empty, Whole
    <2>7. NoLivePhantom'
        BY <2>1, <2>3, <2>4 DEF NoLivePhantom, Told
    <2>8. QED
        BY <2>5, <2>6, <2>7
<1>6. QED
    BY <1>1, <1>7, <1>2, <1>3, <1>4, <1>5 DEF PutNext

\* Every step of DELETE keeps the invariant.
LEMMA DeleteInv ==
    ASSUME TypeOK, Inv, NEW d \in Deleter, DeleteNext(d)
    PROVE  Inv'
<1> USE DEF Inv, DelAt, scan, Told
<1>1. CASE \E o \in Obj : DeleteStart(d, o)
    BY <1>1 DEF TypeOK, DeleteStart, Fresh, Empty, Whole, Undone, Unlinking,
        Quiet, Early, NoLivePhantom
<1>2. CASE DeleteJournal(d) \/ DeleteJournalFails(d) \/ Compensate(d)
            \/ CompensateFails(d) \/ DestroyEnds(d)
    BY <1>2 DEF TypeOK, DeleteJournal, DeleteJournalFails, Compensate,
        CompensateFails, DestroyEnds, Fresh, Empty, Whole,
        Undone, Unlinking, Quiet, Early, NoLivePhantom
<1>6. CASE DeleteRowFails(d)
    <2>1. UNCHANGED <<slices, mode, put, target, scanning>>
        BY <1>6 DEF DeleteRowFails
    <2>2. \A o \in Obj : row'[o] => row[o]
        BY <1>6 DEF TypeOK, DeleteRowFails
    <2>3. mode = "up" /\ del' = [del EXCEPT ![d] = "compensate"]
        BY <1>6 DEF DeleteRowFails
    <2>4. Fresh' /\ Empty' /\ Whole' /\ Undone'
        BY <2>1, <2>2 DEF Fresh, Empty, Whole, Undone
    <2>5. Unlinking'
        BY <2>1, <2>2, <2>3 DEF TypeOK, Unlinking
    <2>6. Quiet' /\ NoLivePhantom'
        BY <2>1, <2>2, <2>3 DEF Quiet, NoLivePhantom
    <2>7. QED
        BY <2>4, <2>5, <2>6
<1>3. CASE DeleteRow(d)
    BY <1>3 DEF TypeOK, DeleteRow, Fresh, Empty, Whole, Undone, Unlinking,
        Quiet, Early, NoLivePhantom
<1>4. CASE \E s \in Slice : DestroySlice(d, s)
    BY <1>4 DEF TypeOK, DestroySlice, Fresh, Empty, Whole, Undone, Unlinking,
        Quiet, Early, NoLivePhantom
<1>5. QED
    BY <1>1, <1>2, <1>6, <1>3, <1>4 DEF DeleteNext

\* Snapshots, restores, a crash and the loss of MongoDB keep the invariant.
LEMMA OtherInv ==
    ASSUME TypeOK, Inv, SnapshotNext \/ RestoreNext \/ Crash \/ MongoLost
    PROVE  Inv'
<1> USE DEF Inv, Told
<1>1. CASE SnapshotNext
    BY <1>1 DEF TypeOK, SnapshotNext, SnapshotStart, SnapshotRead,
        SnapshotPublish, SnapshotUnchanged, Fresh, Empty, Whole, Undone,
        Unlinking, Quiet, Early, NoLivePhantom
<1>2. CASE \E o \in Obj : RestoreWrite(o)
    <2>1. PICK o \in Obj : RestoreWrite(o)
        BY <1>2
    <2>2. Cardinality(slices[o]) >= DataSlices
        BY <2>1 DEF RestoreWrite, Rebuilt
    <2>3. slices[o] # {}
        BY <2>2, FS_EmptySet
    <2>4. put[o] \notin Early
        BY <2>1, <2>3 DEF RestoreWrite, Quiet, Empty, Early
    <2>5. UNCHANGED <<slices, mode, put, del, target, scanning>>
        BY <2>1 DEF RestoreWrite, scan
    <2>6. row' = [row EXCEPT ![o] = TRUE] /\ mode = "recovery"
        BY <2>1 DEF RestoreWrite
    <2>7. Fresh' /\ Empty' /\ Whole' /\ Quiet'
        BY <2>4, <2>5, <2>6 DEF TypeOK, Fresh, Empty, Whole, Quiet
    <2>8. Undone' /\ Unlinking'
        BY <2>5, <2>6 DEF Undone, Unlinking, Quiet
    <2>9. NoLivePhantom'
        BY <2>2, <2>5, <2>6 DEF TypeOK, NoLivePhantom
    <2>10. QED
        BY <2>7, <2>8, <2>9
<1>3. CASE RestoreFinish
    BY <1>3 DEF TypeOK, RestoreFinish, scan, Fresh, Empty, Whole, Undone,
        Unlinking, Quiet, Early, NoLivePhantom
<1>4. CASE Crash
    BY <1>4 DEF TypeOK, Crash, Forget, disk, Fresh, Empty, Whole, Undone,
        Unlinking, Quiet, Early, NoLivePhantom
<1>5. CASE MongoLost
    BY <1>5 DEF TypeOK, MongoLost, Forget, Fresh, Empty, Whole, Undone,
        Unlinking, Quiet, Early, NoLivePhantom
<1>6. QED
    BY <1>1, <1>2, <1>3, <1>4, <1>5 DEF RestoreNext

\* The three lemmas above cover Next: the invariant is inductive.
LEMMA InvInductive ==
    ASSUME TypeOK, Inv, [Next]_vars PROVE Inv'
<1>1. CASE UNCHANGED vars
    BY <1>1 DEF Inv, vars, disk, scan, Fresh, Empty, Whole, Undone,
        Unlinking, Quiet, Early, NoLivePhantom
<1>2. CASE Next
    BY <1>2, PutInv, DeleteInv, OtherInv DEF Next
<1>3. QED
    BY <1>1, <1>2

-----------------------------------------------------------------------------
\* No phantom: with a MongoDB that reports what it did, no interleaving of
\* uploads, deletes, crashes and restores leaves a row without its data.
THEOREM PhantomFree == Spec => []NoLivePhantom
<1>1. Init => Inv
    BY InvInit
<1>2. TypeOK /\ Inv /\ [Next]_vars => Inv'
    BY InvInductive
<1>3. Inv => NoLivePhantom
    BY DEF Inv
<1>4. QED
    BY <1>1, <1>2, <1>3, TypeCorrect, PTL DEF Spec

\* A step that takes a slice away from an object finds no row for it.
LEMMA UnlinkStep ==
    ASSUME TypeOK, Inv, Next, NEW o \in Told, row[o]
    PROVE  slices[o] \subseteq slices'[o]
<1> USE DEF Told
<1>1. CASE \E p \in Obj : PutNext(p)
    <2>1. PICK p \in Obj : PutNext(p)
        BY <1>1
    <2>2. CASE \E s \in Slice : AbortSlice(p, s)
        BY <2>2 DEF TypeOK, Inv, Undone, AbortSlice, PutAt
    <2>3. CASE \E s \in Slice : CommitSlice(p, s)
        BY <2>3 DEF TypeOK, CommitSlice
    <2>4. CASE UNCHANGED slices
        BY <2>4
    <2>5. QED
        BY <2>1, <2>2, <2>3, <2>4 DEF PutNext, PutStart, UploadFails,
            UploadDone, CommitFails, CommitDone, InsertFails, InsertReturns,
            InsertReplyLost, AbortEnds, JournalPut, JournalPutFails,
            CleanupJournal, CleanupJournalFails, Insert
<1>2. CASE \E d \in Deleter : DeleteNext(d)
    <2>1. PICK d \in Deleter : DeleteNext(d)
        BY <1>2
    <2>2. CASE \E s \in Slice : DestroySlice(d, s)
        BY <2>2 DEF TypeOK, Inv, Unlinking, DestroySlice, DelAt
    <2>3. CASE UNCHANGED slices
        BY <2>3
    <2>4. QED
        BY <2>1, <2>2, <2>3 DEF DeleteNext, DeleteStart, DeleteJournal,
            DeleteJournalFails, DeleteRow, DeleteRowFails, Compensate,
            CompensateFails, DestroyEnds
<1>3. CASE SnapshotNext \/ RestoreNext \/ Crash \/ MongoLost
    BY <1>3 DEF SnapshotNext, SnapshotStart, SnapshotRead, SnapshotPublish,
        SnapshotUnchanged, RestoreNext, RestoreWrite, RestoreFinish, Crash,
        MongoLost, disk
<1>4. QED
    BY <1>1, <1>2, <1>3 DEF Next

\* The order of delete() and of the cleanup of a failed upload: no slice is
\* ever unlinked while MongoDB still names the object.
THEOREM UnlinkLast == Spec => SlicesOutliveRow
<1>1. Init => Inv
    BY InvInit
<1>2. TypeOK /\ Inv /\ [Next]_vars => Inv'
    BY InvInductive
<1>3. TypeOK /\ Inv /\ [Next]_vars
        => [\A o \in Told : slices[o] \subseteq slices'[o] \/ ~row[o]]_vars
    BY UnlinkStep
<1>4. QED
    BY <1>1, <1>2, <1>3, TypeCorrect, PTL DEF Spec, SlicesOutliveRow

-----------------------------------------------------------------------------
(***************************************************************************)
(* Names.  A row has its put in the journal, or it is older than the       *)
(* journal and every snapshot that could be restored has read it.          *)
(***************************************************************************)
Known(o) ==
    \/ HasPut(o)
    \/ /\ snapped => o \in snap
       /\ scanning => o \in unread \cup read

Named == \A o \in Obj : row[o] => Known(o)

\* The put is durable before the insert is attempted.
JournaledFirst == \A o \in Obj : put[o] = "insert" => HasPut(o)

\* A step leaves an object's records alone or appends one.
LEMMA JournalGrows ==
    ASSUME TypeOK, Next, NEW o \in Obj
    PROVE  journal'[o] = journal[o] \/ \E op \in Op : journal'[o] = Append(journal[o], op)
<1>1. CASE \E p \in Obj : PutNext(p)
    <2>1. PICK p \in Obj : PutNext(p)
        BY <1>1
    <2>2. UNCHANGED journal \/ \E op \in Op : Append1(p, op)
        BY <2>1 DEF PutNext, PutStart, UploadFails, UploadDone, CommitFails,
            CommitDone, InsertFails, InsertReturns, InsertReplyLost,
            AbortEnds, JournalPut, JournalPutFails, CleanupJournal,
            CleanupJournalFails, Insert, CommitSlice, AbortSlice, Rejected, Op
    <2>3. QED
        BY <2>2 DEF TypeOK, Append1
<1>2. CASE \E d \in Deleter : DeleteNext(d)
    <2>1. PICK d \in Deleter : DeleteNext(d)
        BY <1>2
    <2>2. UNCHANGED journal \/ \E op \in Op : Append1(target[d], op)
        BY <2>1 DEF DeleteNext, DeleteStart, DeleteJournal,
            DeleteJournalFails, DeleteRow, DeleteRowFails, Compensate,
            CompensateFails, DestroySlice, DestroyEnds, Rejected, Op
    <2>3. QED
        BY <2>2 DEF TypeOK, Append1
<1>3. CASE SnapshotNext \/ RestoreNext \/ Crash \/ MongoLost
    BY <1>3 DEF SnapshotNext, SnapshotStart, SnapshotRead, SnapshotPublish,
        SnapshotUnchanged, RestoreNext, RestoreWrite, RestoreFinish, Crash,
        MongoLost, disk
<1>4. QED
    BY <1>1, <1>2, <1>3 DEF Next

\* A put in the journal stays in the journal.
LEMMA PutStays ==
    ASSUME TypeOK, Next, NEW o \in Obj, HasPut(o)
    PROVE  HasPut(o)'
<1>1. journal[o] \in Seq(Op)
    BY DEF TypeOK
<1>2. CASE journal'[o] = journal[o]
    BY <1>2 DEF HasPut
<1>3. CASE \E op \in Op : journal'[o] = Append(journal[o], op)
    BY <1>1, <1>3 DEF HasPut
<1>4. QED
    BY <1>2, <1>3, JournalGrows

\* An appended put is there.
LEMMA PutAppended ==
    ASSUME TypeOK, NEW o \in Obj, Append1(o, "put")
    PROVE  HasPut(o)'
<1>1. journal[o] \in Seq(Op)
    BY DEF TypeOK
<1>2. journal'[o] = Append(journal[o], "put")
    BY DEF TypeOK, Append1
<1>3. Len(journal'[o]) = Len(journal[o]) + 1 /\ Len(journal[o]) \in Nat
    BY <1>1, <1>2 DEF Op
<1>4. journal'[o][Len(journal'[o])] = "put"
    BY <1>1, <1>2 DEF Op
<1>5. QED
    BY <1>3, <1>4 DEF HasPut

\* What a restore writes back, it knows from the journal or the snapshot.
LEMMA RebuiltKnown ==
    ASSUME TypeOK, NEW o \in Rebuilt
    PROVE  HasPut(o) \/ o \in snap
<1>1. journal[o] \in Seq(Op) /\ o \in Obj
    BY DEF TypeOK, Rebuilt, Objects, DelsIgnored, Deleted
<1>2. CASE o \in Objects
    <2>1. CASE journal[o] = <<>>
        BY <1>2, <2>1 DEF Objects
    <2>2. CASE journal[o] # <<>>
        BY <1>1, <1>2, <2>2 DEF Objects, LastOp, HasPut
    <2>3. QED
        BY <2>1, <2>2
<1>3. CASE o \in DelsIgnored
    BY <1>3 DEF DelsIgnored, Deleted
<1>4. QED
    BY <1>2, <1>3 DEF Rebuilt

\* An upload reaches its insert only after its put was journaled.
LEMMA JournaledFirstStep ==
    ASSUME TypeOK, JournaledFirst, Next PROVE JournaledFirst'
<1>1. SUFFICES ASSUME NEW o \in Obj, put'[o] = "insert" PROVE HasPut(o)'
    BY DEF JournaledFirst
<1>2. CASE put[o] = "insert"
    BY <1>2, PutStays DEF JournaledFirst
<1>3. CASE put[o] # "insert"
    <2>1. JournalPut(o)
        <3>1. CASE \E p \in Obj : PutNext(p)
            BY <1>1, <1>3, <3>1 DEF TypeOK, PutNext, PutStart, UploadFails,
                UploadDone, CommitFails, CommitDone, InsertFails,
                InsertReturns, InsertReplyLost, AbortEnds, JournalPut,
                JournalPutFails, CleanupJournal, CleanupJournalFails, Insert,
                CommitSlice, AbortSlice, PutAt
        <3>2. CASE \E d \in Deleter : DeleteNext(d)
            BY <1>1, <1>3, <3>2 DEF DeleteNext, DeleteStart, DeleteJournal,
                DeleteJournalFails, DeleteRow, DeleteRowFails, Compensate,
                CompensateFails, DestroySlice, DestroyEnds, DelAt
        <3>3. CASE SnapshotNext \/ RestoreNext
            BY <1>1, <1>3, <3>3 DEF SnapshotNext, SnapshotStart, SnapshotRead,
                SnapshotPublish, SnapshotUnchanged, RestoreNext, RestoreWrite,
                RestoreFinish
        <3>4. CASE Crash \/ MongoLost
            BY <1>1, <1>3, <3>4 DEF TypeOK, Crash, MongoLost, Forget
        <3>5. QED
            BY <3>1, <3>2, <3>3, <3>4 DEF Next
    <2>2. QED
        BY <2>1, PutAppended DEF JournalPut
<1>4. QED
    BY <1>2, <1>3

\* A step that does not start or end a snapshot, nor read a row, keeps what
\* is known of an object.
LEMMA KnownStays ==
    ASSUME TypeOK, Next, UNCHANGED <<snapped, snap, scan>>, NEW o \in Obj, Known(o)
    PROVE  Known(o)'
    BY PutStays DEF Known, scan

\* Every live row stays known to the journal, the snapshot or the scan.
LEMMA NamedStep ==
    ASSUME TypeOK, Inv, Named, JournaledFirst, Next PROVE Named'
<1>1. SUFFICES ASSUME NEW o \in Obj, row'[o] PROVE Known(o)'
    BY DEF Named
<1>2. CASE \E p \in Obj : PutNext(p)
    <2>1. UNCHANGED <<snapped, snap, scan>>
        BY <1>2 DEF PutNext, PutStart, UploadFails, UploadDone, CommitFails,
            CommitDone, InsertFails, InsertReturns, InsertReplyLost,
            AbortEnds, JournalPut, JournalPutFails, CleanupJournal,
            CleanupJournalFails, Insert, CommitSlice, AbortSlice, PutAt
    <2>2. CASE row[o]
        BY <2>1, <2>2, KnownStays DEF Named
    <2>3. CASE ~row[o]
        <3>1. Insert(o)
            BY <1>1, <1>2, <2>3 DEF TypeOK, PutNext, PutStart, UploadFails,
                UploadDone, CommitFails, CommitDone, InsertFails,
                InsertReturns, InsertReplyLost, AbortEnds, JournalPut,
                JournalPutFails, CleanupJournal, CleanupJournalFails, Insert,
                CommitSlice, AbortSlice
        <3>2. QED
            BY <3>1, PutStays DEF Insert, PutAt, JournaledFirst, Known
    <2>4. QED
        BY <2>2, <2>3
<1>3. CASE \E d \in Deleter : DeleteNext(d)
    <2>1. UNCHANGED <<snapped, snap, scan>>
        BY <1>3 DEF DeleteNext, DeleteStart, DeleteJournal,
            DeleteJournalFails, DeleteRow, DeleteRowFails, Compensate,
            CompensateFails, DestroySlice, DestroyEnds, DelAt
    <2>2. row[o]
        BY <1>1, <1>3 DEF TypeOK, DeleteNext, DeleteStart, DeleteJournal,
            DeleteJournalFails, DeleteRow, DeleteRowFails, Compensate,
            CompensateFails, DestroySlice, DestroyEnds
    <2>3. QED
        BY <2>1, <2>2, KnownStays DEF Named
<1>4. CASE SnapshotNext
    BY <1>1, <1>4, PutStays DEF TypeOK, Named, Known, SnapshotNext,
        SnapshotStart, SnapshotRead, SnapshotPublish, SnapshotUnchanged
<1>5. CASE RestoreNext
    <2>1. UNCHANGED <<snapped, snap, scan>>
        BY <1>5 DEF RestoreNext, RestoreWrite, RestoreFinish
    <2>2. CASE row[o]
        BY <2>1, <2>2, KnownStays DEF Named
    <2>3. CASE ~row[o]
        <3>1. o \in Rebuilt
            BY <1>1, <1>5, <2>3 DEF TypeOK, RestoreNext, RestoreWrite,
                RestoreFinish
        <3>2. ~scanning
            BY <1>5 DEF Inv, Quiet, RestoreNext, RestoreWrite, RestoreFinish
        <3>3. Known(o)
            BY <3>1, <3>2, RebuiltKnown DEF Known
        <3>4. QED
            BY <2>1, <3>3, KnownStays
    <2>4. QED
        BY <2>2, <2>3
<1>6. CASE Crash \/ MongoLost
    BY <1>1, <1>6, PutStays DEF TypeOK, Named, Known, Crash, MongoLost, Forget,
        disk
<1>7. QED
    BY <1>2, <1>3, <1>4, <1>5, <1>6 DEF Next

\* Slices, a put or a snapshot entry: the replay keeps the name.
LEMMA NamedRebuilt ==
    ASSUME TypeOK, NoLivePhantom, Named PROVE RowSurvivesRestore
<1>1. SUFFICES ASSUME snapped, NEW o \in Told, row[o] PROVE o \in Rebuilt
    BY DEF RowSurvivesRestore
<1> USE DEF Told
<1>2. Cardinality(slices[o]) >= DataSlices
    BY <1>1 DEF NoLivePhantom
<1>3. slices[o] # {}
    BY <1>2, FS_EmptySet
<1>4. HasPut(o) \/ o \in snap
    BY <1>1 DEF Named, Known
<1>5. o \in Objects \cup DelsIgnored
    <2>1. journal[o] \in Seq(Op)
        BY DEF TypeOK
    <2>2. CASE journal[o] = <<>>
        BY <1>4, <2>2 DEF HasPut, Objects
    <2>3. CASE journal[o] # <<>>
        <3>1. LastOp(o) \in Op
            BY <2>1, <2>3 DEF LastOp
        <3>2. QED
            BY <1>3, <1>4, <2>3, <3>1 DEF Op, Objects, DelsIgnored, Deleted
    <2>4. QED
        BY <2>2, <2>3
<1>6. QED
    BY <1>2, <1>5 DEF Rebuilt

\* No name is lost: at every moment, in the middle of any number of PUTs and
\* DELETEs, a restore would bring back every name MongoDB holds.
THEOREM NamesSurvive == Spec => []RowSurvivesRestore
<1>1. Init => Inv /\ Named /\ JournaledFirst
    BY InvInit DEF Init, Named, Known, JournaledFirst
<1>2. TypeOK /\ Inv /\ Named /\ JournaledFirst /\ [Next]_vars
        => Inv' /\ Named' /\ JournaledFirst'
    <2>1. SUFFICES ASSUME TypeOK, Inv, Named, JournaledFirst, [Next]_vars
                   PROVE  Inv' /\ Named' /\ JournaledFirst'
        OBVIOUS
    <2>2. Inv'
        BY <2>1, InvInductive
    <2>3. CASE UNCHANGED vars
        BY <2>1, <2>2, <2>3 DEF vars, disk, scan, Named, Known, HasPut,
            JournaledFirst
    <2>4. CASE Next
        BY <2>1, <2>2, <2>4, NamedStep, JournaledFirstStep
    <2>5. QED
        BY <2>1, <2>3, <2>4
<1>3. TypeOK /\ Inv /\ Named => RowSurvivesRestore
    BY NamedRebuilt DEF Inv
<1>4. QED
    BY <1>1, <1>2, <1>3, TypeCorrect, PTL DEF Spec

-----------------------------------------------------------------------------
(***************************************************************************)
(* Funerals.  A DELETE that has got past its journal record leaves the     *)
(* object gone, as a replay of the journal sees it, for as long as it      *)
(* lives: only another DELETE of the object that failed can put it back.   *)
(***************************************************************************)
\* The replay of the journal ends on a del.
Gone(o) == journal[o] # <<>> /\ LastOp(o) = "del"

\* A DELETE of the object failed, or is about to.
PutBack(o) == \E e \in Deleter : target[e] = o /\ del[e] \in {"compensate", "failed"}

Buried ==
    \A d \in Deleter : del[d] \in {"mongo", "unlink", "deleted"} =>
        Gone(target[d]) \/ PutBack(target[d])

\* After a del is appended, the replay ends on it.
LEMMA DelAppended ==
    ASSUME TypeOK, NEW o \in Obj, Append1(o, "del")
    PROVE  Gone(o)'
<1>1. journal[o] \in Seq(Op)
    BY DEF TypeOK
<1>2. journal'[o] = Append(journal[o], "del")
    BY DEF TypeOK, Append1
<1>3. Len(journal'[o]) = Len(journal[o]) + 1 /\ Len(journal[o]) \in Nat
    BY <1>1, <1>2
<1>4. journal'[o][Len(journal'[o])] = "del"
    BY <1>1, <1>2, <1>3
<1>5. journal'[o] # <<>>
    BY <1>3
<1>6. QED
    BY <1>4, <1>5 DEF Gone, LastOp

\* A journal record that did not change still says what it said.
LEMMA GoneStays ==
    ASSUME NEW o, Gone(o), journal'[o] = journal[o]
    PROVE  Gone(o)'
    BY DEF Gone, LastOp

\* A DELETE that failed stays failed, and one that compensates ends failed.
LEMMA PutBackStays ==
    ASSUME TypeOK, NEW o \in Obj, PutBack(o), Next
    PROVE  PutBack(o)'
<1>1. PICK e \in Deleter : target[e] = o /\ del[e] \in {"compensate", "failed"}
    BY DEF PutBack
<1>2. CASE (\E p \in Obj : PutNext(p)) \/ SnapshotNext \/ RestoreNext
    <2>1. UNCHANGED <<del, target>>
        BY <1>2 DEF PutNext, PutStart, UploadFails, UploadDone, CommitFails,
            CommitDone, InsertFails, InsertReturns, InsertReplyLost,
            AbortEnds, JournalPut, JournalPutFails, CleanupJournal,
            CleanupJournalFails, Insert, CommitSlice, AbortSlice, PutAt,
            SnapshotNext, SnapshotStart, SnapshotRead, SnapshotPublish,
            SnapshotUnchanged, RestoreNext, RestoreWrite, RestoreFinish
    <2>2. QED
        BY <1>1, <2>1 DEF PutBack
<1>3. CASE \E d \in Deleter : DeleteNext(d)
    <2>1. target'[e] = o /\ del'[e] \in {"compensate", "failed"}
        BY <1>1, <1>3 DEF TypeOK, DeleteNext, DeleteStart, DeleteJournal,
            DeleteJournalFails, DeleteRow, DeleteRowFails, Compensate,
            CompensateFails, DestroySlice, DestroyEnds, DelAt
    <2>2. QED
        BY <2>1 DEF PutBack
<1>4. CASE Crash \/ MongoLost
    <2>1. target'[e] = o /\ del'[e] \in {"compensate", "failed"}
        BY <1>1, <1>4 DEF TypeOK, Crash, MongoLost, Forget
    <2>2. QED
        BY <2>1 DEF PutBack
<1>5. QED
    BY <1>2, <1>3, <1>4 DEF Next

\* No step of an upload appends to an object a DELETE has loaded, unless a del.
LEMMA UploadsBuryOnly ==
    ASSUME TypeOK, Inv, NEW p \in Obj, PutNext(p), NEW d \in Deleter, target[d] \in Obj
    PROVE  journal'[target[d]] = journal[target[d]] \/ Append1(target[d], "del")
<1>1. CASE JournalPut(p) \/ JournalPutFails(p)
    <2>1. put[p] \in Early
        BY <1>1 DEF JournalPut, JournalPutFails, PutAt, Early
    <2>2. target[d] # p
        BY <2>1 DEF Inv, Fresh
    <2>3. QED
        BY <1>1, <2>2 DEF TypeOK, JournalPut, JournalPutFails, Rejected, Append1
<1>2. CASE CleanupJournal(p) \/ CleanupJournalFails(p)
    <2>1. UNCHANGED journal \/ Append1(p, "del")
        BY <1>2 DEF CleanupJournal, CleanupJournalFails, Rejected
    <2>2. QED
        BY <2>1 DEF TypeOK, Append1
<1>3. CASE UNCHANGED journal
    BY <1>3
<1>4. QED
    BY <1>1, <1>2, <1>3 DEF PutNext, PutStart, UploadFails, UploadDone,
        CommitFails, CommitDone, InsertFails, InsertReturns, InsertReplyLost,
        AbortEnds, Insert, CommitSlice, AbortSlice

\* A DELETE that appends anything but a del to an object ends up failed.
LEMMA PutsBackWhenFailed ==
    ASSUME TypeOK, NEW e \in Deleter, DeleteNext(e), NEW o \in Obj
    PROVE  journal'[o] = journal[o] \/ Append1(o, "del") \/ PutBack(o)'
<1>1. CASE DeleteJournal(e) \/ DeleteJournalFails(e)
    <2>1. UNCHANGED journal \/ Append1(target[e], "del")
        BY <1>1 DEF DeleteJournal, DeleteJournalFails, Rejected
    <2>2. QED
        BY <2>1 DEF TypeOK, Append1
<1>2. CASE Compensate(e) \/ CompensateFails(e)
    <2>1. del'[e] = "failed" /\ target' = target
        BY <1>2 DEF TypeOK, Compensate, CompensateFails, DelAt
    <2>2. CASE target[e] = o
        BY <2>1, <2>2 DEF PutBack
    <2>3. CASE target[e] # o
        BY <1>2, <2>3 DEF TypeOK, Compensate, CompensateFails, Rejected, Append1
    <2>4. QED
        BY <2>2, <2>3
<1>3. CASE UNCHANGED journal
    BY <1>3
<1>4. QED
    BY <1>1, <1>2, <1>3 DEF DeleteNext, DeleteStart, DeleteRow, DeleteRowFails,
        DestroySlice, DestroyEnds

\* What is gone, or put back by a DELETE that failed, stays the one or the other.
LEMMA FateStays ==
    ASSUME TypeOK, Inv, Next, NEW d \in Deleter, target[d] \in Obj,
           Gone(target[d]) \/ PutBack(target[d])
    PROVE  Gone(target[d])' \/ PutBack(target[d])' \/ target'[d] # target[d]
<1>0. SUFFICES ASSUME target'[d] = target[d], Gone(target[d])
               PROVE  Gone(target[d])' \/ PutBack(target[d])'
    BY PutBackStays
<1>1. PICK o \in Obj : o = target[d]
    OBVIOUS
<1>2. journal'[o] = journal[o] \/ Append1(o, "del") \/ PutBack(o)'
    <2>1. CASE \E p \in Obj : PutNext(p)
        BY <1>1, <2>1, UploadsBuryOnly
    <2>2. CASE \E e \in Deleter : DeleteNext(e)
        BY <2>2, PutsBackWhenFailed
    <2>3. CASE SnapshotNext \/ RestoreNext \/ Crash \/ MongoLost
        BY <2>3 DEF SnapshotNext, SnapshotStart, SnapshotRead, SnapshotPublish,
            SnapshotUnchanged, RestoreNext, RestoreWrite, RestoreFinish, Crash,
            MongoLost, Forget, disk
    <2>4. QED
        BY <2>1, <2>2, <2>3 DEF Next
<1>3. Gone(o)' \/ PutBack(o)'
    BY <1>0, <1>1, <1>2, GoneStays, DelAppended
<1>4. QED
    BY <1>0, <1>1, <1>3 DEF Gone, PutBack, LastOp

\* Every step keeps the dead buried.
LEMMA BuriedStep ==
    ASSUME TypeOK, TypeOK', Inv, Buried, Next PROVE Buried'
<1>1. SUFFICES ASSUME NEW d \in Deleter, del'[d] \in {"mongo", "unlink", "deleted"}
               PROVE  Gone(target[d])' \/ PutBack(target[d])'
    BY DEF Buried
<1>2. CASE DeleteJournal(d)
    <2>1. target[d] \in Obj /\ target' = target /\ Append1(target[d], "del")
        BY <1>2 DEF TypeOK, DeleteJournal, DelAt
    <2>2. PICK o \in Obj : o = target[d]
        BY <2>1
    <2>3. Gone(o)'
        BY <2>1, <2>2, DelAppended
    <2>4. QED
        BY <2>1, <2>2, <2>3 DEF Gone, LastOp
<1>3. CASE ~DeleteJournal(d)
    <2>1. del[d] \in {"mongo", "unlink", "deleted"} /\ target'[d] = target[d]
        <3>1. CASE \E e \in Deleter : DeleteNext(e)
            BY <1>1, <1>3, <3>1 DEF TypeOK, DeleteNext, DeleteStart,
                DeleteJournal, DeleteJournalFails, DeleteRow, DeleteRowFails,
                Compensate, CompensateFails, DestroySlice, DestroyEnds, DelAt
        <3>2. CASE Crash \/ MongoLost
            BY <1>1, <3>2 DEF TypeOK, Crash, MongoLost, Forget
        <3>3. CASE UNCHANGED <<del, target>>
            BY <1>1, <3>3
        <3>4. QED
            BY <3>1, <3>2, <3>3 DEF Next, PutNext, PutStart, UploadFails,
                UploadDone, CommitFails, CommitDone, InsertFails,
                InsertReturns, InsertReplyLost, AbortEnds, JournalPut,
                JournalPutFails, CleanupJournal, CleanupJournalFails, Insert,
                CommitSlice, AbortSlice, PutAt, SnapshotNext, SnapshotStart,
                SnapshotRead, SnapshotPublish, SnapshotUnchanged, RestoreNext,
                RestoreWrite, RestoreFinish
    <2>2. target[d] \in Obj
        BY <2>1 DEF TypeOK
    <2>3. QED
        BY <2>1, <2>2, FateStays DEF Buried
<1>4. QED
    BY <1>2, <1>3

\* What a replay ends by deleting is not missed by the restore.
LEMMA BuriedNotMissing ==
    ASSUME Buried PROVE FuneralIsReal
<1>1. ASSUME NEW o, Gone(o) PROVE o \notin Missing
    BY <1>1 DEF Gone, Missing, Objects
<1>2. QED
    BY <1>1 DEF Buried, FuneralIsReal, PutBack

\* The restore never reports as lost an object that a client deleted, however
\* many uploads, deletes, snapshots and crashes there were, unless a DELETE of
\* it failed and may have put its name back.
THEOREM NoFalseFuneral == Spec => []FuneralIsReal
<1>1. Init => Inv /\ Buried
    BY InvInit DEF Init, Buried
<1>2. TypeOK /\ TypeOK' /\ Inv /\ Buried /\ [Next]_vars => Inv' /\ Buried'
    <2>1. SUFFICES ASSUME TypeOK, TypeOK', Inv, Buried, [Next]_vars
                   PROVE  Inv' /\ Buried'
        OBVIOUS
    <2>2. Inv'
        BY <2>1, InvInductive
    <2>3. CASE UNCHANGED vars
        BY <2>1, <2>2, <2>3 DEF vars, disk, Buried, Gone, PutBack, LastOp
    <2>4. CASE Next
        BY <2>1, <2>2, <2>4, BuriedStep
    <2>5. QED
        BY <2>1, <2>3, <2>4
<1>3. Buried => FuneralIsReal
    BY BuriedNotMissing
<1>4. QED
    BY <1>1, <1>2, <1>3, TypeCorrect, PTL DEF Spec

-----------------------------------------------------------------------------
(***************************************************************************)
(* Refinement.  The three safety properties above are what each step needs *)
(* to be a step of ObjectStore: NoLivePhantom for Publish, Undone and      *)
(* Unlinking for Erase, RowSurvivesRestore for LoseNames.                  *)
(***************************************************************************)
Visible == {o \in Told : row[o]}
Stored  == {o \in Told : Cardinality(slices[o]) >= DataSlices}
Owed    == IF mode = "recovery" THEN Told \cap Rebuilt ELSE {}

\* The slices of one object changed, and no name leads to it: its data came,
\* went, or is still there or not.
LEMMA DataStep ==
    ASSUME NEW o \in Obj, mode = "up", mode' = "up", UNCHANGED row, o \in Told => ~row[o],
           \A p \in Obj : p # o => slices'[p] = slices[p]
    PROVE  Store!Next \/ UNCHANGED Store!vars
<1>1. Visible' = Visible /\ Owed = {} /\ Owed' = {}
    BY DEF Visible, Owed
<1>2. CASE Stored' = Stored
    BY <1>1, <1>2 DEF Store!vars, Visible, Stored, Owed
<1>3. CASE Stored' # Stored
    <2>1. o \in Told /\ (Stored' = Stored \cup {o} \/ Stored' = Stored \ {o})
        BY <1>3 DEF Stored, Told
    <2>2. Store!Write(o) \/ Store!Erase(o)
        BY <1>1, <2>1 DEF Store!Write, Store!Erase, Visible, Stored, Owed
    <2>3. QED
        BY <2>1, <2>2 DEF Store!Next
<1>4. QED
    BY <1>2, <1>3

\* Nothing that the store sees has changed.
LEMMA SameStore ==
    ASSUME UNCHANGED <<slices, row, mode>>, mode = "up"
    PROVE  UNCHANGED Store!vars
    BY DEF Store!vars

\* A step of PUT.
LEMMA PutStores ==
    ASSUME TypeOK, Inv, Inv', NEW o \in Obj, PutNext(o)
    PROVE  Store!Next \/ UNCHANGED Store!vars
<1>0. mode = "up" /\ mode' = "up"
    BY DEF PutNext, PutStart, UploadFails, UploadDone, CommitFails, CommitDone,
        InsertFails, InsertReturns, InsertReplyLost, AbortEnds, JournalPut,
        JournalPutFails, CleanupJournal, CleanupJournalFails, Insert,
        CommitSlice, AbortSlice, PutAt
<1>1. CASE \E s \in Slice : CommitSlice(o, s) \/ AbortSlice(o, s)
    <2>1. UNCHANGED row /\ \A p \in Obj : p # o => slices'[p] = slices[p]
        BY <1>1 DEF TypeOK, CommitSlice, AbortSlice
    <2>2. o \in Told => ~row[o]
        BY <1>1 DEF Inv, Fresh, Undone, Early, CommitSlice, AbortSlice, PutAt
    <2>3. QED
        BY <1>0, <2>1, <2>2, DataStep
<1>2. CASE Insert(o)
    <2>1. UNCHANGED slices /\ row' = [row EXCEPT ![o] = TRUE]
        BY <1>2 DEF Insert
    <2>2. CASE o \in Told
        <3>1. Visible' = Visible \cup {o} /\ Stored' = Stored /\ Owed = {} /\ Owed' = {}
            BY <1>0, <2>1, <2>2 DEF TypeOK, Told, Visible, Stored, Owed
        <3>2. o \in Stored
            BY <2>1, <2>2 DEF TypeOK, Inv, NoLivePhantom, Stored, Told
        <3>3. Store!Publish(o)
            BY <1>0, <3>1, <3>2 DEF Store!Publish, Visible, Stored, Owed
        <3>4. QED
            BY <2>2, <3>3 DEF Store!Next
    <2>3. CASE o \notin Told
        <3>1. Visible' = Visible /\ Stored' = Stored /\ Owed = {} /\ Owed' = {}
            BY <1>0, <2>1, <2>3 DEF TypeOK, Told, Visible, Stored, Owed
        <3>2. QED
            BY <1>0, <3>1 DEF Store!vars, Visible, Stored, Owed
    <2>4. QED
        BY <2>2, <2>3
<1>3. CASE UNCHANGED <<slices, row>>
    BY <1>0, <1>3, SameStore
<1>4. QED
    BY <1>1, <1>2, <1>3 DEF PutNext, PutStart, UploadFails, UploadDone,
        CommitFails, CommitDone, InsertFails, InsertReturns, InsertReplyLost,
        AbortEnds, JournalPut, JournalPutFails, CleanupJournal,
        CleanupJournalFails

\* A step of DELETE.
LEMMA DeleteStores ==
    ASSUME TypeOK, Inv, NEW d \in Deleter, DeleteNext(d)
    PROVE  Store!Next \/ UNCHANGED Store!vars
<1>0. mode = "up" /\ mode' = "up"
    BY DEF DeleteNext, DeleteStart, DeleteJournal, DeleteJournalFails,
        DeleteRow, DeleteRowFails, Compensate, CompensateFails, DestroySlice,
        DestroyEnds, DelAt
<1>1. CASE \E s \in Slice : DestroySlice(d, s)
    <2>1. target[d] \in Obj /\ ~row[target[d]]
        BY <1>1 DEF TypeOK, Inv, Unlinking, DestroySlice
    <2>2. UNCHANGED row /\ \A p \in Obj : p # target[d] => slices'[p] = slices[p]
        BY <1>1 DEF TypeOK, DestroySlice
    <2>3. QED
        BY <1>0, <2>1, <2>2, DataStep
<1>2. CASE UNCHANGED slices /\ row' = [row EXCEPT ![target[d]] = FALSE] /\ target[d] \in Obj
    <2>0. PICK o \in Obj : o = target[d]
        BY <1>2
    <2>1. CASE o \in Told
        <3>1. Visible' = Visible \ {o} /\ Stored' = Stored /\ Owed = {} /\ Owed' = {}
            BY <1>0, <1>2, <2>0, <2>1 DEF TypeOK, Told, Visible, Stored, Owed
        <3>2. Store!Retract(o)
            BY <1>0, <3>1 DEF Store!Retract, Visible, Stored, Owed
        <3>3. QED
            BY <2>1, <3>2 DEF Store!Next
    <2>2. CASE o \notin Told
        <3>1. Visible' = Visible /\ Stored' = Stored /\ Owed = {} /\ Owed' = {}
            BY <1>0, <1>2, <2>0, <2>2 DEF TypeOK, Told, Visible, Stored, Owed
        <3>2. QED
            BY <1>0, <3>1 DEF Store!vars, Visible, Stored, Owed
    <2>3. QED
        BY <2>1, <2>2
<1>3. CASE UNCHANGED <<slices, row>>
    BY <1>0, <1>3, SameStore
<1>4. QED
    BY <1>1, <1>2, <1>3 DEF TypeOK, DeleteNext, DeleteStart, DeleteJournal,
        DeleteJournalFails, DeleteRow, DeleteRowFails, Compensate,
        CompensateFails, DestroyEnds, DelAt

\* A step of the restore, or the loss that makes one necessary.
LEMMA RestoreStores ==
    ASSUME TypeOK, RowSurvivesRestore, RestoreNext \/ MongoLost
    PROVE  Store!Next \/ UNCHANGED Store!vars
<1>0. Rebuilt' = Rebuilt /\ Stored' = Stored
    BY DEF RestoreNext, RestoreWrite, RestoreFinish, MongoLost, Rebuilt, Objects,
        DelsIgnored, Deleted, LastOp, HasPut, Stored
<1>1. CASE \E o \in Obj : RestoreWrite(o)
    <2>1. PICK o \in Obj : RestoreWrite(o)
        BY <1>1
    <2>2. /\ mode = "recovery" /\ mode' = "recovery" /\ o \in Rebuilt
          /\ row' = [row EXCEPT ![o] = TRUE]
        BY <2>1 DEF RestoreWrite
    <2>3. Owed' = Owed
        BY <1>0, <2>2 DEF Owed
    <2>4. CASE o \in Told
        <3>1. Visible' = Visible \cup {o} /\ o \in Owed
            BY <2>2, <2>4 DEF TypeOK, Told, Visible, Owed
        <3>2. Store!Recover(o)
            BY <1>0, <2>2, <2>3, <3>1 DEF Store!Recover, Visible, Stored, Owed
        <3>3. QED
            BY <2>4, <3>2 DEF Store!Next
    <2>5. CASE o \notin Told
        <3>1. Visible' = Visible
            BY <2>2, <2>5 DEF TypeOK, Told, Visible
        <3>2. QED
            BY <1>0, <2>2, <2>3, <3>1 DEF Store!vars, Visible, Stored, Owed
    <2>6. QED
        BY <2>4, <2>5
<1>2. CASE RestoreFinish
    <2>1. Visible' = Owed /\ Owed' = {} /\ mode = "recovery" /\ mode' = "up"
        BY <1>2 DEF RestoreFinish, Told, Visible, Owed
    <2>2. Store!Resume
        BY <1>0, <2>1 DEF Store!Resume, Visible, Stored, Owed
    <2>3. QED
        BY <2>2 DEF Store!Next
<1>3. CASE MongoLost
    <2>1. Visible' = {} /\ Owed' = Told \cap Rebuilt /\ mode = "up" /\ mode' = "recovery"
        BY <1>0, <1>3 DEF MongoLost, Told, Visible, Owed
    <2>2. Visible \subseteq Owed' /\ Owed' \in SUBSET Stored
        BY <1>3, <2>1 DEF MongoLost, RowSurvivesRestore, Rebuilt, Visible, Stored
    <2>3. Store!LoseNames
        BY <1>0, <2>1, <2>2 DEF Store!LoseNames, Visible, Stored, Owed
    <2>4. QED
        BY <2>3 DEF Store!Next
<1>4. QED
    BY <1>1, <1>2, <1>3 DEF RestoreNext

\* The lifecycle of objects implements the store a client is promised, for any
\* objects, slices and concurrent requests, however they fail and crash.
THEOREM Implements == Spec => ImplementsStore
<1>1. Init /\ TypeOK /\ Inv => Store!Init
    <2>1. SUFFICES ASSUME Init, TypeOK, Inv PROVE Store!Init
        OBVIOUS
    <2>2. Visible \subseteq Stored
        BY <2>1 DEF Inv, NoLivePhantom, Visible, Stored
    <2>3. mode = "up"
        BY <2>1 DEF Init
    <2>4. QED
        BY <2>2, <2>3 DEF Store!Init, Visible, Stored
<1>2. TypeOK /\ Inv /\ Inv' /\ RowSurvivesRestore /\ [Next]_vars => [Store!Next]_(Store!vars)
    <2>1. SUFFICES ASSUME TypeOK, Inv, Inv', RowSurvivesRestore, [Next]_vars
                   PROVE  Store!Next \/ UNCHANGED Store!vars
        OBVIOUS
    <2>2. CASE \E o \in Obj : PutNext(o)
        BY <2>1, <2>2, PutStores
    <2>3. CASE \E d \in Deleter : DeleteNext(d)
        BY <2>1, <2>3, DeleteStores
    <2>4. CASE SnapshotNext \/ Crash
        <3>1. UNCHANGED <<slices, row, mode>> /\ mode = "up"
            BY <2>1, <2>4 DEF SnapshotNext, SnapshotStart, SnapshotRead,
                SnapshotPublish, SnapshotUnchanged, Crash, disk, TypeOK, Inv,
                Quiet
        <3>2. QED
            BY <3>1, SameStore
    <2>5. CASE RestoreNext \/ MongoLost
        BY <2>1, <2>5, RestoreStores
    <2>6. CASE UNCHANGED vars
        BY <2>6 DEF vars, disk, Store!vars, Rebuilt, Objects, DelsIgnored,
            Deleted, LastOp, HasPut
    <2>7. QED
        BY <2>1, <2>2, <2>3, <2>4, <2>5, <2>6 DEF Next
<1>3. Init => Inv
    BY InvInit
<1>4. TypeOK /\ Inv /\ [Next]_vars => Inv'
    BY InvInductive
<1>5. QED
    BY <1>1, <1>2, <1>3, <1>4, TypeCorrect, NamesSurvive, PTL
        DEF Spec, ImplementsStore, Store!Spec
=============================================================================
