-------------------------- MODULE ObjectLifecycle --------------------------
(***************************************************************************)
(* The life of an object: PUT and DELETE requests (lib/server/http),       *)
(* FileObject.commit() and delete() (lib/io/file-object.ts), its slices on *)
(* the platters, its row in MongoDB, its records in the namespace journal, *)
(* the nightly snapshot, and the restore that rebuilds MongoDB from the    *)
(* platters, the journal and the snapshot (lib/recovery/restore.ts).       *)
(*                                                                         *)
(* Every action is the code between two awaits, so requests interleave at  *)
(* every await and the process may die at every one of them.  What the     *)
(* journal module guarantees is used here by its outcomes only: an append  *)
(* is durable, or it is rejected and its bytes were rolled back, or it is  *)
(* rejected and its bytes stayed on a platter.                             *)
(***************************************************************************)
EXTENDS Naturals, Sequences, FiniteSets

CONSTANTS
    Obj,          \* object ids; each id belongs to one upload
    Legacy,       \* the sets of objects that may have been stored before there was a journal
    NameOf,       \* the container and name every upload asks for
    Slice,        \* slice indexes, data and parity
    DataSlices,   \* how many slices reconstruct an object
    Deleter,      \* DELETE requests
    ReplyLost,    \* the objects whose write MongoDB may apply and report as failed
    NoObj         \* no object

ASSUME LegacyAssumption == Legacy \subseteq SUBSET Obj

ASSUME LifecycleAssumption ==
    /\ IsFiniteSet(Slice)
    /\ DataSlices \in Nat \ {0}
    /\ DataSlices <= Cardinality(Slice)
    /\ ReplyLost \subseteq Obj
    /\ NoObj \notin Obj

VARIABLES
    \* what survives the process
    slices,    \* [Obj -> SUBSET Slice]: committed slice files on the platters
    row,       \* [Obj -> BOOLEAN]: the object's document in MongoDB
    journal,   \* [Obj -> Seq(Op)]: the object's records in the journal
    snapped,   \* a snapshot has been published
    snap,      \* the objects named by the published snapshot
    mode,      \* "up", or "recovery" while the database is being rebuilt
    \* what dies with it
    put,       \* [Obj -> PutState]: the upload of every object
    del,       \* [Deleter -> DelState]
    target,    \* [Deleter -> Obj or NoObj]: the object a DELETE has loaded
    scanning,  \* a snapshot is being taken
    unread,    \* the objects its cursor has not reached
    read       \* the objects it has written down

disk == <<slices, row, journal, snapped, snap>>
scan == <<scanning, unread, read>>
vars == <<disk, mode, put, del, target, scan>>

Op == {"put", "del"}

\* "leaking": commit() failed, and the renames it started still run.
PutState == {"idle", "upload", "commit", "leaking", "journal", "insert",
             "inserted", "cleanup", "abort", "created", "failed"}
DelState == {"idle", "journal", "mongo", "compensate", "unlink", "deleted",
             "failed"}

Init ==
    /\ \E L \in Legacy :
         /\ slices = [o \in Obj |-> IF o \in L THEN Slice ELSE {}]
         /\ row = [o \in Obj |-> o \in L]
         /\ put = [o \in Obj |-> IF o \in L THEN "created" ELSE "idle"]
    /\ journal = [o \in Obj |-> <<>>]
    /\ snapped = FALSE /\ snap = {}
    /\ mode = "up"
    /\ del = [d \in Deleter |-> "idle"]
    /\ target = [d \in Deleter |-> NoObj]
    /\ scanning = FALSE /\ unread = {} /\ read = {}

\* The unique index on {containerId, name}.
NameTaken(o) == \E p \in Obj : row[p] /\ NameOf[p] = NameOf[o]

\* journal.append() has acknowledged the record.
Append1(o, op) == journal' = [journal EXCEPT ![o] = Append(@, op)]

\* journal.append() has thrown: rolled back, or left behind on a platter.
Rejected(o, op) == UNCHANGED journal \/ Append1(o, op)

PutAt(o, from, to) ==
    /\ mode = "up" /\ put[o] = from
    /\ put' = [put EXCEPT ![o] = to]
    /\ UNCHANGED <<snapped, snap, mode, del, target, scan>>

DelAt(d, from, to) ==
    /\ mode = "up" /\ del[d] = from
    /\ del' = [del EXCEPT ![d] = to]
    /\ UNCHANGED <<snapped, snap, mode, put, scan>>

-----------------------------------------------------------------------------
(***************************************************************************)
(* PUT: ObjectPutRequest.process() and FileObject.commit()                 *)
(***************************************************************************)

\* _handleHttpPutRequest(): 409 when the name is taken, else start receiving.
PutStart(o) ==
    /\ ~NameTaken(o)
    /\ PutAt(o, "idle", "upload")
    /\ UNCHANGED <<slices, row, journal>>

\* A client abort, a length or md5 mismatch, a write error, no file name or no
\* container: delete() on an object that was never journaled drops the
\* temporary files, which nothing outside .tmp ever sees.
UploadFails(o) ==
    /\ PutAt(o, "upload", "failed")
    /\ UNCHANGED <<slices, row, journal>>

UploadDone(o) ==
    /\ PutAt(o, "upload", "commit")
    /\ UNCHANGED <<slices, row, journal>>

\* Slice.commit(): one rename out of .tmp.  All run at once under Promise.all,
\* so the ones already started go on after another has failed.
CommitSlice(o, s) ==
    /\ s \notin slices[o]
    /\ slices' = [slices EXCEPT ![o] = @ \cup {s}]
    /\ \/ PutAt(o, "commit", "commit")
       \/ PutAt(o, "leaking", "leaking")
    /\ UNCHANGED <<row, journal>>

\* The first rejection of commit() fails the upload.  delete() then reaches
\* writer.abort(), which awaits the same rejected _commitPromises and throws
\* before it unlinks anything: the error is logged and the slices stay.
CommitFails(o) ==
    /\ PutAt(o, "commit", "leaking")
    /\ UNCHANGED <<slices, row, journal>>

\* Mutant: the commits of the slices are not awaited.
CommitDoneEarly(o) ==
    /\ PutAt(o, "commit", "journal")
    /\ UNCHANGED <<slices, row, journal>>

CommitDone(o) ==
    /\ slices[o] = Slice
    /\ PutAt(o, "commit", "journal")
    /\ UNCHANGED <<slices, row, journal>>

JournalPut(o) ==
    /\ PutAt(o, "journal", "insert")
    /\ Append1(o, "put")
    /\ UNCHANGED <<slices, row>>

\* _journaledPut is still false, so delete() journals nothing and aborts.
JournalPutFails(o) ==
    /\ PutAt(o, "journal", "abort")
    /\ Rejected(o, "put")
    /\ UNCHANGED <<slices, row>>

\* insertOne() takes effect in MongoDB; commit() has yet to hear of it.
Insert(o) ==
    /\ ~NameTaken(o)
    /\ PutAt(o, "insert", "inserted")
    /\ row' = [row EXCEPT ![o] = TRUE]
    /\ UNCHANGED <<slices, journal>>

\* A duplicate name (E11000) or a MongoDB error.
InsertFails(o) ==
    /\ PutAt(o, "insert", "cleanup")
    /\ UNCHANGED <<slices, row, journal>>

\* createObjectRecord() returns, _isPersisted is set, 201.
InsertReturns(o) ==
    /\ PutAt(o, "inserted", "created")
    /\ UNCHANGED <<slices, row, journal>>

\* The row is in but the connection failed: _isPersisted stays false.
InsertReplyLost(o) ==
    /\ o \in ReplyLost
    /\ PutAt(o, "inserted", "cleanup")
    /\ UNCHANGED <<slices, row, journal>>

\* delete() after a failed insert: the compensating del first.
CleanupJournal(o) ==
    /\ PutAt(o, "cleanup", "abort")
    /\ Append1(o, "del")
    /\ UNCHANGED <<slices, row>>

\* The compensating del was refused: delete() throws before any unlink.
CleanupJournalFails(o) ==
    /\ PutAt(o, "cleanup", "failed")
    /\ Rejected(o, "del")
    /\ UNCHANGED <<slices, row>>

\* writer.abort(): unlink the committed slices, in any order.
AbortSlice(o, s) ==
    /\ s \in slices[o]
    /\ slices' = [slices EXCEPT ![o] = @ \ {s}]
    /\ PutAt(o, "abort", "abort")
    /\ UNCHANGED <<row, journal>>

\* All unlinked, or one unlink failed and delete() threw.
AbortEnds(o) ==
    /\ PutAt(o, "abort", "failed")
    /\ UNCHANGED <<slices, row, journal>>

-----------------------------------------------------------------------------
(***************************************************************************)
(* DELETE: ObjectDeleteRequest.process() and FileObject.delete()           *)
(***************************************************************************)

\* Mutant: the record is not kept by the request that loaded it.
DeleteForgetsRecord(d, o) ==
    /\ row[o]
    /\ DelAt(d, "idle", "journal")
    /\ UNCHANGED <<slices, row, journal, target>>

\* _withFileRecord() and loadForDelete().
DeleteStart(d, o) ==
    /\ row[o]
    /\ DelAt(d, "idle", "journal")
    /\ target' = [target EXCEPT ![d] = o]
    /\ UNCHANGED <<slices, row, journal>>

\* Mutant: the slices are unlinked before the row is removed.
DeleteUnlinksFirst(d) ==
    /\ DelAt(d, "journal", "unlink")
    /\ Append1(target[d], "del")
    /\ UNCHANGED <<slices, row, target>>

\* Mutant: the delete is not journaled.
DeleteUnjournaled(d) ==
    /\ DelAt(d, "journal", "mongo")
    /\ UNCHANGED <<slices, row, journal, target>>

DeleteJournal(d) ==
    /\ DelAt(d, "journal", "mongo")
    /\ Append1(target[d], "del")
    /\ UNCHANGED <<slices, row, target>>

DeleteJournalFails(d) ==
    /\ DelAt(d, "journal", "failed")
    /\ Rejected(target[d], "del")
    /\ UNCHANGED <<slices, row, target>>

\* deleteOne(): removing a row another DELETE has removed is no error.
DeleteRow(d) ==
    /\ DelAt(d, "mongo", "unlink")
    /\ row' = [row EXCEPT ![target[d]] = FALSE]
    /\ UNCHANGED <<slices, journal, target>>

\* Mutant: the error of deleteOne() is swallowed.
DeleteRowErrorIgnored(d) ==
    /\ DelAt(d, "mongo", "unlink")
    /\ UNCHANGED <<slices, row, journal, target>>

DeleteRowFails(d) ==
    /\ DelAt(d, "mongo", "compensate")
    /\ \/ UNCHANGED row
       \/ target[d] \in ReplyLost /\ row' = [row EXCEPT ![target[d]] = FALSE]
    /\ UNCHANGED <<slices, journal, target>>

\* "Put the name back", then rethrow: the client gets a 500.
Compensate(d) ==
    /\ DelAt(d, "compensate", "failed")
    /\ Append1(target[d], "put")
    /\ UNCHANGED <<slices, row, target>>

\* The compensating put was refused too: logged as JOURNAL INCONSISTENT.
CompensateFails(d) ==
    /\ DelAt(d, "compensate", "failed")
    /\ Rejected(target[d], "put")
    /\ UNCHANGED <<slices, row, target>>

\* FileObjectDestroyer.destroy(): unlink every slice, in any order.
DestroySlice(d, s) ==
    /\ del[d] = "unlink" /\ s \in slices[target[d]]
    /\ slices' = [slices EXCEPT ![target[d]] = @ \ {s}]
    /\ DelAt(d, "unlink", "unlink")
    /\ UNCHANGED <<row, journal, target>>

\* An unlink that failed is logged; the client gets its 200 either way.
DestroyEnds(d) ==
    /\ DelAt(d, "unlink", "deleted")
    /\ UNCHANGED <<slices, row, journal, target>>

-----------------------------------------------------------------------------
(***************************************************************************)
(* The snapshot job: SnapshotBuilder.assemble() reads the rows through a   *)
(* cursor while requests run, and publish() replaces the pointer.          *)
(***************************************************************************)
SnapshotUnchanged == UNCHANGED <<slices, row, journal, mode, put, del, target>>

SnapshotStart ==
    /\ mode = "up" /\ ~scanning
    /\ scanning' = TRUE /\ unread' = Obj /\ read' = {}
    /\ SnapshotUnchanged /\ UNCHANGED <<snapped, snap>>

SnapshotRead(o) ==
    /\ scanning /\ o \in unread
    /\ unread' = unread \ {o}
    /\ read' = IF row[o] THEN read \cup {o} ELSE read
    /\ SnapshotUnchanged /\ UNCHANGED <<snapped, snap, scanning>>

SnapshotPublish ==
    /\ scanning /\ unread = {}
    /\ snapped' = TRUE /\ snap' = read
    /\ scanning' = FALSE /\ read' = {}
    /\ SnapshotUnchanged /\ UNCHANGED unread

-----------------------------------------------------------------------------
(***************************************************************************)
(* NamespaceRestore.run(): snapshot, then every journal record in order,   *)
(* then the platters.                                                      *)
(***************************************************************************)
LastOp(o) == journal[o][Len(journal[o])]
HasPut(o) == \E i \in 1 .. Len(journal[o]) : journal[o][i] = "put"

\* The `objects` map after the replay: the last record wins.
Objects ==
    {o \in Obj : IF journal[o] = <<>> THEN o \in snap ELSE LastOp(o) = "put"}

\* The `deleted` map: a del moves a name it has seen out of `objects`.
Deleted ==
    {o \in Obj : /\ journal[o] # <<>> /\ LastOp(o) = "del"
                 /\ o \in snap \/ HasPut(o)}

\* Mutant: the journal's del is believed without looking at the platters.
DelsHonoured == {}

\* "a `del` is only honoured if the platters agree" (delsIgnored).
DelsIgnored == {o \in Deleted : slices[o] # {}}

\* verify(): a name is written back when its slices reconstruct the object.
Rebuilt ==
    {o \in Objects \cup DelsIgnored : Cardinality(slices[o]) >= DataSlices}

\* summary.objectsMissing: "not bookkeeping, it is a funeral".
Missing == {o \in Objects : slices[o] = {} /\ o \in snap}

\* Everything in memory is gone: requests end without an answer.
Forget ==
    /\ put' = [o \in Obj |-> IF put[o] \in {"idle", "created"} THEN put[o] ELSE "failed"]
    /\ del' = [d \in Deleter |-> IF del[d] \in {"idle", "deleted"} THEN del[d] ELSE "failed"]
    /\ scanning' = FALSE /\ unread' = {} /\ read' = {}
    /\ UNCHANGED target

Crash ==
    /\ mode = "up"
    /\ Forget
    /\ UNCHANGED <<disk, mode>>

\* MongoDB is lost and STRUBS comes up in recovery mode on an empty database.
\* Without a snapshot pointer the restore refuses, so there is nothing to see.
MongoLost ==
    /\ mode = "up" /\ snapped
    /\ mode' = "recovery"
    /\ row' = [o \in Obj |-> FALSE]
    /\ Forget
    /\ UNCHANGED <<slices, journal, snapped, snap>>

\* restoreObject(): an upsert by id, under the unique index on the name.  A
\* crash between two of them loses nothing, and the next run resumes.
RestoreWrite(o) ==
    /\ mode = "recovery"
    /\ o \in Rebuilt /\ ~row[o] /\ ~NameTaken(o)
    /\ row' = [row EXCEPT ![o] = TRUE]
    /\ UNCHANGED <<slices, journal, snapped, snap, mode, put, del, target, scan>>

\* Mutant: the restore is complete when the snapshot's names are all back.
RestoreAwaitsSnapshot ==
    /\ mode = "recovery"
    /\ \A o \in Rebuilt \cup snap : row[o]
    /\ mode' = "up"
    /\ UNCHANGED <<disk, put, del, target, scan>>

\* pruneOutsideNamespace(), endRestore(), namespaceRestored().
RestoreFinish ==
    /\ mode = "recovery"
    /\ \A o \in Rebuilt : row[o]
    /\ row' = [o \in Obj |-> o \in Rebuilt]
    /\ mode' = "up"
    /\ UNCHANGED <<slices, journal, snapped, snap, put, del, target, scan>>

-----------------------------------------------------------------------------
PutNext(o) ==
    \/ PutStart(o) \/ UploadFails(o) \/ UploadDone(o)
    \/ CommitFails(o) \/ CommitDone(o)
    \/ JournalPut(o) \/ JournalPutFails(o)
    \/ Insert(o) \/ InsertFails(o) \/ InsertReturns(o) \/ InsertReplyLost(o)
    \/ CleanupJournal(o) \/ CleanupJournalFails(o) \/ AbortEnds(o)
    \/ \E s \in Slice : CommitSlice(o, s) \/ AbortSlice(o, s)

DeleteNext(d) ==
    \/ \E o \in Obj : DeleteStart(d, o)
    \/ DeleteJournal(d) \/ DeleteJournalFails(d)
    \/ DeleteRow(d) \/ DeleteRowFails(d) \/ Compensate(d) \/ CompensateFails(d)
    \/ \E s \in Slice : DestroySlice(d, s)
    \/ DestroyEnds(d)

SnapshotNext ==
    \/ SnapshotStart \/ SnapshotPublish
    \/ \E o \in Obj : SnapshotRead(o)

RestoreNext == RestoreFinish \/ \E o \in Obj : RestoreWrite(o)

Next ==
    \/ \E o \in Obj : PutNext(o)
    \/ \E d \in Deleter : DeleteNext(d)
    \/ SnapshotNext \/ RestoreNext \/ Crash \/ MongoLost

Spec == Init /\ [][Next]_vars

\* The restore is one awaited loop: it goes on while it can.
FairSpec == Spec /\ WF_vars(RestoreNext)

-----------------------------------------------------------------------------
\* Types, and: a DELETE request past its first step holds a record.
TypeOK ==
    /\ slices \in [Obj -> SUBSET Slice]
    /\ row \in [Obj -> BOOLEAN]
    /\ journal \in [Obj -> Seq(Op)]
    /\ snapped \in BOOLEAN /\ snap \in SUBSET Obj
    /\ mode \in {"up", "recovery"}
    /\ put \in [Obj -> PutState]
    /\ del \in [Deleter -> DelState]
    /\ target \in [Deleter -> Obj \cup {NoObj}]
    /\ \A d \in Deleter : del[d] # "idle" => target[d] \in Obj
    /\ scanning \in BOOLEAN /\ unread \in SUBSET Obj /\ read \in SUBSET Obj

\* The objects of which MongoDB reports what it did.
Told == Obj \ ReplyLost

\* No phantom: a row in MongoDB always has the slices to answer a GET.  The
\* write order of commit() and the delete order of delete() exist for this.
NoLivePhantom ==
    \A o \in Told : row[o] => Cardinality(slices[o]) >= DataSlices

\* No name is lost: whatever MongoDB names now, a restore started now would
\* name too, whichever requests have half finished.
RowSurvivesRestore ==
    snapped => \A o \in Told : row[o] => o \in Rebuilt

\* A slice file is unlinked only once no row points at the object.
SlicesOutliveRow ==
    [][\A o \in Told : slices[o] \subseteq slices'[o] \/ ~row[o]]_vars

\* The restore reports an object as lost only if nobody deleted it: an object
\* whose DELETE was answered with 200 is never counted in objectsMissing, unless
\* another DELETE of it failed: its "put the name back" may come last.
FuneralIsReal ==
    \A d \in Deleter : del[d] = "deleted" =>
        \/ target[d] \notin Missing
        \/ \E e \in Deleter : target[e] = target[d] /\ del[e] \in {"compensate", "failed"}

\* The lifecycle of an object as its clients see it: a row is its name, enough
\* slices are its data, and what a restore would rebuild is what is owed.
Store ==
    INSTANCE ObjectStore WITH
        Obj     <- Told,
        visible <- {o \in Told : row[o]},
        stored  <- {o \in Told : Cardinality(slices[o]) >= DataSlices},
        serving <- mode = "up",
        owed    <- IF mode = "recovery" THEN Told \cap Rebuilt ELSE {}

\* PUT, DELETE, snapshot, journal and restore, with their failures and crashes,
\* implement the store: data before the name, the name gone before the data, and
\* after the loss of MongoDB every name back before the first request.
ImplementsStore == Store!Spec

\* A restore that keeps running finishes, whatever state the crash found the
\* requests in: "running again simply finishes the job".
RestoreFinishes == (mode = "recovery") ~> (mode = "up")
=============================================================================
