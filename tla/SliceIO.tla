-------------------------------- MODULE SliceIO --------------------------------
(***************************************************************************)
(* One object on its slices: how a stream of bytes is cut into chunks and  *)
(* written (io/plan.ts, io/file-object/writer.ts, slice.ts), how a range   *)
(* of it is read back around damage (reader.ts), verified                  *)
(* (slice-verifier.ts, jobs/verify-file-job.ts) and repaired               *)
(* (slice-repairer.ts), and who waits for whom on a volume                 *)
(* (volume-priority-manager.ts, io-shutdown.ts).                           *)
(*                                                                         *)
(* A byte is its offset in the object, so a data chunk is the offset of    *)
(* its first byte and its length, and a parity chunk those of its chunk    *)
(* set.  Slices 0 .. K-1 carry data, K .. K+M-1 parity; each slice is on a *)
(* volume of its own.  Reed-Solomon (external) rebuilds a chunk set from   *)
(* any K chunks of it, and whatever they are, re-encodes those K to        *)
(* themselves.                                                             *)
(***************************************************************************)
EXTENDS Integers, Sequences, FiniteSets, FiniteSetsExt

CONSTANTS
    K, M,                                       \* data and parity slices
    ChunkSize, FileHeader, ChunkHeader, Align,  \* the format's sizes
    Sizes,      \* the sizes an object may have
    Cuts,       \* the offsets a client may ask from and to
    Pieces,     \* the sizes of the buffers an upload arrives in
    Kinds,      \* what may happen to a slice
    MaxGets,    \* bound: GET requests
    MaxJobs,    \* bound: verifications and repairs
    MaxDamage   \* bound: slices damaged

ASSUME SliceIOAssumption ==
    /\ K \in Nat \ {0} /\ M \in Nat /\ Align \in Nat \ {0}
    /\ ChunkHeader \in Nat /\ FileHeader \in Nat /\ ChunkSize > ChunkHeader + FileHeader
    /\ Sizes \subseteq Nat /\ Cuts \subseteq Nat /\ Pieces \subseteq Nat \ {0}
    /\ Kinds \subseteq {"gone", "header", "io", "hung", "marked", "rot", "alien"}
    /\ {MaxGets, MaxJobs, MaxDamage} \subseteq Nat

Data == 0 .. K - 1
Parity == K .. K + M - 1
Slice == Data \cup Parity
Reader == {"get", "parity", "repair"}
Groups == {"start", "middle", "end"}

VARIABLES
    plan,     \* Plan: the object's size and what follows from it
    w,        \* FileObjectWriter
    file,     \* file[i]: the chunks in slice file i
    harm,     \* harm[i]: what happened to slice i, a set of kinds
    rot,      \* rot[i]: the chunk sets whose chunk of slice i fails its checksum
    rd,       \* rd[r]: FileObjectReader of the GET, of the parity check and of the repair
    job,      \* the verification: how far each slice is, and what it found
    leaked,   \* slices left open by a request that is over
    aborted,  \* ioShutdown
    reported, \* slices reported faulty by a read, a verification or the parity check
    hurt,     \* history: the slices something ever happened to
    used

world == <<plan, file, harm, rot, hurt>>
vars == <<world, w, rd, job, leaked, aborted, reported, used>>

----------------------------------------------------------------------------
(* Geometry: populatePlanDerivedFields.                                    *)

CeilDiv(a, b) == -((-a) \div b)
AlignUp(n) == Align * CeilDiv(n, Align)

standardChunkDataSize == ChunkSize - ChunkHeader
populatePlanDerivedFields(n) ==
    LET start == AlignUp(Max({1, Min({standardChunkDataSize - FileHeader, n \div K})}))
        count == CeilDiv(Max({0, n - K * start}), K) \div standardChunkDataSize
        end == K * (start + count * standardChunkDataSize) IN
    [fileSize |-> n, startChunkDataSize |-> start, standardChunkCountPerSlice |-> count,
     standardChunkSetOffset |-> K * start, endChunkSetDataOffset |-> end,
     endChunkDataSize |-> AlignUp(CeilDiv(n - end, K))]

size == plan.fileSize
chunkDataSize(g) == CASE g = "start" -> plan.startChunkDataSize
                      [] g = "middle" -> standardChunkDataSize
                      [] OTHER -> plan.endChunkDataSize
\* configureNextChunkGroup, when off is where the present group ends.
GroupAfter(g, off) ==
    IF off # (CASE g = "start" -> plan.standardChunkSetOffset [] g = "middle" -> plan.endChunkSetDataOffset [] OTHER -> -1)
    THEN g
    ELSE IF off = plan.endChunkSetDataOffset THEN "end" ELSE "middle"

\* seekToChunkIndex.
CursorOf(c) == FileHeader + (IF c > 0 THEN ChunkHeader + plan.startChunkDataSize ELSE 0)
                          + Max({0, c - 1}) * (ChunkHeader + standardChunkDataSize)

----------------------------------------------------------------------------
(* Writing.                                                                *)

EndOf(f) == IF f = <<>> THEN FileHeader ELSE f[Len(f)].at + ChunkHeader + f[Len(f)].len
Chunk(f, from, len) == [at |-> EndOf(f), from |-> from, len |-> len]

\* writeBuffer: every data slice whose part of the chunk-set buffer is full goes out, and with the last of
\* them the parity.  base is the offset of the buffer's first byte.
writeBuffer(pos, off, base) ==
    LET n == chunkDataSize(w.group)
        full == {i \in Data : i >= w.next - 1 /\ (i + 1) * n <= pos}
        last == K - 1 \in full IN
    /\ file' = [i \in Slice |-> IF i \in full THEN Append(file[i], Chunk(file[i], base + i * n, n))
                                ELSE IF last /\ i \in Parity THEN Append(file[i], Chunk(file[i], base, n))
                                ELSE file[i]]
    /\ w' = [pc |-> "write", off |-> off, pos |-> IF last THEN 0 ELSE pos,
             next |-> IF last THEN 1 ELSE w.next + Cardinality(full),
             group |-> IF last THEN GroupAfter(w.group, off) ELSE w.group]

\* write: as much of a piece that arrived as the chunk set has room for.
write(piece) ==
    LET n == chunkDataSize(w.group)
        take == Min({piece, size - w.off, K * n - w.pos}) IN
    /\ w.pc = "write" /\ w.off < size
    /\ IF w.pos + take >= w.next * n
       THEN writeBuffer(w.pos + take, w.off + take, w.off - w.pos)
       ELSE /\ w' = [w EXCEPT !.off = @ + take, !.pos = @ + take]
            /\ UNCHANGED file
    /\ UNCHANGED <<plan, harm, rot, hurt, rd, job, leaked, aborted, reported, used>>

\* finish: the last chunk set is padded and written; then the object is committed.
finish ==
    /\ w.pc = "write" /\ w.off = size
    /\ IF w.pos > 0 THEN writeBuffer(K * chunkDataSize(w.group), w.off, w.off - w.pos)
       ELSE w' = [w EXCEPT !.pc = "stored"] /\ UNCHANGED file
    /\ UNCHANGED <<plan, harm, rot, hurt, rd, job, leaked, aborted, reported, used>>

----------------------------------------------------------------------------
(* One slice: what opening it and reading a chunk of it come to.           *)

isAvailable(i) == "marked" \notin harm[i]
open(i) == CASE "hung" \in harm[i] -> "ETIMEOUT"
             [] "gone" \in harm[i] -> "ENOENT"
             [] "header" \in harm[i] -> "EHEADER"
             [] "io" \in harm[i] -> "EIO"
             [] OTHER -> "ok"

ChunksAt(i, at, n) == {k \in DOMAIN file[i] : file[i][k].at = at /\ file[i][k].len = n}
readChunk(i, c, at, n) ==
    CASE "hung" \in harm[i] -> "ETIMEOUT"
      [] "io" \in harm[i] -> "EIO"
      [] ChunksAt(i, at, n) = {} \/ c \in rot[i] -> "ECHECKSUM"
      [] OTHER -> "ok"

Hard == {"EOPEN", "ETIMEOUT", "EHEADER", "EUNAVAIL", "ENOENT"}

----------------------------------------------------------------------------
(* FileObjectReader.                                                       *)

NoRead == [pc |-> "idle", start |-> 0, end |-> 0, off |-> 0, set |-> 0, group |-> "start", target |-> 0,
           open |-> {}, parity |-> {}, failed |-> {}, faults |-> [i \in Slice |-> 0],
           sent |-> 0, exact |-> TRUE, bent |-> FALSE, mismatched |-> {}, made |-> <<>>]

\* prepare: marked slices count as failed, the data slices are opened, parity is left for later.
Candidates == {i \in Data : isAvailable(i)}
Opened == {i \in Candidates : open(i) = "ok"}
AvailableParity == {i \in Parity : isAvailable(i)}
prepared == Cardinality(Opened) + Cardinality(AvailableParity) >= K
OpenFaults == IF Cardinality(Candidates) + Cardinality(AvailableParity) >= K THEN Candidates \ Opened ELSE {}

\* setReadRange: the chunk set that holds byte s, where it starts and which group it belongs to.
setReadRange(s, e) ==
    LET first == s < plan.standardChunkSetOffset
        n == IF first THEN 0 ELSE (s - plan.standardChunkSetOffset) \div (K * standardChunkDataSize) IN
    [NoRead EXCEPT !.pc = "read", !.start = s, !.end = e,
                   !.off = IF first THEN 0 ELSE plan.standardChunkSetOffset + n * K * standardChunkDataSize,
                   !.set = IF first THEN 0 ELSE 1 + n,
                   !.group = IF first THEN "start" ELSE IF s < plan.endChunkSetDataOffset THEN "middle" ELSE "end",
                   !.open = Opened, !.parity = AvailableParity, !.failed = Slice \ (Opened \cup AvailableParity)]

\* The result of readSliceChunk for slice i at the reader's position, a closed parity slice opened first.
ChunkResult(r, i) ==
    LET v == rd[r]
        opening == IF i \in v.open THEN "ok" ELSE open(i) IN
    IF opening # "ok" THEN opening ELSE readChunk(i, v.set, CursorOf(v.set), chunkDataSize(v.group))
Readable(r, S) == {i \in S : ChunkResult(r, i) = "ok"}

\* Mutant: the last byte of the range is forgotten.
OverlapsButOne(v, i) ==
    LET n == chunkDataSize(v.group) IN v.off + i * n < v.end - 1 /\ v.off + (i + 1) * n > v.start
sliceOverlapsRange(v, i) ==
    LET n == chunkDataSize(v.group) IN v.off + i * n < v.end /\ v.off + (i + 1) * n > v.start

\* assembleDataRegion: the data chunks that are needed; when one is missing the other data chunks, then as
\* many parity chunks as it takes to have K.
Needed(r, whole) == {i \in Data : whole \/ sliceOverlapsRange(rd[r], i)}
assembleDataRegion(r, whole) ==
    LET v == rd[r]
        needed == Needed(r, whole)
        direct == Readable(r, needed \ v.failed)
        missing == direct # needed
        more == IF missing THEN (Data \ needed) \ v.failed ELSE {}
        have == direct \cup Readable(r, more)
        lacking == IF missing THEN K - Cardinality(have) ELSE 0
        good == Readable(r, v.parity \ v.failed)
        asked == {p \in v.parity \ v.failed : Cardinality({q \in good : q < p}) < lacking} IN
    [sources |-> have \cup (asked \cap good),
     touched |-> (needed \ v.failed) \cup more \cup asked,
     opened |-> {p \in asked : open(p) = "ok"},
     missing |-> missing,
     enough |-> ~missing \/ Cardinality(have \cup (asked \cap good)) >= K]

\* handleSliceFault for every slice that was asked and did not answer.
Faulty(a) == a.touched \ a.sources
Escalated(r, a) == {i \in Faulty(a) : ChunkResult(r, i) \in Hard \/ rd[r].faults[i] + 1 >= 2}

\* What is rebuilt from a parity slice that encodes something else is wrong, whatever its checksums say.
Bent(a) == a.missing /\ \E p \in a.sources : "alien" \in harm[p]

\* The bytes of the assembled region: the offset of the first byte of each data chunk in it.
Stray == -1000
ChunkOf(r, i) == file[i][CHOOSE k \in ChunksAt(i, CursorOf(rd[r].set), chunkDataSize(rd[r].group)) : TRUE]
BaseOf(r, i) == ChunkOf(r, i).from - (IF i \in Data THEN i * chunkDataSize(rd[r].group) ELSE 0)
Rebuilt(r, a) ==
    IF Bent(a) \/ \E p, q \in a.sources : BaseOf(r, p) # BaseOf(r, q) THEN Stray
    ELSE BaseOf(r, CHOOSE p \in a.sources : TRUE)
Region(r, a) ==
    [i \in Data |-> CASE i \in a.sources -> ChunkOf(r, i).from
                      [] i \notin a.sources /\ a.missing -> Rebuilt(r, a) + i * chunkDataSize(rd[r].group)
                      [] OTHER -> Stray]

\* readChunk cuts the region to the range.
Deliver(r, a) ==
    LET v == rd[r]
        n == chunkDataSize(v.group)
        lo == Max({0, v.start - v.off})
        hi == Min({K * n, v.end - v.off})
        region == Region(r, a) IN
    [count |-> hi - lo,
     exact |-> /\ v.start + v.sent = v.off + lo
               /\ \A i \in Data : i * n < hi /\ (i + 1) * n > lo => region[i] = v.off + i * n]

advanceChunkSet(v) ==
    LET off == v.off + K * chunkDataSize(v.group) IN
    [v EXCEPT !.off = off, !.set = @ + 1, !.group = GroupAfter(v.group, off)]

\* The reader after an assembly that had enough.
After(r, a) ==
    LET d == Deliver(r, a)
        faulty == Faulty(a)
        escalated == Escalated(r, a) IN
    [advanceChunkSet(rd[r]) EXCEPT
        !.open = @ \cup a.opened,
        !.failed = @ \cup escalated,
        !.faults = [i \in Slice |-> IF i \in faulty THEN @[i] + 1 ELSE @[i]],
        !.bent = @ \/ Bent(a),
        !.sent = @ + d.count,
        !.exact = @ /\ d.exact]

\* The open handles of a GET and of a repair hold their volumes; a verification runs at low priority and waits.
Held == rd["get"].open \cup leaked
        \cup (IF rd["repair"].pc = "read" THEN rd["repair"].open \cup {rd["repair"].target} ELSE {})

----------------------------------------------------------------------------
(* GET.                                                                    *)

\* configureRangeResponse: the range of "bytes=from-to", or nothing when it cannot be satisfied.
RangeOf(from, to) == [start |-> from, end |-> Min({to + 1, size})]
Satisfiable(g) == g.start < size /\ g.end > g.start

\* process, up to the first byte: opened, then the range.  A refusal leaves what was opened as it is.
process(g, ranged) ==
    /\ w.pc = "stored" /\ rd["get"].pc = "idle" /\ ~aborted /\ used.gets < MaxGets
    /\ used' = [used EXCEPT !.gets = @ + 1]
    /\ reported' = reported \cup OpenFaults
    /\ IF prepared /\ (ranged => Satisfiable(g))
       THEN rd' = [rd EXCEPT !["get"] = setReadRange(g.start, g.end)] /\ UNCHANGED leaked
       ELSE leaked' = leaked \cup Opened /\ UNCHANGED rd
    /\ UNCHANGED <<world, w, job, aborted>>

readNextChunkSet ==
    LET v == rd["get"] IN
    /\ v.pc = "read" /\ v.off < v.end /\ ~aborted
    /\ \E a \in {assembleDataRegion("get", FALSE)} :
          /\ reported' = reported \cup Faulty(a)
          /\ rd' = [rd EXCEPT !["get"] = IF a.enough THEN After("get", a) ELSE [v EXCEPT !.pc = "error"]]
    /\ UNCHANGED <<world, w, job, leaked, aborted, used>>

\* The stream ends, the client goes away, a read failed or the process is stopping: the object is closed.
\* Mutant: the handles go, their holds stay.
CloseKeepsHolds ==
    /\ rd["get"].pc \in {"read", "error"}
    /\ rd' = [rd EXCEPT !["get"] = [NoRead EXCEPT !.open = rd["get"].open]]
    /\ UNCHANGED <<world, w, job, leaked, aborted, reported, used>>
close ==
    /\ rd["get"].pc \in {"read", "error"}
    /\ rd' = [rd EXCEPT !["get"] = NoRead]
    /\ UNCHANGED <<world, w, job, leaked, aborted, reported, used>>

----------------------------------------------------------------------------
(* verifyFileJob: every slice, then the parity.                            *)

NoJob == [pc |-> "idle", slice |-> [i \in Slice |-> "todo"]]

verify ==
    /\ w.pc = "stored" /\ job.pc = "idle" /\ ~aborted /\ used.jobs < MaxJobs
    /\ used' = [used EXCEPT !.jobs = @ + 1]
    /\ job' = [pc |-> "slices", slice |-> [i \in Slice |-> "todo"]]
    /\ UNCHANGED <<world, w, rd, leaked, aborted, reported>>

\* waitForAccess at low priority; a shutdown wakes everyone.
waitForAccess(i) == i \notin Held \/ aborted

\* The chunks verifyOpenSlice reads, one after the other from the head of the file: their lengths.
VerifySizes ==
    IF size = 0 THEN <<>>
    ELSE <<plan.startChunkDataSize>> \o [k \in 1 .. plan.standardChunkCountPerSlice |-> standardChunkDataSize]
         \o (IF plan.endChunkDataSize > 0 THEN <<plan.endChunkDataSize>> ELSE <<>>)
SliceVerdict(i) ==
    IF open(i) # "ok" \/ \E k \in DOMAIN VerifySizes : readChunk(i, k - 1, CursorOf(k - 1), VerifySizes[k]) # "ok"
    THEN "bad" ELSE "ok"

\* verifySlice waits for the volume, opens and reads; a shutdown ends the whole verification unrecorded.
\* Mutant: a read that the shutdown cut short counts as a bad slice.
VerifyThroughAbort(i) ==
    LET verdict == IF aborted THEN "bad" ELSE SliceVerdict(i) IN
    /\ job.pc = "slices" /\ job.slice[i] = "todo" /\ waitForAccess(i)
    /\ job' = [job EXCEPT !.slice[i] = verdict]
    /\ reported' = reported \cup (IF verdict = "bad" THEN {i} ELSE {})
    /\ UNCHANGED <<world, w, rd, leaked, aborted, used>>
verifySlice(i) ==
    /\ job.pc = "slices" /\ job.slice[i] = "todo" /\ waitForAccess(i)
    /\ IF aborted THEN job' = NoJob /\ UNCHANGED reported
       ELSE /\ job' = [job EXCEPT !.slice[i] = SliceVerdict(i)]
            /\ reported' = reported \cup (IF SliceVerdict(i) = "bad" THEN {i} ELSE {})
    /\ UNCHANGED <<world, w, rd, leaked, aborted, used>>

\* verifyObjectParity, when every slice was found good.
judge ==
    LET clean == ~aborted /\ \A i \in Slice : job.slice[i] = "ok" IN
    /\ job.pc = "slices" /\ \A i \in Slice : job.slice[i] # "todo"
    /\ IF clean /\ prepared
       THEN /\ job' = [job EXCEPT !.pc = "parity"]
            /\ rd' = [rd EXCEPT !["parity"] = setReadRange(0, size)]
       ELSE job' = NoJob /\ UNCHANGED rd
    /\ reported' = reported \cup (IF clean THEN OpenFaults ELSE {})
    /\ UNCHANGED <<world, w, leaked, aborted, used>>

\* verifyChunkSetParity: the parity as stored, then recomputed from the data, which may itself have had to
\* be rebuilt from that parity.
dataIncomplete(v) == Data \cap v.failed # {}
Differs(a, p) == IF Bent(a) THEN p \notin a.sources ELSE "alien" \in harm[p]
verifyChunkSetParity ==
    LET v == rd["parity"]
        stored == Readable("parity", Parity) IN
    /\ v.pc = "read" /\ v.off < size /\ ~aborted /\ \A i \in Slice : waitForAccess(i)
    /\ \E a \in {assembleDataRegion("parity", TRUE)} : \E next \in {After("parity", a)} :
          /\ rd' = [rd EXCEPT !["parity"] =
                        IF ~a.enough THEN NoRead
                        ELSE [next EXCEPT !.open = @ \cup stored,
                                          !.mismatched = @ \cup (IF dataIncomplete(next) THEN {}
                                                                 ELSE {p \in stored : Differs(a, p)})]]
          /\ job' = IF a.enough THEN job ELSE NoJob
          /\ reported' = reported \cup Faulty(a)
    /\ UNCHANGED <<world, w, leaked, aborted, used>>

\* The end of verifyObjectParity: what mismatched is recorded and reported.
reportParityFault ==
    LET v == rd["parity"] IN
    /\ v.pc = "read" /\ v.off >= size /\ ~aborted
    /\ rd' = [rd EXCEPT !["parity"] = NoRead]
    /\ job' = NoJob
    /\ reported' = reported \cup v.mismatched
    /\ UNCHANGED <<world, w, leaked, aborted, used>>

----------------------------------------------------------------------------
(* SliceRepairer: slice t is rebuilt beside itself and moved into place.   *)

repair(t) ==
    /\ w.pc = "stored" /\ rd["repair"].pc = "idle" /\ ~aborted /\ used.jobs < MaxJobs
    /\ "io" \notin harm[t] /\ "hung" \notin harm[t]
    /\ used' = [used EXCEPT !.jobs = @ + 1]
    /\ prepared
    /\ rd' = [rd EXCEPT !["repair"] = [setReadRange(0, size) EXCEPT !.target = t]]
    /\ reported' = reported \cup OpenFaults
    /\ UNCHANGED <<world, w, job, leaked, aborted>>

\* The chunk of slice t: a data chunk of the region, or the parity computed from it.
ChunkFor(a, t) ==
    LET region == Region("repair", a) IN
    IF t \in Data THEN region[t]
    ELSE IF \A i \in Data : region[i] = region[0] + i * chunkDataSize(rd["repair"].group) THEN region[0] ELSE Stray

\* One chunk set: the data region complete, the parity computed from it, and the target's chunk of it written.
reconstructFullChunkSet ==
    LET v == rd["repair"]
        n == chunkDataSize(v.group) IN
    /\ v.pc = "read" /\ v.off < size /\ ~aborted
    /\ \E a \in {assembleDataRegion("repair", TRUE)} :
          /\ rd' = [rd EXCEPT !["repair"] =
                        IF a.enough
                        THEN [After("repair", a) EXCEPT !.made = Append(@, Chunk(@, ChunkFor(a, v.target), n))]
                        ELSE NoRead]
          /\ reported' = reported \cup Faulty(a)
    /\ UNCHANGED <<world, w, job, leaked, aborted, used>>

\* The rebuilt data must have the object's md5; then the new file takes the place of the old.
\* Mutant: whatever was rebuilt is committed.
Md5Unchecked(v) == TRUE
md5Matches(v) == v.exact
commitRepair ==
    LET v == rd["repair"]
        t == v.target IN
    /\ v.pc = "read" /\ v.off >= size /\ ~aborted
    /\ IF md5Matches(v)
       THEN /\ file' = [file EXCEPT ![t] = v.made]
            /\ harm' = [harm EXCEPT ![t] = @ \ {"gone", "header", "alien"}]
            /\ rot' = [rot EXCEPT ![t] = {}]
       ELSE UNCHANGED <<file, harm, rot>>
    /\ rd' = [rd EXCEPT !["repair"] = NoRead]
    /\ UNCHANGED <<plan, hurt, w, job, leaked, aborted, reported, used>>

----------------------------------------------------------------------------
(* The environment.                                                        *)

Sets == 0 .. Len(file[0]) - 1

\* Something happens to a slice: its file or header goes, its volume fails, is slow or is marked, a chunk of
\* it rots, or it is replaced by one that checks out and encodes something else.
Damage(i, kind) ==
    /\ w.pc = "stored" /\ used.damage < MaxDamage
    /\ kind \notin harm[i] /\ (kind = "alien" => i \in Parity)
    /\ used' = [used EXCEPT !.damage = @ + 1]
    /\ IF kind = "rot" THEN \E c \in Sets : rot' = [rot EXCEPT ![i] = @ \cup {c}] /\ UNCHANGED harm
       ELSE harm' = [harm EXCEPT ![i] = @ \cup {kind}] /\ UNCHANGED rot
    /\ hurt' = hurt \cup {i}
    /\ UNCHANGED <<plan, file, w, rd, job, leaked, aborted, reported>>

\* abort wakes whoever waits; whatever reads for a job fails its next check and closes.
abort ==
    /\ w.pc = "stored" /\ ~aborted /\ used.gets + used.jobs > 0
    /\ aborted' = TRUE
    /\ UNCHANGED <<world, w, rd, job, leaked, reported, used>>
throwIfAborted(r) ==
    /\ aborted /\ r # "get" /\ rd[r].pc = "read"
    /\ rd' = [rd EXCEPT ![r] = NoRead]
    /\ job' = IF r = "parity" THEN NoJob ELSE job
    /\ UNCHANGED <<world, w, leaked, aborted, reported, used>>

----------------------------------------------------------------------------
Init ==
    /\ plan \in {populatePlanDerivedFields(n) : n \in Sizes}
    /\ w = [pc |-> "write", off |-> 0, pos |-> 0, next |-> 1, group |-> "start"]
    /\ file = [i \in Slice |-> <<>>]
    /\ harm = [i \in Slice |-> {}] /\ rot = [i \in Slice |-> {}]
    /\ rd = [r \in Reader |-> NoRead]
    /\ job = NoJob /\ leaked = {} /\ aborted = FALSE /\ reported = {} /\ hurt = {}
    /\ used = [gets |-> 0, jobs |-> 0, damage |-> 0]

Next ==
    \/ (\E piece \in Pieces : write(piece)) \/ finish
    \/ process(RangeOf(0, size), FALSE)
    \/ \E s, e \in Cuts : process(RangeOf(s, e), TRUE)
    \/ readNextChunkSet \/ close
    \/ verify \/ (\E i \in Slice : verifySlice(i)) \/ judge \/ verifyChunkSetParity
    \/ reportParityFault
    \/ (\E i \in Slice : repair(i)) \/ reconstructFullChunkSet \/ commitRepair
    \/ (\E i \in Slice, kind \in Kinds : Damage(i, kind))
    \/ abort \/ \E r \in Reader : throwIfAborted(r)

Spec == Init /\ [][Next]_vars

\* A GET comes to its end, and who waits goes on when it is woken.
FairSpec ==
    /\ Spec
    /\ WF_vars(close)
    /\ \A i \in Slice : WF_vars(verifySlice(i))

----------------------------------------------------------------------------
(* Properties.                                                             *)

\* Type invariant: the writer, the slice files and the readers.
TypeOK ==
    /\ w.pc \in {"write", "stored"} /\ w.group \in Groups /\ w.off \in 0 .. size
    /\ \A i \in Slice : \A k \in DOMAIN file[i] : file[i][k].len \in 1 .. standardChunkDataSize
    /\ \A i \in Slice : harm[i] \subseteq Kinds
    /\ \A r \in Reader : /\ rd[r].pc \in {"idle", "read", "error"} /\ rd[r].group \in Groups
                         /\ rd[r].open \cup rd[r].failed \subseteq Slice
    /\ job.pc \in {"idle", "slices", "parity"} /\ leaked \subseteq Data /\ reported \subseteq Slice

\* What a GET has sent is the beginning of what was asked for, byte for byte, whatever was damaged and
\* however the range falls on the chunk sets; only a slice that lies about its contents can bend it.
ReadExact == LET v == rd["get"] IN v.bent \/ (v.exact /\ (v.off >= v.end /\ v.pc = "read" => v.sent = v.end - v.start))

\* A read fails only when more slices were damaged than there is parity, wherever the damage lies and whatever
\* was escalated on the way (prepare and readNextChunkSet throw only on a genuine loss of redundancy).
RedundancyHolds ==
    rd["get"].pc = "error" \/ (w.pc = "stored" /\ ~prepared) => Cardinality(hurt) > M

\* Only a slice that something happened to is ever reported: not one read during a shutdown, not a good
\* parity slice beside a bad one.
BlameIsFair == reported \subseteq hurt

\* A repair puts back the file the writer wrote, chunk for chunk, or leaves the old one alone, so a slice that
\* lies about its contents does not spread to another.  The object's md5 does not see the padding at its end: a
\* chunk of padding alone, and the parity of a set that has one, are only as good as what they are rebuilt from.
Sealed(i, c) == c.from + (IF i \in Data THEN 0 ELSE (K - 1) * c.len) < size
RepairTrue ==
    [][w.pc = "stored" => \A i \in Slice :
         /\ Len(file'[i]) = Len(file[i])
         /\ \A k \in DOMAIN file[i] : LET c == file[i][k]
                                         d == file'[i][k] IN
               c.at = d.at /\ c.len = d.len /\ (Sealed(i, c) => c.from = d.from)]_vars

\* A verification that waits for a volume gets it once the GETs that hold it are over (a repair that runs may
\* hold it for longer, and what leaked for good).
ScrubGetsIn ==
    job.pc = "slices" ~> \/ job.pc # "slices" \/ \A i \in Slice : job.slice[i] # "todo"
                         \/ rd["repair"].pc = "read" \/ leaked # {}

\* A request that is over holds no volume (slice.ts releases its hold on every error path).
NothingLeaks == leaked = {}

\* An object with K readable slices can be read, and no slice is reported that nothing has happened to.
RedundancySafe == TypeOK /\ RedundancyHolds /\ BlameIsFair
=============================================================================
