---------------------------- MODULE StoreArchive ----------------------------
(***************************************************************************)
(* Archives and integrity checks of gbf-store                               *)
(* (src/gbf-store/src/archive.rs and integrity.rs): create_archive walks    *)
(* what the pinsets' roots reach in a source store and copies it into one   *)
(* file; extract_archive and list_archive read such a file back;            *)
(* verify_all and verify_reachable check the store it was extracted to.     *)
(* One such call runs at a time, while other users of the two stores put,   *)
(* remove and damage blobs, and the file may be cut short or damaged on     *)
(* its way.                                                                 *)
(*                                                                         *)
(* A store maps a hash to the bytes of its file (a put takes effect at one  *)
(* instant: BlobStoreRefinement).  An archive is a sequence of cells:       *)
(* header, pinsets, and for every blob its hash, its length and its bytes.  *)
(***************************************************************************)
EXTENDS Integers, Sequences, FiniteSets

CONSTANTS
    Hash,       \* a finite set of hashes, as numbers (they are ordered)
    Bytes,      \* Bytes[h]: the bytes whose SHA-256 is h
    Refs,       \* Refs[h]: what the registered readers find in Bytes[h]
    Junk,       \* what a damaged file may hold: a set of byte sequences
    Roots,      \* the roots of the pinsets being archived
    Forge,      \* hashes that a damaged hash may turn into
    MaxBody,    \* MAX_ARCHIVE_BLOB_BODY_LEN
    Absent,     \* no file
    Repairs,    \* BOOLEAN: damaged blobs are replaced while create_archive runs
    MaxEvents   \* bound: how often something happens beside the calls

ASSUME ArchiveAssumption ==
    /\ Hash \subseteq Nat /\ IsFiniteSet(Hash)
    /\ Bytes \in [Hash -> Seq(Nat)] /\ \A g, h \in Hash : Bytes[g] = Bytes[h] => g = h
    /\ Refs \in [Hash -> SUBSET Hash]
    /\ Junk \subseteq Seq(Nat) /\ Roots \subseteq Hash /\ Forge \subseteq Hash
    /\ MaxBody \in Nat /\ \A h \in Hash : Len(Bytes[h]) <= MaxBody
    /\ Absent \notin Seq(Nat)
    /\ Repairs \in BOOLEAN /\ MaxEvents \in Nat

VARIABLES
    src,     \* the store an archive is made from
    dst,     \* the store it is extracted to
    file,    \* the archive
    call,    \* the call in progress
    events   \* how often something happened beside the calls

vars == <<src, dst, file, call, events>>

Content == Seq(Nat) \cup {Absent}
Damaged(store) == {h \in Hash : store[h] \notin {Absent, Bytes[h]}}

\* seen, queue: the walk; todo: blobs still to handle, in order; lens: the
\* lengths found by the first pass; pos, left, remaining: the reader's place;
\* mismatches, missing: the report.
\* History: hurt (blobs damaged or removed since the start), io (a fault).
IdleCall ==
    [op |-> "none", pc |-> "idle", seen |-> {}, queue |-> {}, todo |-> {},
     lens |-> [h \in Hash |-> 0], pos |-> 1, left |-> 0, remaining |-> 0,
     mismatches |-> {}, missing |-> {}, hurt |-> {}, io |-> FALSE]

Op == {"none", "create", "extract", "list", "verify_all", "verify_reachable"}
Pc == {"idle", "collect", "measure", "verify", "write", "open", "records", "scan", "walk",
       "ok", "err"}

Cell ==
    [tag : {"head"}, count : Nat, total : Nat] \cup [tag : {"pins"}, roots : SUBSET Hash]
    \cup [tag : {"hash"}, hash : Hash \cup {Absent}] \cup [tag : {"len"}, len : Nat]
    \cup [tag : {"byte"}, byte : Nat] \cup [tag : {"extra"}]

CallType ==
    [op : Op, pc : Pc, seen : SUBSET Hash, queue : SUBSET Hash, todo : SUBSET Hash,
     lens : [Hash -> Nat], pos : Nat, left : Nat, remaining : Nat,
     mismatches : SUBSET Hash, missing : SUBSET Hash, hurt : SUBSET Hash, io : BOOLEAN]

TypeOK ==
    /\ src \in [Hash -> Content] /\ dst \in [Hash -> Content]
    /\ file \in Seq(Cell)
    /\ events \in 0..MaxEvents
    /\ call \in CallType

\* The source holds every blob, the destination none.
Init ==
    /\ src = Bytes /\ dst = [h \in Hash |-> Absent]
    /\ file = <<>> /\ events = 0
    /\ call = IdleCall

Running(op, pc) == call.op = op /\ call.pc = pc
Goto(pc) == call' = [call EXCEPT !.pc = pc]
\* The next blob: BTreeSets and sorted lists are walked in order.
First(h) == h \in call.todo /\ \A g \in call.todo : h <= g

\* referenced_blobs: damaged bytes decode to anything, or not at all.
Decodes(bytes) ==
    IF \E h \in Hash : Bytes[h] = bytes
    THEN {Refs[CHOOSE h \in Hash : Bytes[h] = bytes]}
    ELSE SUBSET Hash

-----------------------------------------------------------------------------
(* create_archive *)

\* The caller gives an empty file.  validate_pinsets has accepted the pinsets.
StartCreate ==
    /\ call.pc = "idle"
    /\ call' = [IdleCall EXCEPT !.op = "create", !.pc = "collect", !.seen = Roots,
                !.queue = Roots, !.hurt = Damaged(src)]
    /\ file' = <<>>
    /\ UNCHANGED <<src, dst, events>>

\* Children added to the list and their own references forgotten.
MutantCollected(h, C) ==
    call' = [call EXCEPT !.seen = @ \cup C, !.queue = @ \ {h}]

\* Children queued whether or not they have been seen.
MutantCollectedAgain(h, C) ==
    call' = [call EXCEPT !.seen = @ \cup C, !.queue = (@ \ {h}) \cup C]

Collected(h, C) ==
    call' = [call EXCEPT !.seen = @ \cup C, !.queue = (@ \ {h}) \cup (C \ call.seen)]

\* One turn of collect_archive_blobs: get does not check the hash, and the
\* order of the queue only decides which error is met first.  A blob that is
\* missing, or that one of the caller's readers rejects, ends the call.
Collect(h) ==
    /\ Running("create", "collect") /\ h \in call.queue
    /\ \/ src[h] # Absent /\ \E C \in Decodes(src[h]) : Collected(h, C)
       \/ Goto("err")
    /\ UNCHANGED <<src, dst, file, events>>

EndCollect ==
    /\ Running("create", "collect") /\ call.queue = {}
    /\ call' = [call EXCEPT !.pc = "measure", !.todo = call.seen]
    /\ UNCHANGED <<src, dst, file, events>>

\* archive_blob_len and checked_body_len
Measure(h) ==
    /\ Running("create", "measure") /\ First(h)
    /\ IF src[h] = Absent \/ Len(src[h]) > MaxBody THEN Goto("err")
       ELSE call' = [call EXCEPT !.pc = "verify", !.lens[h] = Len(src[h])]
    /\ UNCHANGED <<src, dst, file, events>>

\* copy_verified_blob to a sink
Verify(h) ==
    /\ Running("create", "verify") /\ First(h)
    /\ IF src[h] # Bytes[h] THEN Goto("err")
       ELSE call' = [call EXCEPT !.pc = "measure", !.todo = @ \ {h},
                     !.remaining = @ + call.lens[h]]
    /\ UNCHANGED <<src, dst, file, events>>

HeadCell(count, total) == [tag |-> "head", count |-> count, total |-> total]
PinsCell == [tag |-> "pins", roots |-> Roots]
HashCell(h) == [tag |-> "hash", hash |-> h]
LenCell(n) == [tag |-> "len", len |-> n]
ByteCell(b) == [tag |-> "byte", byte |-> b]
ByteCells(bytes) == [i \in DOMAIN bytes |-> ByteCell(bytes[i])]

\* The call goes on with the blobs todo, or is done.
Remaining(todo) ==
    call' = [call EXCEPT !.todo = todo, !.pc = IF todo = {} THEN "ok" ELSE "write"]

\* write_header and write_pinset
WriteHead ==
    /\ Running("create", "measure") /\ call.todo = {}
    /\ file' = <<HeadCell(Cardinality(call.seen), call.remaining), PinsCell>>
    /\ Remaining(call.seen)
    /\ UNCHANGED <<src, dst, events>>

RecordCells(h) ==
    <<HashCell(h), LenCell(call.lens[h])>> \o
    (IF src[h] = Absent THEN <<>> ELSE ByteCells(src[h]))

\* The second copy trusted, because the first one was verified.
MutantWriteRecord(h) ==
    /\ Running("create", "write") /\ First(h)
    /\ file' = file \o RecordCells(h)
    /\ \/ src[h] # Absent /\ Remaining(call.todo \ {h})
       \/ src[h] = Absent /\ Goto("err")
    /\ UNCHANGED <<src, dst, events>>

\* Hash, length of the first pass, and copy_verified_blob: what it has
\* copied when it finds the wrong hash stays in the output.
WriteRecord(h) ==
    /\ Running("create", "write") /\ First(h)
    /\ file' = file \o RecordCells(h)
    /\ \/ src[h] = Bytes[h] /\ Remaining(call.todo \ {h})
       \/ src[h] # Bytes[h] /\ Goto("err")
    /\ UNCHANGED <<src, dst, events>>

Create ==
    \/ StartCreate \/ EndCollect \/ WriteHead
    \/ \E h \in Hash : Collect(h) \/ Measure(h) \/ Verify(h) \/ WriteRecord(h)

-----------------------------------------------------------------------------
(* extract_archive and list_archive *)

StartRead(op) ==
    /\ call.pc = "idle"
    /\ call' = [IdleCall EXCEPT !.op = op, !.pc = "open"]
    /\ UNCHANGED <<src, dst, file, events>>

\* read_exact runs into the end: one stray byte is too short for any field.
EndsAt(i) == ~(i \in DOMAIN file /\ file[i].tag # "extra")

\* read_header and read_pinsets
ReadHead ==
    /\ call.pc = "open"
    /\ IF EndsAt(1) \/ EndsAt(2) THEN Goto("err")
       ELSE call' = [call EXCEPT !.pc = "records", !.pos = 3, !.left = file[1].count,
                     !.remaining = file[1].total]
    /\ UNCHANGED <<src, dst, file, events>>

\* read_hash, read_u64 and the bytes of a body, where a reader that is out of
\* step with the records takes any cell for what it expects.
HashAt(i) == IF file[i].tag = "hash" THEN file[i].hash ELSE Absent
LensAt(i) == IF file[i].tag = "len" THEN {file[i].len} ELSE 0..MaxBody + 1
BodyAt(i, n) ==
    [j \in 1..n |-> IF file[i + j - 1].tag = "byte" THEN file[i + j - 1].byte ELSE 0]

\* discard_body seeking past the body, which never meets the end of the file.
MutantRecordFits(n) ==
    /\ n <= call.remaining /\ n <= MaxBody
    /\ call.op = "list" \/ call.pos + 1 + n <= Len(file)

\* A record longer than what the header's total leaves.
MutantRecordFitsTotal(n) == n <= MaxBody /\ call.pos + 1 + n <= Len(file)

\* checked_record_len, checked_body_len, and the bytes are there.
RecordFits(n) ==
    /\ n <= call.remaining /\ n <= MaxBody
    /\ call.pos + 1 + n <= Len(file)

Advanced(n) ==
    [call EXCEPT !.pos = @ + 2 + n, !.left = @ - 1, !.remaining = @ - n]

\* The hash of the body not compared.
MutantAccepts(h, body) == h # Absent /\ dst[h] \in {Absent, body}

\* A blob that is there already is an error.
MutantAcceptsNew(h, body) == h # Absent /\ body = Bytes[h] /\ dst[h] = Absent

\* put_archive_body: put_expect of a body whose hash is not h fails, and so
\* does the put when the store holds other bytes under h.
Accepts(h, body) == h # Absent /\ body = Bytes[h] /\ dst[h] \in {Absent, body}

\* One turn of the loop over the records: the next blob is read, and stored
\* (extract) or passed over (list).
ReadRecord ==
    /\ call.pc = "records" /\ call.left > 0
    /\ \/ /\ EndsAt(call.pos) \/ EndsAt(call.pos + 1)
          /\ Goto("err") /\ UNCHANGED dst
       \/ /\ ~EndsAt(call.pos) /\ ~EndsAt(call.pos + 1)
          /\ \E n \in LensAt(call.pos + 1) :
                LET h == HashAt(call.pos)
                    body == BodyAt(call.pos + 2, n)
                IN  IF RecordFits(n) /\ (call.op = "list" \/ Accepts(h, body))
                    THEN /\ call' = Advanced(n)
                         /\ dst' = IF call.op = "list" THEN dst ELSE [dst EXCEPT ![h] = body]
                    ELSE Goto("err") /\ UNCHANGED dst
    /\ UNCHANGED <<src, file, events>>

\* The declared total must be used up, and nothing may follow.
EndRead ==
    /\ call.pc = "records" /\ call.left = 0
    /\ Goto(IF call.remaining = 0 /\ call.pos > Len(file) THEN "ok" ELSE "err")
    /\ UNCHANGED <<src, dst, file, events>>

Read == StartRead("extract") \/ StartRead("list") \/ ReadHead \/ ReadRecord \/ EndRead

-----------------------------------------------------------------------------
(* verify_all and verify_reachable, on the destination *)

StartVerifyAll ==
    /\ call.pc = "idle"
    /\ call' = [IdleCall EXCEPT !.op = "verify_all", !.pc = "scan",
                !.todo = {h \in Hash : dst[h] # Absent}]
    /\ UNCHANGED <<src, dst, file, events>>

\* A mismatch ends the check, as every other error does.
MutantScanBlob(h) ==
    /\ Running("verify_all", "scan") /\ First(h)
    /\ IF dst[h] # Bytes[h] THEN Goto("err")
       ELSE call' = [call EXCEPT !.todo = @ \ {h}]
    /\ UNCHANGED <<src, dst, file, events>>

\* verify_integrity of the next blob of the list: a mismatch is reported, a
\* blob that is gone ends the check.
ScanBlob(h) ==
    /\ Running("verify_all", "scan") /\ First(h)
    /\ IF dst[h] = Absent THEN Goto("err")
       ELSE call' = [call EXCEPT !.todo = @ \ {h},
                     !.mismatches = IF dst[h] = Bytes[h] THEN @ ELSE @ \cup {h}]
    /\ UNCHANGED <<src, dst, file, events>>

StartVerifyReachable ==
    /\ call.pc = "idle"
    /\ call' = [IdleCall EXCEPT !.op = "verify_reachable", !.pc = "walk", !.seen = Roots,
                !.queue = Roots]
    /\ UNCHANGED <<src, dst, file, events>>

\* A blob that is not there passed over in silence.
MutantWalkBlob(h) ==
    /\ Running("verify_reachable", "walk") /\ h \in call.queue
    /\ \/ dst[h] = Absent /\ call' = [call EXCEPT !.queue = @ \ {h}]
       \/ dst[h] \notin {Absent, Bytes[h]}
          /\ call' = [call EXCEPT !.queue = @ \ {h}, !.mismatches = @ \cup {h}]
       \/ dst[h] = Bytes[h] /\ Collected(h, Refs[h])
    /\ UNCHANGED <<src, dst, file, events>>

\* One turn of verify_reachable's loop: missing and damaged blobs are
\* reported and their references not followed; an intact one that one of the
\* caller's readers rejects ends the call.
WalkBlob(h) ==
    /\ Running("verify_reachable", "walk") /\ h \in call.queue
    /\ \/ dst[h] = Absent
          /\ call' = [call EXCEPT !.queue = @ \ {h}, !.missing = @ \cup {h}]
       \/ dst[h] \notin {Absent, Bytes[h]}
          /\ call' = [call EXCEPT !.queue = @ \ {h}, !.mismatches = @ \cup {h}]
       \/ dst[h] = Bytes[h] /\ (Collected(h, Refs[h]) \/ Goto("err"))
    /\ UNCHANGED <<src, dst, file, events>>

EndVerify ==
    /\ \/ Running("verify_all", "scan") /\ call.todo = {}
       \/ Running("verify_reachable", "walk") /\ call.queue = {}
    /\ Goto("ok")
    /\ UNCHANGED <<src, dst, file, events>>

CheckStore ==
    \/ StartVerifyAll \/ StartVerifyReachable \/ EndVerify
    \/ \E h \in Hash : ScanBlob(h) \/ WalkBlob(h)

\* The caller takes the result.
Return ==
    /\ call.pc \in {"ok", "err"}
    /\ call' = IdleCall
    /\ UNCHANGED <<src, dst, file, events>>

-----------------------------------------------------------------------------
(* What happens beside the calls, at most MaxEvents times.  A store changes *)
(* only while no call runs or one that reads it: the rest commutes.          *)

Hurt(h) == call' = [call EXCEPT !.hurt = IF call.pc = "idle" THEN @ ELSE @ \cup {h}]

\* A put of bytes the source does not hold.  Unless Repairs, nobody replaces
\* a blob that was damaged while create_archive runs.
SrcPut(h) ==
    /\ src[h] = Absent /\ call.op \in {"none", "create"}
    /\ Repairs \/ call.op # "create" \/ h \notin call.hurt
    /\ src' = [src EXCEPT ![h] = Bytes[h]]
    /\ UNCHANGED <<dst, call>>

SrcRemove(h) ==
    /\ src[h] # Absent /\ call.op \in {"none", "create"}
    /\ src' = [src EXCEPT ![h] = Absent]
    /\ UNCHANGED <<dst, call>>

SrcDamage(h) ==
    /\ src[h] = Bytes[h] /\ call.op \in {"none", "create"}
    /\ \E bytes \in Junk \ {Bytes[h]} : src' = [src EXCEPT ![h] = bytes]
    /\ Hurt(h) /\ UNCHANGED dst

DstPut(h) ==
    /\ dst[h] = Absent /\ call.op # "create"
    /\ dst' = [dst EXCEPT ![h] = Bytes[h]]
    /\ UNCHANGED <<src, call>>

DstLose(h) ==
    /\ dst[h] # Absent /\ call.op # "create"
    /\ dst' = [dst EXCEPT ![h] = Absent]
    /\ Hurt(h) /\ UNCHANGED src

DstDamage(h) ==
    /\ dst[h] = Bytes[h] /\ call.op # "create"
    /\ \E bytes \in Junk \ {Bytes[h]} : dst' = [dst EXCEPT ![h] = bytes]
    /\ Hurt(h) /\ UNCHANGED src

StoreEvent ==
    /\ \E h \in Hash :
          \/ SrcPut(h) \/ SrcRemove(h) \/ SrcDamage(h)
          \/ DstPut(h) \/ DstLose(h) \/ DstDamage(h)
    /\ UNCHANGED file

\* The file loses its end (a copy cut short, a writer that did not flush), or
\* a stray byte is appended to it.
FileCut ==
    /\ call.pc = "idle"
    /\ \/ \E n \in 0..Len(file) - 1 : file' = SubSeq(file, 1, n)
       \/ file # <<>> /\ file' = Append(file, [tag |-> "extra"])
    /\ UNCHANGED <<src, dst, call>>

\* A hash, a length or a byte of a body is damaged; a damaged hash is nobody's
\* or, against all odds, one of Forge.  (The header carries no checksum: a
\* count and an end that change together cannot be noticed.)
FileRot ==
    /\ call.pc = "idle"
    /\ \E i \in DOMAIN file :
          \/ /\ file[i].tag = "hash"
             /\ \E h \in (Forge \cup {Absent}) \ {file[i].hash} :
                   file' = [file EXCEPT ![i] = HashCell(h)]
          \/ /\ file[i].tag = "len"
             /\ \E n \in 0..MaxBody + 1 : file' = [file EXCEPT ![i].len = n]
          \/ file[i].tag = "byte" /\ file' = [file EXCEPT ![i].byte = 0]
    /\ UNCHANGED <<src, dst, call>>

\* A system call fails or the process dies: the call ends where it is, and
\* an archive being written may have lost what was not flushed.
Fault ==
    /\ call.pc \notin {"idle", "ok", "err"}
    /\ call' = [call EXCEPT !.pc = "err", !.io = TRUE]
    /\ IF call.op = "create" THEN \E n \in 0..Len(file) : file' = SubSeq(file, 1, n)
                             ELSE file' = file
    /\ UNCHANGED <<src, dst>>

Event ==
    /\ events < MaxEvents /\ events' = events + 1
    /\ StoreEvent \/ FileCut \/ FileRot \/ Fault

Next == Create \/ Read \/ CheckStore \/ Return \/ Event

Spec == Init /\ [][Next]_vars

-----------------------------------------------------------------------------
(* What the calls promise. *)

\* What Roots reach: whatever a set that holds Roots and is closed under
\* references cannot leave out.
Closed(S) == Roots \subseteq S /\ \A h \in S : Refs[h] \subseteq S
Reachable == {h \in Hash : \A S \in SUBSET Hash : Closed(S) => h \in S}

Holds(store, S) == \A h \in S : store[h] = Bytes[h]

\* A create_archive that returns Ok has listed everything the roots reach and
\* recorded its true length, although blobs were removed, put back or damaged
\* between the walk, the first pass and the copy.
ArchiveClosed ==
    Running("create", "ok") =>
        /\ Reachable \subseteq call.seen
        /\ \A h \in call.seen : call.lens[h] = Len(Bytes[h])

\* The layout of the archive of the blobs S: their bytes as pairs of a blob and
\* a place, the cells their records take, and where the record of h begins,
\* after the header, the pinsets and the records of smaller hashes.
Octets(S) == {p \in S \X (1..MaxBody) : p[2] <= Len(Bytes[p[1]])}
Size(S)   == 2 * Cardinality(S) + Cardinality(Octets(S))
Lower(h, S) == {g \in S : g < h}
At(h, S)  == 3 + Size(Lower(h, S))
RecordAt(f, i, h) ==
    /\ f[i] = HashCell(h) /\ f[i + 1] = LenCell(Len(Bytes[h]))
    /\ \A j \in DOMAIN Bytes[h] : f[i + 1 + j] = ByteCell(Bytes[h][j])
IsArchive(f, S) ==
    /\ Len(f) = 2 + Size(S)
    /\ f[1] = HeadCell(Cardinality(S), Cardinality(Octets(S))) /\ f[2] = PinsCell
    /\ \A h \in S : RecordAt(f, At(h, S), h)

\* A create_archive that returns Ok has written the archive of exactly what
\* the roots reach: count, total and every length agree with the bodies.
ArchiveExact == Running("create", "ok") => IsArchive(file, Reachable)

\* A stray byte is a byte of a body where one is expected (BodyAt).
AsRead(f) == [i \in DOMAIN f |-> IF f[i].tag = "extra" THEN ByteCell(0) ELSE f[i]]

\* A file that create_archive did not finish, that lost its end, that grew or
\* that was damaged in a hash or a body is not extracted with Ok; list_archive
\* does not look at the bodies, but never accepts a file with an end missing.
AcceptedExact ==
    /\ Running("extract", "ok") => IsArchive(AsRead(file), Reachable)
    /\ Running("list", "ok") => Len(file) = 2 + Size(Reachable)

\* An extract_archive that returns Ok has put everything the pinsets reach
\* into the store, whatever happened to the file before, unless others
\* removed or damaged blobs of the store during the call.
ExtractDelivers ==
    Running("extract", "ok") /\ call.hurt = {} => Holds(dst, Reachable)

\* verify_all reports exactly the damaged blobs, with puts running beside
\* it, and gives up only when a listed blob was removed under it.
VerifyAllTruthful ==
    /\ Running("verify_all", "ok") /\ call.hurt = {} => call.mismatches = Damaged(dst)
    /\ Running("verify_all", "err") /\ ~call.io => call.hurt # {}

\* A clean report of verify_reachable means that everything the roots reach
\* is there and intact, and a reported mismatch is a damaged blob.
VerifyReachableTruthful ==
    Running("verify_reachable", "ok") /\ call.hurt = {} =>
        /\ call.mismatches \cup call.missing = {} => Holds(dst, Reachable)
        /\ call.mismatches \subseteq Damaged(dst)

-----------------------------------------------------------------------------
(* Liveness: a call that was started keeps running. *)

Working ==
    \/ EndCollect \/ WriteHead \/ ReadHead \/ ReadRecord \/ EndRead \/ EndVerify \/ Return
    \/ \E h \in Hash :
          \/ Collect(h) \/ Measure(h) \/ Verify(h) \/ WriteRecord(h)
          \/ ScanBlob(h) \/ WalkBlob(h)

FairSpec == Spec /\ WF_vars(Working)

\* Every call ends, also when damaged bytes refer to one another.
CallsEnd == call.pc # "idle" ~> call.pc = "idle"

=============================================================================
