------------------------- MODULE StoreArchiveProofs -------------------------
(***************************************************************************)
(* Machine-checked proofs about StoreArchive, for any finite set of hashes,  *)
(* any bytes and references, and any number of events beside the calls.     *)
(***************************************************************************)
EXTENDS StoreArchive, FiniteSetTheorems, WellFoundedInduction, TLAPS

\* No call is in progress exactly when none has a result to return.
IdleShape == call.pc = "idle" => call = IdleCall

\* An archive starts with its header, which is there before any record.
HeadFirst ==
    /\ file # <<>> => file[1].tag = "head"
    /\ Running("create", "write") => file # <<>>

\* create_archive.  What is in hurt was not intact when damage hit it and is
\* not replaced; every other listed blob was read as it is.
Measured(h) ==
    \/ call.pc = "measure" /\ h \notin call.todo
    \/ call.pc = "verify" /\ (h \notin call.todo \/ First(h))
    \/ call.pc \in {"write", "ok"}
CreateInv ==
    call.op = "create" /\ call.pc # "err" =>
        /\ call.pc \in {"collect", "measure", "verify", "write", "ok"}
        /\ Roots \subseteq call.seen /\ call.queue \subseteq call.seen
        /\ call.todo \subseteq call.seen
        /\ call.pc # "collect" => call.queue = {}
        /\ call.pc = "ok" => call.todo = {}
        /\ \A h \in call.hurt : src[h] # Bytes[h]
        /\ Damaged(src) \subseteq call.hurt
        /\ \A h \in call.seen \ (call.queue \cup call.hurt) : Refs[h] \subseteq call.seen
        /\ \A h \in call.seen \ call.hurt : Measured(h) => call.lens[h] = Len(Bytes[h])
        /\ call.pc \in {"write", "ok"} =>
              \A h \in call.seen \ call.todo :
                  Refs[h] \subseteq call.seen /\ call.lens[h] = Len(Bytes[h])

\* verify_all.  The damaged blobs are reported or still to come.
ScanInv ==
    call.op = "verify_all" =>
        /\ call.pc \in {"scan", "ok", "err"}
        /\ call.pc = "ok" => call.todo = {}
        /\ call.pc = "err" /\ ~call.io => call.hurt # {}
        /\ call.pc # "err" /\ call.hurt = {} =>
              /\ call.mismatches \subseteq Damaged(dst)
              /\ Damaged(dst) \subseteq call.mismatches \cup call.todo
              /\ \A h \in call.todo : dst[h] # Absent

\* verify_reachable.  A blob that was met is reported, or intact with its
\* references met or queued.
WalkInv ==
    call.op = "verify_reachable" /\ call.pc # "err" =>
        /\ call.pc \in {"walk", "ok"}
        /\ call.pc = "ok" => call.queue = {}
        /\ Roots \subseteq call.seen
        /\ call.hurt = {} =>
              /\ call.mismatches \subseteq Damaged(dst)
              /\ \A h \in call.seen \ call.queue :
                    \/ h \in call.missing \cup call.mismatches
                    \/ dst[h] = Bytes[h] /\ Refs[h] \subseteq call.seen

Header == HeadCell(Cardinality(Reachable), Cardinality(Octets(Reachable)))

\* While create_archive collects, what it listed is reachable unless a hurt
\* blob is listed; from then on the hurt blob is among those to be verified.
\* What it verified has its true length and references that are listed.
\* What it writes is the archive of everything reachable, record by record.
MakeInv ==
    call.op = "create" =>
        /\ call.pc \in {"collect", "measure", "verify"} => file = <<>>
        /\ call.pc = "collect" =>
              /\ call.remaining = 0
              /\ call.seen \subseteq Reachable \/ call.seen \cap call.hurt # {}
        /\ call.pc \in {"measure", "verify"} =>
              /\ call.seen \subseteq Reachable \/ call.todo \cap call.hurt # {}
              /\ \A h \in call.seen \ call.todo :
                    Refs[h] \subseteq call.seen /\ call.lens[h] = Len(Bytes[h])
              /\ call.remaining = Cardinality(Octets(call.seen \ call.todo))
        /\ call.pc \in {"write", "ok"} =>
              /\ call.seen = Reachable
              /\ \A h \in Reachable : call.lens[h] = Len(Bytes[h])
              /\ \A g \in Reachable \ call.todo, h \in call.todo : g < h
              /\ Len(file) = 2 + Size(Reachable \ call.todo)
              /\ file[1] = Header /\ file[2] = PinsCell
              /\ \A h \in Reachable \ call.todo : RecordAt(file, At(h, Reachable), h)

\* What is left of an archive after any cuts and damage, where damage makes no
\* hash of a blob out of another's: a whole header, and in the place of each
\* record's hash the hash of that blob or one of none.
PlaceShape(h, i) ==
    /\ i \in DOMAIN file /\ file[i].tag = "hash" =>
          /\ file[i].hash \in {h, Absent}
          /\ i + 1 \in DOMAIN file => file[i + 1].tag \in {"len", "extra"}
    /\ \A j \in DOMAIN Bytes[h] :
          i + 1 + j \in DOMAIN file => file[i + 1 + j].tag \in {"byte", "extra"}
FileShape ==
    file # <<>> =>
        /\ file[1] = Header
        /\ 2 \in DOMAIN file => file[2] = PinsCell \/ file[2].tag = "extra"
        /\ \A h \in Reachable : PlaceShape(h, At(h, Reachable))
\* A reader counts what it has passed, and an extraction has passed the
\* records of the blobs that begin before its place, and stored them.
Passed == {h \in Reachable : At(h, Reachable) < call.pos}
ReadInv ==
    call.op \in {"extract", "list"} =>
        /\ call.pc \in {"open", "records", "ok", "err"}
        /\ call.pc \in {"records", "ok"} =>
              /\ ~EndsAt(1) /\ ~EndsAt(2)
              /\ call.left <= Cardinality(Reachable) /\ call.remaining <= Cardinality(Octets(Reachable))
              /\ call.pos = 3 + 2 * (Cardinality(Reachable) - call.left)
                              + (Cardinality(Octets(Reachable)) - call.remaining)
              /\ call.pos - 1 <= Len(file)
              /\ call.op = "extract" =>
                    /\ call.left = Cardinality(Reachable) - Cardinality(Passed)
                    /\ call.pos = 3 + Size(Passed)
                    /\ \A h \in Passed :
                          /\ RecordAt(AsRead(file), At(h, Reachable), h)
                          /\ call.hurt = {} => dst[h] = Bytes[h]
        /\ call.pc = "ok" => call.left = 0 /\ call.remaining = 0 /\ call.pos > Len(file)

AInv == TypeOK /\ IdleShape /\ HeadFirst

-----------------------------------------------------------------------------

\* The record between two calls.
LEMMA IdleCallTyped == IdleCall \in CallType
BY DEF IdleCall, CallType, Op, Pc

\* The initial state satisfies the typing invariant.
LEMMA InitAInv == Init => AInv
BY IdleCallTyped, ArchiveAssumption
   DEF Init, AInv, TypeOK, IdleShape, HeadFirst, Content, Running, IdleCall

\* A blob decodes to its references; anything decodes to hashes.
LEMMA DecodesIntact ==
    ASSUME NEW h \in Hash PROVE Decodes(Bytes[h]) = {Refs[h]}
BY ArchiveAssumption DEF Decodes

LEMMA DecodesTyped ==
    ASSUME NEW bytes, NEW C \in Decodes(bytes) PROVE C \in SUBSET Hash
<1>1. Refs \in [Hash -> SUBSET Hash]
    BY ArchiveAssumption
<1>2. CASE \E h \in Hash : Bytes[h] = bytes
  <2>1. (CHOOSE h \in Hash : Bytes[h] = bytes) \in Hash
    BY <1>2
  <2> QED
    BY <1>1, <1>2, <2>1 DEF Decodes
<1>3. CASE ~ \E h \in Hash : Bytes[h] = bytes
    BY <1>3 DEF Decodes
<1> QED
    BY <1>2, <1>3

\* The cells create_archive writes are cells.
LEMMA RecordCellsTyped ==
    ASSUME TypeOK, NEW h \in Hash PROVE RecordCells(h) \in Seq(Cell)
<1>1. HashCell(h) \in Cell
    BY DEF HashCell, Cell
<1>2. LenCell(call.lens[h]) \in Cell
    BY DEF LenCell, Cell, TypeOK, CallType
<1>3. ASSUME NEW b \in Seq(Nat) PROVE ByteCells(b) \in Seq(Cell)
    <2>1. ByteCells(b) \in [1..Len(b) -> Cell] /\ Len(b) \in Nat
      BY DEF ByteCells, ByteCell, Cell
    <2> QED
      BY <2>1
<1>4. <<HashCell(h), LenCell(call.lens[h])>> \in Seq(Cell)
    BY <1>1, <1>2
<1>5. (IF src[h] = Absent THEN <<>> ELSE ByteCells(src[h])) \in Seq(Cell)
    <2>1. CASE src[h] = Absent
      BY <2>1
    <2>2. CASE src[h] # Absent
      BY <2>2, <1>3 DEF TypeOK, Content
    <2> QED
      BY <2>1, <2>2
<1> QED
    BY <1>4, <1>5 DEF RecordCells

\* The header counts a finite set.
LEMMA HeadTyped ==
    ASSUME TypeOK
    PROVE  <<HeadCell(Cardinality(call.seen), call.remaining), PinsCell>> \in Seq(Cell)
<1>1. Cardinality(call.seen) \in Nat
    <2>1. IsFiniteSet(call.seen)
      BY ArchiveAssumption, FS_Subset DEF TypeOK, CallType
    <2> QED
      BY <2>1, FS_CardinalityType
<1>2. HeadCell(Cardinality(call.seen), call.remaining) \in Cell
    BY <1>1 DEF HeadCell, Cell, TypeOK, CallType
<1>3. PinsCell \in Cell
    BY ArchiveAssumption DEF PinsCell, Cell
<1> QED
    BY <1>2, <1>3

\* create_archive keeps the typing invariant.
LEMMA CreateAInv == ASSUME AInv, Create PROVE AInv'
<1> USE DEF AInv, IdleShape
<1>1. CASE StartCreate
  <2>1. Damaged(src) \in SUBSET Hash /\ Roots \in SUBSET Hash
    BY ArchiveAssumption DEF Damaged
  <2>2. call' \in CallType /\ call'.pc = "collect"
    BY <1>1, <2>1, IdleCallTyped DEF StartCreate, CallType, Op, Pc
  <2>3. file' \in Seq(Cell)
    BY <1>1 DEF StartCreate
  <2> QED
    BY <1>1, <2>2, <2>3 DEF StartCreate, TypeOK, HeadFirst, Running
<1>2. CASE EndCollect
    BY <1>2 DEF EndCollect, Running, TypeOK, CallType, Pc, HeadFirst
<1>3. CASE WriteHead
  <2>1. file' \in Seq(Cell) /\ file'[1].tag = "head" /\ file' # <<>>
    BY <1>3, HeadTyped DEF WriteHead, HeadCell
  <2>2. call' \in CallType /\ call'.pc # "idle"
    BY <1>3 DEF WriteHead, Remaining, TypeOK, CallType, Pc
  <2> QED
    BY <1>3, <2>1, <2>2 DEF WriteHead, TypeOK, HeadFirst, Running
<1>4. ASSUME NEW h \in Hash, Collect(h) PROVE AInv'
  <2>1. CASE Goto("err")
    BY <1>4, <2>1 DEF Collect, Goto, TypeOK, CallType, Pc, HeadFirst, Running
  <2>2. ASSUME NEW C \in SUBSET Hash, Collected(h, C) PROVE AInv'
    BY <1>4, <2>2 DEF Collect, Collected, Running, TypeOK, CallType, HeadFirst
  <2> QED
    BY <1>4, <2>1, <2>2, DecodesTyped DEF Collect
<1>5. ASSUME NEW h \in Hash, Measure(h) PROVE AInv'
  <2>1. CASE Goto("err")
    BY <1>5, <2>1 DEF Measure, Goto, TypeOK, CallType, Pc, HeadFirst, Running
  <2>2. CASE src[h] # Absent /\ call' = [call EXCEPT !.pc = "verify", !.lens[h] = Len(src[h])]
    <3>1. Len(src[h]) \in Nat
      BY <2>2 DEF TypeOK, Content
    <3> QED
      BY <1>5, <2>2, <3>1 DEF Measure, TypeOK, CallType, Pc, HeadFirst, Running
  <2> QED
    BY <1>5, <2>1, <2>2 DEF Measure
<1>6. ASSUME NEW h \in Hash, Verify(h) PROVE AInv'
  <2>1. CASE Goto("err")
    BY <1>6, <2>1 DEF Verify, Goto, TypeOK, CallType, Pc, HeadFirst, Running
  <2>2. CASE call' = [call EXCEPT !.pc = "measure", !.todo = @ \ {h}, !.remaining = @ + call.lens[h]]
    <3>1. call.remaining + call.lens[h] \in Nat
      BY DEF TypeOK, CallType
    <3> QED
      BY <1>6, <2>2, <3>1 DEF Verify, TypeOK, CallType, Pc, HeadFirst, Running
  <2> QED
    BY <1>6, <2>1, <2>2 DEF Verify
<1>7. ASSUME NEW h \in Hash, WriteRecord(h) PROVE AInv'
  <2>1. file' \in Seq(Cell)
    BY <1>7, RecordCellsTyped DEF WriteRecord, TypeOK
  <2>2. HeadFirst'
    <3>1. RecordCells(h) \in Seq(Cell) /\ file \in Seq(Cell)
      BY RecordCellsTyped DEF TypeOK
    <3>2. file # <<>> /\ file[1].tag = "head"
      BY <1>7 DEF WriteRecord, HeadFirst
    <3> QED
      BY <1>7, <3>1, <3>2 DEF WriteRecord, HeadFirst
  <2>3. call' \in CallType /\ call'.pc # "idle"
    <3>1. CASE Remaining(call.todo \ {h})
      BY <3>1 DEF Remaining, TypeOK, CallType, Pc
    <3>2. CASE Goto("err")
      BY <3>2 DEF Goto, TypeOK, CallType, Pc
    <3> QED
      BY <1>7, <3>1, <3>2 DEF WriteRecord
  <2> QED
    BY <1>7, <2>1, <2>2, <2>3 DEF WriteRecord, TypeOK
<1> QED
    BY <1>1, <1>2, <1>3, <1>4, <1>5, <1>6, <1>7 DEF Create

\* So do the two readers: a record that fits is not longer than what remains.
LEMMA ReadAInv == ASSUME AInv, Read PROVE AInv'
<1> USE DEF AInv, IdleShape
<1>1. ASSUME NEW op \in {"extract", "list"}, StartRead(op) PROVE AInv'
  <2>1. call' \in CallType /\ call'.pc = "open"
    BY <1>1, IdleCallTyped DEF StartRead, CallType, Op, Pc
  <2> QED
    BY <1>1, <2>1 DEF StartRead, TypeOK, HeadFirst, Running
<1>2. CASE ReadHead
  <2>1. CASE Goto("err")
    BY <1>2, <2>1 DEF ReadHead, Goto, TypeOK, CallType, Pc, HeadFirst, Running
  <2>2. CASE ~EndsAt(1) /\ call' = [call EXCEPT !.pc = "records", !.pos = 3,
                    !.left = file[1].count, !.remaining = file[1].total]
    <3>1. file[1] \in Cell /\ file[1].tag = "head"
      BY <2>2 DEF EndsAt, TypeOK, HeadFirst
    <3>2. file[1].count \in Nat /\ file[1].total \in Nat
      BY <3>1 DEF Cell
    <3> QED
      BY <1>2, <2>2, <3>2 DEF ReadHead, TypeOK, CallType, Pc, HeadFirst, Running
  <2> QED
    BY <1>2, <2>1, <2>2 DEF ReadHead
<1>3. CASE ReadRecord
  <2>1. CASE Goto("err") /\ UNCHANGED dst
    BY <1>3, <2>1 DEF ReadRecord, Goto, TypeOK, CallType, Pc, HeadFirst, Running
  <2>2. ASSUME ~EndsAt(call.pos), ~EndsAt(call.pos + 1), NEW n \in LensAt(call.pos + 1),
               RecordFits(n), call' = Advanced(n),
               \/ UNCHANGED dst
               \/ /\ Accepts(HashAt(call.pos), BodyAt(call.pos + 2, n))
                  /\ dst' = [dst EXCEPT ![HashAt(call.pos)] = BodyAt(call.pos + 2, n)]
        PROVE  AInv'
    <3>1. file[call.pos] \in Cell /\ file[call.pos + 1] \in Cell
      BY <2>2 DEF EndsAt, TypeOK
    <3>2. HashAt(call.pos) \in Hash \cup {Absent}
      BY <3>1 DEF HashAt, Cell
    <3>3. n \in Nat
      BY <3>1, <2>2, ArchiveAssumption DEF LensAt, Cell
    <3>4. call.pos + 2 + n \in Nat /\ call.left - 1 \in Nat /\ call.remaining - n \in Nat
      <4>1. call.pos \in Nat /\ call.left \in Nat /\ call.remaining \in Nat
        BY DEF TypeOK, CallType
      <4>2. call.left > 0
        BY <1>3 DEF ReadRecord
      <4>3. n <= call.remaining
        BY <2>2 DEF RecordFits
      <4> QED
        BY <3>3, <4>1, <4>2, <4>3
    <3>6. call' \in CallType /\ call'.pc = "records"
      BY <1>3, <2>2, <3>4 DEF ReadRecord, Advanced, TypeOK, CallType
    <3>7. dst' \in [Hash -> Content]
      BY <2>2, <3>2, ArchiveAssumption DEF Accepts, TypeOK, Content
    <3> QED
      BY <1>3, <3>6, <3>7 DEF ReadRecord, TypeOK, HeadFirst, Running
  <2> QED
    BY <1>3, <2>1, <2>2 DEF ReadRecord
<1>4. CASE EndRead
    BY <1>4 DEF EndRead, Goto, TypeOK, CallType, Pc, HeadFirst, Running
<1> QED
    BY <1>1, <1>2, <1>3, <1>4 DEF Read

\* So do the integrity checks,
LEMMA CheckAInv == ASSUME AInv, CheckStore \/ Return PROVE AInv'
<1> USE DEF AInv, IdleShape
<1>1. CASE StartVerifyAll
  <2>1. {h \in Hash : dst[h] # Absent} \in SUBSET Hash
    OBVIOUS
  <2>2. call' \in CallType /\ call'.pc = "scan"
    BY <1>1, <2>1, IdleCallTyped DEF StartVerifyAll, CallType, Op, Pc
  <2> QED
    BY <1>1, <2>2 DEF StartVerifyAll, TypeOK, HeadFirst, Running
<1>2. CASE StartVerifyReachable
  <2>1. call' \in CallType /\ call'.pc = "walk"
    BY <1>2, IdleCallTyped, ArchiveAssumption DEF StartVerifyReachable, CallType, Op, Pc
  <2> QED
    BY <1>2, <2>1 DEF StartVerifyReachable, TypeOK, HeadFirst, Running
<1>3. CASE EndVerify
    BY <1>3 DEF EndVerify, Goto, TypeOK, CallType, Pc, HeadFirst, Running
<1>4. ASSUME NEW h \in Hash, ScanBlob(h) PROVE AInv'
  <2>1. CASE Goto("err")
    BY <1>4, <2>1 DEF ScanBlob, Goto, TypeOK, CallType, Pc, HeadFirst, Running
  <2>2. CASE call' = [call EXCEPT !.todo = @ \ {h},
                      !.mismatches = IF dst[h] = Bytes[h] THEN @ ELSE @ \cup {h}]
    <3>1. (IF dst[h] = Bytes[h] THEN call.mismatches ELSE call.mismatches \cup {h}) \in SUBSET Hash
      BY DEF TypeOK, CallType
    <3> QED
      BY <1>4, <2>2, <3>1 DEF ScanBlob, TypeOK, CallType, HeadFirst, Running
  <2> QED
    BY <1>4, <2>1, <2>2 DEF ScanBlob
<1>5. ASSUME NEW h \in Hash, WalkBlob(h) PROVE AInv'
  <2>1. CASE Collected(h, Refs[h])
    <3>1. Refs[h] \in SUBSET Hash
      BY ArchiveAssumption
    <3> QED
      BY <1>5, <2>1, <3>1 DEF WalkBlob, Collected, TypeOK, CallType, HeadFirst, Running
  <2>2. CASE call' = [call EXCEPT !.queue = @ \ {h}, !.missing = @ \cup {h}]
    BY <1>5, <2>2 DEF WalkBlob, TypeOK, CallType, HeadFirst, Running
  <2>3. CASE call' = [call EXCEPT !.queue = @ \ {h}, !.mismatches = @ \cup {h}]
    BY <1>5, <2>3 DEF WalkBlob, TypeOK, CallType, HeadFirst, Running
  <2>4. CASE Goto("err")
    BY <1>5, <2>4 DEF WalkBlob, Goto, TypeOK, CallType, Pc, HeadFirst, Running
  <2> QED
    BY <1>5, <2>1, <2>2, <2>3, <2>4 DEF WalkBlob
<1>6. CASE Return
    BY <1>6, IdleCallTyped DEF Return, TypeOK, HeadFirst, Running, IdleCall
<1> QED
    BY <1>1, <1>2, <1>3, <1>4, <1>5, <1>6 DEF CheckStore

\* and whatever happens beside the calls.
LEMMA EventAInv == ASSUME AInv, Event PROVE AInv'
<1> USE DEF AInv, IdleShape
<1>1. events' \in 0..MaxEvents
    BY ArchiveAssumption DEF Event, TypeOK
<1>2. ASSUME NEW h \in Hash, Hurt(h)
      PROVE  call' \in CallType /\ call'.pc = call.pc /\ call'.op = call.op
             /\ (call'.pc = "idle" => call' = call)
    BY <1>2 DEF Hurt, TypeOK, CallType
<1>3. CASE StoreEvent
  <2>1. ASSUME NEW h \in Hash, SrcPut(h) \/ SrcRemove(h) PROVE AInv'
    BY <1>1, <1>3, <2>1, ArchiveAssumption
       DEF StoreEvent, SrcPut, SrcRemove, TypeOK, Content, HeadFirst, Running
  <2>2. ASSUME NEW h \in Hash, DstPut(h) PROVE AInv'
    BY <1>1, <1>3, <2>2, ArchiveAssumption
       DEF StoreEvent, DstPut, TypeOK, Content, HeadFirst, Running
  <2>3. ASSUME NEW h \in Hash, SrcDamage(h) PROVE AInv'
    BY <1>1, <1>2, <1>3, <2>3, ArchiveAssumption
       DEF StoreEvent, SrcDamage, TypeOK, Content, HeadFirst, Running
  <2>4. ASSUME NEW h \in Hash, DstLose(h) PROVE AInv'
    BY <1>1, <1>2, <1>3, <2>4, ArchiveAssumption
       DEF StoreEvent, DstLose, TypeOK, Content, HeadFirst, Running
  <2>5. ASSUME NEW h \in Hash, DstDamage(h) PROVE AInv'
    BY <1>1, <1>2, <1>3, <2>5, ArchiveAssumption
       DEF StoreEvent, DstDamage, TypeOK, Content, HeadFirst, Running
  <2> QED
    BY <1>3, <2>1, <2>2, <2>3, <2>4, <2>5 DEF StoreEvent
<1>4. ASSUME NEW n \in Nat, n <= Len(file), file' = SubSeq(file, 1, n)
      PROVE  file' \in Seq(Cell) /\ (file' # <<>> => file'[1].tag = "head")
    BY <1>4 DEF TypeOK, HeadFirst
<1>5. CASE FileCut
  <2>1. CASE \E n \in 0..Len(file) - 1 : file' = SubSeq(file, 1, n)
    <3>1. file' \in Seq(Cell) /\ (file' # <<>> => file'[1].tag = "head")
      BY <2>1, <1>4 DEF TypeOK
    <3> QED
      BY <1>1, <1>5, <3>1 DEF FileCut, TypeOK, HeadFirst, Running
  <2>2. CASE file # <<>> /\ file' = Append(file, [tag |-> "extra"])
    <3>1. [tag |-> "extra"] \in Cell
      BY DEF Cell
    <3>2. file' \in Seq(Cell) /\ file'[1] = file[1]
      BY <2>2, <3>1 DEF TypeOK
    <3> QED
      BY <1>1, <1>5, <2>2, <3>2 DEF FileCut, TypeOK, HeadFirst, Running
  <2> QED
    BY <1>5, <2>1, <2>2 DEF FileCut
<1>6. CASE FileRot
  <2>1. ASSUME NEW i \in DOMAIN file, file[i].tag # "head", NEW c \in Cell,
               file' = [file EXCEPT ![i] = c]
        PROVE  AInv'
    <3>1. file' \in Seq(Cell) /\ (file' # <<>> => file # <<>> /\ file'[1] = file[1])
      BY <2>1 DEF TypeOK, HeadFirst
    <3> QED
      BY <1>1, <1>6, <3>1 DEF FileRot, TypeOK, HeadFirst, Running
  <2>2. ASSUME NEW i \in DOMAIN file, file[i].tag = "hash",
               NEW h \in Hash \cup {Absent}, file' = [file EXCEPT ![i] = HashCell(h)]
        PROVE  AInv'
    BY <2>1, <2>2 DEF HashCell, Cell
  <2>3. ASSUME NEW i \in DOMAIN file, file[i].tag = "len",
               NEW n \in 0..MaxBody + 1, file' = [file EXCEPT ![i].len = n]
        PROVE  AInv'
    <3>1. file[i] \in Cell
      BY DEF TypeOK
    <3>2. [file[i] EXCEPT !.len = n] \in Cell
      BY <2>3, <3>1, ArchiveAssumption DEF Cell
    <3> QED
      BY <2>1, <2>3, <3>2
  <2>4. ASSUME NEW i \in DOMAIN file, file[i].tag = "byte", file' = [file EXCEPT ![i].byte = 0]
        PROVE  AInv'
    <3>1. file[i] \in Cell
      BY DEF TypeOK
    <3>2. [file[i] EXCEPT !.byte = 0] \in Cell
      BY <2>4, <3>1 DEF Cell
    <3> QED
      BY <2>1, <2>4, <3>2
  <2> QED
    BY <1>6, <2>2, <2>3, <2>4, ArchiveAssumption DEF FileRot
<1>7. CASE Fault
  <2>1. file' \in Seq(Cell) /\ (file' # <<>> => file'[1].tag = "head")
    BY <1>7, <1>4 DEF Fault, TypeOK, HeadFirst
  <2>2. call' \in CallType /\ call'.pc = "err"
    BY <1>7 DEF Fault, TypeOK, CallType, Pc
  <2> QED
    BY <1>1, <1>7, <2>1, <2>2 DEF Fault, TypeOK, HeadFirst, Running
<1> QED
    BY <1>3, <1>5, <1>6, <1>7 DEF Event

\* Type correctness, in one step.
LEMMA NextAInv == ASSUME AInv, [Next]_vars PROVE AInv'
<1>1. CASE UNCHANGED vars
    BY <1>1 DEF vars, AInv, TypeOK, IdleShape, HeadFirst, Running
<1> QED
    BY <1>1, CreateAInv, ReadAInv, CheckAInv, EventAInv DEF Next

\* create_archive and the readers stay the call they are.
LEMMA CreateOp == ASSUME AInv, Create PROVE call'.op = "create"
<1> USE DEF AInv, TypeOK, CallType, Running
<1>1. CASE StartCreate
    BY <1>1 DEF StartCreate, IdleCall
<1>2. CASE EndCollect \/ WriteHead
    BY <1>2 DEF EndCollect, WriteHead, Remaining
<1>3. ASSUME NEW h \in Hash, Collect(h) PROVE call'.op = "create"
    BY <1>3 DEF Collect, Collected, Goto
<1>4. ASSUME NEW h \in Hash, Measure(h) \/ Verify(h) PROVE call'.op = "create"
    BY <1>4 DEF Measure, Verify, Goto
<1>5. ASSUME NEW h \in Hash, WriteRecord(h) PROVE call'.op = "create"
    BY <1>5 DEF WriteRecord, Remaining, Goto
<1> QED
    BY <1>1, <1>2, <1>3, <1>4, <1>5 DEF Create

\* What calls other than verify_all do leaves it alone.
LEMMA ScanOther ==
    ASSUME AInv, ScanInv, Create \/ Read \/ StartVerifyReachable \/ Return
                          \/ FileCut \/ FileRot \/ (\E h \in Hash : WalkBlob(h))
    PROVE  ScanInv'
<1> USE DEF AInv, TypeOK, CallType, IdleShape, ScanInv, Running
<1>1. CASE Create
    BY <1>1, CreateOp
<1>2. CASE Read
  <2>1. CASE StartRead("extract") \/ StartRead("list")
    BY <2>1, IdleCallTyped DEF StartRead
  <2>2. CASE ReadHead \/ ReadRecord \/ EndRead
    <3>1. call.op # "verify_all"
      BY <2>2 DEF ReadHead, ReadRecord, EndRead
    <3>2. call'.op = call.op
      BY <2>2 DEF ReadHead, ReadRecord, EndRead, Goto, Advanced
    <3> QED
      BY <3>1, <3>2
  <2> QED
    BY <1>2, <2>1, <2>2 DEF Read
<1>3. CASE StartVerifyReachable \/ Return
  <2>1. CASE StartVerifyReachable
    BY <2>1, IdleCallTyped DEF StartVerifyReachable
  <2>2. CASE Return
    BY <2>2 DEF Return, IdleCall
  <2> QED
    BY <1>3, <2>1, <2>2
<1>4. CASE FileCut \/ FileRot
    BY <1>4 DEF FileCut, FileRot
<1>5. ASSUME NEW h \in Hash, WalkBlob(h) PROVE ScanInv'
    BY <1>5 DEF WalkBlob, Collected, Goto
<1> QED
    BY <1>1, <1>2, <1>3, <1>4, <1>5

\* The damaged blobs are reported or still to come, at every step.
LEMMA NextScanInv == ASSUME AInv, ScanInv, [Next]_vars PROVE ScanInv'
<1>1. CASE UNCHANGED vars
    BY <1>1 DEF vars, ScanInv, Damaged
<1>2. CASE StartVerifyAll
    BY <1>2 DEF StartVerifyAll, IdleCall, ScanInv, Damaged
<1>3. ASSUME NEW h \in Hash, ScanBlob(h) PROVE ScanInv'
  <2> USE <1>3 DEF ScanBlob, Running, AInv, TypeOK, CallType
  <2>1. CASE dst[h] = Absent
    BY <2>1 DEF Goto, ScanInv, First
  <2>2. CASE dst[h] # Absent
    <3>1. call' = [call EXCEPT !.todo = @ \ {h},
                   !.mismatches = IF dst[h] = Bytes[h] THEN @ ELSE @ \cup {h}]
      BY <2>2
    <3>2. h \in Damaged(dst) <=> dst[h] # Bytes[h]
      BY <2>2 DEF Damaged
    <3> QED
      BY <3>1, <3>2 DEF ScanInv, Damaged
  <2> QED
    BY <2>1, <2>2
<1>4. CASE EndVerify
    BY <1>4 DEF EndVerify, Goto, Running, AInv, TypeOK, CallType, ScanInv, Damaged
<1>5. CASE Fault
    BY <1>5 DEF Fault, AInv, TypeOK, CallType, ScanInv
<1>6. ASSUME NEW h \in Hash, SrcPut(h) \/ SrcRemove(h) \/ SrcDamage(h) PROVE ScanInv'
    BY <1>6 DEF SrcPut, SrcRemove, SrcDamage, Hurt, AInv, TypeOK, CallType, ScanInv
<1>7. ASSUME NEW h \in Hash, DstPut(h) PROVE ScanInv'
  <2>1. Damaged(dst)' = Damaged(dst) /\ call' = call
    BY <1>7 DEF DstPut, Damaged, AInv, TypeOK
  <2>2. \A g \in Hash : dst[g] # Absent => dst'[g] = dst[g]
    BY <1>7 DEF DstPut, AInv, TypeOK
  <2> QED
    BY <2>1, <2>2 DEF ScanInv, AInv, TypeOK, CallType
<1>8. ASSUME NEW h \in Hash, DstLose(h) \/ DstDamage(h) PROVE ScanInv'
  <2>1. CASE call.op = "verify_all"
    <3>1. call.pc # "idle"
      BY <2>1 DEF ScanInv
    <3>2. Hurt(h)
      BY <1>8 DEF DstLose, DstDamage
    <3>3. call' = [call EXCEPT !.hurt = @ \cup {h}]
      BY <3>1, <3>2 DEF Hurt
    <3> QED
      BY <3>3 DEF ScanInv, AInv, TypeOK, CallType
  <2>2. CASE call.op # "verify_all"
    BY <1>8, <2>2 DEF DstLose, DstDamage, Hurt, AInv, TypeOK, CallType, ScanInv
  <2> QED
    BY <2>1, <2>2
<1> QED
    BY <1>1, <1>2, <1>3, <1>4, <1>5, <1>6, <1>7, <1>8, ScanOther
       DEF Next, CheckStore, Event, StoreEvent

\* What calls other than verify_reachable do leaves it alone.
LEMMA WalkOther ==
    ASSUME AInv, WalkInv, Create \/ Read \/ StartVerifyAll \/ Return \/ FileCut \/ FileRot
                          \/ Fault \/ (\E h \in Hash : ScanBlob(h))
    PROVE  WalkInv'
<1> USE DEF AInv, TypeOK, CallType, IdleShape, WalkInv, Running
<1>1. CASE Create
    BY <1>1, CreateOp
<1>2. CASE Read
  <2>1. CASE StartRead("extract") \/ StartRead("list")
    BY <2>1, IdleCallTyped DEF StartRead
  <2>2. CASE ReadHead \/ ReadRecord \/ EndRead
    <3>1. call.op # "verify_reachable"
      BY <2>2 DEF ReadHead, ReadRecord, EndRead
    <3>2. call'.op = call.op
      BY <2>2 DEF ReadHead, ReadRecord, EndRead, Goto, Advanced
    <3> QED
      BY <3>1, <3>2
  <2> QED
    BY <1>2, <2>1, <2>2 DEF Read
<1>3. CASE StartVerifyAll
    BY <1>3, IdleCallTyped DEF StartVerifyAll
<1>4. CASE Return
    BY <1>4 DEF Return, IdleCall
<1>5. CASE FileCut \/ FileRot
    BY <1>5 DEF FileCut, FileRot
<1>6. CASE Fault
    BY <1>6 DEF Fault
<1>7. ASSUME NEW h \in Hash, ScanBlob(h) PROVE WalkInv'
    BY <1>7 DEF ScanBlob, Goto
<1> QED
    BY <1>1, <1>2, <1>3, <1>4, <1>5, <1>6, <1>7

\* A blob verify_reachable has met is reported, or intact with its references
\* met or queued, at every step.
LEMMA NextWalkInv == ASSUME AInv, WalkInv, [Next]_vars PROVE WalkInv'
<1>1. CASE UNCHANGED vars
    BY <1>1 DEF vars, WalkInv, Damaged
<1>2. CASE StartVerifyReachable
    BY <1>2 DEF StartVerifyReachable, IdleCall, WalkInv, Damaged
<1>3. ASSUME NEW h \in Hash, WalkBlob(h) PROVE WalkInv'
  <2> USE <1>3 DEF WalkBlob, Running, AInv, TypeOK, CallType
  <2>0. Damaged(dst)' = Damaged(dst)
    BY DEF Damaged
  <2>1. CASE dst[h] = Absent
    <3>1. Absent # Bytes[h]
      BY ArchiveAssumption
    <3>2. call' = [call EXCEPT !.queue = @ \ {h}, !.missing = @ \cup {h}]
      BY <2>1, <3>1
    <3> QED
      BY ONLY <2>0, <3>2, <1>3, AInv, WalkInv
         DEF WalkInv, WalkBlob, Running, AInv, TypeOK, CallType
  <2>2. CASE dst[h] \notin {Absent, Bytes[h]}
    <3>1. h \in Damaged(dst)
      BY <2>2 DEF Damaged
    <3>2. call' = [call EXCEPT !.queue = @ \ {h}, !.mismatches = @ \cup {h}]
      BY <2>2
    <3> QED
      BY ONLY <2>0, <3>1, <3>2, <1>3, AInv, WalkInv
         DEF WalkInv, WalkBlob, Running, AInv, TypeOK, CallType
  <2>3. CASE dst[h] = Bytes[h]
    <3>1. dst[h] # Absent
      BY <2>3, ArchiveAssumption
    <3>2. CASE Collected(h, Refs[h])
      <4>1. Refs[h] \in SUBSET Hash
        BY ArchiveAssumption
      <4> QED
        BY <2>0, <2>3, <3>2, <4>1 DEF WalkInv, Collected
    <3>3. CASE Goto("err")
      BY <2>0, <3>3 DEF WalkInv, Goto
    <3> QED
      BY <2>3, <3>1, <3>2, <3>3
  <2> QED
    BY <2>1, <2>2, <2>3
<1>4. CASE EndVerify
    BY <1>4 DEF EndVerify, Goto, Running, AInv, TypeOK, CallType, WalkInv, Damaged
<1>6. ASSUME NEW h \in Hash, SrcPut(h) \/ SrcRemove(h) \/ SrcDamage(h) PROVE WalkInv'
    BY <1>6 DEF SrcPut, SrcRemove, SrcDamage, Hurt, AInv, TypeOK, CallType, WalkInv
<1>7. ASSUME NEW h \in Hash, DstPut(h) PROVE WalkInv'
  <2>1. Damaged(dst)' = Damaged(dst) /\ call' = call
    BY <1>7 DEF DstPut, Damaged, AInv, TypeOK
  <2>2. \A g \in Hash : dst[g] # Absent => dst'[g] = dst[g]
    BY <1>7 DEF DstPut, AInv, TypeOK
  <2>3. \A g \in Hash : dst[g] = Bytes[g] => dst'[g] = Bytes[g]
    BY <2>2, ArchiveAssumption
  <2> QED
    BY <2>1, <2>3 DEF WalkInv, AInv, TypeOK, CallType
<1>8. ASSUME NEW h \in Hash, DstLose(h) \/ DstDamage(h) PROVE WalkInv'
  <2>1. CASE call.op = "verify_reachable" /\ call.pc # "err"
    <3>1. call.pc # "idle"
      BY <2>1 DEF WalkInv
    <3>2. Hurt(h)
      BY <1>8 DEF DstLose, DstDamage
    <3>3. call' = [call EXCEPT !.hurt = @ \cup {h}]
      BY <3>1, <3>2 DEF Hurt
    <3> QED
      BY <3>3 DEF WalkInv, AInv, TypeOK, CallType
  <2>2. CASE ~(call.op = "verify_reachable" /\ call.pc # "err")
    BY <1>8, <2>2 DEF DstLose, DstDamage, Hurt, AInv, TypeOK, CallType, WalkInv
  <2> QED
    BY <2>1, <2>2
<1> QED
    BY <1>1, <1>2, <1>3, <1>4, <1>6, <1>7, <1>8, WalkOther
       DEF Next, CheckStore, Event, StoreEvent

\* The steps of create_archive itself: a blob that is copied was intact all
\* the time, because nobody replaces a damaged one.
LEMMA CreateCreateInv == ASSUME AInv, CreateInv, Create PROVE CreateInv'
<1> USE DEF AInv, TypeOK, CallType
<1>0. Damaged(src)' = Damaged(src) /\ src' = src
    BY DEF Create, StartCreate, EndCollect, WriteHead, Collect, Measure, Verify, WriteRecord, Damaged
<1>1. CASE StartCreate
    BY <1>0, <1>1 DEF StartCreate, IdleCall, CreateInv, Damaged, Measured
<1>2. CASE EndCollect
    BY <1>0, <1>2 DEF EndCollect, Running, CreateInv, Measured
<1>3. CASE WriteHead
    BY <1>0, <1>3 DEF WriteHead, Remaining, Running, CreateInv, Measured
<1>4. ASSUME NEW h \in Hash, Collect(h) PROVE CreateInv'
  <2>1. CASE Goto("err")
    BY <2>1 DEF Goto, CreateInv
  <2>2. CASE ~Goto("err")
    <3>1. PICK C \in Decodes(src[h]) : Collected(h, C) /\ src[h] # Absent
      BY <1>4, <2>2 DEF Collect
    <3>2. C \in SUBSET Hash
      BY DecodesTyped
    <3>3. h \notin call.hurt => C = Refs[h]
      <4>1. SUFFICES ASSUME h \notin call.hurt PROVE src[h] = Bytes[h]
        BY DecodesIntact
      <4> QED
        BY <1>4, <3>1, <4>1 DEF CreateInv, Collect, Running, Damaged
    <3> QED
      BY <1>0, <1>4, <3>1, <3>2, <3>3 DEF Collect, Collected, Running, CreateInv, Measured
  <2> QED
    BY <2>1, <2>2
<1>5. ASSUME NEW h \in Hash, Measure(h) PROVE CreateInv'
  <2>1. CASE Goto("err")
    BY <2>1 DEF Goto, CreateInv
  <2>2. CASE src[h] # Absent /\ call' = [call EXCEPT !.pc = "verify", !.lens[h] = Len(src[h])]
    <3>1. h \notin call.hurt => src[h] = Bytes[h]
      BY <1>5, <2>2 DEF Measure, Running, CreateInv, Damaged
    <3>2. \A g \in call.todo : First(g)' => g = h
      <4>1. \A g \in call.todo : First(g)' => g <= h /\ h <= g
        BY <1>5, <2>2 DEF Measure, First
      <4> QED
        BY <4>1, ArchiveAssumption
    <3>3. call'.todo = call.todo /\ call'.seen = call.seen /\ call'.hurt = call.hurt
          /\ call'.queue = call.queue /\ call'.op = call.op /\ call'.pc = "verify"
          /\ call'.lens = [call.lens EXCEPT ![h] = Len(src[h])]
      BY <2>2
    <3> QED
      BY <1>0, <1>5, <3>1, <3>2, <3>3 DEF Measure, Running, CreateInv, Measured
  <2> QED
    BY <1>5, <2>1, <2>2 DEF Measure
<1>6. ASSUME NEW h \in Hash, Verify(h) PROVE CreateInv'
  <2>1. CASE Goto("err")
    BY <2>1 DEF Goto, CreateInv
  <2>2. CASE call' = [call EXCEPT !.pc = "measure", !.todo = @ \ {h}, !.remaining = @ + call.lens[h]]
    <3>1. call'.todo = call.todo \ {h} /\ call'.seen = call.seen /\ call'.hurt = call.hurt
          /\ call'.queue = call.queue /\ call'.op = call.op /\ call'.pc = "measure"
          /\ call'.lens = call.lens
      BY <2>2
    <3>2. call.op = "create" /\ call.pc = "verify" /\ First(h)
      BY <1>6 DEF Verify, Running
    <3>3. \A g \in call.seen : Measured(g)' => Measured(g)
      BY <3>1, <3>2 DEF Measured
    <3> QED
      BY <1>0, <3>1, <3>2, <3>3 DEF CreateInv
  <2> QED
    BY <1>6, <2>1, <2>2 DEF Verify
<1>7. ASSUME NEW h \in Hash, WriteRecord(h) PROVE CreateInv'
  <2>1. CASE Goto("err")
    BY <2>1 DEF Goto, CreateInv
  <2>2. CASE src[h] = Bytes[h] /\ Remaining(call.todo \ {h})
    <3>1. call'.todo = call.todo \ {h} /\ call'.seen = call.seen /\ call'.hurt = call.hurt
          /\ call'.queue = call.queue /\ call'.op = call.op /\ call'.lens = call.lens
          /\ call'.pc \in {"write", "ok"} /\ (call'.pc = "ok" => call'.todo = {})
      BY <2>2 DEF Remaining
    <3>2. call.op = "create" /\ call.pc = "write" /\ h \in call.todo
      BY <1>7 DEF WriteRecord, Running, First
    <3>3. h \in call.seen \ call.hurt /\ call.queue = {} /\ \A g \in call.seen : Measured(g)
      BY <2>2, <3>2 DEF CreateInv, Measured
    <3>4. Refs[h] \subseteq call.seen /\ call.lens[h] = Len(Bytes[h])
      BY <3>2, <3>3 DEF CreateInv
    <3> QED
      BY <1>0, <3>1, <3>2, <3>3, <3>4 DEF CreateInv
  <2> QED
    BY <1>7, <2>1, <2>2 DEF WriteRecord
<1> QED
    BY <1>1, <1>2, <1>3, <1>4, <1>5, <1>6, <1>7 DEF Create

\* The other steps, when no damaged blob is replaced during the call.
LEMMA NextCreateInv ==
    ASSUME AInv, CreateInv, Repairs = FALSE, [Next]_vars PROVE CreateInv'
<1> USE DEF AInv, TypeOK, CallType
<1>1. CASE UNCHANGED vars
    BY <1>1 DEF vars, CreateInv, Damaged, Measured, First
<1>2. CASE Read
  <2>1. CASE StartRead("extract") \/ StartRead("list")
    BY <2>1, IdleCallTyped DEF StartRead, CreateInv
  <2>2. CASE ReadHead \/ ReadRecord \/ EndRead
    <3>1. ~(call.op = "create" /\ call.pc # "err")
      BY <2>2 DEF ReadHead, ReadRecord, EndRead, CreateInv
    <3>2. call'.op = call.op /\ call.pc # "err"
      BY <2>2 DEF ReadHead, ReadRecord, EndRead, Goto, Advanced
    <3> QED
      BY <3>1, <3>2 DEF CreateInv
  <2> QED
    BY <1>2, <2>1, <2>2 DEF Read
<1>3. CASE CheckStore
  <2>1. CASE StartVerifyAll \/ StartVerifyReachable
    BY <2>1, IdleCallTyped DEF StartVerifyAll, StartVerifyReachable, CreateInv
  <2>2. CASE EndVerify
    BY <2>2 DEF EndVerify, Goto, Running, CreateInv
  <2>3. ASSUME NEW h \in Hash, ScanBlob(h) PROVE CreateInv'
    BY <2>3 DEF ScanBlob, Goto, Running, CreateInv
  <2>4. ASSUME NEW h \in Hash, WalkBlob(h) PROVE CreateInv'
    BY <2>4 DEF WalkBlob, Collected, Goto, Running, CreateInv
  <2> QED
    BY <1>3, <2>1, <2>2, <2>3, <2>4 DEF CheckStore
<1>4. CASE Return
    BY <1>4 DEF Return, IdleCall, CreateInv
<1>5. CASE FileCut \/ FileRot
    BY <1>5 DEF FileCut, FileRot, CreateInv
<1>6. CASE Fault
    BY <1>6 DEF Fault, CreateInv
<1>7. ASSUME NEW h \in Hash, SrcPut(h) PROVE CreateInv'
  <2>1. Damaged(src)' = Damaged(src) /\ call' = call
    BY <1>7 DEF SrcPut, Damaged
  <2>2. call.op = "create" => h \notin call.hurt
    BY <1>7 DEF SrcPut
  <2>3. \A g \in Hash \ {h} : src'[g] = src[g]
    BY <1>7 DEF SrcPut
  <2> QED
    BY <2>1, <2>2, <2>3 DEF CreateInv, Measured, First
<1>8. ASSUME NEW h \in Hash, SrcRemove(h) PROVE CreateInv'
  <2>1. Damaged(src)' \subseteq Damaged(src) /\ call' = call
    BY <1>8 DEF SrcRemove, Damaged
  <2>2. \A g \in Hash : src'[g] = src[g] \/ src'[g] # Bytes[g]
    <3>1. \A g \in Hash : Absent # Bytes[g]
      BY ArchiveAssumption
    <3> QED
      BY <1>8, <3>1 DEF SrcRemove
  <2> QED
    BY <2>1, <2>2 DEF CreateInv, Measured, First
<1>9. ASSUME NEW h \in Hash, SrcDamage(h) PROVE CreateInv'
  <2>1. CASE call.op = "create" /\ call.pc # "err"
    <3>1. call' = [call EXCEPT !.hurt = @ \cup {h}]
      BY <1>9, <2>1 DEF SrcDamage, Hurt, CreateInv
    <3>2. src'[h] # Bytes[h] /\ \A g \in Hash \ {h} : src'[g] = src[g]
      BY <1>9 DEF SrcDamage
    <3>3. Damaged(src)' \subseteq Damaged(src) \cup {h}
      BY <3>2 DEF Damaged
    <3> QED
      BY <2>1, <3>1, <3>2, <3>3 DEF CreateInv, Measured, First
  <2>2. CASE ~(call.op = "create" /\ call.pc # "err")
    BY <1>9, <2>2 DEF SrcDamage, Hurt, CreateInv
  <2> QED
    BY <2>1, <2>2
<1>10. ASSUME NEW h \in Hash, DstPut(h) \/ DstLose(h) \/ DstDamage(h) PROVE CreateInv'
    BY <1>10 DEF DstPut, DstLose, DstDamage, Hurt, CreateInv
<1> QED
    BY <1>1, <1>2, <1>3, <1>4, <1>5, <1>6, <1>7, <1>8, <1>9, <1>10, CreateCreateInv
       DEF Next, Event, StoreEvent

-----------------------------------------------------------------------------
(* The layout of an archive. *)

\* Sets of hashes and of octets are finite.
LEMMA HashesFinite ==
    ASSUME NEW S \in SUBSET Hash
    PROVE  IsFiniteSet(S) /\ Cardinality(S) \in Nat
BY ArchiveAssumption, FS_Subset, FS_CardinalityType

LEMMA OctetsFinite ==
    ASSUME NEW S \in SUBSET Hash
    PROVE  IsFiniteSet(Octets(S)) /\ Cardinality(Octets(S)) \in Nat
<1>1. IsFiniteSet(1..MaxBody)
    BY ArchiveAssumption, FS_Interval
<1>2. IsFiniteSet(S \X (1..MaxBody))
    BY <1>1, HashesFinite, FS_Product
<1>3. Octets(S) \in SUBSET (S \X (1..MaxBody))
    BY DEF Octets
<1> QED
    BY <1>2, <1>3, FS_Subset, FS_CardinalityType

LEMMA SizeNat == ASSUME NEW S \in SUBSET Hash PROVE Size(S) \in Nat
BY HashesFinite, OctetsFinite DEF Size

LEMMA BytesTyped ==
    ASSUME NEW h \in Hash
    PROVE  /\ Bytes[h] \in Seq(Nat) /\ Len(Bytes[h]) \in Nat /\ DOMAIN Bytes[h] = 1..Len(Bytes[h])
           /\ Bytes[h] # Absent /\ Len(Bytes[h]) <= MaxBody /\ MaxBody \in Nat /\ h \in Nat
BY ArchiveAssumption

\* A blob has as many octets as bytes.
LEMMA OctetsOne ==
    ASSUME NEW h \in Hash
    PROVE  Cardinality(Octets({h})) = Len(Bytes[h])
<1> DEFINE n == Len(Bytes[h])
<1>1. n \in Nat /\ n <= MaxBody /\ MaxBody \in Nat
    BY BytesTyped
<1> HIDE DEF n
<1>2. Octets({h}) = {h} \X (1..n)
    <2>1. ASSUME NEW p \in {h} \X (1..MaxBody) PROVE p[2] <= Len(Bytes[p[1]]) <=> p[2] \in 1..n
      BY <1>1 DEF n
    <2>2. {h} \X (1..n) \subseteq {h} \X (1..MaxBody)
      BY <1>1
    <2> QED
      BY <2>1, <2>2 DEF Octets
<1>3. Cardinality({h}) = 1 /\ IsFiniteSet({h})
    BY FS_Singleton
<1>4. Cardinality(1..n) = n /\ IsFiniteSet(1..n)
  <2>1. IsFiniteSet(1..n) /\ Cardinality(1..n) = IF 1 > n THEN 0 ELSE n - 1 + 1
    BY <1>1, FS_Interval
  <2> QED
    BY <1>1, <2>1
<1>5. Cardinality({h} \X (1..n)) = 1 * n
  <2>1. Cardinality({h} \X (1..n)) = Cardinality({h}) * Cardinality(1..n)
    BY <1>3, <1>4, FS_Product
  <2> QED
    BY <1>3, <1>4, <2>1, Zenon
<1>6. 1 * n = n
    BY <1>1
<1> QED
    BY <1>2, <1>5, <1>6 DEF n

\* One blob more.
LEMMA OneMore ==
    ASSUME NEW S \in SUBSET Hash, NEW h \in Hash \ S
    PROVE  /\ Cardinality(S \cup {h}) = Cardinality(S) + 1
           /\ Cardinality(Octets(S \cup {h})) = Cardinality(Octets(S)) + Len(Bytes[h])
           /\ Size(S \cup {h}) = Size(S) + 2 + Len(Bytes[h])
<1>1. Cardinality(S \cup {h}) = Cardinality(S) + 1
    BY HashesFinite, FS_AddElement
<1>2. Octets(S \cup {h}) = Octets(S) \cup Octets({h})
    BY DEF Octets
<1>3. Octets(S) \cap Octets({h}) = {}
    BY DEF Octets
<1>4. /\ IsFiniteSet(Octets(S)) /\ IsFiniteSet(Octets({h}))
      /\ Cardinality(Octets(S)) \in Nat /\ Cardinality(S) \in Nat /\ Len(Bytes[h]) \in Nat
    BY OctetsFinite, HashesFinite, BytesTyped
<1>5. Cardinality(Octets(S \cup {h})) = Cardinality(Octets(S)) + Len(Bytes[h])
    <2>1. Cardinality(Octets(S) \cap Octets({h})) = 0
      BY <1>3, FS_EmptySet
    <2>2. Cardinality(Octets(S) \cup Octets({h})) =
              Cardinality(Octets(S)) + Cardinality(Octets({h})) - Cardinality(Octets(S) \cap Octets({h}))
      BY <1>4, FS_Union
    <2>3. Cardinality(Octets({h})) = Len(Bytes[h])
      BY OctetsOne
    <2>4. Cardinality(Octets(S) \cup Octets({h})) = Cardinality(Octets(S)) + Len(Bytes[h]) - 0
      BY <2>1, <2>2, <2>3, Zenon
    <2>5. Cardinality(Octets(S)) + Len(Bytes[h]) - 0 = Cardinality(Octets(S)) + Len(Bytes[h])
      BY <1>4
    <2> QED
      BY <1>2, <2>4, <2>5, Zenon
<1> QED
    BY <1>1, <1>4, <1>5, SMTT(40) DEF Size

\* The size grows with the set.
LEMMA SizeMono ==
    ASSUME NEW S \in SUBSET Hash, NEW T \in SUBSET S
    PROVE  Size(T) <= Size(S) /\ Size(T) \in Nat /\ Size(S) \in Nat
<1>1. Cardinality(T) <= Cardinality(S)
    BY HashesFinite, FS_Subset
<1>2. Octets(T) \in SUBSET Octets(S)
    BY DEF Octets
<1>3. Cardinality(Octets(T)) <= Cardinality(Octets(S))
    BY <1>2, OctetsFinite, FS_Subset
<1> QED
    BY <1>1, <1>3, HashesFinite, OctetsFinite DEF Size

LEMMA LowerFacts ==
    ASSUME NEW S \in SUBSET Hash, NEW h \in Hash
    PROVE  /\ Lower(h, S) \in SUBSET Hash /\ Lower(h, S) \in SUBSET S
           /\ h \in Hash \ Lower(h, S)
<1>1. ~(h < h)
    BY ArchiveAssumption
<1>2. Lower(h, S) \subseteq S /\ h \notin Lower(h, S)
    BY <1>1 DEF Lower
<1> QED
    BY <1>2

\* Records follow one another: the record of a larger hash begins after the
\* record of a smaller one has ended, and all of them end with the file.
LEMMA AtNat == ASSUME NEW S \in SUBSET Hash, NEW h \in S PROVE At(h, S) \in Nat /\ At(h, S) >= 3
<1>1. Lower(h, S) \in SUBSET Hash
    BY LowerFacts
<1> QED
    BY <1>1, SizeNat DEF At

LEMMA AtNext ==
    ASSUME NEW S \in SUBSET Hash, NEW g \in S, NEW h \in S, g < h
    PROVE  At(g, S) + 2 + Len(Bytes[g]) <= At(h, S)
<1>1. g \in Nat /\ h \in Nat /\ \A x \in S : x \in Nat
    BY ArchiveAssumption
<1>2. Lower(g, S) \in SUBSET Hash /\ Lower(h, S) \in SUBSET Hash /\ g \in Hash \ Lower(g, S)
    BY LowerFacts
<1>3. Lower(g, S) \cup {g} \in SUBSET Lower(h, S)
  <2>1. \A x \in S : x < g => x < h
    BY <1>1
  <2>2. Lower(g, S) \subseteq Lower(h, S) /\ g \in Lower(h, S)
    BY <2>1 DEF Lower
  <2> QED
    BY <2>2
<1>4. Size(Lower(g, S) \cup {g}) = Size(Lower(g, S)) + 2 + Len(Bytes[g])
    BY <1>2, OneMore
<1>5. Size(Lower(g, S) \cup {g}) <= Size(Lower(h, S))
    BY <1>2, <1>3, SizeMono
<1>6. Size(Lower(g, S)) \in Nat /\ Size(Lower(h, S)) \in Nat /\ Len(Bytes[g]) \in Nat
    BY <1>2, SizeNat, BytesTyped
<1> QED
    BY <1>4, <1>5, <1>6 DEF At

LEMMA ReachableHashes == Reachable \in SUBSET Hash
BY DEF Reachable

-----------------------------------------------------------------------------
(* What create_archive writes. *)

\* What the roots reach is closed, and the smallest such set.
LEMMA ReachableClosed == Closed(Reachable)
<1>1. Roots \subseteq Reachable
    BY ArchiveAssumption DEF Reachable, Closed
<1>2. ASSUME NEW h \in Reachable, NEW g \in Refs[h] PROVE g \in Reachable
  <2>1. g \in Hash /\ h \in Hash
    BY ArchiveAssumption DEF Reachable
  <2>2. ASSUME NEW S \in SUBSET Hash, Closed(S) PROVE g \in S
    BY <2>2 DEF Reachable, Closed
  <2> QED
    BY <2>1, <2>2 DEF Reachable
<1> QED
    BY <1>1, <1>2 DEF Closed

LEMMA ReachableLeast ==
    ASSUME NEW S \in SUBSET Hash, Closed(S) PROVE Reachable \subseteq S
BY DEF Reachable

LEMMA NothingSize ==
    Cardinality({}) = 0 /\ Cardinality(Octets({})) = 0 /\ Size({}) = 0
<1>1. Octets({}) = {}
    BY DEF Octets
<1>2. Cardinality({}) = 0
    BY FS_EmptySet
<1> QED
    BY <1>1, <1>2 DEF Size

\* A record appended to a file.
LEMMA AppendedRecord ==
    ASSUME NEW f \in Seq(Cell), NEW a \in Cell, NEW b \in Cell, NEW c \in Seq(Cell),
           NEW g, g = f \o (<<a, b>> \o c)
    PROVE  /\ g \in Seq(Cell) /\ Len(g) = Len(f) + 2 + Len(c) /\ DOMAIN g = 1..Len(g)
           /\ \A i \in 1..Len(f) : g[i] = f[i]
           /\ g[Len(f) + 1] = a /\ g[Len(f) + 2] = b
           /\ \A j \in 1..Len(c) : g[Len(f) + 2 + j] = c[j]
           /\ Len(f) \in Nat /\ Len(c) \in Nat
<1>1. <<a, b>> \in Seq(Cell) /\ Len(<<a, b>>) = 2
    OBVIOUS
<1> DEFINE d == <<a, b>> \o c
<1>2. d \in Seq(Cell) /\ Len(d) = 2 + Len(c) /\ d[1] = a /\ d[2] = b
      /\ \A j \in 1..Len(c) : d[2 + j] = c[j]
    BY <1>1
<1> HIDE DEF d
<1>3. g \in Seq(Cell) /\ Len(g) = Len(f) + Len(d) /\ (\A i \in 1..Len(f) : g[i] = f[i])
      /\ \A j \in 1..Len(d) : g[Len(f) + j] = d[j]
    BY <1>2 DEF d
<1>4. Len(f) \in Nat /\ Len(c) \in Nat
    OBVIOUS
<1>5. g[Len(f) + 1] = a /\ g[Len(f) + 2] = b
    BY <1>2, <1>3, <1>4
<1>6. ASSUME NEW j \in 1..Len(c) PROVE g[Len(f) + 2 + j] = c[j]
  <2>1. 2 + j \in 1..Len(d) /\ Len(f) + (2 + j) = Len(f) + 2 + j
    BY <1>2, <1>4
  <2> QED
    BY <1>2, <1>3, <2>1
<1> QED
    BY <1>2, <1>3, <1>4, <1>5, <1>6

\* The record of h, as it is written: the bytes found may not be those of h.
LEMMA WrittenRecord ==
    ASSUME TypeOK, NEW h \in Hash, file' = file \o RecordCells(h)
    PROVE  LET n == Len(file) IN
           /\ n \in Nat /\ n + 2 <= Len(file') /\ DOMAIN file' = 1..Len(file')
           /\ Len(file') \in Nat /\ DOMAIN file = 1..n
           /\ \A i \in 1..n : file'[i] = file[i]
           /\ file'[n + 1] = HashCell(h) /\ file'[n + 2] = LenCell(call.lens[h])
           /\ \A i \in DOMAIN file' : i > n + 2 => file'[i].tag = "byte"
           /\ src[h] = Bytes[h] =>
                 /\ Len(file') = n + 2 + Len(Bytes[h])
                 /\ \A j \in DOMAIN Bytes[h] : file'[n + 2 + j] = ByteCell(Bytes[h][j])
<1> DEFINE c == IF src[h] = Absent THEN <<>> ELSE ByteCells(src[h])
           n == Len(file)
<1>1. file \in Seq(Cell) /\ HashCell(h) \in Cell /\ LenCell(call.lens[h]) \in Cell
    BY DEF TypeOK, CallType, HashCell, LenCell, Cell
<1>2. c \in Seq(Cell) /\ \A j \in 1..Len(c) : c[j].tag = "byte"
  <2>1. CASE src[h] = Absent
    BY <2>1
  <2>2. CASE src[h] # Absent
    <3>1. src[h] \in Seq(Nat)
      BY <2>2 DEF TypeOK, Content
    <3>2. ByteCells(src[h]) \in [1..Len(src[h]) -> Cell] /\ Len(src[h]) \in Nat
      BY <3>1 DEF ByteCells, ByteCell, Cell
    <3>3. \A j \in 1..Len(src[h]) : ByteCells(src[h])[j].tag = "byte"
      BY <3>1 DEF ByteCells, ByteCell
    <3>4. c = ByteCells(src[h])
      BY <2>2
    <3> HIDE DEF c
    <3>5. c \in Seq(Cell) /\ Len(c) = Len(src[h])
      BY <3>2, <3>4
    <3> QED
      BY <3>3, <3>4, <3>5
  <2> QED
    BY <2>1, <2>2
<1>3. src[h] = Bytes[h] =>
          Len(c) = Len(Bytes[h]) /\ \A j \in DOMAIN Bytes[h] : c[j] = ByteCell(Bytes[h][j])
  <2> SUFFICES ASSUME src[h] = Bytes[h]
               PROVE  Len(c) = Len(Bytes[h]) /\ \A j \in DOMAIN Bytes[h] : c[j] = ByteCell(Bytes[h][j])
    OBVIOUS
  <2>1. Bytes[h] \in Seq(Nat) /\ Bytes[h] # Absent
    BY BytesTyped
  <2>2. c = ByteCells(Bytes[h])
    BY <2>1
  <2>3. DOMAIN c = 1..Len(Bytes[h]) /\ Len(Bytes[h]) \in Nat
    BY <2>1, <2>2 DEF ByteCells
  <2>4. Len(c) = Len(Bytes[h])
    BY <1>2, <2>3
  <2> QED
    BY <2>1, <2>2, <2>4 DEF ByteCells
<1>4. file' = file \o (<<HashCell(h), LenCell(call.lens[h])>> \o c)
    BY DEF RecordCells
<1> HIDE DEF c
<1>5. /\ file' \in Seq(Cell) /\ Len(file') = n + 2 + Len(c) /\ DOMAIN file' = 1..Len(file')
      /\ \A i \in 1..n : file'[i] = file[i]
      /\ file'[n + 1] = HashCell(h) /\ file'[n + 2] = LenCell(call.lens[h])
      /\ \A j \in 1..Len(c) : file'[n + 2 + j] = c[j]
      /\ n \in Nat /\ Len(c) \in Nat
    BY <1>1, <1>2, <1>4, AppendedRecord
<1> HIDE DEF n
<1>6. ASSUME NEW i \in DOMAIN file', i > n + 2 PROVE file'[i].tag = "byte"
  <2>0. i \in 1..(n + 2 + Len(c)) /\ i > n + 2 /\ n \in Nat /\ Len(c) \in Nat
    BY <1>5, <1>6
  <2>1. i - (n + 2) \in 1..Len(c) /\ n + 2 + (i - (n + 2)) = i
    BY <2>0
  <2> QED
    BY <1>2, <1>5, <2>1
<1>7. src[h] = Bytes[h] =>
          /\ Len(file') = n + 2 + Len(Bytes[h])
          /\ \A j \in DOMAIN Bytes[h] : file'[n + 2 + j] = ByteCell(Bytes[h][j])
    BY <1>3, <1>5, BytesTyped
<1>8. DOMAIN file = 1..n /\ n + 2 <= Len(file') /\ Len(file') \in Nat
    BY <1>1, <1>5 DEF n
<1> QED
    BY <1>5, <1>6, <1>7, <1>8 DEF n

\* When h is the next record to be written, its place is the end of the file.
LEMMA WritePlace ==
    ASSUME AInv, CreateInv, MakeInv, Running("create", "write"), NEW h \in Hash, First(h)
    PROVE  /\ h \in Reachable /\ h \in call.todo /\ call.todo \subseteq Reachable
           /\ Lower(h, Reachable) = Reachable \ call.todo
           /\ At(h, Reachable) = Len(file) + 1
           /\ \A g \in Reachable : g < h => At(g, Reachable) + 1 + Len(Bytes[g]) <= Len(file)
           /\ \A g \in Reachable : h < g => Len(file) + 3 <= At(g, Reachable)
<1> USE ReachableHashes
<1>1. /\ call.seen = Reachable
      /\ \A g \in Reachable \ call.todo, x \in call.todo : g < x
      /\ Len(file) = 2 + Size(Reachable \ call.todo)
    BY DEF MakeInv, Running
<1>2. h \in call.todo /\ \A g \in call.todo : h <= g
    BY DEF First
<1>3. call.todo \subseteq Reachable
    BY <1>1 DEF CreateInv, Running
<1>4. \A g \in Reachable : g \in Nat
    BY ArchiveAssumption
<1>5. Lower(h, Reachable) = Reachable \ call.todo
  <2>1. \A g \in Reachable : g < h <=> g \notin call.todo
    BY <1>1, <1>2, <1>3, <1>4
  <2> QED
    BY <2>1 DEF Lower
<1>6. At(h, Reachable) = Len(file) + 1
  <2>1. Size(Reachable \ call.todo) \in Nat
    BY SizeNat
  <2> QED
    BY <1>1, <1>5, <2>1 DEF At
<1>7. Len(file) \in Nat
    BY DEF AInv, TypeOK
<1>8. ASSUME NEW g \in Reachable, g < h
      PROVE  At(g, Reachable) + 1 + Len(Bytes[g]) <= Len(file)
  <2>1. At(g, Reachable) + 2 + Len(Bytes[g]) <= At(h, Reachable)
    BY <1>2, <1>3, <1>8, AtNext
  <2>2. At(g, Reachable) \in Nat /\ Len(Bytes[g]) \in Nat
    BY AtNat, BytesTyped
  <2> QED
    BY <1>6, <1>7, <2>1, <2>2
<1>9. ASSUME NEW g \in Reachable, h < g PROVE Len(file) + 3 <= At(g, Reachable)
  <2>1. At(h, Reachable) + 2 + Len(Bytes[h]) <= At(g, Reachable)
    BY <1>2, <1>3, <1>9, AtNext
  <2>2. At(g, Reachable) \in Nat /\ Len(Bytes[h]) \in Nat
    BY AtNat, BytesTyped
  <2>3. ASSUME NEW a \in Nat, NEW b \in Nat, NEW c \in Nat, NEW d \in Nat, a = d + 1, a + 2 + b <= c
        PROVE  d + 3 <= c
    BY <2>3
  <2>4. Len(file) + 1 \in Nat
    BY <1>7
  <2> QED
    BY <1>6, <1>7, <2>1, <2>2, <2>3, <2>4
<1> QED
    BY <1>2, <1>3, <1>5, <1>6, <1>8, <1>9

\* create_archive lists what is reachable or lists a hurt blob, which then
\* does not pass its verification; what it writes is exact.
LEMMA CreateMakeInv == ASSUME AInv, CreateInv, MakeInv, Create PROVE MakeInv'
<1> USE DEF AInv, TypeOK, CallType
<1> USE ReachableHashes
<1>1. CASE StartCreate
  <2>1. Roots \subseteq Reachable
    BY ReachableClosed DEF Closed
  <2>2. call'.pc = "collect" /\ call'.seen = Roots /\ call'.remaining = 0 /\ file' = <<>>
    BY <1>1 DEF StartCreate, IdleCall
  <2> QED
    BY <2>1, <2>2 DEF MakeInv
<1>2. CASE EndCollect
  <2>1. /\ call'.pc = "measure" /\ call'.seen = call.seen /\ call'.todo = call.seen
        /\ call'.hurt = call.hurt /\ call'.remaining = call.remaining /\ file' = file
        /\ call.op = "create" /\ call.pc = "collect"
    BY <1>2 DEF EndCollect, Running
  <2>2. file = <<>> /\ call.remaining = 0 /\ (call.seen \subseteq Reachable \/ call.seen \cap call.hurt # {})
    BY <2>1 DEF MakeInv
  <2>3. call'.seen \ call'.todo = {}
    BY <2>1
  <2>4. call'.remaining = Cardinality(Octets(call'.seen \ call'.todo))
    BY <2>1, <2>2, <2>3, NothingSize
  <2> QED
    BY <2>1, <2>2, <2>3, <2>4 DEF MakeInv
<1>3. CASE WriteHead
  <2>1. /\ call.op = "create" /\ call.pc = "measure" /\ call.todo = {}
        /\ file' = <<HeadCell(Cardinality(call.seen), call.remaining), PinsCell>>
        /\ call'.todo = call.seen /\ call'.seen = call.seen /\ call'.lens = call.lens
        /\ call'.pc \in {"write", "ok"}
    BY <1>3 DEF WriteHead, Running, Remaining
  <2>2. /\ call.seen \subseteq Reachable
        /\ \A h \in call.seen : Refs[h] \subseteq call.seen /\ call.lens[h] = Len(Bytes[h])
        /\ call.remaining = Cardinality(Octets(call.seen))
  <3>1. call.seen \ call.todo = call.seen
      BY <2>1
    <3> QED
      BY <2>1, <3>1 DEF MakeInv
  <2>3. call.seen = Reachable
    <3>1. Closed(call.seen)
      BY <2>1, <2>2 DEF CreateInv, Closed
    <3> QED
      BY <2>2, <3>1, ReachableLeast
  <2>4. Reachable \ call'.todo = {}
    BY <2>1, <2>3
  <2>5. file' = <<Header, PinsCell>>
    BY <2>1, <2>2, <2>3 DEF Header
  <2>6. Len(file') = 2 + Size(Reachable \ call'.todo)
    <3>1. Size(Reachable \ call'.todo) = 0
      BY <2>4, NothingSize
    <3> QED
      BY <2>5, <3>1
  <2> QED
    BY <2>1, <2>2, <2>3, <2>4, <2>5, <2>6 DEF MakeInv
<1>4. ASSUME NEW h \in Hash, Collect(h) PROVE MakeInv'
  <2>0. call.op = "create" /\ call.pc = "collect" /\ h \in call.queue /\ file' = file
    BY <1>4 DEF Collect, Running
  <2>1. CASE Goto("err")
    BY <2>1 DEF Goto, MakeInv
  <2>2. CASE ~Goto("err")
    <3>1. PICK C \in Decodes(src[h]) : Collected(h, C) /\ src[h] # Absent
      BY <1>4, <2>2 DEF Collect
    <3>2. call'.seen = call.seen \cup C /\ call'.hurt = call.hurt /\ call'.pc = "collect"
          /\ call'.remaining = call.remaining
      BY <2>0, <3>1 DEF Collected
    <3>3. h \in call.seen /\ (h \notin call.hurt => src[h] = Bytes[h])
      BY <2>0, <3>1 DEF CreateInv, Damaged
    <3>4. h \notin call.hurt => C = Refs[h]
      BY <3>3, DecodesIntact
    <3>5. \A g \in Reachable : Refs[g] \subseteq Reachable
      BY ReachableClosed DEF Closed
    <3>6. file = <<>> /\ call.remaining = 0
          /\ (call.seen \subseteq Reachable \/ call.seen \cap call.hurt # {})
      BY <2>0 DEF MakeInv
    <3>7. call'.seen \subseteq Reachable \/ call'.seen \cap call'.hurt # {}
      BY <3>2, <3>3, <3>4, <3>5, <3>6
    <3> QED
      BY <2>0, <3>2, <3>6, <3>7 DEF MakeInv
  <2> QED
    BY <2>1, <2>2
<1>5. ASSUME NEW h \in Hash, Measure(h) PROVE MakeInv'
  <2>0. call.op = "create" /\ call.pc = "measure" /\ h \in call.todo /\ file' = file
    BY <1>5 DEF Measure, Running, First
  <2>1. CASE Goto("err")
    BY <2>1 DEF Goto, MakeInv
  <2>2. CASE call' = [call EXCEPT !.pc = "verify", !.lens[h] = Len(src[h])]
    <3>1. /\ call'.todo = call.todo /\ call'.seen = call.seen /\ call'.hurt = call.hurt
          /\ call'.remaining = call.remaining /\ call'.pc = "verify"
          /\ \A g \in Hash \ {h} : call'.lens[g] = call.lens[g]
      BY <2>2
    <3>2. \A g \in call.seen \ call.todo : g \in Hash \ {h}
      BY <2>0
    <3> QED
      BY <2>0, <3>1, <3>2 DEF MakeInv
  <2> QED
    BY <1>5, <2>1, <2>2 DEF Measure
<1>6. ASSUME NEW h \in Hash, Verify(h) PROVE MakeInv'
  <2>0. call.op = "create" /\ call.pc = "verify" /\ First(h) /\ h \in call.todo /\ file' = file
    BY <1>6 DEF Verify, Running, First
  <2>1. CASE Goto("err")
    BY <2>1 DEF Goto, MakeInv
  <2>2. CASE /\ src[h] = Bytes[h]
             /\ call' = [call EXCEPT !.pc = "measure", !.todo = @ \ {h}, !.remaining = @ + call.lens[h]]
    <3>1. /\ call'.todo = call.todo \ {h} /\ call'.seen = call.seen /\ call'.hurt = call.hurt
          /\ call'.remaining = call.remaining + call.lens[h] /\ call'.pc = "measure"
          /\ call'.lens = call.lens
      BY <2>2
    <3>2. h \in call.seen /\ h \notin call.hurt /\ call.queue = {}
      BY <2>0, <2>2 DEF CreateInv
    <3>3. Refs[h] \subseteq call.seen /\ call.lens[h] = Len(Bytes[h])
      BY <2>0, <3>2 DEF CreateInv, Measured
    <3>4. /\ call.seen \subseteq Reachable \/ call.todo \cap call.hurt # {}
          /\ \A g \in call.seen \ call.todo :
                Refs[g] \subseteq call.seen /\ call.lens[g] = Len(Bytes[g])
          /\ call.remaining = Cardinality(Octets(call.seen \ call.todo))
          /\ file = <<>>
      BY <2>0 DEF MakeInv
    <3>5. call'.seen \ call'.todo = (call.seen \ call.todo) \cup {h}
      BY <2>0, <3>1, <3>2
    <3>6. call'.remaining = Cardinality(Octets(call'.seen \ call'.todo))
      <4>1. call.seen \ call.todo \in SUBSET Hash /\ h \in Hash \ (call.seen \ call.todo)
        BY <2>0
      <4>2. Cardinality(Octets((call.seen \ call.todo) \cup {h})) =
                Cardinality(Octets(call.seen \ call.todo)) + Len(Bytes[h])
        BY <4>1, OneMore
      <4> QED
        BY <3>1, <3>3, <3>4, <3>5, <4>2, Zenon
    <3>7. call'.seen \subseteq Reachable \/ call'.todo \cap call'.hurt # {}
      BY <3>1, <3>2, <3>4
    <3> QED
      BY <2>0, <3>1, <3>3, <3>4, <3>5, <3>6, <3>7 DEF MakeInv
  <2> QED
    BY <1>6, <2>1, <2>2 DEF Verify
<1>7. ASSUME NEW h \in Hash, WriteRecord(h) PROVE MakeInv'
  <2>0. call.op = "create" /\ call.pc = "write" /\ First(h) /\ file' = file \o RecordCells(h)
    BY <1>7 DEF WriteRecord, Running
  <2>1. CASE Goto("err")
    BY <2>1 DEF Goto, MakeInv
  <2>2. CASE src[h] = Bytes[h] /\ Remaining(call.todo \ {h})
    <3>1. /\ call'.todo = call.todo \ {h} /\ call'.seen = call.seen /\ call'.lens = call.lens
          /\ call'.pc \in {"write", "ok"}
      BY <2>2 DEF Remaining
    <3>2. /\ call.seen = Reachable
          /\ \A g \in Reachable : call.lens[g] = Len(Bytes[g])
          /\ \A g \in Reachable \ call.todo, x \in call.todo : g < x
          /\ Len(file) = 2 + Size(Reachable \ call.todo)
          /\ file[1] = Header /\ file[2] = PinsCell
          /\ \A g \in Reachable \ call.todo : RecordAt(file, At(g, Reachable), g)
      BY <2>0 DEF MakeInv
    <3>3. /\ h \in Reachable /\ h \in call.todo /\ call.todo \subseteq Reachable
          /\ Lower(h, Reachable) = Reachable \ call.todo
          /\ At(h, Reachable) = Len(file) + 1
          /\ \A g \in Reachable : g < h => At(g, Reachable) + 1 + Len(Bytes[g]) <= Len(file)
      BY <2>0, WritePlace DEF Running
    <3>4. /\ \A i \in 1..Len(file) : file'[i] = file[i]
          /\ Len(file) \in Nat
          /\ file'[Len(file) + 1] = HashCell(h)
          /\ file'[Len(file) + 2] = LenCell(call.lens[h])
          /\ Len(file') = Len(file) + 2 + Len(Bytes[h])
          /\ \A j \in DOMAIN Bytes[h] : file'[Len(file) + 2 + j] = ByteCell(Bytes[h][j])
      BY <2>0, <2>2, WrittenRecord
    <3>5. Reachable \ call'.todo = (Reachable \ call.todo) \cup {h}
      BY <3>1, <3>3
    <3>6. Len(file') = 2 + Size(Reachable \ call'.todo)
      <4>1. Reachable \ call.todo \in SUBSET Hash /\ h \in Hash \ (Reachable \ call.todo)
        BY <3>3
      <4>2. Size(Reachable \ call'.todo) = Size(Reachable \ call.todo) + 2 + Len(Bytes[h])
        BY <3>5, <4>1, OneMore, ZenonT(40)
      <4>3. Size(Reachable \ call.todo) \in Nat /\ Len(Bytes[h]) \in Nat
        BY <4>1, SizeNat, BytesTyped
      <4>4. Len(file') = (2 + Size(Reachable \ call.todo)) + 2 + Len(Bytes[h])
        BY <3>2, <3>4, Zenon
      <4>5. (2 + Size(Reachable \ call.todo)) + 2 + Len(Bytes[h]) =
                2 + (Size(Reachable \ call.todo) + 2 + Len(Bytes[h]))
        BY ONLY <4>3
      <4> QED
        BY <4>2, <4>4, <4>5, Zenon
    <3>7. \A g \in Reachable \ call'.todo, x \in call'.todo : g < x
      <4>1. ASSUME NEW x \in call'.todo PROVE h < x
        <5>1. x \in call.todo /\ x # h /\ h <= x /\ h \in Nat /\ x \in Nat
          BY <2>0, <3>1, <3>3, <4>1, ArchiveAssumption DEF First
        <5> QED
          BY <5>1
      <4> QED
        BY <3>1, <3>2, <3>5, <4>1
    <3>8. file'[1] = Header /\ file'[2] = PinsCell
      <4>1. Size(Reachable \ call.todo) \in Nat
        BY SizeNat
      <4>2. 1 \in 1..Len(file) /\ 2 \in 1..Len(file)
        BY <3>2, <4>1
      <4> QED
        BY <3>2, <3>4, <4>2
    <3>9. ASSUME NEW g \in Reachable \ call.todo PROVE RecordAt(file', At(g, Reachable), g)
      <4>1. g < h /\ g \in Reachable
        BY <3>2, <3>3
      <4>2. At(g, Reachable) + 1 + Len(Bytes[g]) <= Len(file)
        BY <3>3, <4>1
      <4>3. At(g, Reachable) \in Nat /\ At(g, Reachable) >= 3
            /\ Len(Bytes[g]) \in Nat /\ DOMAIN Bytes[g] = 1..Len(Bytes[g])
        BY AtNat, BytesTyped
      <4>4. RecordAt(file, At(g, Reachable), g)
        BY <3>2
      <4>5. At(g, Reachable) \in 1..Len(file) /\ At(g, Reachable) + 1 \in 1..Len(file)
            /\ \A j \in DOMAIN Bytes[g] : At(g, Reachable) + 1 + j \in 1..Len(file)
        <5>1. Len(file) \in Nat
          BY <3>4
        <5> QED
          BY ONLY <5>1, <4>2, <4>3
      <4> QED
        BY <3>4, <4>4, <4>5 DEF RecordAt
    <3>10. RecordAt(file', At(h, Reachable), h)
      <4>1. At(h, Reachable) + 1 = Len(file) + 2
            /\ \A j \in DOMAIN Bytes[h] : At(h, Reachable) + 1 + j = Len(file) + 2 + j
        BY <3>3, <3>4, BytesTyped
      <4>2. call.lens[h] = Len(Bytes[h])
        BY <3>2, <3>3
      <4> QED
        BY <3>3, <3>4, <4>1, <4>2 DEF RecordAt
    <3>11. \A g \in Reachable \ call'.todo : RecordAt(file', At(g, Reachable), g)
      BY <3>5, <3>9, <3>10
    <3> QED
      BY <3>1, <3>2, <3>6, <3>7, <3>8, <3>11 DEF MakeInv
  <2> QED
    BY <1>7, <2>1, <2>2 DEF WriteRecord
<1> QED
    BY <1>1, <1>2, <1>3, <1>4, <1>5, <1>6, <1>7 DEF Create

\* No other step disturbs it: the file belongs to create_archive until it ends.
LEMMA NextMakeInv == ASSUME AInv, CreateInv, MakeInv, [Next]_vars PROVE MakeInv'
<1> USE DEF AInv, TypeOK, CallType
<1>1. CASE UNCHANGED vars
    BY <1>1 DEF vars, MakeInv
<1>2. CASE Read
  <2>1. CASE StartRead("extract") \/ StartRead("list")
    BY <2>1, IdleCallTyped DEF StartRead, MakeInv
  <2>2. CASE ReadHead \/ ReadRecord \/ EndRead
    <3>1. call.op # "create"
      BY <2>2 DEF ReadHead, ReadRecord, EndRead, CreateInv
    <3>2. call'.op = call.op
      BY <2>2 DEF ReadHead, ReadRecord, EndRead, Goto, Advanced
    <3> QED
      BY <3>1, <3>2 DEF MakeInv
  <2> QED
    BY <1>2, <2>1, <2>2 DEF Read
<1>3. CASE CheckStore
  <2>1. CASE StartVerifyAll \/ StartVerifyReachable
    BY <2>1, IdleCallTyped DEF StartVerifyAll, StartVerifyReachable, MakeInv
  <2>2. CASE EndVerify
    BY <2>2 DEF EndVerify, Goto, Running, MakeInv
  <2>3. ASSUME NEW h \in Hash, ScanBlob(h) PROVE MakeInv'
    BY <2>3 DEF ScanBlob, Goto, Running, MakeInv
  <2>4. ASSUME NEW h \in Hash, WalkBlob(h) PROVE MakeInv'
    BY <2>4 DEF WalkBlob, Collected, Goto, Running, MakeInv
  <2> QED
    BY <1>3, <2>1, <2>2, <2>3, <2>4 DEF CheckStore
<1>4. CASE Return
    BY <1>4 DEF Return, IdleCall, MakeInv
<1>5. CASE FileCut \/ FileRot
  <2>1. call.op = "none" /\ call' = call
    BY <1>5 DEF FileCut, FileRot, IdleShape, IdleCall
  <2> QED
    BY <2>1 DEF MakeInv
<1>6. CASE Fault
  <2>1. call'.pc = "err"
    BY <1>6 DEF Fault
  <2> QED
    BY <2>1 DEF MakeInv
<1>7. ASSUME NEW h \in Hash, SrcPut(h) \/ SrcRemove(h), file' = file PROVE MakeInv'
  <2>1. call' = call
    BY <1>7 DEF SrcPut, SrcRemove
  <2> QED
    BY <1>7, <2>1 DEF MakeInv
<1>8. ASSUME NEW h \in Hash, SrcDamage(h), file' = file PROVE MakeInv'
  <2>1. /\ call.hurt \subseteq call'.hurt /\ call'.op = call.op /\ call'.pc = call.pc
        /\ call'.seen = call.seen /\ call'.todo = call.todo /\ call'.lens = call.lens
        /\ call'.remaining = call.remaining
    BY <1>8 DEF SrcDamage, Hurt
  <2>2. \A S : S \cap call.hurt # {} => S \cap call'.hurt # {}
    BY <2>1
  <2> QED
    BY <1>8, <2>1, <2>2 DEF MakeInv
<1>9. ASSUME NEW h \in Hash, DstPut(h) \/ DstLose(h) \/ DstDamage(h) PROVE MakeInv'
    BY <1>9 DEF DstPut, DstLose, DstDamage, Hurt, MakeInv
<1> QED
    BY <1>1, <1>2, <1>3, <1>4, <1>5, <1>6, <1>7, <1>8, <1>9, CreateMakeInv
       DEF Next, Event, StoreEvent

-----------------------------------------------------------------------------
(* What is left of an archive. *)

\* The end cut off.
LEMMA CutShape ==
    ASSUME TypeOK, FileShape, NEW n \in 0..Len(file), file' = SubSeq(file, 1, n)
    PROVE  FileShape'
<1>1. /\ Len(file) \in Nat /\ DOMAIN file = 1..Len(file)
      /\ DOMAIN file' = 1..n /\ \A i \in 1..n : file'[i] = file[i] /\ i \in DOMAIN file
    BY DEF TypeOK
<1>2. SUFFICES ASSUME file' # <<>> PROVE FileShape'
    BY DEF FileShape
<1>3. file # <<>> /\ 1 \in 1..n
    BY <1>1, <1>2 DEF TypeOK
<1>4. ASSUME NEW h \in Reachable PROVE PlaceShape(h, At(h, Reachable))'
  <2>1. PlaceShape(h, At(h, Reachable))
    BY <1>3 DEF FileShape
  <2> QED
    BY <1>1, <2>1 DEF PlaceShape
<1>5. file'[1] = Header /\ (2 \in DOMAIN file' => file'[2] = PinsCell \/ file'[2].tag = "extra")
    BY <1>1, <1>3 DEF FileShape
<1> QED
    BY <1>4, <1>5 DEF FileShape, Header

\* A stray byte appended.
LEMMA StrayShape ==
    ASSUME TypeOK, FileShape, file # <<>>, file' = Append(file, [tag |-> "extra"])
    PROVE  FileShape'
<1>1. /\ Len(file) \in Nat /\ DOMAIN file = 1..Len(file) /\ 1 \in DOMAIN file
      /\ \A i \in DOMAIN file : file'[i] = file[i]
      /\ \A i \in DOMAIN file' : i \notin DOMAIN file => file'[i].tag = "extra"
    BY DEF TypeOK
<1>2. ASSUME NEW h \in Reachable PROVE PlaceShape(h, At(h, Reachable))'
  <2>1. PlaceShape(h, At(h, Reachable))
    BY DEF FileShape
  <2>2. At(h, Reachable) + 1 \in DOMAIN file => At(h, Reachable) \in DOMAIN file
    <3>1. At(h, Reachable) \in Nat /\ At(h, Reachable) >= 3
      BY ReachableHashes, AtNat
    <3> QED
      BY <1>1, <3>1
  <2> QED
    BY <1>1, <2>1, <2>2 DEF PlaceShape
<1>3. file'[1] = Header /\ (2 \in DOMAIN file' => file'[2] = PinsCell \/ file'[2].tag = "extra")
    BY <1>1 DEF FileShape
<1> QED
    BY <1>2, <1>3 DEF FileShape, Header

\* A field damaged, a hash into one of no blob.
LEMMA RotShape ==
    ASSUME TypeOK, FileShape, NEW k \in DOMAIN file, NEW c, file' = [file EXCEPT ![k] = c],
           c.tag = file[k].tag, file[k].tag \in {"hash", "len", "byte"},
           c.tag = "hash" => c.hash = Absent
    PROVE  FileShape'
<1>1. /\ DOMAIN file' = DOMAIN file /\ file # <<>> /\ file'[k] = c
      /\ \A i \in DOMAIN file : i # k => file'[i] = file[i]
    BY DEF TypeOK
<1>2. \A i \in DOMAIN file : file'[i].tag = file[i].tag
    BY <1>1
<1>3. 1 \in DOMAIN file
    BY <1>1 DEF TypeOK
<1>4. k # 1 /\ (2 \in DOMAIN file /\ k = 2 => file[2].tag = "extra")
    BY <1>1 DEF FileShape, Header, HeadCell, PinsCell
<1>5. ASSUME NEW h \in Reachable PROVE PlaceShape(h, At(h, Reachable))'
  <2>1. PlaceShape(h, At(h, Reachable))
    BY <1>1 DEF FileShape
  <2> QED
    BY <1>1, <1>2, <2>1 DEF PlaceShape
<1>6. file'[1] = Header /\ (2 \in DOMAIN file' => file'[2] = PinsCell \/ file'[2].tag = "extra")
    BY <1>1, <1>3, <1>4 DEF FileShape
<1> QED
    BY <1>5, <1>6 DEF FileShape, Header

\* A record written, or what a failing copy leaves of it.
LEMMA WriteShape ==
    ASSUME AInv, CreateInv, MakeInv, FileShape, NEW h \in Hash, WriteRecord(h)
    PROVE  FileShape'
<1> DEFINE n == Len(file)
<1>0. call.op = "create" /\ call.pc = "write" /\ First(h) /\ file' = file \o RecordCells(h)
    BY DEF WriteRecord, Running
<1>1. /\ n \in Nat /\ n + 2 <= Len(file') /\ DOMAIN file' = 1..Len(file') /\ Len(file') \in Nat
      /\ DOMAIN file = 1..n
      /\ \A i \in 1..n : file'[i] = file[i]
      /\ file'[n + 1] = HashCell(h) /\ file'[n + 2] = LenCell(call.lens[h])
      /\ \A i \in DOMAIN file' : i > n + 2 => file'[i].tag = "byte"
    BY <1>0, WrittenRecord DEF AInv
<1>2. /\ h \in Reachable /\ At(h, Reachable) = n + 1
      /\ \A g \in Reachable : g < h => At(g, Reachable) + 1 + Len(Bytes[g]) <= n
      /\ \A g \in Reachable : h < g => n + 3 <= At(g, Reachable)
    BY <1>0, WritePlace DEF Running
<1>3. file # <<>> /\ file[1] = Header /\ file[2] = PinsCell /\ 1 \in 1..n /\ 2 \in 1..n
  <2>1. Len(file) = 2 + Size(Reachable \ call.todo) /\ file[1] = Header /\ file[2] = PinsCell
    BY <1>0 DEF MakeInv
  <2>2. Size(Reachable \ call.todo) \in Nat
    BY ReachableHashes, SizeNat
  <2>3. Len(file) >= 2
    BY <2>1, <2>2
  <2> QED
    BY <1>1, <2>1, <2>3
<1> HIDE DEF n
<1>4. ASSUME NEW g \in Reachable PROVE PlaceShape(g, At(g, Reachable))'
  <2> DEFINE i == At(g, Reachable)
  <2>0. i \in Nat /\ i >= 3 /\ Len(Bytes[g]) \in Nat /\ DOMAIN Bytes[g] = 1..Len(Bytes[g])
        /\ g \in Nat /\ h \in Nat
    BY ReachableHashes, AtNat, BytesTyped
  <2>1. CASE g < h
    <3>1. PlaceShape(g, i)
      BY <1>3 DEF FileShape
    <3>2. i + 1 + Len(Bytes[g]) <= n
      BY <1>2, <2>1
    <3> HIDE DEF i
    <3>3. i \in 1..n /\ i + 1 \in 1..n /\ \A j \in DOMAIN Bytes[g] : i + 1 + j \in 1..n
      <4>1. ASSUME NEW a \in Nat, a >= 3, NEW m \in Nat, NEW b \in Nat, a + 1 + m <= b
            PROVE  a \in 1..b /\ a + 1 \in 1..b /\ \A j \in 1..m : a + 1 + j \in 1..b
        BY <4>1
      <4>2. n \in Nat
        BY <1>1
      <4> QED
        BY <2>0, <3>2, <4>1, <4>2
    <3>4. PlaceShape(g, i)'
      BY <1>1, <3>1, <3>3 DEF PlaceShape
    <3> QED
      BY <3>4 DEF i
  <2>2. CASE g = h
    <3>1. i = n + 1
      BY <1>2, <2>2
    <3>2. file'[i].tag = "hash" /\ file'[i].hash = g /\ file'[i + 1].tag = "len"
      BY <1>1, <2>2, <3>1 DEF HashCell, LenCell
    <3> HIDE DEF i
    <3>3. \A j \in DOMAIN Bytes[g] : i + 1 + j > n + 2
      BY ONLY <1>1, <2>0, <3>1
    <3>4. PlaceShape(g, i)'
      BY <1>1, <3>2, <3>3 DEF PlaceShape
    <3> QED
      BY <3>4 DEF i
  <2>3. CASE h < g
    <3>1. n + 3 <= i
      BY <1>2, <2>3
    <3> HIDE DEF i
    <3>2. i > n + 2 /\ \A j \in DOMAIN Bytes[g] : i + 1 + j > n + 2
      BY ONLY <1>1, <2>0, <3>1
    <3>3. i \in DOMAIN file' => file'[i].tag # "hash"
      BY <1>1, <3>2
    <3>4. PlaceShape(g, i)'
      BY <1>1, <3>2, <3>3 DEF PlaceShape
    <3> QED
      BY <3>4 DEF i
  <2> QED
    BY <2>0, <2>1, <2>2, <2>3
<1>5. file'[1] = Header /\ file'[2] = PinsCell
    BY <1>1, <1>3
<1> QED
    BY <1>4, <1>5 DEF FileShape, Header

\* The shape of the file survives whatever happens to it.
LEMMA NextFileShape ==
    ASSUME AInv, CreateInv, MakeInv, MakeInv', FileShape, Forge = {}, [Next]_vars
    PROVE  FileShape'
<1> USE DEF AInv
<1>1. ASSUME file' = file PROVE FileShape'
    BY <1>1 DEF FileShape, PlaceShape, Header
<1>2. CASE StartCreate
    BY <1>2 DEF StartCreate, FileShape
<1>3. CASE WriteHead
  <2>1. file' = <<HeadCell(Cardinality(call.seen), call.remaining), PinsCell>>
        /\ call'.op = "create" /\ call'.pc \in {"write", "ok"}
    BY <1>3 DEF WriteHead, Running, Remaining, TypeOK, CallType
  <2>2. file'[1] = Header /\ file'[2] = PinsCell /\ DOMAIN file' = 1..2
    BY <2>1 DEF MakeInv, Header
  <2>3. ASSUME NEW h \in Reachable PROVE PlaceShape(h, At(h, Reachable))'
    <3>1. At(h, Reachable) \in Nat /\ At(h, Reachable) >= 3 /\ DOMAIN Bytes[h] = 1..Len(Bytes[h])
      BY ReachableHashes, AtNat, BytesTyped
    <3>2. At(h, Reachable) \notin 1..2
          /\ \A j \in DOMAIN Bytes[h] : At(h, Reachable) + 1 + j \notin 1..2
      BY <3>1
    <3> QED
      BY <2>2, <3>2 DEF PlaceShape
  <2> QED
    BY <2>2, <2>3 DEF FileShape, Header
<1>4. ASSUME NEW h \in Hash, WriteRecord(h) PROVE FileShape'
    BY <1>4, WriteShape
<1>5. CASE FileCut
  <2>1. CASE \E n \in 0..Len(file) - 1 : file' = SubSeq(file, 1, n)
    <3>1. PICK n \in 0..Len(file) - 1 : file' = SubSeq(file, 1, n)
      BY <2>1
    <3>2. n \in 0..Len(file)
      BY <3>1 DEF TypeOK
    <3> QED
      BY <3>1, <3>2, CutShape
  <2>2. CASE file # <<>> /\ file' = Append(file, [tag |-> "extra"])
    BY <2>2, StrayShape
  <2> QED
    BY <1>5, <2>1, <2>2 DEF FileCut
<1>6. CASE FileRot
  <2>1. ASSUME NEW k \in DOMAIN file, file[k].tag = "hash", NEW h \in (Forge \cup {Absent}) \ {file[k].hash},
               file' = [file EXCEPT ![k] = HashCell(h)]
        PROVE  FileShape'
    <3>1. HashCell(h).tag = "hash" /\ HashCell(h).hash = Absent
      BY <2>1 DEF HashCell
    <3> QED
      BY <2>1, <3>1, RotShape
  <2>2. ASSUME NEW k \in DOMAIN file, file[k].tag = "len", NEW n \in 0..MaxBody + 1,
               file' = [file EXCEPT ![k].len = n]
        PROVE  FileShape'
    <3>1. file[k] \in [tag : {"len"}, len : Nat]
      BY <2>2 DEF TypeOK, Cell
    <3>2. [file[k] EXCEPT !.len = n].tag = "len" /\ file' = [file EXCEPT ![k] = [file[k] EXCEPT !.len = n]]
      BY <2>2, <3>1
    <3> QED
      BY <2>2, <3>2, RotShape
  <2>3. ASSUME NEW k \in DOMAIN file, file[k].tag = "byte", file' = [file EXCEPT ![k].byte = 0]
        PROVE  FileShape'
    <3>1. file[k] \in [tag : {"byte"}, byte : Nat]
      BY <2>3 DEF TypeOK, Cell
    <3>2. [file[k] EXCEPT !.byte = 0].tag = "byte" /\ file' = [file EXCEPT ![k] = [file[k] EXCEPT !.byte = 0]]
      BY <2>3, <3>1
    <3> QED
      BY <2>3, <3>2, RotShape
  <2> QED
    BY <1>6, <2>1, <2>2, <2>3 DEF FileRot
<1>7. CASE Fault
    BY <1>1, <1>7, CutShape DEF Fault
<1>8. CASE Read \/ CheckStore \/ Return \/ StoreEvent \/ UNCHANGED vars
    BY <1>1, <1>8 DEF Read, StartRead, ReadHead, ReadRecord, EndRead, CheckStore, StartVerifyAll,
          StartVerifyReachable, EndVerify, ScanBlob, WalkBlob, Return, StoreEvent, vars
<1>9. CASE EndCollect \/ \E h \in Hash : Collect(h) \/ Measure(h) \/ Verify(h)
    BY <1>1, <1>9 DEF EndCollect, Collect, Measure, Verify
<1> QED
    BY <1>2, <1>3, <1>4, <1>5, <1>6, <1>7, <1>8, <1>9 DEF Next, Create, Event

-----------------------------------------------------------------------------
(* What a reader accepts. *)

LEMMA LeastNatural ==
    ASSUME NEW T, T \subseteq Nat, T # {}
    PROVE  \E m \in T : \A k \in T : m <= k
<1>1. PICK m \in T : \A k \in T : ~ (<<k, m>> \in OpToRel(<, Nat))
    BY NatLessThanWellFounded, WFMin
<1>2. \A k \in T : ~ (k < m)
    BY <1>1 DEF OpToRel
<1> QED
    BY <1>2

\* A reader that has passed some records but not all is at the next one.
LEMMA NextPlace ==
    ASSUME NEW S \in SUBSET Hash, NEW pos \in Nat, NEW P \in SUBSET S,
           \A h \in S : h \in P <=> At(h, S) < pos, pos = 3 + Size(P), P # S
    PROVE  \E m \in S :
              /\ m \notin P /\ At(m, S) = pos
              /\ \A h \in S : At(h, S) < pos + 2 + Len(Bytes[m]) <=> h \in P \cup {m}
<1>1. S \subseteq Nat
    BY ArchiveAssumption
<1>2. PICK m \in S \ P : \A k \in S \ P : m <= k
  <2>1. S \ P \subseteq Nat /\ S \ P # {}
    BY <1>1
  <2> QED
    BY <2>1, LeastNatural
<1>3. \A h \in S : At(h, S) \in Nat /\ Len(Bytes[h]) \in Nat
    BY AtNat, BytesTyped
<1>a. \A h \in S : h \in P <=> At(h, S) < pos
    OBVIOUS
<1>b. P \subseteq S /\ m \in S /\ m \notin P /\ pos \in Nat
    BY <1>2
<1>4. ASSUME NEW g \in S PROVE g < m <=> g \in P
  <2>0. g \in Nat /\ m \in Nat /\ At(g, S) \in Nat /\ At(m, S) \in Nat /\ Len(Bytes[m]) \in Nat
    BY <1>1, <1>b, <1>3
  <2>1. CASE g < m
    <3>1. ~(m <= g)
      BY ONLY <2>0, <2>1
    <3> QED
      BY <1>2, <2>1, <3>1, Zenon
  <2>2. CASE m < g
    <3>1. At(m, S) + 2 + Len(Bytes[m]) <= At(g, S)
      BY <1>b, <2>2, AtNext
    <3>2. ~(At(m, S) < pos)
      BY <1>a, <1>b, Zenon
    <3>3. ~(At(g, S) < pos)
      BY ONLY <1>b, <2>0, <3>1, <3>2
    <3>4. ~(g < m)
      BY ONLY <2>0, <2>2
    <3> QED
      BY <1>a, <3>3, <3>4, Zenon
  <2>3. CASE m = g
    <3>1. ~(g < m)
      BY ONLY <2>0, <2>3
    <3> QED
      BY <1>b, <2>3, <3>1, Zenon
  <2>4. g < m \/ m < g \/ m = g
    BY ONLY <2>0
  <2> QED
    BY <2>1, <2>2, <2>3, <2>4, Zenon
<1>5. Lower(m, S) = P
    BY <1>4 DEF Lower
<1>6. At(m, S) = pos
    BY <1>5 DEF At
<1>c. ASSUME NEW a \in Nat, NEW b \in Nat, NEW c \in Nat
      PROVE  /\ a < b \/ a = b => a < b + 2 + c
             /\ b + 2 + c <= a => ~(a < b + 2 + c)
    BY ONLY a \in Nat, b \in Nat, c \in Nat
<1>7. ASSUME NEW g \in S PROVE At(g, S) < pos + 2 + Len(Bytes[m]) <=> g \in P \cup {m}
  <2>0. At(g, S) \in Nat /\ Len(Bytes[m]) \in Nat /\ m \in Nat /\ g \in Nat
    BY <1>1, <1>b, <1>3
  <2>1. CASE g \in P
    <3>1. At(g, S) < pos
      BY <1>a, <2>1, Zenon
    <3>2. At(g, S) < pos + 2 + Len(Bytes[m])
      BY <1>b, <1>c, <2>0, <3>1, Zenon
    <3> QED
      BY <2>1, <3>2, Zenon
  <2>2. CASE g = m
    <3>1. At(g, S) = pos
      BY <1>6, <2>2, Zenon
    <3>2. At(g, S) < pos + 2 + Len(Bytes[m])
      BY <1>b, <1>c, <2>0, <3>1, Zenon
    <3> QED
      BY <2>2, <3>2, Zenon
  <2>3. CASE g \notin P /\ g # m
    <3>0. ~(g < m)
      BY <1>4, <2>3, Zenon
    <3>1. m < g
      BY ONLY <2>0, <2>3, <3>0
    <3>2. At(m, S) + 2 + Len(Bytes[m]) <= At(g, S)
      BY <1>b, <3>1, AtNext
    <3>3. pos + 2 + Len(Bytes[m]) <= At(g, S)
      BY <1>6, <3>2, Zenon
    <3>4. ~(At(g, S) < pos + 2 + Len(Bytes[m]))
      BY <1>b, <1>c, <2>0, <3>3, Zenon
    <3> QED
      BY <2>3, <3>4, Zenon
  <2> QED
    BY <2>1, <2>2, <2>3, Zenon
<1> QED
    BY <1>b, <1>6, <1>7

\* A record that is accepted where that of m belongs is the record of m.
LEMMA AcceptedRecord ==
    ASSUME AInv, FileShape, file # <<>>, NEW m \in Reachable, NEW pos \in Nat,
           pos = At(m, Reachable), ~EndsAt(pos), ~EndsAt(pos + 1), NEW n \in LensAt(pos + 1),
           pos + 1 + n <= Len(file), Accepts(HashAt(pos), BodyAt(pos + 2, n))
    PROVE  /\ HashAt(pos) = m /\ n = Len(Bytes[m]) /\ BodyAt(pos + 2, n) = Bytes[m]
           /\ RecordAt(AsRead(file), pos, m)
<1> USE DEF AInv, TypeOK
<1>0. /\ m \in Hash /\ Bytes[m] \in Seq(Nat) /\ Len(Bytes[m]) \in Nat
      /\ DOMAIN Bytes[m] = 1..Len(Bytes[m])
    BY ReachableHashes, BytesTyped
<1>1. PlaceShape(m, pos)
    BY DEF FileShape
<1>2. pos \in DOMAIN file /\ pos + 1 \in DOMAIN file /\ file[pos] \in Cell /\ file[pos + 1] \in Cell
      /\ file[pos].tag # "extra" /\ file[pos + 1].tag # "extra" /\ DOMAIN file = 1..Len(file)
      /\ Len(file) \in Nat
    BY DEF EndsAt
<1>3. file[pos].tag = "hash" /\ file[pos].hash = HashAt(pos) /\ HashAt(pos) # Absent
    BY DEF HashAt, Accepts
<1>4. HashAt(pos) = m
    BY <1>1, <1>2, <1>3 DEF PlaceShape
<1>5. file[pos] = HashCell(m)
    BY <1>2, <1>3, <1>4 DEF HashCell, Cell
<1>6. file[pos + 1].tag = "len"
    BY <1>1, <1>2, <1>3 DEF PlaceShape
<1>7. n = file[pos + 1].len /\ file[pos + 1] = LenCell(n) /\ n \in Nat
    BY <1>2, <1>6 DEF LensAt, LenCell, Cell
<1>8. BodyAt(pos + 2, n) = Bytes[m]
    BY <1>4 DEF Accepts
<1>9. n = Len(Bytes[m])
  <2>1. DOMAIN BodyAt(pos + 2, n) = 1..n
    BY DEF BodyAt
  <2>2. 1..n = 1..Len(Bytes[m])
    BY <1>0, <1>8, <2>1
  <2> QED
    BY <1>0, <1>7, <2>2
<1>10. ASSUME NEW j \in DOMAIN Bytes[m]
       PROVE  AsRead(file)[pos + 1 + j] = ByteCell(Bytes[m][j])
  <2>0. j \in 1..n /\ n \in Nat /\ pos \in Nat
    BY <1>0, <1>7, <1>9
  <2>1. j \in 1..n /\ j \in Nat /\ pos + 2 + j - 1 = pos + 1 + j
    BY ONLY <2>0
  <2>2. pos + 1 + j \in DOMAIN file
    BY <1>2, <1>7, <2>1
  <2> DEFINE c == file[pos + 1 + j]
  <2>3. c.tag \in {"byte", "extra"} /\ c \in Cell
    BY <1>1, <2>2 DEF PlaceShape
  <2>4. Bytes[m][j] = IF c.tag = "byte" THEN c.byte ELSE 0
    BY <1>8, <2>1 DEF BodyAt
  <2>5. AsRead(file)[pos + 1 + j] = IF c.tag = "extra" THEN ByteCell(0) ELSE c
    BY <2>2 DEF AsRead
  <2> HIDE DEF c
  <2>6. CASE c.tag = "byte"
    BY <2>3, <2>4, <2>5, <2>6 DEF ByteCell, Cell
  <2>7. CASE c.tag = "extra"
    BY <2>4, <2>5, <2>7
  <2> QED
    BY <2>3, <2>6, <2>7
<1>11. AsRead(file)[pos] = HashCell(m) /\ AsRead(file)[pos + 1] = LenCell(Len(Bytes[m]))
    BY <1>2, <1>5, <1>7, <1>9 DEF AsRead
<1> QED
    BY <1>4, <1>8, <1>9, <1>10, <1>11 DEF RecordAt

\* One more record counted.
LEMMA CountRecord ==
    ASSUME NEW c \in Nat, NEW o \in Nat, NEW l \in Nat, NEW r \in Nat, NEW p \in Nat, NEW n \in Nat,
           l > 0, n <= r, l <= c, r <= o, p = 3 + 2 * (c - l) + (o - r)
    PROVE  /\ l - 1 <= c /\ r - n <= o
           /\ p + 2 + n = 3 + 2 * (c - (l - 1)) + (o - (r - n))
OBVIOUS

\* A record passed: the counts stay true, and an extraction has read and
\* stored the record that belongs there.
LEMMA RecordReadInv ==
    ASSUME AInv, FileShape, ReadInv, call.pc = "records", call.left > 0,
           call.op \in {"extract", "list"}, ~EndsAt(call.pos), ~EndsAt(call.pos + 1),
           NEW n \in LensAt(call.pos + 1), RecordFits(n), call' = Advanced(n),
           UNCHANGED <<src, file>>,
           IF call.op = "list" THEN dst' = dst
           ELSE /\ Accepts(HashAt(call.pos), BodyAt(call.pos + 2, n))
                /\ dst' = [dst EXCEPT ![HashAt(call.pos)] = BodyAt(call.pos + 2, n)]
    PROVE  ReadInv'
<1> DEFINE C == Cardinality(Reachable)
           O == Cardinality(Octets(Reachable))
<1>0. /\ call.left \in Nat /\ call.remaining \in Nat /\ call.pos \in Nat /\ Len(file) \in Nat
      /\ C \in Nat /\ O \in Nat
    BY HashesFinite, OctetsFinite, ReachableHashes DEF AInv, TypeOK, CallType
<1>1. n \in Nat /\ n <= call.remaining /\ call.pos + 1 + n <= Len(file)
  <2>1. file[call.pos + 1] \in Cell
    BY DEF EndsAt, AInv, TypeOK
  <2> QED
    BY <2>1, ArchiveAssumption DEF LensAt, Cell, RecordFits
<1>2. /\ ~EndsAt(1) /\ ~EndsAt(2)
      /\ call.left <= C /\ call.remaining <= O
      /\ call.pos = 3 + 2 * (C - call.left) + (O - call.remaining)
      /\ call.op = "extract" =>
            /\ call.left = C - Cardinality(Passed)
            /\ call.pos = 3 + Size(Passed)
            /\ \A h \in Passed : /\ RecordAt(AsRead(file), At(h, Reachable), h)
                                 /\ call.hurt = {} => dst[h] = Bytes[h]
    BY DEF ReadInv
<1>3. /\ call'.op = call.op /\ call'.pc = "records" /\ call'.hurt = call.hurt
      /\ call'.pos = call.pos + 2 + n /\ call'.left = call.left - 1
      /\ call'.remaining = call.remaining - n
    BY DEF Advanced, AInv, TypeOK, CallType
<1> HIDE DEF C, O
<1>4. /\ call'.left <= C /\ call'.remaining <= O
      /\ call'.pos = 3 + 2 * (C - call'.left) + (O - call'.remaining)
  <2>1. /\ C \in Nat /\ O \in Nat /\ call.left \in Nat /\ call.remaining \in Nat
        /\ call.pos \in Nat /\ n \in Nat
        /\ call.left > 0 /\ n <= call.remaining /\ call.left <= C /\ call.remaining <= O
        /\ call.pos = 3 + 2 * (C - call.left) + (O - call.remaining)
    BY <1>0, <1>1, <1>2
  <2>2. /\ call.left - 1 <= C /\ call.remaining - n <= O
        /\ call.pos + 2 + n = 3 + 2 * (C - (call.left - 1)) + (O - (call.remaining - n))
    BY ONLY <2>1, CountRecord
  <2> QED
    BY <1>3, <2>2, Zenon
<1>5. call'.pos - 1 <= Len(file')
  <2>1. ASSUME NEW a \in Nat, NEW b \in Nat, NEW d \in Nat, a + 1 + b <= d PROVE a + 2 + b - 1 <= d
    BY <2>1
  <2> QED
    BY <1>0, <1>1, <1>3, <2>1
<1>6. ~EndsAt(1)' /\ ~EndsAt(2)'
    BY <1>2 DEF EndsAt
<1>7. CASE call.op = "extract"
  <2> DEFINE P == Passed
  <2>1. /\ call.left = C - Cardinality(P) /\ call.pos = 3 + Size(P)
        /\ \A h \in P : /\ RecordAt(AsRead(file), At(h, Reachable), h)
                        /\ call.hurt = {} => dst[h] = Bytes[h]
    BY <1>2, <1>7
  <2>2. P = {h \in Reachable : At(h, Reachable) < call.pos} /\ P \in SUBSET Hash
    BY ReachableHashes DEF Passed
  <2> HIDE DEF P
  <2>3. P # Reachable
    <3>1. P = Reachable => call.left = C - C
      BY <2>1 DEF C
    <3> QED
      BY <1>0, <3>1
  <2>4. PICK m \in Reachable :
            /\ m \notin P /\ At(m, Reachable) = call.pos
            /\ \A h \in Reachable :
                  At(h, Reachable) < call.pos + 2 + Len(Bytes[m]) <=> h \in P \cup {m}
    <3>1. /\ Reachable \in SUBSET Hash /\ call.pos \in Nat /\ P \in SUBSET Reachable
          /\ \A h \in Reachable : h \in P <=> At(h, Reachable) < call.pos
          /\ call.pos = 3 + Size(P) /\ P # Reachable
      BY <1>0, <2>1, <2>2, <2>3, ReachableHashes
    <3> QED
      BY ONLY <3>1, NextPlace, Zenon
  <2>5. /\ HashAt(call.pos) = m /\ n = Len(Bytes[m]) /\ BodyAt(call.pos + 2, n) = Bytes[m]
        /\ RecordAt(AsRead(file), call.pos, m)
    <3>1. file # <<>>
      BY <1>2 DEF EndsAt
    <3> QED
      BY <1>0, <1>1, <1>7, <2>4, <3>1, AcceptedRecord
  <2>6. Passed' = P \cup {m}
    <3>1. Passed' = {h \in Reachable : At(h, Reachable) < call.pos + 2 + Len(Bytes[m])}
      BY <1>3, <2>5 DEF Passed
    <3> QED
      BY <2>2, <2>4, <3>1
  <2>7. m \in Hash \ P
    BY <2>4, ReachableHashes
  <2>8. /\ Cardinality(P \cup {m}) = Cardinality(P) + 1
        /\ Size(P \cup {m}) = Size(P) + 2 + Len(Bytes[m])
    BY <2>2, <2>7, OneMore
  <2>9. Cardinality(P) \in Nat /\ Size(P) \in Nat
    BY <2>2, HashesFinite, SizeNat
  <2>10. call'.left = C - Cardinality(Passed')
    <3>1. call'.left = (C - Cardinality(P)) - 1 /\ Cardinality(Passed') = Cardinality(P) + 1
      BY <1>3, <2>1, <2>6, <2>8
    <3> QED
      BY <1>0, <2>9, <3>1
  <2>11. call'.pos = 3 + Size(Passed')
    <3>1. call'.pos = (3 + Size(P)) + 2 + n /\ Size(Passed') = Size(P) + 2 + n
      BY <1>3, <2>1, <2>5, <2>6, <2>8
    <3>2. ASSUME NEW a \in Nat, NEW b \in Nat PROVE (3 + a) + 2 + b = 3 + (a + 2 + b)
      OBVIOUS
    <3> QED
      BY <1>1, <2>9, <3>1, <3>2
  <2>12. ASSUME NEW h \in Passed'
         PROVE  /\ RecordAt(AsRead(file'), At(h, Reachable), h)
                /\ call'.hurt = {} => dst'[h] = Bytes[h]
    <3>1. dst' = [dst EXCEPT ![m] = Bytes[m]] /\ dst \in [Hash -> Content] /\ file' = file
      BY <1>7, <2>5 DEF AInv, TypeOK
    <3>2. CASE h = m
      BY <2>4, <2>5, <2>7, <3>1, <3>2
    <3>3. CASE h # m
      <4>1. h \in P /\ h \in Hash
        BY <2>2, <2>6, <3>3
      <4> QED
        BY <1>3, <2>1, <3>1, <3>3, <4>1
    <3> QED
      BY <3>2, <3>3
  <2> QED
    BY <1>3, <1>4, <1>5, <1>6, <2>10, <2>11, <2>12 DEF ReadInv, C, O
<1>8. CASE call.op # "extract"
    BY <1>3, <1>4, <1>5, <1>6, <1>8 DEF ReadInv, C, O
<1> QED
    BY <1>7, <1>8

\* The steps of the two readers.
LEMMA ReadReadInv == ASSUME AInv, FileShape, ReadInv, Read PROVE ReadInv'
<1> USE DEF AInv, TypeOK, CallType
<1>1. CASE StartRead("extract") \/ StartRead("list")
    BY <1>1 DEF StartRead, IdleCall, ReadInv
<1>2. ASSUME Goto("err"), call'.op = call.op PROVE ReadInv'
    BY <1>2 DEF Goto, ReadInv
<1>3. CASE ReadHead
  <2>1. CASE Goto("err")
    BY <1>2, <2>1 DEF Goto
  <2>2. CASE ~Goto("err")
    <3>1. /\ ~EndsAt(1) /\ ~EndsAt(2) /\ file' = file
          /\ call' = [call EXCEPT !.pc = "records", !.pos = 3, !.left = file[1].count,
                                  !.remaining = file[1].total]
      BY <1>3, <2>2 DEF ReadHead
    <3>2. file # <<>> /\ 2 <= Len(file)
      BY <3>1 DEF EndsAt
    <3>3. file[1].count = Cardinality(Reachable) /\ file[1].total = Cardinality(Octets(Reachable))
      BY <3>2 DEF FileShape, Header, HeadCell
    <3>4. Cardinality(Reachable) \in Nat /\ Cardinality(Octets(Reachable)) \in Nat
      BY HashesFinite, OctetsFinite, ReachableHashes
    <3>5. /\ call'.pc = "records" /\ call'.pos = 3 /\ call'.left = Cardinality(Reachable)
          /\ call'.remaining = Cardinality(Octets(Reachable)) /\ call'.op = call.op
      BY <3>1, <3>3
    <3>6. Passed' = {}
      BY <3>5, ReachableHashes, AtNat DEF Passed
    <3>7. ~EndsAt(1)' /\ ~EndsAt(2)'
      BY <3>1 DEF EndsAt
    <3>8. Cardinality(Passed') = 0 /\ Size(Passed') = 0
      BY <3>6, NothingSize
    <3> QED
      BY <3>1, <3>2, <3>4, <3>5, <3>6, <3>7, <3>8 DEF ReadInv
  <2> QED
    BY <2>1, <2>2
<1>4. CASE ReadRecord
  <2>1. CASE Goto("err")
    BY <1>2, <2>1 DEF Goto
  <2>2. CASE ~Goto("err")
    <3>1. PICK n \in LensAt(call.pos + 1) :
              /\ ~EndsAt(call.pos) /\ ~EndsAt(call.pos + 1)
              /\ RecordFits(n) /\ call' = Advanced(n)
              /\ call.op = "list" \/ Accepts(HashAt(call.pos), BodyAt(call.pos + 2, n))
              /\ dst' = IF call.op = "list" THEN dst
                        ELSE [dst EXCEPT ![HashAt(call.pos)] = BodyAt(call.pos + 2, n)]
      BY <1>4, <2>2 DEF ReadRecord
    <3>2. call.pc = "records" /\ call.left > 0 /\ UNCHANGED <<src, file>>
      BY <1>4 DEF ReadRecord
    <3>3. CASE call.op \in {"extract", "list"}
      BY <3>1, <3>2, <3>3, RecordReadInv
    <3>4. CASE call.op \notin {"extract", "list"}
      BY <3>1, <3>4 DEF Advanced, ReadInv
    <3> QED
      BY <3>3, <3>4
  <2> QED
    BY <2>1, <2>2
<1>5. CASE EndRead
  <2>1. CASE Goto("err")
    BY <1>2, <2>1 DEF Goto
  <2>2. CASE ~Goto("err")
    <3>1. /\ call.pc = "records" /\ call.left = 0 /\ call.remaining = 0 /\ call.pos > Len(file)
          /\ call' = [call EXCEPT !.pc = "ok"] /\ file' = file /\ dst' = dst
      BY <1>5, <2>2 DEF EndRead, Goto
    <3>2. /\ call'.op = call.op /\ call'.pc = "ok" /\ call'.left = call.left
          /\ call'.remaining = call.remaining /\ call'.pos = call.pos /\ call'.hurt = call.hurt
      BY <3>1
    <3>3. Passed' = Passed /\ (EndsAt(1)' <=> EndsAt(1)) /\ (EndsAt(2)' <=> EndsAt(2))
      BY <3>1, <3>2 DEF Passed, EndsAt
    <3> QED
      BY <3>1, <3>2, <3>3 DEF ReadInv
  <2> QED
    BY <2>1, <2>2
<1> QED
    BY <1>1, <1>3, <1>4, <1>5 DEF Read

\* The others leave the file alone while it is read.
LEMMA NextReadInv == ASSUME AInv, FileShape, ReadInv, [Next]_vars PROVE ReadInv'
<1> USE DEF AInv, TypeOK, CallType
<1>0. ASSUME call' = call, file' = file, \A h \in Hash : dst[h] = Bytes[h] => dst'[h] = Bytes[h]
      PROVE  ReadInv'
  <2>1. Passed' = Passed /\ (EndsAt(1)' <=> EndsAt(1)) /\ (EndsAt(2)' <=> EndsAt(2))
        /\ Passed \subseteq Hash
    BY <1>0, ReachableHashes DEF Passed, EndsAt
  <2> QED
    BY <1>0, <2>1 DEF ReadInv
<1>1. CASE UNCHANGED vars
    BY <1>0, <1>1 DEF vars
<1>2. CASE Create
    BY <1>2, CreateOp DEF ReadInv
<1>3. CASE CheckStore
  <2>1. CASE StartVerifyAll \/ StartVerifyReachable
    BY <2>1, IdleCallTyped DEF StartVerifyAll, StartVerifyReachable, ReadInv
  <2>2. CASE EndVerify
    BY <2>2 DEF EndVerify, Goto, Running, ReadInv
  <2>3. ASSUME NEW h \in Hash, ScanBlob(h) PROVE ReadInv'
    BY <2>3 DEF ScanBlob, Goto, Running, ReadInv
  <2>4. ASSUME NEW h \in Hash, WalkBlob(h) PROVE ReadInv'
    BY <2>4 DEF WalkBlob, Collected, Goto, Running, ReadInv
  <2> QED
    BY <1>3, <2>1, <2>2, <2>3, <2>4 DEF CheckStore
<1>4. CASE Return
    BY <1>4 DEF Return, IdleCall, ReadInv
<1>5. CASE FileCut \/ FileRot
  <2>1. call.op = "none" /\ call' = call
    BY <1>5 DEF FileCut, FileRot, IdleShape, IdleCall
  <2> QED
    BY <2>1 DEF ReadInv
<1>6. CASE Fault
  <2>1. call'.pc = "err" /\ call'.op = call.op
    BY <1>6 DEF Fault
  <2> QED
    BY <2>1 DEF ReadInv
<1>7. ASSUME NEW h \in Hash, SrcPut(h) \/ SrcRemove(h) \/ SrcDamage(h) PROVE ReadInv'
    BY <1>7 DEF SrcPut, SrcRemove, SrcDamage, Hurt, ReadInv
<1>8. ASSUME NEW h \in Hash, DstPut(h), file' = file PROVE ReadInv'
  <2>1. \A g \in Hash : dst[g] = Bytes[g] => dst'[g] = Bytes[g]
    BY <1>8 DEF DstPut
  <2> QED
    BY <1>0, <1>8, <2>1 DEF DstPut
<1>9. ASSUME NEW h \in Hash, DstLose(h) \/ DstDamage(h), file' = file PROVE ReadInv'
  <2>1. CASE call.op \in {"extract", "list"}
    <3>1. call.pc # "idle" /\ Hurt(h)
      BY <1>9, <2>1 DEF ReadInv, DstLose, DstDamage
    <3>2. call' = [call EXCEPT !.hurt = call.hurt \cup {h}]
      BY <3>1 DEF Hurt
    <3>3. /\ call'.op = call.op /\ call'.pc = call.pc /\ call'.left = call.left
          /\ call'.remaining = call.remaining /\ call'.pos = call.pos /\ call'.hurt # {}
      BY <3>2
    <3>4. Passed' = Passed /\ (EndsAt(1)' <=> EndsAt(1)) /\ (EndsAt(2)' <=> EndsAt(2))
      BY <1>9, <3>3 DEF Passed, EndsAt
    <3> QED
      BY <1>9, <3>3, <3>4 DEF ReadInv
  <2>2. CASE call.op \notin {"extract", "list"}
    BY <1>9, <2>2 DEF DstLose, DstDamage, Hurt, ReadInv
  <2> QED
    BY <2>1, <2>2
<1> QED
    BY <1>1, <1>2, <1>3, <1>4, <1>5, <1>6, <1>7, <1>8, <1>9, ReadReadInv
       DEF Next, Event, StoreEvent

-----------------------------------------------------------------------------
(* What follows from the invariants. *)

\* Where damage forges no hash and replaces no damaged blob.
ExactInv == AInv /\ CreateInv /\ MakeInv /\ FileShape /\ ReadInv

LEMMA InitExactInv == Init => ExactInv
<1>1. Init => CreateInv /\ MakeInv /\ FileShape /\ ReadInv
    BY DEF Init, IdleCall, CreateInv, MakeInv, FileShape, ReadInv
<1> QED
    BY <1>1, InitAInv DEF ExactInv

LEMMA NextExactInv ==
    ASSUME Repairs = FALSE, Forge = {}, ExactInv, [Next]_vars PROVE ExactInv'
<1>1. AInv /\ CreateInv /\ MakeInv /\ FileShape /\ ReadInv
    BY DEF ExactInv
<1>2. AInv' /\ CreateInv' /\ MakeInv'
    BY <1>1, NextAInv, NextCreateInv, NextMakeInv
<1>3. FileShape' /\ ReadInv'
    BY <1>1, <1>2, NextFileShape, NextReadInv
<1> QED
    BY <1>2, <1>3 DEF ExactInv

\* A finished file is the whole archive.
LEMMA MakeExact == AInv /\ CreateInv /\ MakeInv => ArchiveExact
<1> SUFFICES ASSUME AInv, CreateInv, MakeInv, Running("create", "ok")
             PROVE  IsArchive(file, Reachable)
    BY DEF ArchiveExact
<1>1. Reachable \ call.todo = Reachable
    BY DEF CreateInv, Running
<1>2. /\ Len(file) = 2 + Size(Reachable \ call.todo)
      /\ file[1] = Header /\ file[2] = PinsCell
      /\ \A h \in Reachable \ call.todo : RecordAt(file, At(h, Reachable), h)
    BY DEF MakeInv, Running
<1> QED
    BY <1>1, <1>2 DEF IsArchive, Header

\* A reader that returns Ok has come to the end of the file and of the list.
LEMMA ReadEnds ==
    ASSUME AInv, ReadInv, call.op \in {"extract", "list"}, call.pc = "ok"
    PROVE  /\ Len(file) = 2 + Size(Reachable)
           /\ call.op = "extract" => Passed = Reachable
<1> DEFINE C == Cardinality(Reachable)
           O == Cardinality(Octets(Reachable))
<1>1. C \in Nat /\ O \in Nat /\ Len(file) \in Nat /\ call.pos \in Nat
    BY ReachableHashes, HashesFinite, OctetsFinite DEF AInv, TypeOK, CallType
<1>2. /\ call.pos = 3 + 2 * (C - call.left) + (O - call.remaining)
      /\ call.left = 0 /\ call.remaining = 0 /\ call.pos > Len(file) /\ call.pos - 1 <= Len(file)
    BY DEF ReadInv
<1>3. Size(Reachable) = 2 * C + O
    BY DEF Size
<1> HIDE DEF C, O
<1>4. call.pos = 3 + 2 * C + O
    BY <1>1, <1>2
<1>5. Len(file) = 2 + (2 * C + O)
    BY <1>1, <1>2, <1>4
<1>6. ASSUME call.op = "extract" PROVE Passed = Reachable
  <2>1. call.left = C - Cardinality(Passed)
    BY <1>6 DEF ReadInv, C
  <2>2. Passed \in SUBSET Reachable /\ Passed \in SUBSET Hash
    BY ReachableHashes DEF Passed
  <2>3. Cardinality(Passed) \in Nat
    BY <2>2, HashesFinite
  <2>4. Cardinality(Reachable) = Cardinality(Passed)
    BY <1>1, <1>2, <2>1, <2>3 DEF C
  <2> QED
    BY <2>2, <2>4, ReachableHashes, HashesFinite, FS_Subset
<1> QED
    BY <1>3, <1>5, <1>6

\* What it accepted is the whole archive.
LEMMA ReadExact == AInv /\ FileShape /\ ReadInv => AcceptedExact
<1>1. ASSUME AInv, FileShape, ReadInv, Running("extract", "ok")
      PROVE  IsArchive(AsRead(file), Reachable)
  <2>1. Len(file) = 2 + Size(Reachable) /\ Passed = Reachable
    BY <1>1, ReadEnds DEF Running
  <2>2. /\ ~EndsAt(1) /\ ~EndsAt(2)
        /\ \A h \in Passed : RecordAt(AsRead(file), At(h, Reachable), h)
    BY <1>1 DEF ReadInv, Running
  <2>3. file[1] = Header /\ file[2] = PinsCell /\ 1 \in DOMAIN file /\ 2 \in DOMAIN file
    BY <1>1, <2>2 DEF FileShape, EndsAt
  <2>4. AsRead(file)[1] = Header /\ AsRead(file)[2] = PinsCell
    BY <2>3 DEF AsRead, Header, HeadCell, PinsCell
  <2>5. Len(AsRead(file)) = Len(file)
    <3>1. file \in Seq(Cell) /\ DOMAIN file = 1..Len(file) /\ Len(file) \in Nat
      BY <1>1 DEF AInv, TypeOK
    <3>2. \A i \in DOMAIN file : file[i] \in Cell
      BY <3>1
    <3>3. ByteCell(0) \in Cell
      BY DEF ByteCell, Cell
    <3>4. AsRead(file) \in [1..Len(file) -> Cell]
      BY <3>1, <3>2, <3>3 DEF AsRead
    <3> QED
      BY <3>1, <3>4
  <2> QED
    BY <2>1, <2>2, <2>4, <2>5 DEF IsArchive, Header
<1>2. ASSUME AInv, ReadInv, Running("list", "ok") PROVE Len(file) = 2 + Size(Reachable)
    BY <1>2, ReadEnds DEF Running
<1> QED
    BY <1>1, <1>2 DEF AcceptedExact

\* What it stored is everything the roots reach.
LEMMA ReadDelivers == AInv /\ ReadInv => ExtractDelivers
<1> SUFFICES ASSUME AInv, ReadInv, Running("extract", "ok"), call.hurt = {}
             PROVE  Holds(dst, Reachable)
    BY DEF ExtractDelivers
<1>1. Passed = Reachable
    BY ReadEnds DEF Running
<1>2. \A h \in Passed : dst[h] = Bytes[h]
    BY DEF ReadInv, Running
<1> QED
    BY <1>1, <1>2 DEF Holds

-----------------------------------------------------------------------------

\* Every reachable state is well typed: in particular remaining and left, both
\* unsigned in extract_archive and list_archive, never go below zero.
THEOREM SpecTypeOK == Spec => []TypeOK
<1>1. AInv => TypeOK
    BY DEF AInv
<1> QED
    BY InitAInv, NextAInv, <1>1, PTL DEF Spec

\* verify_all reports exactly the damaged blobs and gives up only when a blob
\* was removed or damaged beside it, for any stores.
THEOREM SpecVerifyAll == Spec => []VerifyAllTruthful
<1>1. Init => ScanInv
    BY DEF Init, IdleCall, ScanInv
<1>2. AInv /\ ScanInv => VerifyAllTruthful
    BY DEF ScanInv, VerifyAllTruthful, Running
<1> QED
    BY InitAInv, NextAInv, <1>1, NextScanInv, <1>2, PTL DEF Spec

\* A clean report of verify_reachable vouches for everything the roots reach.
THEOREM SpecVerifyReachable == Spec => []VerifyReachableTruthful
<1>1. Init => WalkInv
    BY DEF Init, IdleCall, WalkInv
<1>2. AInv /\ WalkInv => VerifyReachableTruthful
  <2>1. SUFFICES ASSUME AInv, WalkInv, Running("verify_reachable", "ok"), call.hurt = {}
                 PROVE  /\ call.mismatches \cup call.missing = {} => Holds(dst, Reachable)
                        /\ call.mismatches \subseteq Damaged(dst)
    BY DEF VerifyReachableTruthful
  <2>2. call.mismatches \cup call.missing = {} =>
            Closed(call.seen) /\ \A h \in call.seen : dst[h] = Bytes[h]
    BY <2>1 DEF WalkInv, Running, Closed
  <2>3. call.seen \in SUBSET Hash
    BY <2>1 DEF AInv, TypeOK, CallType
  <2> QED
    BY <2>1, <2>2, <2>3 DEF WalkInv, Running, Holds, Reachable
<1> QED
    BY InitAInv, NextAInv, <1>1, NextWalkInv, <1>2, PTL DEF Spec

\* A create_archive that returns Ok has listed everything the roots reach with
\* its true length, if no damaged blob is replaced while it runs.
THEOREM SpecArchiveClosed == ASSUME Repairs = FALSE PROVE Spec => []ArchiveClosed
<1>1. Init => CreateInv
    BY DEF Init, IdleCall, CreateInv
<1>2. AInv /\ CreateInv => ArchiveClosed
  <2>1. SUFFICES ASSUME AInv, CreateInv, Running("create", "ok")
                 PROVE  /\ Reachable \subseteq call.seen
                        /\ \A h \in call.seen : call.lens[h] = Len(Bytes[h])
    BY DEF ArchiveClosed
  <2>2. Closed(call.seen) /\ \A h \in call.seen : call.lens[h] = Len(Bytes[h])
    BY <2>1 DEF CreateInv, Running, Closed
  <2>3. call.seen \in SUBSET Hash
    BY <2>1 DEF AInv, TypeOK, CallType
  <2> QED
    BY <2>2, <2>3 DEF Reachable
<1>3. AInv /\ CreateInv /\ [Next]_vars => CreateInv'
    BY NextCreateInv
<1> QED
    BY InitAInv, NextAInv, <1>1, <1>3, <1>2, PTL DEF Spec

\* A create_archive that returns Ok has written exactly the archive of what
\* the roots reach: the first pass keeps every blob out that the walk found in
\* damaged bytes, and header, lengths and bodies agree although blobs came and
\* went between the passes.  Nobody replaces a damaged blob while it runs.
THEOREM SpecArchiveExact == ASSUME Repairs = FALSE PROVE Spec => []ArchiveExact
<1>1. Init => AInv /\ CreateInv /\ MakeInv
    BY InitExactInv DEF ExactInv
<1>2. AInv /\ CreateInv /\ MakeInv /\ [Next]_vars => AInv' /\ CreateInv' /\ MakeInv'
    BY NextAInv, NextCreateInv, NextMakeInv
<1> QED
    BY <1>1, <1>2, MakeExact, PTL DEF Spec

\* A reader accepts nothing but a whole archive, whatever cuts, stray bytes and
\* damage the file met, and however create_archive ended: extract_archive
\* checks every cell, list_archive the length.  No damage turns the hash of a
\* blob into that of another.
THEOREM SpecAcceptedExact ==
    ASSUME Repairs = FALSE, Forge = {} PROVE Spec => []AcceptedExact
<1>1. ExactInv => AcceptedExact
    BY ReadExact DEF ExactInv
<1>2. ExactInv /\ [Next]_vars => ExactInv'
    BY NextExactInv
<1> QED
    BY InitExactInv, <1>1, <1>2, PTL DEF Spec

\* An extract_archive that returns Ok has delivered everything the pinsets
\* reach, under the same assumptions.
THEOREM SpecExtractDelivers ==
    ASSUME Repairs = FALSE, Forge = {} PROVE Spec => []ExtractDelivers
<1>1. ExactInv => ExtractDelivers
    BY ReadDelivers DEF ExactInv
<1>2. ExactInv /\ [Next]_vars => ExactInv'
    BY NextExactInv
<1> QED
    BY InitExactInv, <1>1, <1>2, PTL DEF Spec
=============================================================================
