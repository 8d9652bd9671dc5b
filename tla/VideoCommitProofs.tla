------------------------- MODULE VideoCommitProofs -------------------------
(***************************************************************************)
(* Proofs about the commit queue, for every ring length, every set of       *)
(* operations and every frame budget.  They assume that HEAD and TAIL start *)
(* out as 0, and nothing of when the PPU changes its mode.                  *)
(***************************************************************************)
EXTENDS VideoCommit, TLAPS

\* WRAM held zeros when the program started.
ClearedWram == PowerUp = {0}

\* What a handler that is running may be doing.
IsrShape ==
    /\ isr.src = "none" <=> isr.pc = "idle"
    /\ isr.src = "stat" => isr.pc \in {"guard", "put", "publish"}
    /\ isr.src = "stat" /\ isr.pc = "put" => isr.i = 0 /\ isr.s.kind = "glyph"
    /\ isr.src = "vblank" /\ isr.pc # "guard" => isr.left > 0

\* The program fills the slot at TAIL, which stays free until it is published.
Filling == {"kind", "at", "n", "val", "publish"}
MainShape ==
    main.pc \in Filling => main.next = Succ(tail) /\ Succ(tail) # head

\* A handler executes a copy of the operation at the head.
Executing == {"check", "put", "publish"}
HeadLoaded == isr.pc \in Executing => head # tail /\ isr.s = slot[head]

\* The fields of the slot at TAIL that have been written, for immediates.
SlotFilled ==
    ~main.regs =>
        /\ main.pc \in {"at", "n", "val", "publish"} => slot[tail].kind = main.op.kind
        /\ main.pc \in {"n", "val", "publish"} => slot[tail].at = main.op.at
        /\ main.pc \in {"val", "publish"} => slot[tail].n = Encode(main.op).n
        /\ main.pc = "publish" => slot[tail].val = main.op.val

IInv == TypeOK /\ IsrShape /\ MainShape /\ QueueIntact /\ HeadLoaded /\ SlotFilled
        /\ ImmediatesFaithful

\* The bytes of the loaded operation that have been stored so far, each on the
\* screen unless the PPU ignored it.
Progress ==
    isr.pc \in Executing =>
        /\ isr.pc = "publish" => isr.i = Count(isr.s)
        /\ isr.pc # "publish" => isr.i < Count(isr.s)
        /\ \A j \in 0..(isr.i - 1) :
              Target(isr.s, j) \in Loc =>
                  screen[Target(isr.s, j)] = isr.s.val \/ Target(isr.s, j) \in missed

ScreenInv == Progress /\ ScreenFaithful

-----------------------------------------------------------------------------
(* Arithmetic of the ring. *)

Index == 0..(RingLen - 1)
Pos(h, i) == (h + i - 1) % RingLen   \* where the i-th live operation is
Used(h, t) == (t - h) % RingLen      \* how many there are

\* AND COMMIT_QUEUE_LEN - 1 brings a sum or difference of indexes back into
\* the ring.
LEMMA Wrap ==
    ASSUME NEW a \in Int, -RingLen <= a, a < 2 * RingLen
    PROVE  a % RingLen = IF a < 0 THEN a + RingLen
                         ELSE IF a < RingLen THEN a ELSE a - RingLen
<1>. RingLen \in Nat /\ RingLen > 1  BY ConstantsAssumption
<1>1. CASE a < 0  BY <1>1
<1>2. CASE 0 <= a /\ a < RingLen  BY <1>2
<1>3. CASE RingLen <= a  BY <1>3
<1>. QED  BY <1>1, <1>2, <1>3

\* The successor of an index is an index.
LEMMA SuccIndex ==
    ASSUME NEW i \in Index
    PROVE  Succ(i) \in Index /\ Succ(i) = IF i = RingLen - 1 THEN 0 ELSE i + 1
BY Wrap, ConstantsAssumption DEF Succ, Index

\* The number of live operations that HEAD and TAIL stand for.
LEMMA UsedBounds ==
    ASSUME NEW h \in Index, NEW t \in Index
    PROVE  /\ Used(h, t) \in Index
           /\ Used(h, t) = 0 <=> h = t
           /\ Used(h, t) = IF h <= t THEN t - h ELSE t - h + RingLen
BY Wrap, ConstantsAssumption DEF Used, Index

\* The live slots are slots, and the one at TAIL is not among them.
LEMMA PosLive ==
    ASSUME NEW h \in Index, NEW t \in Index, NEW i \in 1..Used(h, t)
    PROVE  Pos(h, i) \in Index /\ Pos(h, i) # t
<1>. RingLen \in Nat /\ RingLen > 1  BY ConstantsAssumption
<1>1. Used(h, t) \in Index /\ Used(h, t) = IF h <= t THEN t - h ELSE t - h + RingLen
  BY UsedBounds
<1>2. Pos(h, i) = IF h + i - 1 < RingLen THEN h + i - 1 ELSE h + i - 1 - RingLen
  BY <1>1, Wrap DEF Pos, Index
<1>. QED  BY <1>1, <1>2 DEF Index

\* Publishing TAIL adds the slot at TAIL behind the live ones.
LEMMA PosTail ==
    ASSUME NEW h \in Index, NEW t \in Index, Succ(t) # h
    PROVE  Used(h, Succ(t)) = Used(h, t) + 1 /\ Pos(h, Used(h, t) + 1) = t
<1>. RingLen \in Nat /\ RingLen > 1  BY ConstantsAssumption
<1>1. Used(h, t) \in Index /\ Used(h, t) = IF h <= t THEN t - h ELSE t - h + RingLen
  BY UsedBounds
<1>2. Succ(t) \in Index /\ Succ(t) = IF t = RingLen - 1 THEN 0 ELSE t + 1
  BY SuccIndex
<1>3. Used(h, Succ(t)) = IF h <= Succ(t) THEN Succ(t) - h ELSE Succ(t) - h + RingLen
  BY <1>2, UsedBounds
<1>4. Pos(h, Used(h, t) + 1) = IF h + Used(h, t) < RingLen THEN h + Used(h, t)
                               ELSE h + Used(h, t) - RingLen
  BY <1>1, Wrap DEF Pos, Index
<1>. QED  BY <1>1, <1>2, <1>3, <1>4 DEF Index

\* Publishing HEAD takes the first live slot away.
LEMMA PosHead ==
    ASSUME NEW h \in Index, NEW t \in Index, h # t
    PROVE  /\ Used(Succ(h), t) = Used(h, t) - 1
           /\ Pos(h, 1) = h
           /\ \A i \in 1..(Used(h, t) - 1) : Pos(Succ(h), i) = Pos(h, i + 1)
<1>. RingLen \in Nat /\ RingLen > 1  BY ConstantsAssumption
<1>1. Used(h, t) \in Index /\ Used(h, t) = IF h <= t THEN t - h ELSE t - h + RingLen
  BY UsedBounds
<1>2. Succ(h) \in Index /\ Succ(h) = IF h = RingLen - 1 THEN 0 ELSE h + 1
  BY SuccIndex
<1>3. Used(Succ(h), t) = IF Succ(h) <= t THEN t - Succ(h) ELSE t - Succ(h) + RingLen
  BY <1>2, UsedBounds
<1>4. Pos(h, 1) = h  BY Wrap DEF Pos, Index
<1>5. ASSUME NEW i \in 1..(Used(h, t) - 1)
      PROVE  Pos(Succ(h), i) = Pos(h, i + 1)
  <2>1. Pos(h, i + 1) = IF h + i < RingLen THEN h + i ELSE h + i - RingLen
    BY <1>1, Wrap DEF Pos, Index
  <2>2. Pos(Succ(h), i) = IF Succ(h) + i - 1 < RingLen THEN Succ(h) + i - 1
                          ELSE Succ(h) + i - 1 - RingLen
    BY <1>1, <1>2, Wrap DEF Pos, Index
  <2>. QED  BY <1>1, <1>2, <2>1, <2>2 DEF Index
<1>. QED  BY <1>1, <1>2, <1>3, <1>4, <1>5 DEF Index

\* QueueIntact in these terms.
LEMMA QueueShape ==
    QueueIntact <=> /\ Len(queue) = Used(head, tail)
                    /\ \A i \in 1..Len(queue) : slot[Pos(head, i)] = queue[i].s
BY DEF QueueIntact, Used, Pos

-----------------------------------------------------------------------------
(* The inductive invariant: type, shape and queue. *)

\* Storing a byte count, an address or a value leaves a slot a wire operation.
LEMMA EncodeWire ==
    ASSUME NEW op \in Wire
    PROVE  Encode(op) \in Wire /\ Encode(op).n \in Nat
BY ConstantsAssumption DEF Encode, Wire, Clip, Kind

\* Executing a slot stores a natural number of bytes.
LEMMA CountNat ==
    ASSUME NEW s \in Wire
    PROVE  Count(s) \in Nat
BY ConstantsAssumption DEF Count, Wire, Clip

\* Taking the head of a sequence and leaving the rest.
LEMMA HeadTail ==
    ASSUME NEW R, NEW q \in Seq(R), q # <<>>
    PROVE  /\ Len(q) > 0 /\ Head(q) = q[1] /\ Head(q) \in R
           /\ Tail(q) \in Seq(R) /\ Len(Tail(q)) = Len(q) - 1
           /\ \A i \in 1..(Len(q) - 1) : Tail(q)[i] = q[i + 1]
OBVIOUS

\* Appending to a sequence that has a head leaves it the same.
LEMMA AppendHead ==
    ASSUME NEW R, NEW q \in Seq(R), NEW e, q # <<>>
    PROVE  Append(q, e) # <<>> /\ Head(Append(q, e)) = Head(q)
<1>1. Len(q) > 0 /\ Len(Append(q, e)) = Len(q) + 1 /\ Append(q, e)[1] = q[1]
  OBVIOUS
<1>. QED  BY <1>1

Published == [s : Wire, op : Wire, regs : BOOLEAN]

\* What the history says of the operation at the head.
LEMMA HeadTyped ==
    ASSUME queue \in Seq(Published), queue # <<>>
    PROVE  Head(queue) = queue[1] /\ Head(queue).s \in Wire
<1>1. Head(queue) = queue[1] /\ Head(queue) \in Published  BY HeadTail
<1>. QED  BY <1>1 DEF Published

\* The runtime starts with an empty ring.
LEMMA InitIInv == ClearedWram /\ Init => IInv
<1>. SUFFICES ASSUME ClearedWram, Init PROVE IInv
  OBVIOUS
<1>1. TypeOK
  BY ConstantsAssumption DEF ClearedWram, Init, TypeOK, IdleMain, IdleIsr, Blank, Wire, MainPc,
     IsrPc, Mode
<1>2. QueueIntact
  BY UsedBounds, QueueShape, ConstantsAssumption DEF ClearedWram, Init, Index
<1>3. IsrShape /\ MainShape /\ HeadLoaded /\ SlotFilled /\ ImmediatesFaithful
  BY DEF Init, IsrShape, MainShape, Filling, HeadLoaded, Executing, SlotFilled,
     ImmediatesFaithful, IdleMain, IdleIsr
<1>. QED  BY <1>1, <1>2, <1>3 DEF IInv

\* Every step of the program, of the handlers and of the PPU is well typed.
LEMMA NextTypeOK == IInv /\ [Next]_vars => TypeOK'
<1>. SUFFICES ASSUME IInv, [Next]_vars PROVE TypeOK'
  OBVIOUS
<1>. USE DEF TypeOK, IInv, OnlyMain, OnlyIsr, Index
<1>. RingLen \in Nat /\ RingLen > 1  BY ConstantsAssumption
<1>0. Blank \in Wire /\ IdleMain \in [pc : MainPc, op : Wire, regs : BOOLEAN, next : Index]
  BY DEF Blank, Wire, IdleMain, MainPc
<1>. DEFINE IsrType == [src : {"none", "vblank", "stat"}, pc : IsrPc, s : Wire, i : Nat,
   left : 0..MaxOps]
<1>00. IdleIsr \in IsrType
  BY <1>0, ConstantsAssumption DEF IdleIsr, IsrPc
<1>1. ASSUME NEW op \in Op, QueueOp(op) PROVE TypeOK'
  BY <1>1, <1>0, ConstantsAssumption DEF QueueOp, MainPc, IdleMain
<1>2. ASSUME NEW op \in RegOp, QueueGlyphCell(op) PROVE TypeOK'
  BY <1>2, <1>0, ConstantsAssumption DEF QueueGlyphCell, MainPc, IdleMain
<1>3. CASE SaveVal  BY <1>3 DEF SaveVal, Goto, MainPc, Wire
<1>4. CASE SaveAt  BY <1>4 DEF SaveAt, Goto, MainPc, Wire
<1>5. CASE NextTail  BY <1>5, SuccIndex DEF NextTail, Panic, MainPc
<1>6. CASE WriteKind
  <2>1. slot' \in [Index -> Wire]  BY <1>6 DEF WriteKind, Wire
  <2>. QED  BY <1>6, <2>1 DEF WriteKind, Goto, MainPc
<1>7. CASE WriteAt
  <2>1. slot' \in [Index -> Wire]  BY <1>7, ZenonT(40) DEF WriteAt, Wire
  <2>. QED  BY <1>7, <2>1 DEF WriteAt, Goto, MainPc
<1>8. CASE WriteLen
  <2>1. Encode(main.op).n \in Nat  BY EncodeWire
  <2>2. slot' \in [Index -> Wire]  BY <1>8, <2>1 DEF WriteLen, Wire
  <2>. QED  BY <1>8, <2>2 DEF WriteLen, Goto, MainPc
<1>9. CASE WriteVal
  <2>1. slot' \in [Index -> Wire]  BY <1>9, ZenonT(40) DEF WriteVal, Wire
  <2>. QED  BY <1>9, <2>1 DEF WriteVal, Goto, MainPc
<1>10. CASE PublishTail
  <2>1. [s |-> slot[tail], op |-> main.op, regs |-> main.regs] \in [s : Wire, op : Wire, regs : BOOLEAN]
    OBVIOUS
  <2>2. queue' \in Seq([s : Wire, op : Wire, regs : BOOLEAN])
    BY <1>10, <2>1 DEF PublishTail
  <2>. QED  BY <1>10, <1>0, <2>2 DEF PublishTail
<1>11. CASE PpuStep
  BY <1>11 DEF PpuStep, ScanLine, EndLine, NextLine, EndFrame, NextFrame, Ppu, Mode
<1>12. ASSUME NEW src \in {"vblank", "stat"}, TakeInterrupt(src) PROVE TypeOK'
  BY <1>12, <1>00 DEF TakeInterrupt, IdleIsr, IsrPc
<1>13. CASE DrainHBlank
  <2>0. slot[head] \in Wire /\ slot[head].at \in Nat /\ slot[head].val \in Nat
    BY DEF Wire
  <2>1. isr' \in IsrType
    <3>1. CASE UNCHANGED isr  BY <3>1
    <3>2. CASE ReturnFromIsr  BY <3>2, <1>00 DEF ReturnFromIsr
    <3>3. CASE Begin(slot[head], "put")  BY <3>3, <2>0 DEF Begin, IsrPc
    <3>. QED  BY <1>13, <3>1, <3>2, <3>3 DEF DrainHBlank
  <2>2. work' \in [at : Nat, val : Nat]
    <3>1. CASE UNCHANGED work  BY <3>1
    <3>2. CASE Begin(slot[head], "put")  BY <3>2, <2>0 DEF Begin, Load
    <3>. QED  BY <1>13, <3>1, <3>2 DEF DrainHBlank, ReturnFromIsr
  <2>3. fault' \in {"none", "UiCommitQueueFull", "UiCommitOutsideLegalMode"}
    BY <1>13 DEF DrainHBlank, ReturnFromIsr, Begin, Panic
  <2>. QED  BY <1>13, <2>1, <2>2, <2>3 DEF DrainHBlank
<1>14. CASE GuardVBlank
  <2>1. CASE UNCHANGED isr  BY <1>14, <2>1 DEF GuardVBlank, Panic
  <2>2. CASE isr' = [isr EXCEPT !.pc = "loop", !.left = MaxOps]
    <3>1. MaxOps \in 0..MaxOps  BY ConstantsAssumption
    <3>2. isr \in IsrType  OBVIOUS
    <3>. HIDE DEF TypeOK, IInv
    <3>3. isr' \in IsrType  BY <2>2, <3>1, <3>2 DEF IsrPc
    <3>. USE DEF TypeOK, IInv
    <3>. QED  BY <1>14, <3>3 DEF GuardVBlank, Panic
  <2>. QED  BY <1>14, <2>1, <2>2 DEF GuardVBlank
<1>15. CASE Fetch  BY <1>15 DEF Fetch, Begin, Load, IsrPc, Wire
<1>16. CASE StopLoop  BY <1>16, <1>00 DEF StopLoop, ReturnFromIsr
<1>17. CASE Defer  BY <1>17, <1>00 DEF Defer, ReturnFromIsr
<1>18. CASE PutByte
  <2>1. \E pc \in {"publish", "check"} : isr' = [isr EXCEPT !.i = isr.i + 1, !.pc = pc]
    BY <1>18 DEF PutByte
  <2>3. PICK pc \in {"publish", "check"} : isr' = [isr EXCEPT !.i = isr.i + 1, !.pc = pc]
    BY <2>1
  <2>11. isr' \in IsrType
    <3>1. isr \in IsrType  OBVIOUS
    <3>2. isr.i + 1 \in Nat /\ pc \in IsrPc  BY <3>1 DEF IsrPc
    <3>. HIDE DEF TypeOK, IInv
    <3>. QED  BY <2>3, <3>1, <3>2
  <2>2. screen' \in [Loc -> Nat]  BY <1>18 DEF PutByte, Wire
  <2>. QED  BY <1>18, <2>11, <2>2 DEF PutByte
<1>19. CASE PublishHead
  <2>1. head' \in Index  BY <1>19, SuccIndex DEF PublishHead
  <2>2. head # tail  BY <1>19 DEF PublishHead, HeadLoaded, Executing
  <2>3. queue # <<>>  BY <2>2, UsedBounds, QueueShape
  <2>4. queue' \in Seq([s : Wire, op : Wire, regs : BOOLEAN])  BY <1>19, <2>3 DEF PublishHead
  <2>5. want' \in [Loc -> Nat]
    <3>1. Head(queue).s \in Wire  BY <2>3, HeadTyped DEF Published
    <3>2. Head(queue).s.val \in Nat  BY <3>1 DEF Wire
    <3>. QED  BY <1>19, <3>2 DEF PublishHead
  <2>6. isr' \in IsrType
    <3>1. isr.src # "stat" => isr.left > 0  BY <1>19 DEF PublishHead, IsrShape
    <3>2. isr.src # "stat" /\ isr.left # 1 => isr.left - 1 \in 0..MaxOps
      BY <3>1, ConstantsAssumption
    <3>. QED  BY <1>19, <1>00, <3>2 DEF PublishHead, IsrPc
  <2>. QED  BY <1>19, <2>1, <2>4, <2>5, <2>6 DEF PublishHead
<1>20. ASSUME NEW i \in 0..LastLoc, CheckMode(i) PROVE TypeOK'
  BY <1>20 DEF CheckMode, IsrPc
<1>21. CASE UNCHANGED vars  BY <1>21 DEF vars
<1>. QED
  BY <1>1, <1>2, <1>3, <1>4, <1>5, <1>6, <1>7, <1>8, <1>9, <1>10, <1>11, <1>12, <1>13, <1>14,
     <1>15, <1>16, <1>17, <1>18, <1>19, <1>20, <1>21 DEF Next, MainStep, Enqueue, IsrStep

\* The steps that leave the ring alone, and those that fill its free slot.
QuietMain == \/ \E op \in Op : QueueOp(op)
             \/ \E op \in RegOp : QueueGlyphCell(op)
             \/ SaveVal \/ SaveAt \/ NextTail
FillSlot  == WriteKind \/ WriteAt \/ WriteLen \/ WriteVal
QuietIsr  == \/ DrainHBlank \/ GuardVBlank \/ Fetch \/ StopLoop \/ Defer \/ PutByte
             \/ \E i \in 0..LastLoc : CheckMode(i)
             \/ \E src \in {"vblank", "stat"} : TakeInterrupt(src)
Elsewhere == QuietMain \/ QuietIsr \/ PpuStep \/ UNCHANGED vars

\* Every step is of one of four kinds.
LEMMA StepKinds == [Next]_vars => Elsewhere \/ FillSlot \/ PublishTail \/ PublishHead
BY DEF Next, MainStep, Enqueue, IsrStep, Elsewhere, QuietMain, FillSlot, QuietIsr

\* What the steps elsewhere leave alone.
LEMMA QuietFrames ==
    /\ Elsewhere => UNCHANGED <<head, tail, slot, queue>>
    /\ QuietMain => UNCHANGED <<isr, screen, want, missed>>
    /\ QuietIsr \/ PpuStep => UNCHANGED <<main, want>>
    /\ PpuStep => UNCHANGED <<isr, screen, missed>>
BY DEF Elsewhere, QuietMain, QuietIsr, QueueOp, QueueGlyphCell, SaveVal, SaveAt, NextTail,
   OnlyMain, OnlyIsr, DrainHBlank, GuardVBlank, Fetch, StopLoop, Defer, PutByte, CheckMode,
   TakeInterrupt, PpuStep, ScanLine, EndLine, NextLine, EndFrame, NextFrame, Ppu, vars

\* Filling a slot writes at TAIL only.
LEMMA FillFrame ==
    ASSUME TypeOK, FillSlot
    PROVE  /\ UNCHANGED <<head, tail, queue, isr, mode, screen, want, missed>>
           /\ isr.src = "none"
           /\ main.pc \in {"kind", "at", "n", "val"} /\ main'.pc \in {"at", "n", "val", "publish"}
           /\ main'.next = main.next
           /\ \A j \in Index : j # tail => slot'[j] = slot[j]
<1>. USE DEF Main, Goto, OnlyMain, TypeOK, Index
<1>1. CASE WriteKind  BY <1>1 DEF WriteKind
<1>2. CASE WriteAt  BY <1>2 DEF WriteAt
<1>3. CASE WriteLen  BY <1>3 DEF WriteLen
<1>4. CASE WriteVal  BY <1>4 DEF WriteVal
<1>. QED  BY <1>1, <1>2, <1>3, <1>4 DEF FillSlot

\* The queue stays intact: the free slot is not a live one, publishing TAIL
\* adds it behind the others, publishing HEAD takes the first one away.
LEMMA NextQueue == IInv /\ [Next]_vars => QueueIntact'
<1>. SUFFICES ASSUME IInv, [Next]_vars PROVE QueueIntact'
  OBVIOUS
<1>. DEFINE R == [s : Wire, op : Wire, regs : BOOLEAN]
<1>0. /\ head \in Index /\ tail \in Index /\ slot \in [Index -> Wire]
      /\ queue \in Seq(R) /\ Len(queue) = Used(head, tail) /\ Used(head, tail) \in Index
      /\ \A i \in 1..Len(queue) : slot[Pos(head, i)] = queue[i].s
  BY QueueShape, UsedBounds DEF IInv, TypeOK, Index
<1>1. CASE Elsewhere  BY <1>1, QuietFrames DEF IInv, QueueIntact
<1>2. CASE FillSlot
  <2>1. \A i \in 1..Len(queue) : slot'[Pos(head, i)] = slot[Pos(head, i)]
    BY <1>0, <1>2, FillFrame, PosLive DEF IInv
  <2>2. UNCHANGED <<head, tail, queue>>  BY <1>2, FillFrame DEF IInv
  <2>. QED  BY <1>0, <2>1, <2>2 DEF QueueIntact, Used, Pos
<1>3. CASE PublishTail
  <2>1. main.next = Succ(tail) /\ Succ(tail) # head
    BY <1>3 DEF IInv, MainShape, Filling, PublishTail, Main
  <2>2. Used(head, Succ(tail)) = Used(head, tail) + 1 /\ Pos(head, Used(head, tail) + 1) = tail
    BY <1>0, <2>1, PosTail
  <2>3. PICK e : e.s = slot[tail] /\ queue' = Append(queue, e)
    BY <1>3 DEF PublishTail
  <2>4. Len(queue') = Len(queue) + 1 /\ queue'[Len(queue) + 1] = e
    BY <2>3, <1>0
  <2>5. \A i \in 1..Len(queue) : queue'[i] = queue[i]
    BY <2>3, <1>0
  <2>6. head' = head /\ tail' = Succ(tail) /\ slot' = slot
    BY <1>3, <2>1 DEF PublishTail, OnlyMain
  <2>7. Len(queue') = Used(head', tail')
    BY <1>0, <2>2, <2>4, <2>6
  <2>8. ASSUME NEW i \in 1..Len(queue') PROVE slot'[Pos(head', i)] = queue'[i].s
    <3>1. CASE i = Len(queue) + 1  BY <3>1, <1>0, <2>2, <2>3, <2>4, <2>6
    <3>2. CASE i \in 1..Len(queue)  BY <3>2, <1>0, <2>5, <2>6
    <3>. QED  BY <3>1, <3>2, <2>4, <1>0
  <2>. QED  BY <2>7, <2>8 DEF QueueIntact, Used, Pos
<1>4. CASE PublishHead
  <2>1. head # tail  BY <1>4 DEF IInv, HeadLoaded, Executing, PublishHead
  <2>2. /\ Used(Succ(head), tail) = Used(head, tail) - 1
        /\ \A i \in 1..(Used(head, tail) - 1) : Pos(Succ(head), i) = Pos(head, i + 1)
    BY <1>0, <2>1, PosHead
  <2>3. queue # <<>>  BY <1>0, <2>1, UsedBounds
  <2>4. Len(queue') = Len(queue) - 1 /\ \A i \in 1..(Len(queue) - 1) : queue'[i] = queue[i + 1]
    BY <1>0, <2>3, <1>4, HeadTail DEF PublishHead
  <2>5. head' = Succ(head) /\ tail' = tail /\ slot' = slot  BY <1>4 DEF PublishHead
  <2>6. Len(queue') = Used(head', tail')  BY <1>0, <2>2, <2>4, <2>5
  <2>7. ASSUME NEW i \in 1..Len(queue') PROVE slot'[Pos(head', i)] = queue'[i].s
    <3>1. i \in 1..(Len(queue) - 1) /\ i + 1 \in 1..Len(queue)
      BY <1>0, <2>4 DEF Index
    <3>. QED  BY <3>1, <1>0, <2>2, <2>4, <2>5
  <2>. QED  BY <2>6, <2>7 DEF QueueIntact, Used, Pos
<1>. QED  BY <1>1, <1>2, <1>3, <1>4, StepKinds

\* The handlers keep to their program.
LEMMA NextIsrShape == IInv /\ [Next]_vars => IsrShape'
<1>. SUFFICES ASSUME IInv, [Next]_vars PROVE IsrShape'
  OBVIOUS
<1>. USE DEF IInv, IsrShape
<1>0. isr \in [src : {"none", "vblank", "stat"}, pc : IsrPc, s : Wire, i : Nat, left : 0..MaxOps]
  BY DEF TypeOK
<1>1. CASE QuietMain \/ PpuStep \/ FillSlot \/ PublishTail \/ UNCHANGED vars
  BY <1>1, QuietFrames, FillFrame DEF PublishTail, OnlyMain, vars
<1>. HIDE DEF IInv
<1>. IsrShape  BY DEF IInv
<1>2. ASSUME NEW src \in {"vblank", "stat"}, TakeInterrupt(src) PROVE IsrShape'
  BY <1>2 DEF TakeInterrupt, IdleIsr
<1>3. CASE DrainHBlank
  <2>1. CASE UNCHANGED isr  BY <2>1
  <2>2. CASE isr' = IdleIsr  BY <2>2 DEF IdleIsr
  <2>3. CASE Begin(slot[head], "put") /\ slot[head].kind = "glyph"
    BY <1>0, <1>3, <2>3 DEF DrainHBlank, Isr, Begin
  <2>. QED  BY <1>3, <2>1, <2>2, <2>3 DEF DrainHBlank, ReturnFromIsr
<1>4. CASE GuardVBlank
  <2>1. CASE UNCHANGED isr  BY <2>1
  <2>2. CASE isr' = [isr EXCEPT !.pc = "loop", !.left = MaxOps]
    <3>1. MaxOps > 0  BY ConstantsAssumption
    <3>2. isr'.src = "vblank" /\ isr'.pc = "loop" /\ isr'.left = MaxOps
      BY <1>0, <1>4, <2>2 DEF GuardVBlank, Isr
    <3>. QED  BY <3>1, <3>2
  <2>. QED  BY <1>4, <2>1, <2>2 DEF GuardVBlank
<1>5. CASE Fetch  BY <1>0, <1>5 DEF Fetch, Isr, Begin
<1>6. CASE StopLoop \/ Defer  BY <1>6 DEF StopLoop, Defer, ReturnFromIsr, IdleIsr
<1>7. CASE PutByte
  <2>1. isr.src = "stat" => isr'.pc = "publish"
    <3>1. isr.src = "stat" => isr.i + 1 = Count(isr.s)
      BY <1>7 DEF PutByte, Count
    <3>. QED  BY <1>0, <1>7, <3>1 DEF PutByte
  <2>. QED  BY <1>0, <1>7, <2>1 DEF PutByte
<1>8. CASE PublishHead  BY <1>0, <1>8 DEF PublishHead, IdleIsr
<1>9. ASSUME NEW i \in 0..LastLoc, CheckMode(i) PROVE IsrShape'
  BY <1>0, <1>9 DEF CheckMode, Isr
<1>. QED
  BY <1>1, <1>2, <1>3, <1>4, <1>5, <1>6, <1>7, <1>8, <1>9, StepKinds DEF Elsewhere, QuietIsr

\* The slot at TAIL stays free while the program fills it: HEAD only moves
\* on from a live slot.
LEMMA NextMainShape == IInv /\ [Next]_vars => MainShape'
<1>. SUFFICES ASSUME IInv, [Next]_vars PROVE MainShape'
  OBVIOUS
<1>. USE DEF MainShape, Filling
<1>0. /\ main \in [pc : MainPc, op : Wire, regs : BOOLEAN, next : Index]
      /\ head \in Index /\ tail \in Index /\ MainShape
  BY DEF IInv, TypeOK, Index
<1>1. CASE QuietIsr \/ PpuStep \/ UNCHANGED vars
  BY <1>0, <1>1, QuietFrames DEF Elsewhere, vars
<1>2. ASSUME NEW op \in Wire, QueueOp(op) \/ QueueGlyphCell(op) PROVE MainShape'
  BY <1>2 DEF QueueOp, QueueGlyphCell, IdleMain
<1>3. CASE SaveVal \/ SaveAt  BY <1>0, <1>3 DEF SaveVal, SaveAt, Goto
<1>4. CASE NextTail  BY <1>0, <1>4 DEF NextTail, OnlyMain, Main
<1>5. CASE FillSlot  BY <1>0, <1>5, FillFrame DEF IInv
<1>6. CASE PublishTail  BY <1>6 DEF PublishTail, IdleMain
<1>7. CASE PublishHead
  <2>1. head # tail  BY <1>7 DEF IInv, HeadLoaded, Executing, PublishHead
  <2>2. Succ(tail) # Succ(head)  BY <1>0, <2>1, SuccIndex, ConstantsAssumption DEF Index
  <2>. QED  BY <1>0, <1>7, <2>2 DEF PublishHead
<1>. QED
  BY <1>1, <1>2, <1>3, <1>4, <1>5, <1>6, <1>7, StepKinds, ConstantsAssumption
  DEF Elsewhere, QuietMain

\* A handler loads the operation at the head; nothing changes it or moves
\* HEAD until the handler itself has executed it.
LEMMA NextHeadLoaded == IInv /\ [Next]_vars => HeadLoaded'
<1>. SUFFICES ASSUME IInv, [Next]_vars PROVE HeadLoaded'
  OBVIOUS
<1>. USE DEF HeadLoaded, Executing
<1>0. /\ isr \in [src : {"none", "vblank", "stat"}, pc : IsrPc, s : Wire, i : Nat, left : 0..MaxOps]
      /\ HeadLoaded /\ IsrShape
  BY DEF IInv, TypeOK
<1>1. CASE QuietMain \/ PpuStep \/ UNCHANGED vars
  BY <1>0, <1>1, QuietFrames DEF Elsewhere, vars
<1>2. CASE FillSlot \/ PublishTail
  <2>1. UNCHANGED isr /\ isr.src = "none"
    BY <1>2, FillFrame DEF PublishTail, OnlyMain, Main, IInv
  <2>. QED  BY <1>0, <2>1 DEF IsrShape
<1>3. CASE QuietIsr
  <2>0. UNCHANGED <<head, tail, slot>>  BY <1>3, QuietFrames DEF Elsewhere
  <2>1. CASE isr' = IdleIsr \/ UNCHANGED isr \/ isr'.pc \in {"guard", "loop"}
    BY <2>0, <2>1, <1>0 DEF IdleIsr
  <2>2. ASSUME NEW pc, Begin(slot[head], pc), head # tail PROVE HeadLoaded'
    BY <2>0, <2>2, <1>0 DEF Begin
  <2>3. CASE PutByte  BY <2>0, <2>3, <1>0 DEF PutByte
  <2>4. ASSUME NEW i, CheckMode(i) PROVE HeadLoaded'
    BY <2>0, <2>4, <1>0 DEF CheckMode, Isr
  <2>5. ASSUME NEW src, TakeInterrupt(src) PROVE isr'.pc = "guard"
    BY <2>5 DEF TakeInterrupt, IdleIsr
  <2>6. CASE GuardVBlank  BY <1>0, <2>1, <2>6 DEF GuardVBlank
  <2>7. CASE DrainHBlank  BY <2>1, <2>2, <2>7 DEF DrainHBlank, ReturnFromIsr
  <2>8. CASE Fetch  BY <2>2, <2>8 DEF Fetch
  <2>9. CASE StopLoop \/ Defer  BY <2>1, <2>9 DEF StopLoop, Defer, ReturnFromIsr
  <2>. QED  BY <1>3, <2>1, <2>3, <2>4, <2>5, <2>6, <2>7, <2>8, <2>9 DEF QuietIsr
<1>4. CASE PublishHead  BY <1>0, <1>4 DEF PublishHead, IdleIsr
<1>. QED  BY <1>1, <1>2, <1>3, <1>4, StepKinds DEF Elsewhere

\* Immediates reach the slot unchanged, field by field.
LEMMA NextSlotFilled == IInv /\ [Next]_vars => SlotFilled'
<1>. SUFFICES ASSUME IInv, [Next]_vars PROVE SlotFilled'
  OBVIOUS
<1>. USE DEF SlotFilled
<1>0. /\ main \in [pc : MainPc, op : Wire, regs : BOOLEAN, next : Index]
      /\ tail \in Index /\ slot \in [Index -> Wire] /\ SlotFilled
  BY DEF IInv, TypeOK, Index
<1>1. CASE QuietIsr \/ PpuStep \/ UNCHANGED vars
  BY <1>0, <1>1, QuietFrames DEF Elsewhere, vars
<1>2. ASSUME NEW op, QueueOp(op) \/ QueueGlyphCell(op) PROVE SlotFilled'
  BY <1>2 DEF QueueOp, QueueGlyphCell, IdleMain
<1>3. CASE SaveVal \/ SaveAt  BY <1>0, <1>3 DEF SaveVal, SaveAt, Goto
<1>4. CASE NextTail  BY <1>0, <1>4 DEF NextTail, OnlyMain, Main
<1>5. CASE WriteKind  BY <1>0, <1>5 DEF WriteKind, Goto, Main, Wire
<1>6. CASE WriteAt  BY <1>0, <1>6 DEF WriteAt, Goto, Main, Wire
<1>7. CASE WriteLen  BY <1>0, <1>7 DEF WriteLen, Goto, Main, Wire
<1>8. CASE WriteVal  BY <1>0, <1>8 DEF WriteVal, Goto, Main, Wire
<1>9. CASE PublishTail  BY <1>9 DEF PublishTail, IdleMain
<1>10. CASE PublishHead  BY <1>0, <1>10 DEF PublishHead
<1>. QED
  BY <1>1, <1>2, <1>3, <1>4, <1>5, <1>6, <1>7, <1>8, <1>9, <1>10, StepKinds
  DEF Elsewhere, QuietMain, FillSlot

\* An operation with immediates is published as encoded and stays so.
LEMMA NextImmediates == IInv /\ [Next]_vars => ImmediatesFaithful'
<1>. SUFFICES ASSUME IInv, [Next]_vars PROVE ImmediatesFaithful'
  OBVIOUS
<1>. DEFINE R == [s : Wire, op : Wire, regs : BOOLEAN]
<1>0. /\ main \in [pc : MainPc, op : Wire, regs : BOOLEAN, next : Index]
      /\ tail \in Index /\ slot \in [Index -> Wire] /\ SlotFilled
      /\ queue \in Seq(R) /\ ImmediatesFaithful
  BY DEF IInv, TypeOK, Index
<1>1. CASE Elsewhere \/ FillSlot
  BY <1>0, <1>1, QuietFrames, FillFrame DEF IInv, ImmediatesFaithful
<1>2. CASE PublishTail
  <2>. DEFINE e == [s |-> slot[tail], op |-> main.op, regs |-> main.regs]
  <2>1. ~main.regs => slot[tail] = Encode(main.op)
    BY <1>0, <1>2 DEF PublishTail, Main, SlotFilled, Encode, Wire
  <2>2. e.regs \/ e.s = Encode(e.op)  BY <2>1
  <2>3. queue' = Append(queue, e)  BY <1>2 DEF PublishTail
  <2>. HIDE DEF e
  <2>4. /\ Len(queue') = Len(queue) + 1 /\ queue'[Len(queue) + 1] = e
        /\ \A i \in 1..Len(queue) : queue'[i] = queue[i]
    BY <2>3, <1>0
  <2>. QED  BY <1>0, <2>2, <2>4 DEF ImmediatesFaithful
<1>3. CASE PublishHead
  <2>1. queue # <<>>
    BY <1>3, UsedBounds, QueueShape DEF IInv, TypeOK, Index, HeadLoaded, Executing, PublishHead
  <2>2. Len(queue') = Len(queue) - 1 /\ \A i \in 1..(Len(queue) - 1) : queue'[i] = queue[i + 1]
    BY <1>0, <2>1, <1>3, HeadTail DEF PublishHead
  <2>. QED  BY <1>0, <2>2 DEF ImmediatesFaithful
<1>. QED  BY <1>1, <1>2, <1>3, StepKinds

\* The inductive invariant holds in every reachable state.
LEMMA SpecIInv == ASSUME ClearedWram PROVE Spec => []IInv
<1>1. Init => IInv  BY InitIInv
<1>2. IInv /\ [Next]_vars => IInv'
  BY NextTypeOK, NextQueue, NextIsrShape, NextMainShape, NextHeadLoaded, NextSlotFilled,
     NextImmediates DEF IInv
<1>. QED  BY <1>1, <1>2, PTL DEF Spec

-----------------------------------------------------------------------------
(* The screen. *)

\* The operation at the head, where the histories and the ring meet.
LEMMA HeadAgrees ==
    ASSUME IInv, head # tail
    PROVE  queue # <<>> /\ Head(queue).s = slot[head]
<1>. DEFINE R == [s : Wire, op : Wire, regs : BOOLEAN]
<1>1. /\ head \in Index /\ tail \in Index /\ queue \in Seq(R)
      /\ Len(queue) = Used(head, tail)
      /\ \A i \in 1..Len(queue) : slot[Pos(head, i)] = queue[i].s
  BY QueueShape DEF IInv, TypeOK, Index
<1>2. queue # <<>>  BY <1>1, UsedBounds
<1>3. Len(queue) > 0 /\ Head(queue) = queue[1]  BY <1>1, <1>2, HeadTail
<1>4. Pos(head, 1) = head  BY <1>1, PosHead
<1>5. 1 \in 1..Len(queue)  BY <1>1, <1>3
<1>. QED  BY <1>1, <1>2, <1>3, <1>4, <1>5

\* A drain stores the bytes of its operation one after the other.
LEMMA NextProgress ==
    ASSUME IInv, Progress, [Next]_vars
    PROVE  Progress'
<1>. USE DEF Progress, Executing
<1>0. /\ isr \in [src : {"none", "vblank", "stat"}, pc : IsrPc, s : Wire, i : Nat, left : 0..MaxOps]
      /\ IsrShape /\ HeadLoaded /\ slot[head] \in Wire /\ screen \in [Loc -> Nat]
  BY DEF IInv, TypeOK
<1>1. CASE QuietMain \/ FillSlot \/ PublishTail \/ UNCHANGED vars
  BY <1>1, QuietFrames, FillFrame DEF IInv, PublishTail, OnlyMain, vars
<1>2. CASE PpuStep
  BY <1>2, QuietFrames
<1>3. CASE isr' = IdleIsr \/ isr'.pc \in {"guard", "loop"}
  BY <1>3 DEF IdleIsr
<1>4. ASSUME NEW src, TakeInterrupt(src) PROVE Progress'
  BY <1>4, <1>3 DEF TakeInterrupt, IdleIsr
<1>5. CASE DrainHBlank
  <2>1. CASE UNCHANGED <<isr, screen, missed>>  BY <2>1
  <2>2. CASE ReturnFromIsr  BY <2>2, <1>3 DEF ReturnFromIsr
  <2>3. CASE mode = "HBlank" /\ slot[head].kind = "glyph" /\ Begin(slot[head], "put")
    <3>1. Count(slot[head]) = 1  BY <2>3 DEF Count
    <3>2. isr'.pc = "put" /\ isr'.s = slot[head] /\ isr'.i = 0  BY <1>0, <2>3 DEF Begin
    <3>. QED  BY <1>5, <2>3, <3>1, <3>2 DEF DrainHBlank, OnlyIsr
  <2>. QED  BY <1>5, <2>1, <2>2, <2>3 DEF DrainHBlank, OnlyIsr
<1>6. CASE GuardVBlank
  BY <1>0, <1>6 DEF GuardVBlank, OnlyIsr, Isr
<1>7. CASE Fetch
  <2>1. Count(slot[head]) \in Nat  BY <1>0, CountNat
  <2>2. isr'.s = slot[head] /\ isr'.i = 0  BY <1>0, <1>7 DEF Fetch, Begin
  <2>3. Count(slot[head]) = 0 <=> isr'.pc = "publish"
    BY <1>0, <1>7 DEF Fetch, Begin
  <2>4. UNCHANGED <<screen, missed>>  BY <1>7 DEF Fetch
  <2>. QED  BY <2>1, <2>2, <2>3, <2>4
<1>8. CASE StopLoop \/ Defer  BY <1>3, <1>8 DEF StopLoop, Defer, ReturnFromIsr
<1>9. ASSUME NEW i \in 0..LastLoc, CheckMode(i) PROVE Progress'
  <2>1. isr'.pc = "put" /\ isr'.s = isr.s /\ isr'.i = isr.i /\ isr.pc = "check"
    BY <1>0, <1>9 DEF CheckMode, Isr
  <2>. QED  BY <1>9, <2>1 DEF CheckMode, OnlyIsr
<1>10. CASE PutByte
  <2>1. Count(isr.s) \in Nat /\ isr.i \in Nat /\ isr.i < Count(isr.s)
    BY <1>0, <1>10, CountNat DEF PutByte
  <2>2. isr'.s = isr.s /\ isr'.i = isr.i + 1
    BY <1>0, <1>10 DEF PutByte
  <2>3. isr'.pc = IF isr.i + 1 = Count(isr.s) THEN "publish" ELSE "check"
    BY <1>0, <1>10 DEF PutByte
  <2>5. \/ /\ screen' = [screen EXCEPT ![Target(isr.s, isr.i)] = isr.s.val]
           /\ missed' = missed \ {Target(isr.s, isr.i)}
        \/ UNCHANGED screen /\ missed' = missed \cup ({Target(isr.s, isr.i)} \cap Loc)
    BY <1>10 DEF PutByte
  <2>6. ASSUME NEW j \in 0..isr.i, Target(isr.s, j) \in Loc
        PROVE  screen'[Target(isr.s, j)] = isr.s.val \/ Target(isr.s, j) \in missed'
    <3>1. CASE Target(isr.s, j) = Target(isr.s, isr.i)  BY <1>0, <2>5, <2>6, <3>1
    <3>2. CASE Target(isr.s, j) # Target(isr.s, isr.i)
      <4>1. j \in 0..(isr.i - 1)  BY <2>1, <3>2
      <4>2. screen[Target(isr.s, j)] = isr.s.val \/ Target(isr.s, j) \in missed
        BY <1>10, <2>6, <4>1 DEF PutByte
      <4>. QED  BY <1>0, <2>5, <2>6, <3>2, <4>2
    <3>. QED  BY <3>1, <3>2
  <2>. QED  BY <2>1, <2>2, <2>3, <2>6
<1>11. CASE PublishHead  BY <1>0, <1>3, <1>11 DEF PublishHead
<1>. QED
  BY <1>1, <1>2, <1>4, <1>5, <1>6, <1>7, <1>8, <1>9, <1>10, <1>11, StepKinds
  DEF Elsewhere, QuietIsr

\* A step changes the screen, the wanted screen or the head of the queue only
\* by storing, publishing HEAD or publishing into an empty ring.
LEMMA NextScreen ==
    ASSUME IInv, ScreenInv, [Next]_vars
    PROVE  ScreenFaithful'
<1>. DEFINE R == [s : Wire, op : Wire, regs : BOOLEAN]
<1>0. /\ queue \in Seq(R) /\ screen \in [Loc -> Nat] /\ want \in [Loc -> Nat]
      /\ ScreenFaithful /\ Progress /\ HeadLoaded
      /\ isr \in [src : {"none", "vblank", "stat"}, pc : IsrPc, s : Wire, i : Nat, left : 0..MaxOps]
  BY DEF IInv, TypeOK, ScreenInv
<1>1. CASE UNCHANGED <<screen, want, queue, missed>>  BY <1>0, <1>1 DEF ScreenFaithful
<1>2. CASE PutByte
  <2>1. queue # <<>> /\ Head(queue).s = isr.s
    BY <1>0, <1>2, HeadAgrees DEF PutByte, HeadLoaded, Executing
  <2>2. isr.i \in 0..(Count(isr.s) - 1)
    BY <1>0, <1>2, CountNat DEF PutByte, Progress, Executing
  <2>3. Target(isr.s, isr.i) \in Locs(isr.s)  BY <2>2 DEF Locs
  <2>4. UNCHANGED <<queue, want>>  BY <1>2 DEF PutByte, OnlyIsr
  <2>5. ASSUME NEW l \in Loc
        PROVE  \/ screen'[l] = screen[l] /\ (l \in missed => l \in missed')
               \/ l = Target(isr.s, isr.i) /\ screen'[l] = isr.s.val
    BY <1>0, <1>2 DEF PutByte
  <2>. QED  BY <1>0, <2>1, <2>3, <2>4, <2>5 DEF ScreenFaithful
<1>3. CASE PublishTail
  <2>1. UNCHANGED <<screen, want, missed>>  BY <1>3 DEF PublishTail, OnlyMain
  <2>2. PICK e : queue' = Append(queue, e)  BY <1>3 DEF PublishTail
  <2>3. queue # <<>> => queue' # <<>> /\ Head(queue') = Head(queue)
    BY <1>0, <2>2, AppendHead
  <2>. QED  BY <1>0, <2>1, <2>3 DEF ScreenFaithful
<1>4. CASE PublishHead
  <2>1. Head(queue).s = isr.s /\ queue # <<>>
    BY <1>0, <1>4, HeadAgrees DEF PublishHead, HeadLoaded, Executing
  <2>2. isr.i = Count(isr.s)  BY <1>0, <1>4 DEF PublishHead, Progress, Executing
  <2>3. ASSUME NEW l \in Loc, l \in Locs(isr.s) PROVE screen[l] = isr.s.val \/ l \in missed
    BY <1>0, <1>4, <2>2, <2>3 DEF Locs, Progress, Executing, PublishHead
  <2>4. ASSUME NEW l \in Loc PROVE screen'[l] = want'[l] \/ l \in missed'
    <3>1. want'[l] = IF l \in Locs(isr.s) THEN isr.s.val ELSE want[l]
      BY <1>4, <2>1 DEF PublishHead
    <3>2. screen'[l] = screen[l] /\ missed' = missed  BY <1>4 DEF PublishHead
    <3>. QED  BY <1>0, <2>1, <2>3, <3>1, <3>2 DEF ScreenFaithful
  <2>. QED  BY <2>4 DEF ScreenFaithful
<1>5. Elsewhere \/ FillSlot => PutByte \/ UNCHANGED <<screen, want, queue, missed>>
  BY QuietFrames, FillFrame DEF IInv, Elsewhere, QuietIsr, DrainHBlank, GuardVBlank, Fetch,
     StopLoop, Defer, CheckMode, TakeInterrupt, vars
<1>. QED  BY <1>1, <1>2, <1>3, <1>4, <1>5, StepKinds

-----------------------------------------------------------------------------
(* The theorems. *)

\* Type correctness of the commit queue: HEAD and TAIL stay inside the ring
\* (compute_next_tail_or_fault, publish_next_head_after_payload) and every
\* slot holds a wire operation.
THEOREM SpecTypeOK == ASSUME ClearedWram PROVE Spec => []TypeOK
BY SpecIInv, PTL DEF IInv

\* The publication protocol of emit_queue_op and the drains works at every
\* ring length: what lies between HEAD and TAIL is what was published and
\* not yet committed, in order and untouched.
THEOREM SpecQueueIntact == ASSUME ClearedWram PROVE Spec => []QueueIntact
BY SpecIInv, PTL DEF IInv

\* Operations with immediate operands are published as they were encoded,
\* whatever interrupts between the stores of emit_queue_op.
THEOREM SpecImmediatesFaithful == ASSUME ClearedWram PROVE Spec => []ImmediatesFaithful
BY SpecIInv, PTL DEF IInv

\* The drains put every published operation on the screen, in order, once,
\* and in full before HEAD moves on, whenever the PPU changes its mode: what
\* a place lacks is only a store that the PPU ignored and that no later store
\* has made good.
THEOREM SpecScreenFaithful ==
    ASSUME ClearedWram PROVE Spec => []ScreenFaithful
<1>1. Init => ScreenInv
  BY DEF Init, ScreenInv, Progress, Executing, ScreenFaithful, IdleIsr
<1>2. IInv /\ ScreenInv /\ [Next]_vars => ScreenInv'
  BY NextProgress, NextScreen DEF ScreenInv
<1>3. ScreenInv => ScreenFaithful  BY DEF ScreenInv
<1>. QED  BY <1>1, <1>2, <1>3, SpecIInv, PTL DEF Spec

-----------------------------------------------------------------------------
(* The refinement of DisplayQueue. *)

\* The line that the ring stands for, in terms of the published operations.
LiveIsQueue ==
    /\ Live = [i \in 1..Len(queue) |-> Painting(queue[i].s)]
    /\ Len(queue) \in Nat /\ Len(queue) < RingLen

LEMMA LiveQueue == IInv => LiveIsQueue
<1>. SUFFICES ASSUME IInv PROVE LiveIsQueue  OBVIOUS
<1>1. head \in Index /\ tail \in Index /\ Len(queue) = Used(head, tail)
  BY DEF IInv, TypeOK, QueueIntact, Index, Used
<1>2. Used(head, tail) \in Index  BY <1>1, UsedBounds
<1>3. \A i \in 1..Len(queue) : slot[(head + i - 1) % RingLen] = queue[i].s
  BY DEF IInv, QueueIntact
<1>. QED  BY <1>1, <1>2, <1>3, ConstantsAssumption, SMTT(40) DEF LiveIsQueue, Live, Used, Index

LEMMA LiveQueuePrimed == IInv' => LiveIsQueue'
BY LiveQueue, PTL

\* The first in the line is the operation that the handler has loaded.
LEMMA LiveHead ==
    ASSUME IInv, isr.pc \in Executing
    PROVE  Live # <<>> /\ Head(Live) = Painting(isr.s)
<1>1. queue # <<>> /\ Head(queue).s = isr.s
  BY HeadAgrees DEF IInv, HeadLoaded
<1>2. queue \in Seq(Published)  BY DEF IInv, TypeOK, Published
<1>3. Len(queue) \in Nat /\ Len(queue) > 0 /\ queue[1].s = isr.s  BY <1>1, <1>2
<1>4. Live = [i \in 1..Len(queue) |-> Painting(queue[i].s)]  BY LiveQueue DEF LiveIsQueue
<1>. QED  BY <1>3, <1>4

\* Storing a byte paints a place of the first painting, or misses it.
LEMMA PutPaints ==
    ASSUME IInv, IInv', ScreenInv, PutByte
    PROVE  Line!Paint \/ Line!Miss \/ UNCHANGED <<Live, screen, missed>>
<1>0. isr.pc \in Executing /\ isr.pc = "put"  BY DEF PutByte, Executing
<1>1. Live # <<>> /\ Head(Live) = Painting(isr.s)  BY <1>0, LiveHead
<1>2. Live' = Live  BY DEF PutByte, OnlyIsr, Live
<1>3. isr.s \in Wire /\ isr.i \in Nat /\ screen \in [Loc -> Nat]  BY DEF IInv, TypeOK
<1>4. isr.i \in 0..(Count(isr.s) - 1)
  BY <1>0, <1>3, CountNat DEF ScreenInv, Progress
<1>5. Target(isr.s, isr.i) \in Locs(isr.s)  BY <1>4 DEF Locs
<1>6. \/ /\ screen' = [screen EXCEPT ![Target(isr.s, isr.i)] = isr.s.val]
         /\ missed' = missed \ {Target(isr.s, isr.i)}
      \/ UNCHANGED screen /\ missed' = missed \cup ({Target(isr.s, isr.i)} \cap Loc)
  BY DEF PutByte
<1>7. CASE Target(isr.s, isr.i) \in Loc
  <2>1. Target(isr.s, isr.i) \in Head(Live).on /\ Head(Live).val = isr.s.val
    BY <1>1, <1>5, <1>7 DEF Painting
  <2>. QED  BY <1>1, <1>2, <1>6, <1>7, <2>1 DEF Line!Paint, Line!Miss
<1>8. CASE Target(isr.s, isr.i) \notin Loc
  <2>1. screen' = screen  BY <1>3, <1>6, <1>8
  <2>2. missed \subseteq Loc  BY DEF IInv, TypeOK
  <2>3. missed \ {Target(isr.s, isr.i)} = missed /\ missed \cup ({Target(isr.s, isr.i)} \cap Loc) = missed
    BY <1>8, <2>2
  <2>4. missed' = missed  BY <1>6, <2>3
  <2>. QED  BY <1>2, <2>1, <2>4
<1>. QED  BY <1>7, <1>8

\* Publishing TAIL is joining the line, which has room.
LEMMA TailJoins ==
    ASSUME IInv, IInv', PublishTail
    PROVE  Line!Publish
<1>. DEFINE e == [s |-> slot[tail], op |-> main.op, regs |-> main.regs]
<1>1. queue \in Seq(Published) /\ queue' = Append(queue, e) /\ UNCHANGED <<screen, missed>>
  BY DEF IInv, TypeOK, Published, PublishTail, OnlyMain
<1>2. Len(queue) \in Nat /\ Len(queue') = Len(queue) + 1 /\ queue'[Len(queue) + 1] = e
      /\ \A i \in 1..Len(queue) : queue'[i] = queue[i]
  BY <1>1
<1>3. /\ Live = [i \in 1..Len(queue) |-> Painting(queue[i].s)]
      /\ Live' = [i \in 1..Len(queue') |-> Painting(queue'[i].s)]
      /\ Len(queue') < RingLen
  BY LiveQueue, LiveQueuePrimed DEF LiveIsQueue
<1>4. Len(Live) = Len(queue) /\ DOMAIN Live' = 1..(Len(queue) + 1)
      /\ Live'[Len(queue) + 1] = Painting(e.s)
  BY <1>2, <1>3
<1>5. Live' = Append(Live, Live'[Len(queue) + 1])
  BY <1>2, <1>3, <1>4
<1>6. Len(queue) + 1 \in DOMAIN Live'  BY <1>2, <1>4
<1>7. \E i \in DOMAIN Live' : Live' = Append(Live, Live'[i])  BY <1>5, <1>6, Zenon
<1>8. Len(Live) < RingLen - 1  BY <1>2, <1>3, <1>4, ConstantsAssumption
<1>. QED  BY <1>1, <1>7, <1>8 DEF Line!Publish

\* Publishing HEAD takes a complete painting out of the line.
LEMMA HeadLeaves ==
    ASSUME IInv, IInv', ScreenInv, PublishHead
    PROVE  Line!Commit
<1>0. isr.pc \in Executing /\ isr.pc = "publish"  BY DEF PublishHead, Executing
<1>1. Live # <<>> /\ Head(Live) = Painting(isr.s)  BY <1>0, LiveHead
<1>2. queue # <<>> /\ queue \in Seq(Published) /\ queue' = Tail(queue) /\ UNCHANGED <<screen, missed>>
  BY <1>0, HeadAgrees DEF IInv, TypeOK, HeadLoaded, Published, PublishHead
<1>3. Len(queue) \in Nat /\ Len(queue) > 0 /\ Len(queue') = Len(queue) - 1
      /\ \A i \in 1..(Len(queue) - 1) : queue'[i] = queue[i + 1]
  BY <1>2
<1>4. /\ Live = [i \in 1..Len(queue) |-> Painting(queue[i].s)]
      /\ Live' = [i \in 1..Len(queue') |-> Painting(queue'[i].s)]
  BY LiveQueue, LiveQueuePrimed DEF LiveIsQueue
<1>5. Live' = Tail(Live)  BY <1>3, <1>4
<1>6. ASSUME NEW l \in Painting(isr.s).on PROVE screen[l] = isr.s.val \/ l \in missed
  BY <1>0, <1>6 DEF Painting, Locs, ScreenInv, Progress
<1>. QED  BY <1>1, <1>2, <1>5, <1>6 DEF Line!Commit, Painting

\* Nothing else moves the line or the display.
LEMMA OthersStutter ==
    ASSUME IInv, IInv', Elsewhere \/ FillSlot, ~PutByte
    PROVE  UNCHANGED <<Live, screen, missed>>
<1>1. UNCHANGED <<screen, queue, missed>>
  BY QuietFrames, FillFrame DEF IInv, Elsewhere, QuietIsr, DrainHBlank, GuardVBlank, Fetch,
     StopLoop, Defer, CheckMode, TakeInterrupt, vars
<1>. QED  BY <1>1, LiveQueue, LiveQueuePrimed DEF LiveIsQueue

\* The ring with its handlers implements the line of paintings: emit_queue_op
\* is one atomic append, the drains paint only the head, and HEAD moves on
\* only from a painting that is complete but for the strokes that the PPU
\* ignored.
THEOREM SpecPaintsInOrder ==
    ASSUME ClearedWram PROVE Spec => PaintsInOrder
<1>1. Init => ScreenInv
  BY DEF Init, ScreenInv, Progress, Executing, ScreenFaithful, IdleIsr
<1>2. IInv /\ ScreenInv /\ [Next]_vars => ScreenInv'
  BY NextProgress, NextScreen DEF ScreenInv
<1>3. Init => Line!Init
  <2>1. SUFFICES ASSUME Init PROVE Live = <<>> /\ screen = [l \in Loc |-> 0] /\ missed = {}
    BY DEF Line!Init
  <2>2. IInv /\ Len(queue) = 0  BY <2>1, InitIInv DEF Init
  <2>3. Live = [i \in 1..Len(queue) |-> Painting(queue[i].s)]  BY <2>2, LiveQueue DEF LiveIsQueue
  <2>. QED  BY <2>1, <2>2, <2>3 DEF Init
<1>4. IInv /\ IInv' /\ ScreenInv /\ [Next]_vars => [Line!Next]_<<Live, screen, missed>>
  BY StepKinds, PutPaints, TailJoins, HeadLeaves, OthersStutter DEF Line!Next
<1>. QED
  BY <1>1, <1>2, <1>3, <1>4, SpecIInv, PTL DEF Spec, PaintsInOrder, Line!QueueSpec
=============================================================================
