-------------------------- MODULE PromptShellProofs --------------------------
(***************************************************************************)
(* Machine-checked proofs about PromptShell, for any layout, any length of  *)
(* the buffer, of the rows and of the queue.                                *)
(***************************************************************************)
EXTENDS PromptShell, SequenceTheorems, TLAPS

\* What was acted upon was down at the last poll.
ActedDown ==
    /\ pc # "step" => acted \subseteq cached
    /\ pc = "step" => acted \subseteq prev \cap cached

\* A call of enqueue_glyph_cell is about the slot at the cursor, which holds a
\* character that was typed or the blank of a backspace.
CallShape ==
    pc \in Enqueueing =>
        /\ call.asked = GlyphCell(cursor, buffer[cursor])
        /\ IF call.typed THEN buffer[cursor] \in Char ELSE buffer[cursor] = Blank

\* A full queue was noticed; the drains only make room.
Room == pc \in {"copyY", "copyGlyph"} => Len(queue) + 1 < RingLen

IInv == TypeOK /\ ActedDown /\ CallShape /\ Room /\ PromptShown

-----------------------------------------------------------------------------
(* Screen cells. *)

LEMMA DivMod ==
    ASSUME NEW a \in Int, NEW d \in Int, d > 0
    PROVE  a = d * (a \div d) + (a % d)
BY SMT

LEMMA CellInjective ==
    ASSUME NEW i \in Slot, NEW j \in Slot, Cell(i) = Cell(j)
    PROVE  i = j
<1>1. i \in Int /\ j \in Int /\ Columns \in Int /\ Columns > 0
  BY ConstantsAssumption DEF Slot
<1>2. i % Columns = j % Columns /\ i \div Columns = j \div Columns
  BY DEF Cell
<1>3. /\ i = Columns * (i \div Columns) + (i % Columns)
      /\ j = Columns * (j \div Columns) + (j % Columns)
  BY <1>1, DivMod
<1> QED
  BY <1>2, <1>3, Zenon

LEMMA CellOnScreen == \A i \in Slot : Cell(i) \in Screen
BY DEF Screen

LEMMA GlyphCellFacts ==
    ASSUME NEW i \in Slot, NEW g \in Glyph
    PROVE  GlyphCell(i, g) \in Op /\ At(GlyphCell(i, g)) = Cell(i)
BY DEF GlyphCell, Op, At, Cell, Column, Row

\* What a published operation and a drained one do to what is on its way.
LEMMA PublishShows ==
    ASSUME TypeOK, NEW op \in Op, queue' = Append(queue, op), screen' = screen
    PROVE  /\ \A k \in Slot : \A g : op = GlyphCell(k, g) => WillShow(k, g)'
           /\ \A i \in Slot : At(op) # Cell(i) => \A h : WillShow(i, h) => WillShow(i, h)'
<1> DEFINE n == Len(queue)
<1>1. queue \in Seq(Op) /\ n \in Nat
  BY DEF TypeOK
<1>2. /\ DOMAIN queue' = 1..(n + 1) /\ DOMAIN queue = 1..n
      /\ queue'[n + 1] = op /\ \A j \in 1..n : queue'[j] = queue[j]
  BY <1>1
<1>3. ASSUME NEW k \in Slot, NEW g, op = GlyphCell(k, g) PROVE WillShow(k, g)'
  <2>1. n + 1 \in DOMAIN queue' /\ \A l \in DOMAIN queue' : ~(l > n + 1)
    BY <1>1, <1>2
  <2> QED
    BY <1>2, <1>3, <2>1 DEF WillShow
<1>4. ASSUME NEW i \in Slot, At(op) # Cell(i), NEW h, WillShow(i, h) PROVE WillShow(i, h)'
  <2>2. CASE screen[Cell(i)] \in {h, Stale} /\ \A j \in DOMAIN queue : At(queue[j]) # Cell(i)
    <3>1. \A j \in DOMAIN queue' : At(queue'[j]) # Cell(i)
      BY <1>1, <1>2, <1>4, <2>2
    <3> QED
      BY <2>2, <3>1 DEF WillShow, At, Cell
  <2>3. ASSUME NEW j \in DOMAIN queue, queue[j] = GlyphCell(i, h),
               \A l \in DOMAIN queue : l > j => At(queue[l]) # Cell(i)
        PROVE  WillShow(i, h)'
    <3>1. j \in DOMAIN queue' /\ queue'[j] = GlyphCell(i, h)
      BY <1>1, <1>2, <2>3
    <3>2. \A l \in DOMAIN queue' : l > j => At(queue'[l]) # Cell(i)
      BY <1>1, <1>2, <1>4, <2>3
    <3> QED
      BY <3>1, <3>2 DEF WillShow, At, Cell, GlyphCell
  <2> QED
    BY <1>4, <2>2, <2>3 DEF WillShow
<1> QED
  BY <1>3, <1>4

LEMMA DrainShows ==
    ASSUME TypeOK, Drain, NEW i \in Slot, NEW h, WillShow(i, h)
    PROVE  WillShow(i, h)'
<1> DEFINE n == Len(queue)
<1>1. queue \in Seq(Op) /\ n \in Nat /\ n # 0 /\ queue' = Tail(queue) /\ queue # <<>>
  BY DEF TypeOK, Drain
<1>2. /\ DOMAIN queue' = 1..(n - 1) /\ DOMAIN queue = 1..n
      /\ \A j \in 1..(n - 1) : queue'[j] = queue[j + 1]
      /\ Head(queue) = queue[1]
  BY <1>1
<1>3. screen \in [Screen -> Glyph \cup {Stale}]
  BY DEF TypeOK
<1>4. PICK shown \in {queue[1].glyph, Stale} : screen' = [screen EXCEPT ![At(queue[1])] = shown]
  BY <1>2 DEF Drain
<1>5. CASE screen[Cell(i)] \in {h, Stale} /\ \A j \in DOMAIN queue : At(queue[j]) # Cell(i)
  <2>1. screen'[Cell(i)] = screen[Cell(i)]
    BY <1>1, <1>2, <1>3, <1>4, <1>5, CellOnScreen
  <2>2. \A j \in DOMAIN queue' : At(queue'[j]) # Cell(i)
    BY <1>1, <1>2, <1>5
  <2> QED
    BY <1>5, <2>1, <2>2 DEF WillShow, At, Cell
<1>6. ASSUME NEW j \in DOMAIN queue, queue[j] = GlyphCell(i, h),
             \A l \in DOMAIN queue : l > j => At(queue[l]) # Cell(i)
      PROVE  WillShow(i, h)'
  <2>1. CASE j = 1
    <3>1. At(queue[1]) = Cell(i) /\ queue[1].glyph = h
      BY <1>6, <2>1 DEF At, Cell, GlyphCell
    <3>2. screen'[Cell(i)] \in {h, Stale}
      BY <1>3, <1>4, <3>1, CellOnScreen
    <3>3. \A l \in DOMAIN queue' : At(queue'[l]) # Cell(i)
      BY <1>1, <1>2, <1>6, <2>1
    <3> QED
      BY <3>2, <3>3 DEF WillShow, At, Cell
  <2>2. CASE j # 1
    <3>1. j - 1 \in DOMAIN queue' /\ queue'[j - 1] = GlyphCell(i, h)
      BY <1>1, <1>2, <1>6, <2>2
    <3>2. \A l \in DOMAIN queue' : l > j - 1 => At(queue'[l]) # Cell(i)
      BY <1>1, <1>2, <1>6, <2>2
    <3> QED
      BY <3>1, <3>2 DEF WillShow, At, Cell, GlyphCell
  <2> QED
    BY <2>1, <2>2
<1> QED
  BY <1>5, <1>6 DEF WillShow

-----------------------------------------------------------------------------
(* The parts of a step. *)

LEMMA BufFacts ==
    /\ BufLen \in Nat \ {0, 1} /\ RingLen \in Nat \ {0, 1} /\ 0 \in Slot
    /\ Len(Layout) \in Nat \ {0} /\ Char \subseteq Glyph /\ Zero \in Glyph /\ Blank \in Glyph
BY ConstantsAssumption DEF Slot, Glyph

LEMMA IdleCallType == IdleCall \in [asked : Op, op : Op, typed : BOOLEAN]
<1>1. IdleOp \in Op
  <2>1. 0 \in Slot /\ 0 % Columns = 0 /\ 0 \div Columns = 0
    BY ConstantsAssumption, BufFacts
  <2>2. 0 \in Column /\ 0 \in Row
    BY <2>1 DEF Column, Row
  <2> QED
    BY <2>2, BufFacts DEF IdleOp, Op
<1> QED
  BY <1>1 DEF IdleCall

LEMMA InitIInv == Init => IInv
<1> SUFFICES ASSUME Init PROVE IInv
  OBVIOUS
<1> USE BufFacts DEF Init
<1>1. TypeOK
  <2>1. queue \in Seq(Op) /\ Len(queue) = 0
    OBVIOUS
  <2>2. buffer \in [Slot -> Glyph] /\ screen \in [Screen -> Glyph \cup {Stale}]
    OBVIOUS
  <2>3. key \in 0..(Len(Layout) - 1)
    OBVIOUS
  <2>4. call \in [asked : Op, op : Op, typed : BOOLEAN]
    BY IdleCallType
  <2> QED
    BY <2>1, <2>2, <2>3, <2>4 DEF TypeOK
<1>2. ActedDown /\ CallShape /\ Room
  BY DEF ActedDown, CallShape, Room, Enqueueing
<1>3. PromptShown
  <2>1. \A i \in Slot : WillShow(i, buffer[i])
    BY CellOnScreen DEF WillShow
  <2> QED
    BY <2>1 DEF PromptShown
<1> QED
  BY <1>1, <1>2, <1>3 DEF IInv

\* The keyboard cursor stays on the layout, and under it is a cell.
LEMMA MovedType == TypeOK => Moved \in 0..(Len(Layout) - 1)
BY BufFacts DEF TypeOK, Moved

-----------------------------------------------------------------------------
(* The keyboard step. *)

\* What the three outcomes of a keyboard step have in common.
LEMMA StepKinds ==
    ASSUME TypeOK, KeyboardStep
    PROVE  \/ \E c \in Char : c = Pressed /\ Accept(c)
           \/ cursor # 0 /\ Backspace
           \/ /\ pc' = "halt" /\ UNCHANGED <<cursor, buffer, call>>
              /\ submitted' \in {submitted, TRUE}
<1>1. CASE Pressed \in Char /\ Accept(Pressed)
  BY <1>1
<1>2. CASE Pressed = "Backspace" /\ Backspace
  BY <1>2 DEF Backspace, prompt
<1>3. CASE /\ submitted' = (submitted \/ Pressed = "Submit" \/ Started)
           /\ pc' = "halt" /\ UNCHANGED <<cursor, buffer, call>>
  <2>1. submitted \in BOOLEAN
    BY DEF TypeOK
  <2>2. submitted' \in {submitted, TRUE}
    BY <1>3, <2>1, Zenon
  <2> QED
    BY <1>3, <2>2
<1> QED
  BY <1>1, <1>2, <1>3 DEF KeyboardStep

\* A step that writes g to slot k, leaves the cursor there, and calls
\* enqueue_glyph_cell for it.
Writes(k, g, typed) ==
    /\ Enqueue(k, g, typed) /\ cursor' = k
    /\ buffer' = [buffer EXCEPT ![k] = g]
    /\ UNCHANGED <<submitted, display>>

LEMMA WriteKept ==
    ASSUME IInv, pc = "step", NEW k \in Slot, k <= cursor, cursor <= k + 1,
           NEW g \in Glyph, NEW typed \in BOOLEAN, Writes(k, g, typed),
           IF typed THEN g \in Char ELSE g = Blank
    PROVE  /\ cursor' \in Slot /\ buffer' \in [Slot -> Glyph] /\ submitted' = submitted
           /\ pc' = "saveX" /\ call' \in [asked : Op, op : Op, typed : BOOLEAN]
           /\ CallShape' /\ Room' /\ PromptShown'
<1> USE BufFacts
<1>0. /\ TypeOK /\ PromptShown /\ cursor \in Slot /\ buffer \in [Slot -> Glyph]
      /\ k \in Int /\ cursor \in Int /\ pc \notin Enqueueing
  BY DEF IInv, TypeOK, Slot, Enqueueing
<1>1. /\ call' = [asked |-> GlyphCell(k, g), op |-> GlyphCell(k, g), typed |-> typed]
      /\ pc' = "saveX" /\ cursor' = k /\ submitted' = submitted
      /\ queue' = queue /\ screen' = screen /\ spoiled' = spoiled
  BY DEF Writes, Enqueue, display
<1>2. \A i \in Slot : buffer'[i] = IF i = k THEN g ELSE buffer[i]
  BY <1>0 DEF Writes
<1>3. buffer' \in [Slot -> Glyph]
  BY <1>0 DEF Writes
<1>4. GlyphCell(k, g) \in Op /\ At(GlyphCell(k, g)) = Cell(k)
  BY GlyphCellFacts
<1>5. call' \in [asked : Op, op : Op, typed : BOOLEAN]
  BY <1>1, <1>4
<1>6. CallShape'
  BY <1>1, <1>2 DEF CallShape, GlyphCell
<1>7. Room'
  BY <1>1 DEF Room
<1>8. PromptShown'
  <2>1. call'.asked = GlyphCell(k, g) /\ pc' \in Enqueueing
    BY <1>1 DEF Enqueueing
  <2>2. Editing(k)'
    BY <1>4, <2>1 DEF Editing, At, Cell
  <2>3. ASSUME NEW i \in Slot, i # k
        PROVE  /\ (WillShow(i, buffer[i]) \/ Cell(i) \in spoiled \/ Editing(i))'
               /\ cursor' <= i /\ i < BufLen - 1 => buffer'[i] \in {Zero, Blank}
    <3>1. buffer'[i] = buffer[i] /\ i \in Int
      BY <1>2, <2>3 DEF Slot
    <3>2. /\ WillShow(i, buffer[i]) \/ Cell(i) \in spoiled
          /\ cursor <= i /\ i < BufLen - 1 => buffer[i] \in {Zero, Blank}
      BY <1>0 DEF PromptShown, Editing
    <3>3. WillShow(i, buffer[i])' \/ Cell(i) \in spoiled'
      BY <1>1, <3>1, <3>2 DEF WillShow, GlyphCell, Cell, At
    <3>4. cursor' <= i => cursor <= i
      BY <1>0, <1>1, <2>3, <3>1
    <3> QED
      BY <3>1, <3>2, <3>3, <3>4 DEF Cell
  <2> QED
    BY <2>2, <2>3 DEF PromptShown
<1> QED
  BY <1>0, <1>1, <1>3, <1>5, <1>6, <1>7, <1>8

LEMMA AcceptWrites ==
    ASSUME TypeOK, NEW c \in Char, Accept(c), UNCHANGED display
    PROVE  cursor \in Slot /\ c \in Glyph /\ Writes(cursor, c, TRUE)
<1>1. cursor \in Slot /\ c \in Glyph
  BY BufFacts DEF TypeOK
<1>2. Writes(cursor, c, TRUE)
  BY DEF Accept, Writes
<1> QED
  BY <1>1, <1>2

LEMMA BackspaceWrites ==
    ASSUME TypeOK, cursor # 0, Backspace, UNCHANGED display
    PROVE  cursor - 1 \in Slot /\ Writes(cursor - 1, Blank, FALSE)
<1>1. cursor - 1 \in Slot
  BY BufFacts DEF TypeOK, Slot
<1>2. Writes(cursor - 1, Blank, FALSE)
  BY DEF Backspace, Writes
<1> QED
  BY <1>1, <1>2

LEMMA KeyboardStepIInv == IInv /\ KeyboardStep => IInv'
<1> SUFFICES ASSUME IInv, KeyboardStep PROVE IInv'
  OBVIOUS
<1> USE BufFacts
<1>0. TypeOK /\ ActedDown /\ PromptShown /\ pc = "step" /\ UNCHANGED display
  BY DEF IInv, KeyboardStep
<1>1. /\ cursor' \in Slot /\ buffer' \in [Slot -> Glyph] /\ submitted' \in BOOLEAN
      /\ pc' \in {"halt", "saveX"} /\ call' \in [asked : Op, op : Op, typed : BOOLEAN]
      /\ CallShape' /\ Room' /\ PromptShown'
  <2>1. submitted \in BOOLEAN /\ cursor \in Slot /\ cursor \in Int
    BY <1>0 DEF TypeOK, Slot
  <2>2. CASE \E c \in Char : c = Pressed /\ Accept(c)
    <3> PICK c \in Char : Accept(c)
      BY <2>2
    <3>1. cursor \in Slot /\ c \in Glyph /\ Writes(cursor, c, TRUE)
      BY <1>0, <2>2, AcceptWrites
    <3> DEFINE k == cursor
    <3>2. k <= cursor /\ cursor <= k + 1
      BY <2>1
    <3> HIDE DEF k
    <3>3. k \in Slot /\ Writes(k, c, TRUE)
      BY <3>1 DEF k
    <3> QED
      BY <1>0, <2>1, <3>1, <3>2, <3>3, WriteKept
  <2>3. CASE cursor # 0 /\ Backspace
    <3>1. cursor - 1 \in Slot /\ Writes(cursor - 1, Blank, FALSE)
      BY <1>0, <2>3, BackspaceWrites
    <3>2. cursor - 1 <= cursor /\ cursor <= (cursor - 1) + 1
      BY <2>1
    <3> DEFINE k == cursor - 1
    <3> HIDE DEF k
    <3>3. k \in Slot /\ Writes(k, Blank, FALSE) /\ k <= cursor /\ cursor <= k + 1
      BY <3>1, <3>2 DEF k
    <3> QED
      BY <1>0, <2>1, <3>3, WriteKept
  <2>4. CASE /\ pc' = "halt" /\ UNCHANGED <<cursor, buffer, call>>
             /\ submitted' \in {submitted, TRUE}
    <3>1. PromptShown'
      BY <1>0, <2>4 DEF PromptShown, WillShow, Editing, Enqueueing, GlyphCell, At, Cell, display
    <3>2. submitted' \in BOOLEAN
      BY <2>1, <2>4
    <3>3. CallShape' /\ Room'
      BY <2>4 DEF CallShape, Room, Enqueueing
    <3> QED
      BY <1>0, <2>4, <3>1, <3>2, <3>3 DEF TypeOK
  <2> QED
    BY <1>0, <2>2, <2>3, <2>4, StepKinds
<1>2. key' \in 0..(Len(Layout) - 1)
  BY <1>0, MovedType DEF KeyboardStep
<1>3. /\ UNCHANGED <<cached, prev>>
      /\ acted' = acted \cup (cached \ prev)
  BY DEF KeyboardStep, joypad, JustPressed
<1>4. TypeOK'
  <2>1. acted' \in SUBSET Button
    BY <1>0, <1>3 DEF TypeOK
  <2>2. pc' \in {"halt", "step", "fault"} \cup Enqueueing
    BY <1>1 DEF Enqueueing
  <2> QED
    BY <1>0, <1>1, <1>2, <1>3, <2>1, <2>2 DEF TypeOK, display
<1>5. ActedDown'
  BY <1>0, <1>1, <1>3 DEF ActedDown
<1> QED
  BY <1>1, <1>4, <1>5 DEF IInv

-----------------------------------------------------------------------------
(* enqueue_glyph_cell. *)

LEMMA StepIInv ==
    ASSUME IInv, NEW from \in Enqueueing, NEW to \in Enqueueing, Step(from, to),
           to \in {"copyY", "copyGlyph"} => Len(queue) + 1 < RingLen
    PROVE  IInv'
<1> USE DEF Step, joypad, prompt, display
<1>0. /\ TypeOK /\ ActedDown /\ CallShape /\ Room /\ PromptShown
      /\ pc \in Enqueueing /\ pc' \in Enqueueing /\ pc \notin {"step", "fault"}
      /\ pc' \notin {"step", "fault"}
  BY DEF IInv, Enqueueing
<1>1. TypeOK' /\ ActedDown' /\ Room'
  BY <1>0 DEF TypeOK, ActedDown, Room
<1>2. CallShape'
  BY <1>0 DEF CallShape, GlyphCell
<1>3. PromptShown'
  BY <1>0 DEF PromptShown, WillShow, Editing, GlyphCell, At, Cell
<1> QED
  BY <1>1, <1>2, <1>3 DEF IInv

LEMMA CopyXIInv == IInv /\ CopyX => IInv'
<1> SUFFICES ASSUME IInv, CopyX PROVE IInv'
  OBVIOUS
<1>1. CASE Len(queue) + 1 < RingLen
  <2>1. Step("copyX", "copyY") /\ "copyX" \in Enqueueing /\ "copyY" \in Enqueueing
    BY <1>1 DEF CopyX, Enqueueing
  <2> QED
    BY <1>1, <2>1, StepIInv
<1>2. CASE ~(Len(queue) + 1 < RingLen)
  <2> USE DEF Step, joypad, prompt, display
  <2>1. Step("copyX", "fault")
    BY <1>2 DEF CopyX
  <2>2. TypeOK' /\ ActedDown' /\ CallShape' /\ Room' /\ PromptShown'
    BY <2>1 DEF IInv, TypeOK, ActedDown, CallShape, Room, PromptShown, Enqueueing
  <2> QED
    BY <2>2 DEF IInv
<1> QED
  BY <1>1, <1>2

LEMMA CopiesIInv == IInv /\ (SaveX \/ SaveY \/ CopyY) => IInv'
<1> SUFFICES ASSUME IInv, SaveX \/ SaveY \/ CopyY PROVE IInv'
  OBVIOUS
<1>0. {"saveX", "saveY", "copyX", "copyY", "copyGlyph"} = Enqueueing
  BY DEF Enqueueing
<1>1. CASE SaveX
  BY <1>0, <1>1, StepIInv DEF SaveX
<1>2. CASE SaveY
  BY <1>0, <1>2, StepIInv DEF SaveY
<1>3. CASE CopyY
  <2>1. Len(queue) + 1 < RingLen
    BY <1>3 DEF CopyY, Step, IInv, Room
  <2> QED
    BY <1>0, <1>3, <2>1, StepIInv DEF CopyY
<1> QED
  BY <1>1, <1>2, <1>3

\* An operation published as asked for shows what the slot holds; another one
\* spoils the cells that it concerns, and no other.
LEMMA PublishShown == IInv /\ Publish => PromptShown'
<1> SUFFICES ASSUME IInv, Publish PROVE PromptShown'
  OBVIOUS
<1> USE BufFacts
<1>0. /\ TypeOK /\ CallShape /\ PromptShown /\ pc = "copyGlyph" /\ pc' = "halt"
      /\ pc \in Enqueueing /\ pc # "fault" /\ pc' \notin Enqueueing
  BY DEF IInv, Publish, Enqueueing
<1>1. /\ cursor \in Slot /\ cursor \in Int /\ buffer \in [Slot -> Glyph] /\ buffer' = buffer
      /\ call.op \in Op /\ queue' = Append(queue, call.op) /\ screen' = screen
  BY <1>0 DEF TypeOK, Publish, Slot
<1> DEFINE k == cursor
<1>2. /\ call.asked = GlyphCell(k, buffer[k]) /\ At(call.asked) = Cell(k)
      /\ IF call.typed THEN buffer[k] \in Char ELSE buffer[k] = Blank
  BY <1>0, <1>1, GlyphCellFacts DEF CallShape
<1>3. /\ \A j \in Slot : \A g : call.op = GlyphCell(j, g) => WillShow(j, g)'
      /\ \A i \in Slot : At(call.op) # Cell(i) => \A h : WillShow(i, h) => WillShow(i, h)'
  BY <1>0, <1>1, PublishShows
<1>4. \A i \in Slot : i # k => Cell(i) # Cell(k)
  BY <1>1, CellInjective
<1>5. \A i \in Slot : Editing(i) => i = k
  BY <1>2, <1>4 DEF Editing
<1>6. ASSUME NEW i \in Slot
      PROVE  \A h : h = buffer[i] => WillShow(i, h)' \/ Cell(i) \in spoiled'
  <2> SUFFICES ASSUME NEW h, h = buffer[i] PROVE WillShow(i, h)' \/ Cell(i) \in spoiled'
    OBVIOUS
  <2>0. Cell(i) \in Screen
    BY CellOnScreen
  <2>1. CASE call.op # call.asked
    <3>1. spoiled' = spoiled \cup ({At(call.op), At(call.asked)} \cap Screen)
      BY <2>1 DEF Publish
    <3>2. CASE Cell(i) \in {At(call.op), At(call.asked)}
      BY <2>0, <3>1, <3>2
    <3>3. CASE Cell(i) \notin {At(call.op), At(call.asked)}
      <4>1. i # k
        BY <1>2, <3>3
      <4>2. WillShow(i, h) \/ Cell(i) \in spoiled
        BY <1>0, <1>5, <4>1 DEF PromptShown
      <4> QED
        BY <1>3, <3>1, <3>3, <4>2
    <3> QED
      BY <3>2, <3>3
  <2>2. CASE call.op = call.asked
    <3>1. spoiled' = spoiled \ {At(call.asked)}
      BY <2>2 DEF Publish
    <3>2. CASE i = k
      BY <1>2, <1>3, <2>2, <3>2
    <3>3. CASE i # k
      <4>1. WillShow(i, h) \/ Cell(i) \in spoiled
        BY <1>0, <1>5, <3>3 DEF PromptShown
      <4>2. At(call.op) # Cell(i)
        BY <1>2, <1>4, <2>2, <3>3
      <4> QED
        BY <1>2, <1>3, <1>4, <2>2, <3>1, <3>3, <4>1, <4>2
    <3> QED
      BY <3>2, <3>3
  <2> QED
    BY <2>1, <2>2
<1>7. ASSUME NEW i \in Slot, cursor' <= i, i < BufLen - 1
      PROVE  buffer[i] \in {Zero, Blank}
  <2>1. i \in Int /\ cursor <= BufLen - 1
    BY <1>1 DEF Slot
  <2>2. cursor' = IF call.typed /\ cursor + 1 < BufLen THEN cursor + 1 ELSE cursor
    BY DEF Publish
  <2>3. cursor <= i /\ (i = cursor => ~call.typed)
    BY <1>1, <1>7, <2>1, <2>2
  <2>4. CASE i = k
    BY <1>2, <2>3, <2>4
  <2>5. CASE i # k
    BY <1>0, <1>5, <1>7, <2>3, <2>5 DEF PromptShown
  <2> QED
    BY <2>4, <2>5
<1>8. \A i \in Slot : WillShow(i, buffer[i])' \/ Cell(i) \in spoiled'
  BY <1>1, <1>6 DEF WillShow, GlyphCell, Cell, At
<1> QED
  BY <1>1, <1>7, <1>8 DEF PromptShown, Cell

LEMMA PublishIInv == IInv /\ Publish => IInv'
<1> SUFFICES ASSUME IInv, Publish PROVE IInv'
  OBVIOUS
<1> USE BufFacts
<1>0. /\ TypeOK /\ ActedDown /\ CallShape /\ Room /\ pc = "copyGlyph" /\ pc' = "halt"
      /\ UNCHANGED <<cached, prev, key, buffer, submitted, screen, acted>>
  BY DEF IInv, Publish, joypad
<1>1. queue' \in Seq(Op) /\ Len(queue') < RingLen
  <2>1. queue \in Seq(Op) /\ call.op \in Op /\ Len(queue) + 1 < RingLen
    BY <1>0 DEF TypeOK, Room
  <2>2. queue' = Append(queue, call.op)
    BY DEF Publish
  <2> QED
    BY <2>1, <2>2
<1>2. cursor' \in Slot
  BY <1>0 DEF TypeOK, Publish, Slot
<1>3. call' \in [asked : Op, op : Op, typed : BOOLEAN]
  BY IdleCallType DEF Publish
<1>4. spoiled' \subseteq Screen
  BY <1>0 DEF TypeOK, Publish
<1>5. TypeOK'
  BY <1>0, <1>1, <1>2, <1>3, <1>4 DEF TypeOK
<1>6. ActedDown' /\ CallShape' /\ Room'
  BY <1>0 DEF ActedDown, CallShape, Room, Enqueueing
<1> QED
  BY <1>5, <1>6, PublishShown DEF IInv

-----------------------------------------------------------------------------
(* The drains. *)

LEMMA DrainIInv == IInv /\ Drain => IInv'
<1> SUFFICES ASSUME IInv, Drain PROVE IInv'
  OBVIOUS
<1>0. /\ TypeOK /\ ActedDown /\ CallShape /\ Room /\ PromptShown /\ pc # "fault"
      /\ UNCHANGED <<cached, prev, key, cursor, buffer, submitted, spoiled, pc, acted>>
  BY DEF IInv, Drain, joypad, prompt
<1>1. /\ queue \in Seq(Op) /\ queue # <<>> /\ Len(queue) < RingLen /\ queue' = Tail(queue)
  BY <1>0 DEF TypeOK, Drain
<1>2. queue' \in Seq(Op) /\ Len(queue') = Len(queue) - 1 /\ Head(queue) \in Op
  BY <1>1, HeadTailProperties
<1>3. /\ Len(queue) \in Nat /\ Len(queue') < RingLen
      /\ Len(queue) + 1 < RingLen => Len(queue') + 1 < RingLen
  BY <1>1, <1>2, BufFacts, LenProperties
<1>4. call' = [call EXCEPT !.op = Struck(Head(queue))]
  BY DEF Drain
<1>5. Struck(Head(queue)) \in Op
  <2>1. call.op \in Op
    BY <1>0 DEF TypeOK
  <2> QED
    BY <1>2, <2>1 DEF Struck, Op
<1>6. /\ call' \in [asked : Op, op : Op, typed : BOOLEAN]
      /\ call'.asked = call.asked /\ call'.typed = call.typed
  <2>1. call \in [asked : Op, op : Op, typed : BOOLEAN]
    BY <1>0 DEF TypeOK
  <2> QED
    BY <1>4, <1>5, <2>1
<1>7. TypeOK'
  <2>1. PICK shown \in {Head(queue).glyph, Stale} :
           screen' = [screen EXCEPT ![At(Head(queue))] = shown]
    BY DEF Drain
  <2>2. shown \in Glyph \cup {Stale}
    BY <1>2 DEF Op
  <2>3. screen' \in [Screen -> Glyph \cup {Stale}]
    BY <1>0, <2>1, <2>2 DEF TypeOK
  <2> QED
    BY <1>0, <1>2, <1>3, <1>6, <2>3 DEF TypeOK
<1>8. ActedDown'
  BY <1>0 DEF ActedDown
<1>9. CallShape' /\ Room'
  BY <1>0, <1>3, <1>6 DEF CallShape, Room, GlyphCell
<1>10. PromptShown'
  <2>1. ASSUME NEW i \in Slot
        PROVE  WillShow(i, buffer[i])' \/ Cell(i) \in spoiled' \/ Editing(i)'
    <3>1. WillShow(i, buffer[i]) \/ Cell(i) \in spoiled \/ Editing(i)
      BY <1>0 DEF PromptShown
    <3>2. \A g : WillShow(i, g) => WillShow(i, g)'
      BY <1>0, DrainShows
    <3>3. Editing(i) => Editing(i)'
      BY <1>0, <1>6 DEF Editing, At, Cell
    <3>4. WillShow(i, buffer[i]) => WillShow(i, buffer[i])'
      <4> DEFINE h == buffer[i]
      <4>1. h' = h
        BY <1>0
      <4>2. ASSUME NEW g, g = h, WillShow(i, g)' PROVE WillShow(i, buffer[i])'
        BY <4>1, <4>2 DEF WillShow, GlyphCell, Cell, At
      <4> QED
        BY <3>2, <4>2
    <3> QED
      BY <1>0, <3>1, <3>3, <3>4
  <2>2. \A i \in Slot : Editing(i) => Editing(i)'
    BY <1>0, <1>6 DEF Editing, At, Cell
  <2> QED
    BY <1>0, <2>1, <2>2 DEF PromptShown, Cell
<1> QED
  BY <1>7, <1>8, <1>9, <1>10 DEF IInv

LEMMA NextIInv == IInv /\ [Next]_vars => IInv'
<1> SUFFICES ASSUME IInv, [Next]_vars PROVE IInv'
  OBVIOUS
<1>1. ASSUME NEW first \in Held, NEW second \in Held, Poll(first, second) PROVE IInv'
  <2> USE <1>1 DEF Poll, prompt, display
  <2>1. TypeOK'
    BY DEF IInv, TypeOK, Button
  <2>2. ActedDown' /\ CallShape' /\ Room'
    BY DEF IInv, ActedDown, CallShape, Room, Enqueueing
  <2>3. PromptShown'
    BY DEF IInv, PromptShown, WillShow, Editing, Enqueueing, GlyphCell, At, Cell
  <2> QED
    BY <2>1, <2>2, <2>3 DEF IInv
<1>2. CASE UNCHANGED vars
  <2> USE <1>2 DEF vars, joypad, prompt, display
  <2>1. TypeOK' /\ ActedDown'
    BY DEF IInv, TypeOK, ActedDown
  <2>2. CallShape' /\ Room'
    BY DEF IInv, CallShape, Room, GlyphCell
  <2>3. PromptShown'
    BY DEF IInv, PromptShown, WillShow, Editing, GlyphCell, At, Cell
  <2> QED
    BY <2>1, <2>2, <2>3 DEF IInv
<1> QED
  BY <1>1, <1>2, KeyboardStepIInv, CopyXIInv, CopiesIInv, PublishIInv, DrainIInv
     DEF Next, Loop, Panicked

LEMMA SpecIInv == Spec => []IInv
BY InitIInv, NextIInv, PTL DEF Spec

\* Type correctness: the cursors stay on the layout and in the prompt buffer,
\* and the queue within its ring, for any of their lengths.
THEOREM SpecTypeOK == Spec => []TypeOK
<1>1. IInv => TypeOK
  BY DEF IInv
<1> QED
  BY <1>1, SpecIInv, PTL

\* What the keyboard has put in the buffer is what the screen will show, but
\* for the stores that the PPU ignored and the operations that a drain changed
\* between the steps of enqueue_glyph_cell; and a backspace leaves no residue.
THEOREM SpecPromptShown == Spec => []PromptShown
<1>1. IInv => PromptShown
  BY DEF IInv
<1> QED
  BY <1>1, SpecIInv, PTL

\* A button that is held down is acted upon once.
THEOREM SpecNoAutoRepeat == Spec => []NoAutoRepeat
<1>1. IInv => NoAutoRepeat
  BY DEF IInv, ActedDown, NoAutoRepeat, JustPressed
<1> QED
  BY <1>1, SpecIInv, PTL

-----------------------------------------------------------------------------
(* The keyboard implements the editor. *)

LEMMA TextType ==
    ASSUME NEW b \in [Slot -> Glyph], NEW k \in Slot,
           NEW t, t = [i \in 1..k |-> b[i - 1]]
    PROVE  t \in Seq(Glyph) /\ Len(t) = k /\ \A i \in 1..k : t[i] = b[i - 1]
<1>1. k \in Nat /\ \A i \in 1..k : b[i - 1] \in Glyph
  BY BufFacts DEF Slot
<1> QED
  BY <1>1

LEMMA InitMapped == Init => Editor!Init
<1> SUFFICES ASSUME Init PROVE Text = <<>> /\ submitted = FALSE
  BY DEF Editor!Init
<1>1. Text = <<>>
  BY DEF Init, Text
<1> QED
  BY <1>1 DEF Init

\* A typed character is in the text once the cursor has moved past it.
LEMMA PublishMapped ==
    ASSUME IInv, IInv', Publish
    PROVE  (\E c \in Char : Editor!Type(c)) \/ UNCHANGED <<Text, submitted>>
<1>0. /\ TypeOK /\ TypeOK' /\ cursor \in Slot /\ buffer \in [Slot -> Glyph]
      /\ buffer' = buffer /\ submitted' = submitted
  BY DEF IInv, TypeOK, Publish
<1>1. CASE cursor' = cursor
  BY <1>0, <1>1 DEF Text
<1>2. CASE cursor' # cursor
  <2> DEFINE c == buffer[cursor]
  <2>1. cursor' = cursor + 1 /\ cursor + 1 < BufLen /\ call.typed /\ pc = "copyGlyph"
    BY <1>2 DEF Publish
  <2>2. c \in Char /\ c \in Glyph
    BY <1>0, <2>1, BufFacts DEF IInv, CallShape, Enqueueing
  <2>3. Text \in Seq(Glyph) /\ Len(Text) = cursor /\ \A i \in 1..cursor : Text[i] = buffer[i - 1]
    BY <1>0, TextType DEF Text
  <2>4. /\ Text' \in Seq(Glyph) /\ Len(Text') = cursor + 1
        /\ \A i \in 1..(cursor + 1) : Text'[i] = buffer[i - 1]
    <3>1. cursor + 1 \in Slot
      BY <1>0, <2>1 DEF TypeOK
    <3>2. Text' = [i \in 1..(cursor + 1) |-> buffer[i - 1]]
      BY <1>0, <2>1 DEF Text
    <3> QED
      BY <1>0, <3>1, <3>2, TextType
  <2>5. cursor \in Nat /\ BufLen \in Nat
    BY <1>0, BufFacts DEF Slot
  <2> HIDE DEF c
  <2>6. Append(Text, c) \in Seq(Glyph) /\ Len(Append(Text, c)) = cursor + 1
    BY <2>2, <2>3, <2>5
  <2>7. \A i \in 1..(cursor + 1) : Text'[i] = Append(Text, c)[i]
    <3> SUFFICES ASSUME NEW i \in 1..(cursor + 1) PROVE Text'[i] = Append(Text, c)[i]
      OBVIOUS
    <3>1. CASE i = cursor + 1
      <4>1. Text'[i] = c
        BY <2>4, <2>5, <3>1 DEF c
      <4> QED
        BY <2>2, <2>3, <2>5, <3>1, <4>1
    <3>2. CASE i # cursor + 1
      <4>1. i \in 1..cursor
        BY <2>5, <3>2
      <4>2. Text'[i] = Text[i]
        BY <2>3, <2>4, <4>1
      <4> QED
        BY <2>2, <2>3, <4>1, <4>2
    <3> QED
      BY <3>1, <3>2
  <2>8. Text' = Append(Text, c)
    BY <2>4, <2>5, <2>6, <2>7, SeqEqual
  <2>9. Editor!Type(c)
    BY <1>0, <2>1, <2>3, <2>5, <2>8 DEF Editor!Type
  <2> QED
    BY <2>2, <2>9
<1> QED
  BY <1>1, <1>2

\* The slot at the cursor is not part of the text.
LEMMA AcceptMapped ==
    ASSUME IInv, NEW c \in Char, Accept(c)
    PROVE  UNCHANGED <<Text, submitted>>
<1>0. cursor \in Slot /\ buffer \in [Slot -> Glyph]
  BY DEF IInv, TypeOK
<1>1. cursor' = cursor /\ submitted' = submitted /\ buffer' = [buffer EXCEPT ![cursor] = c]
  BY DEF Accept
<1>2. \A i \in 1..cursor : i - 1 \in Slot /\ i - 1 # cursor
  BY <1>0, BufFacts DEF Slot
<1>3. \A i \in 1..cursor : buffer'[i - 1] = buffer[i - 1]
  BY <1>0, <1>1, <1>2
<1> QED
  BY <1>1, <1>3 DEF Text

LEMMA BackspaceMapped ==
    ASSUME IInv, IInv', cursor # 0, Backspace
    PROVE  Editor!Erase
<1>0. TypeOK /\ TypeOK' /\ cursor \in Slot /\ buffer \in [Slot -> Glyph]
  BY DEF IInv, TypeOK
<1>1. /\ cursor' = cursor - 1 /\ submitted' = submitted
      /\ \A i \in Slot : i # cursor - 1 => buffer'[i] = buffer[i]
  BY <1>0 DEF Backspace
<1>2. cursor \in Nat \ {0} /\ \A i \in 1..(cursor - 1) : i - 1 \in Slot /\ i - 1 # cursor - 1
  BY <1>0, BufFacts DEF Slot
<1>3. Text \in Seq(Glyph) /\ Len(Text) = cursor /\ \A i \in 1..cursor : Text[i] = buffer[i - 1]
  BY <1>0, TextType DEF Text
<1>4. /\ Text' \in Seq(Glyph) /\ Len(Text') = cursor - 1
      /\ \A i \in 1..(cursor - 1) : Text'[i] = buffer'[i - 1]
  <2>1. cursor' \in Slot /\ buffer' \in [Slot -> Glyph]
    BY <1>0 DEF TypeOK
  <2> QED
    BY <1>1, <2>1, TextType DEF Text
<1> DEFINE e == SubSeq(Text, 1, Len(Text) - 1)
<1>5. /\ e \in Seq(Glyph) /\ Len(e) = cursor - 1
      /\ \A i \in 1..(cursor - 1) : e[i] = Text[i]
  BY <1>2, <1>3
<1> HIDE DEF e
<1>6. ASSUME NEW i \in 1..(cursor - 1) PROVE Text'[i] = e[i]
  <2>1. Text'[i] = buffer'[i - 1] /\ e[i] = Text[i]
    BY <1>4, <1>5
  <2>2. buffer'[i - 1] = buffer[i - 1]
    BY <1>1, <1>2
  <2>3. Text[i] = buffer[i - 1]
    BY <1>2, <1>3
  <2> QED
    BY <2>1, <2>2, <2>3
<1>7. Text' = e
  BY <1>2, <1>4, <1>5, <1>6, SeqEqual
<1>8. Text # <<>>
  BY <1>2, <1>3
<1> QED
  BY <1>1, <1>7, <1>8 DEF Editor!Erase, e

LEMMA StepMapped ==
    IInv /\ IInv' /\ [Next]_vars => [Editor!Next]_<<Text, submitted>>
<1> SUFFICES ASSUME IInv, IInv', [Next]_vars
             PROVE  Editor!Next \/ UNCHANGED <<Text, submitted>>
  OBVIOUS
<1>1. CASE KeyboardStep
  <2>1. CASE \E c \in Char : c = Pressed /\ Accept(c)
    BY <2>1, AcceptMapped
  <2>2. CASE cursor # 0 /\ Backspace
    BY <2>2, BackspaceMapped DEF Editor!Next
  <2>3. CASE /\ pc' = "halt" /\ UNCHANGED <<cursor, buffer, call>>
             /\ submitted' \in {submitted, TRUE}
    <3>1. Text' = Text
      BY <2>3 DEF Text
    <3> QED
      BY <2>3, <3>1 DEF Editor!Next, Editor!Submit
  <2> QED
    BY <1>1, <2>1, <2>2, <2>3, StepKinds DEF IInv
<1>2. CASE Publish
  BY <1>2, PublishMapped DEF Editor!Next
<1>3. CASE ~KeyboardStep /\ ~Publish
  <2>1. UNCHANGED <<cursor, buffer, submitted>>
    BY <1>3 DEF Next, Loop, Panicked, Drain, Poll, SaveX, SaveY, CopyX, CopyY, Step, vars, prompt
  <2> QED
    BY <2>1 DEF Text
<1> QED
  BY <1>1, <1>2, <1>3

\* The joypad poll, the keyboard step and the queue implement the editor of
\* PromptEditor: every turn is one edit, one submission, or nothing.
THEOREM SpecEditsPrompt == Spec => EditsPrompt
BY InitMapped, StepMapped, SpecIInv, PTL DEF Spec, EditsPrompt, Editor!Spec
=============================================================================
