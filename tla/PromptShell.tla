----------------------------- MODULE PromptShell -----------------------------
(***************************************************************************)
(* The interactive shell of the runtime: the scheduler's main loop polls    *)
(* the joypad (src/gbf-runtime/src/joypad.rs), runs one keyboard step       *)
(* (keyboard.rs), and halts until an interrupt; interrupts drain the UI     *)
(* commit queue to the screen.  The queue and its drains are those of        *)
(* VideoCommit, with glyph cells only: an enqueue has its arguments in       *)
(* scratch bytes that the drains use too, and a drain's store may come when  *)
(* the PPU does not listen.                                                  *)
(*                                                                          *)
(* Boot does not clear this part of WRAM: the model starts from cleared     *)
(* WRAM, as the emulator provides it.                                       *)
(***************************************************************************)
EXTENDS Integers, Sequences

CONSTANTS
    Char,       \* the characters of the layout
    Layout,     \* KeyboardLayoutSpec::cells: characters and special keys
    BufLen,     \* PROMPT_BUFFER_LEN
    Columns,    \* cells of a screen row, 20
    RingLen,    \* slots of the UI commit queue
    Zero, Blank,\* the bytes 0 and ' '
    Stale,      \* stands for what a cell shows whose last store was ignored
    Held        \* the sets of buttons that the user may hold at a moment

Direction == {"Left", "Right"}      \* Up and Down have no effect
Key       == {"A", "Start"}         \* nor have B and Select
Button    == Direction \cup Key

ASSUME ConstantsAssumption ==
    /\ BufLen \in Nat \ {0, 1} /\ Columns \in Nat \ {0} /\ RingLen \in Nat \ {0, 1}
    /\ Layout \in Seq(Char \cup {"Backspace", "Submit", "Empty"}) /\ Layout # <<>>
    /\ Char \cap {"Backspace", "Submit", "Empty"} = {}
    /\ Held \subseteq SUBSET Button

Slot   == 0..(BufLen - 1)
Glyph  == Char \cup {Zero, Blank}
Column == {i % Columns : i \in Slot}
Row    == {i \div Columns : i \in Slot}

\* An operation of the queue, and the one that shows g in slot i: the cell is
\* found by emit_load_screen_bc_from_cursor_a, division by subtraction.
Op == [x : Column, y : Row, glyph : Glyph]
At(op) == <<op.x, op.y>>
GlyphCell(i, g) == [x |-> i % Columns, y |-> i \div Columns, glyph |-> g]
Cell(i) == <<i % Columns, i \div Columns>>
Screen  == {Cell(i) : i \in Slot}   \* the cells of the prompt; there are others

VARIABLES
    cached,     \* JOYPAD_CACHED_STATE
    prev,       \* JOYPAD_PREV_STATE
    key,        \* KEYBOARD_CURSOR
    cursor,     \* PROMPT_CURSOR
    buffer,     \* the prompt buffer
    submitted,  \* PROMPT_SUBMITTED_FLAG
    queue,      \* the UI commit queue
    screen,     \* the background map where the prompt is shown; a cell whose
                \* last store the PPU ignored shows something Stale
    pc,         \* the main loop
    call,       \* the call of enqueue_glyph_cell that is under way
    acted,      \* history: the buttons acted upon and not seen released since
    spoiled     \* history: the cells whose last operation was published other
                \* than asked for, because a drain came in between

prompt == <<cursor, buffer, submitted>>
joypad == <<cached, prev>>
display == <<queue, screen, spoiled>>
vars == <<joypad, key, prompt, display, pc, call, acted>>

\* The call is somewhere in enqueue_glyph_cell: its next access to the scratch
\* bytes is the one named.
Enqueueing == {"saveX", "saveY", "copyX", "copyY", "copyGlyph"}

\* What was asked for, what will be published if no drain interferes any more,
\* and whether the cursor has to move on afterwards.
IdleOp   == [x |-> 0, y |-> 0, glyph |-> Zero]
IdleCall == [asked |-> IdleOp, op |-> IdleOp, typed |-> FALSE]

TypeOK ==
    /\ cached \in SUBSET Button /\ prev \in SUBSET Button /\ acted \in SUBSET Button
    /\ key \in 0..(Len(Layout) - 1)
    /\ cursor \in Slot /\ buffer \in [Slot -> Glyph] /\ submitted \in BOOLEAN
    /\ queue \in Seq(Op) /\ Len(queue) < RingLen
    /\ screen \in [Screen -> Glyph \cup {Stale}] /\ spoiled \subseteq Screen
    /\ pc \in {"halt", "step", "fault"} \cup Enqueueing
    /\ call \in [asked : Op, op : Op, typed : BOOLEAN]

Init ==
    /\ cached = {} /\ prev = {} /\ acted = {}
    /\ key = 0 /\ cursor = 0 /\ submitted = FALSE
    /\ buffer = [i \in Slot |-> Zero] /\ screen = [c \in Screen |-> Zero]
    /\ queue = <<>> /\ spoiled = {}
    /\ pc = "halt" /\ call = IdleCall

-----------------------------------------------------------------------------
(* emit_joypad_read, woken by any interrupt from the HALT of                 *)
(* emit_idle_until_frame with which a turn of the main loop ends.  The two   *)
(* halves of the joypad are read at two moments.                             *)

\* The state before the last poll not kept.
MutantPoll(first, second) ==
    /\ pc = "halt" /\ pc' = "step"
    /\ cached' = (first \cap Direction) \cup (second \cap Key)
    /\ acted' = acted \cap cached'
    /\ UNCHANGED <<prev, key, prompt, display, call>>

Poll(first, second) ==
    /\ pc = "halt" /\ pc' = "step"
    /\ prev' = cached
    /\ cached' = (first \cap Direction) \cup (second \cap Key)
    /\ acted' = acted \cap cached'
    /\ UNCHANGED <<key, prompt, display, call>>

-----------------------------------------------------------------------------
(* emit_keyboard_step. *)

\* Register D.
JustPressed == cached \ prev

\* Right and then Left, both clamped.
Moved ==
    LET right == IF "Right" \in JustPressed /\ key + 1 < Len(Layout) THEN key + 1 ELSE key
    IN  IF "Left" \in JustPressed /\ right # 0 THEN right - 1 ELSE right

\* The cell under the cursor; "none" without an edge of A.
Pressed == IF "A" \in JustPressed THEN Layout[Moved + 1] ELSE "none"

\* enqueue_glyph_cell is called and saves the glyph.
Enqueue(i, g, typed) ==
    /\ call' = [asked |-> GlyphCell(i, g), op |-> GlyphCell(i, g), typed |-> typed]
    /\ pc' = "saveX"

\* accept_char.
Accept(c) ==
    /\ buffer' = [buffer EXCEPT ![cursor] = c]
    /\ Enqueue(cursor, c, TRUE)
    /\ UNCHANGED <<cursor, submitted>>

\* The buffer changed at the old cursor.
MutantBackspace ==
    IF cursor = 0 THEN pc' = "halt" /\ UNCHANGED <<prompt, call>>
    ELSE /\ cursor' = cursor - 1
         /\ buffer' = [buffer EXCEPT ![cursor] = Blank]
         /\ Enqueue(cursor - 1, Blank, FALSE)
         /\ UNCHANGED submitted

\* emit_prompt_cursor_decrement.
Backspace ==
    IF cursor = 0 THEN pc' = "halt" /\ UNCHANGED <<prompt, call>>
    ELSE /\ cursor' = cursor - 1
         /\ buffer' = [buffer EXCEPT ![cursor - 1] = Blank]
         /\ Enqueue(cursor - 1, Blank, FALSE)
         /\ UNCHANGED submitted

\* Start is looked at last, in register D: the layout lookup of the A button
\* has overwritten it (LD DE, 2), so that an edge of Start in the same turn
\* as one of A has no effect.
Started == "Start" \in JustPressed /\ "A" \notin JustPressed

KeyboardStep ==
    /\ pc = "step"
    /\ key' = Moved
    /\ \/ Pressed \in Char /\ Accept(Pressed)
       \/ Pressed = "Backspace" /\ Backspace
       \/ /\ Pressed \in {"none", "Submit", "Empty"}
          /\ submitted' = (submitted \/ Pressed = "Submit" \/ Started)
          /\ pc' = "halt" /\ UNCHANGED <<cursor, buffer, call>>
    /\ acted' = acted \cup JustPressed
    /\ UNCHANGED <<joypad, display>>

-----------------------------------------------------------------------------
(* emit_queue_glyph_cell_from_regs: the operands go from the registers into  *)
(* the scratch bytes, and from there into the slot at TAIL.                  *)

Step(from, to) ==
    /\ pc = from /\ pc' = to
    /\ UNCHANGED <<joypad, key, prompt, display, call, acted>>

SaveX == Step("saveX", "saveY")
SaveY == Step("saveY", "copyX")
\* compute_next_tail_or_fault, and the first of the copies: a drain between
\* the two is as good as one before, it only makes room.
CopyX == Step("copyX", IF Len(queue) + 1 < RingLen THEN "copyY" ELSE "fault")
CopyY == Step("copyY", "copyGlyph")

\* The cursor not clamped; and wrapped around.
MutantPublish(next) ==
    /\ pc = "copyGlyph" /\ pc' = "halt"
    /\ queue' = Append(queue, call.op)
    /\ spoiled' = IF call.op # call.asked
                    THEN spoiled \cup ({At(call.op), At(call.asked)} \cap Screen)
                    ELSE spoiled \ {At(call.asked)}
    /\ call' = IdleCall
    /\ cursor' = IF call.typed THEN next ELSE cursor
    /\ UNCHANGED <<joypad, key, buffer, submitted, screen, acted>>
MutantReturn == MutantPublish(cursor + 1)
MutantReturnWrap == MutantPublish((cursor + 1) % BufLen)

\* The glyph copied and TAIL published; back in emit_keyboard_step, a typed
\* character moves the cursor, which stops at the last slot.
Publish ==
    /\ pc = "copyGlyph" /\ pc' = "halt"
    /\ queue' = Append(queue, call.op)
    /\ spoiled' = IF call.op # call.asked
                    THEN spoiled \cup ({At(call.op), At(call.asked)} \cap Screen)
                    ELSE spoiled \ {At(call.asked)}
    /\ call' = IdleCall
    /\ cursor' = IF call.typed /\ cursor + 1 < BufLen THEN cursor + 1 ELSE cursor
    /\ UNCHANGED <<joypad, key, buffer, submitted, screen, acted>>

-----------------------------------------------------------------------------
(* The drains, in interrupts; a panic has disabled these. *)

\* The scratch bytes that hold an operand of the call.
Exposed == CASE pc = "saveX" -> {"glyph"}
             [] pc = "saveY" -> {"x", "glyph"}
             [] pc = "copyX" -> {"x", "y", "glyph"}
             [] pc = "copyY" -> {"y", "glyph"}
             [] pc = "copyGlyph" -> {"glyph"}
             [] OTHER -> {}

\* Loading operation h overwrites them.
Struck(h) ==
    [x     |-> IF "x" \in Exposed THEN h.x ELSE call.op.x,
     y     |-> IF "y" \in Exposed THEN h.y ELSE call.op.y,
     glyph |-> IF "glyph" \in Exposed THEN h.glyph ELSE call.op.glyph]

\* The operation at HEAD is stored; whether the PPU listens is not known.
Drain ==
    /\ pc # "fault" /\ queue # <<>>
    /\ LET h == Head(queue) IN
       /\ call' = [call EXCEPT !.op = Struck(h)]
       /\ \E shown \in {h.glyph, Stale} : screen' = [screen EXCEPT ![At(h)] = shown]
    /\ queue' = Tail(queue)
    /\ UNCHANGED <<joypad, key, prompt, spoiled, pc, acted>>

\* The panic handler does not return.
Panicked == pc = "fault" /\ UNCHANGED vars

Loop == \/ \E first, second \in Held : Poll(first, second)
        \/ KeyboardStep \/ SaveX \/ SaveY \/ CopyX \/ CopyY \/ Publish
Next == Loop \/ Drain \/ Panicked

Spec == Init /\ [][Next]_vars

-----------------------------------------------------------------------------
(* Properties. *)

\* The screen is the buffer, up to the operations on their way: what a cell
\* shows once the queue is drained is the character of its slot, unless the
\* PPU ignored the last store to it, or the last operation for it was one that
\* a drain struck between the steps of enqueue_glyph_cell.  And behind the
\* cursor a backspace has left nothing but blanks; only the last slot, on which
\* the cursor stops, can hold a character that is not in the text.
WillShow(i, g) ==
    \/ \E j \in DOMAIN queue :
          /\ queue[j] = GlyphCell(i, g)
          /\ \A l \in DOMAIN queue : l > j => At(queue[l]) # Cell(i)
    \/ /\ screen[Cell(i)] \in {g, Stale}
       /\ \A j \in DOMAIN queue : At(queue[j]) # Cell(i)
Editing(i) == pc \in Enqueueing /\ At(call.asked) = Cell(i)
PromptShown ==
    pc # "fault" => \A i \in Slot :
        /\ WillShow(i, buffer[i]) \/ Cell(i) \in spoiled \/ Editing(i)
        /\ cursor <= i /\ i < BufLen - 1 => buffer[i] \in {Zero, Blank} \/ Editing(i)

\* A button that is held down is acted upon once: not again until a poll has
\* found it released.
NoAutoRepeat == pc = "step" => JustPressed \cap acted = {}

\* The keyboard edits a line of text of at most BufLen - 1 characters, with
\* one edit in a turn; a panic of the queue does not tear one apart.
Text   == [i \in 1..cursor |-> buffer[i - 1]]
Editor == INSTANCE PromptEditor WITH MaxLen <- BufLen - 1, text <- Text
EditsPrompt == Editor!Spec
=============================================================================
