---------------------------- MODULE VideoCommit ----------------------------
(***************************************************************************)
(* The UI commit queue of the Bank 0 runtime                                *)
(* (src/gbf-runtime/src/video_commit.rs): the main program queues display   *)
(* operations in a ring in WRAM, and the VBlank and LCD-STAT interrupts     *)
(* drain it into VRAM, OAM and the palette registers while the PPU walks    *)
(* through its modes.                                                       *)
(*                                                                         *)
(* The main program can be interrupted between any two instructions; an     *)
(* interrupt handler runs with IME off, so the program stands still until   *)
(* RETI, but the PPU does not.  A step is therefore one access to memory    *)
(* that the handlers share, or one look at the PPU.                         *)
(***************************************************************************)
EXTENDS Integers, Sequences

CONSTANTS
    RingLen,   \* COMMIT_QUEUE_LEN, slots of the ring (32)
    MaxOps,    \* max_ops_per_frame of UiCommitPlan::default_v1 (32)
    MaxRun,    \* MAX_FILL_GLYPH_RUN_CELLS (20)
    OamBytes,  \* bytes of one OAM entry (4)
    LastLoc,   \* last address of a device
    Op,        \* operations the program queues with emit_queue_op
    RegOp,     \* glyph cells it queues through enqueue_glyph_cell
    PowerUp    \* bytes that HEAD and TAIL may hold when the program starts

Kind   == {"glyph", "run", "palette", "sprite"}
Wire   == [kind : Kind \cup {"none"}, at : Nat, n : Nat, val : Nat]
Device == {"bg", "pal", "oam"}
Loc    == Device \X (0..LastLoc)
Blank  == [kind |-> "none", at |-> 0, n |-> 0, val |-> 0]

\* encode: what an operation looks like in a slot; `at` stands for the bytes
\* that say where (x and y, sprite index, palette register), `val` for the
\* bytes that say what, and `n` is the length of a run.
Clip(n)    == IF n > MaxRun THEN MaxRun ELSE n
Encode(op) == [kind |-> op.kind, at |-> op.at, val |-> op.val,
               n |-> IF op.kind = "run" THEN Clip(op.n) ELSE 0]

\* The bytes that executing a slot stores, in this order from 0.
Count(s) == CASE s.kind \in {"glyph", "palette"} -> 1
              [] s.kind = "sprite" -> OamBytes
              [] s.kind = "run" -> Clip(s.n)
              [] OTHER -> 0
DeviceOf(s) == CASE s.kind = "sprite" -> "oam" [] s.kind = "palette" -> "pal" [] OTHER -> "bg"
Target(s, i) == <<DeviceOf(s), s.at + i>>
Locs(s) == {Target(s, i) : i \in 0..(Count(s) - 1)}

ASSUME ConstantsAssumption ==
    /\ RingLen \in Nat /\ RingLen > 1
    /\ MaxOps \in Nat \ {0} /\ MaxRun \in Nat \ {0} /\ OamBytes \in Nat \ {0}
    /\ LastLoc \in Nat
    /\ Op \subseteq Wire /\ RegOp \subseteq Wire
    /\ \A op \in Op \cup RegOp : op.kind \in Kind /\ Locs(Encode(op)) \subseteq Loc
    /\ \A op \in Op \cup RegOp : op.val <= LastLoc   \* a byte may be taken for an address
    /\ \A op \in RegOp : op.kind = "glyph"
    /\ PowerUp \subseteq 0..255

VARIABLES
    head, tail,  \* the ring's index bytes
    slot,        \* slot[i]: the wire operation at COMMIT_QUEUE_BASE + 8i
    work,        \* WORK_X/Y and WORK_GLYPH: scratch of enqueue and of drains
    main,        \* the enqueue that the main program is executing
    isr,         \* the interrupt handler that is running
    pending,     \* IF: requests not yet taken
    mode,        \* STAT mode bits
    screen,      \* VRAM, OAM and palette bytes
    fault,       \* FaultCode stored by panic, after which the CPU halts
    queue,       \* history: published and not yet committed, as published,
                 \* with the operation that was asked for
    want,        \* history: the screen that the committed operations make
    missed       \* history: the places whose last store the PPU ignored

vars == <<head, tail, slot, work, main, isr, pending, mode, screen, fault, queue, want, missed>>

IdleMain == [pc |-> "idle", op |-> Blank, regs |-> FALSE, next |-> 0]
IdleIsr  == [src |-> "none", pc |-> "idle", s |-> Blank, i |-> 0, left |-> 0]

MainPc == {"idle", "workVal", "workAt", "check", "kind", "at", "n", "val", "publish"}
IsrPc  == {"idle", "guard", "loop", "check", "put", "publish"}
Mode   == {"HBlank", "VBlank", "OamSearch", "Drawing"}

TypeOK ==
    /\ head \in 0..(RingLen - 1) /\ tail \in 0..(RingLen - 1)
    /\ slot \in [0..(RingLen - 1) -> Wire]
    /\ work \in [at : Nat, val : Nat]
    /\ main \in [pc : MainPc, op : Wire, regs : BOOLEAN, next : 0..(RingLen - 1)]
    /\ isr \in [src : {"none", "vblank", "stat"}, pc : IsrPc, s : Wire, i : Nat, left : 0..MaxOps]
    /\ pending \subseteq {"vblank", "stat"}
    /\ mode \in Mode
    /\ screen \in [Loc -> Nat] /\ want \in [Loc -> Nat] /\ missed \subseteq Loc
    /\ fault \in {"none", "UiCommitQueueFull", "UiCommitOutsideLegalMode"}
    /\ queue \in Seq([s : Wire, op : Wire, regs : BOOLEAN])

\* emit_boot_init: the LCD has just been switched on, IF is clear, interrupts
\* are enabled.  Nothing has written HEAD, TAIL or the slots.
Init ==
    /\ head \in PowerUp /\ tail \in PowerUp
    /\ slot = [i \in 0..(RingLen - 1) |-> Blank]
    /\ work = [at |-> 0, val |-> 0]
    /\ main = IdleMain /\ isr = IdleIsr
    /\ pending = {} /\ mode = "OamSearch"
    /\ screen = [l \in Loc |-> 0] /\ want = screen /\ missed = {}
    /\ fault = "none" /\ queue = <<>>

\* AND COMMIT_QUEUE_LEN - 1 forgotten.
MutantSucc(i) == i + 1

Succ(i) == (i + 1) % RingLen

-----------------------------------------------------------------------------
(* The main program.  It runs only while no handler does. *)

Main(pc) == isr.src = "none" /\ fault = "none" /\ main.pc = pc
Goto(pc) == main' = [main EXCEPT !.pc = pc]
OnlyMain == UNCHANGED <<head, isr, pending, mode, screen, want, missed>>

\* panic::entry: interrupts off, the fault stored, and no way back.
Panic(code) == fault' = code

QueueOp(op) ==
    /\ Main("idle")
    /\ main' = [IdleMain EXCEPT !.pc = "check", !.op = op]
    /\ OnlyMain /\ UNCHANGED <<tail, slot, work, fault, queue>>

\* enqueue_glyph_cell keeps its arguments in the scratch bytes ...
QueueGlyphCell(op) ==
    /\ Main("idle")
    /\ main' = [IdleMain EXCEPT !.pc = "workVal", !.op = op, !.regs = TRUE]
    /\ OnlyMain /\ UNCHANGED <<tail, slot, work, fault, queue>>

SaveVal ==
    /\ Main("workVal") /\ Goto("workAt")
    /\ work' = [work EXCEPT !.val = main.op.val]
    /\ OnlyMain /\ UNCHANGED <<tail, slot, fault, queue>>

SaveAt ==
    /\ Main("workAt") /\ Goto("check")
    /\ work' = [work EXCEPT !.at = main.op.at]
    /\ OnlyMain /\ UNCHANGED <<tail, slot, fault, queue>>

\* The full ring is not noticed.
MutantNextTail ==
    /\ Main("check")
    /\ main' = [main EXCEPT !.pc = "kind", !.next = Succ(tail)]
    /\ OnlyMain /\ UNCHANGED <<tail, slot, work, fault, queue>>

\* compute_next_tail_or_fault: one slot always stays empty.
NextTail ==
    /\ Main("check")
    /\ IF Succ(tail) = head
         THEN Panic("UiCommitQueueFull") /\ UNCHANGED main
         ELSE /\ main' = [main EXCEPT !.pc = "kind", !.next = Succ(tail)]
              /\ UNCHANGED fault
    /\ OnlyMain /\ UNCHANGED <<tail, slot, work, queue>>

WriteKind ==
    /\ Main("kind") /\ Goto("at")
    /\ slot' = [slot EXCEPT ![tail].kind = main.op.kind]
    /\ OnlyMain /\ UNCHANGED <<tail, work, fault, queue>>

\* ... and copies them from there into the slot.
WriteAt ==
    /\ Main("at") /\ Goto("n")
    /\ slot' = [slot EXCEPT ![tail].at = IF main.regs THEN work.at ELSE main.op.at]
    /\ OnlyMain /\ UNCHANGED <<tail, work, fault, queue>>

WriteLen ==
    /\ Main("n") /\ Goto("val")
    /\ slot' = [slot EXCEPT ![tail].n = Encode(main.op).n]
    /\ OnlyMain /\ UNCHANGED <<tail, work, fault, queue>>

\* Immediate operands taken from the scratch bytes too.
MutantWriteVal ==
    /\ Main("val") /\ Goto("publish")
    /\ slot' = [slot EXCEPT ![tail].val = work.val]
    /\ OnlyMain /\ UNCHANGED <<tail, work, fault, queue>>

WriteVal ==
    /\ Main("val") /\ Goto("publish")
    /\ slot' = [slot EXCEPT ![tail].val = IF main.regs THEN work.val ELSE main.op.val]
    /\ OnlyMain /\ UNCHANGED <<tail, work, fault, queue>>

PublishTail ==
    /\ Main("publish")
    /\ tail' = main.next
    /\ main' = IdleMain
    /\ queue' = Append(queue, [s |-> slot[tail], op |-> main.op, regs |-> main.regs])
    /\ OnlyMain /\ UNCHANGED <<slot, work, fault>>

-----------------------------------------------------------------------------
(* The PPU and the interrupt requests it raises.  It waits for nobody: the *)
(* mode may change between a handler's look at it and the store that       *)
(* follows.                                                                *)

Ppu(from, to, request) ==
    /\ mode = from /\ mode' = to
    /\ pending' = pending \cup request
    /\ UNCHANGED <<head, tail, slot, work, main, isr, screen, fault, queue, want, missed>>

ScanLine   == Ppu("OamSearch", "Drawing", {})
EndLine    == Ppu("Drawing", "HBlank", {"stat"})
NextLine   == Ppu("HBlank", "OamSearch", {})
EndFrame   == Ppu("HBlank", "VBlank", {"vblank"})
NextFrame  == Ppu("VBlank", "OamSearch", {})
PpuStep    == ScanLine \/ EndLine \/ NextLine \/ EndFrame \/ NextFrame

\* Where the PPU lets the CPU store.
Accessible(dev) == CASE dev = "bg" -> mode # "Drawing"
                     [] dev = "oam" -> mode \in {"HBlank", "VBlank"}
                     [] OTHER -> TRUE

-----------------------------------------------------------------------------
(* The handlers.  VBlank has priority over STAT; taking a request clears it *)
(* and switches IME off until RETI.                                         *)

Isr(src, pc) == isr.src = src /\ isr.pc = pc /\ fault = "none"
OnlyIsr == UNCHANGED <<tail, slot, main, mode, queue, want>>

TakeInterrupt(src) ==
    /\ isr.src = "none" /\ fault = "none"
    /\ src \in pending /\ (src = "stat" => "vblank" \notin pending)
    /\ pending' = pending \ {src}
    /\ isr' = [IdleIsr EXCEPT !.src = src, !.pc = "guard"]
    /\ OnlyIsr /\ UNCHANGED <<head, work, screen, missed, fault>>

\* Loading a slot goes through the scratch bytes; palettes have their own.
Load(s) == work' = CASE s.kind = "palette" -> work
                     [] s.kind = "sprite" -> [at |-> s.val, val |-> s.val]
                     [] OTHER -> [at |-> s.at, val |-> s.val]

Begin(s, pc) == /\ isr' = [isr EXCEPT !.pc = pc, !.s = s, !.i = 0]
                /\ Load(s)
                /\ UNCHANGED fault
ReturnFromIsr == isr' = IdleIsr /\ UNCHANGED <<work, fault>>

\* drain_hblank: at most one glyph cell, and only if it is at the head.
DrainHBlank ==
    /\ Isr("stat", "guard")
    /\ \/ mode # "HBlank" /\ Panic("UiCommitOutsideLegalMode") /\ UNCHANGED <<isr, work>>
       \/ mode = "HBlank" /\ (head = tail \/ slot[head].kind # "glyph") /\ ReturnFromIsr
       \/ mode = "HBlank" /\ head # tail /\ slot[head].kind = "glyph" /\ Begin(slot[head], "put")
    /\ OnlyIsr /\ UNCHANGED <<head, pending, screen, missed>>

GuardVBlank ==
    /\ Isr("vblank", "guard")
    /\ IF mode = "VBlank"
         THEN isr' = [isr EXCEPT !.pc = "loop", !.left = MaxOps] /\ UNCHANGED fault
         ELSE Panic("UiCommitOutsideLegalMode") /\ UNCHANGED isr
    /\ OnlyIsr /\ UNCHANGED <<head, pending, screen, missed, work>>

\* Only the glyph cells are executed, as in drain_hblank.
MutantFetch ==
    /\ Isr("vblank", "loop")
    /\ mode = "VBlank" /\ head # tail /\ slot[head].kind = "glyph"
    /\ Begin(slot[head], "put")
    /\ OnlyIsr /\ UNCHANGED <<head, pending, screen, missed>>

\* The loop of drain_vblank fetches the operation at the head.  Runs and
\* sprites look at the mode again before every byte.
Fetch ==
    /\ Isr("vblank", "loop")
    /\ mode = "VBlank" /\ head # tail
    /\ LET s == slot[head] IN
       Begin(s, IF Count(s) = 0 THEN "publish"
                ELSE IF s.kind \in {"run", "sprite"} THEN "check" ELSE "put")
    /\ OnlyIsr /\ UNCHANGED <<head, pending, screen, missed>>

StopLoop ==
    /\ Isr("vblank", "loop")
    /\ mode # "VBlank" \/ head = tail
    /\ ReturnFromIsr
    /\ OnlyIsr /\ UNCHANGED <<head, pending, screen, missed>>

CheckMode(i) ==
    /\ Isr("vblank", "check") /\ isr.i = i
    /\ mode = "VBlank"
    /\ isr' = [isr EXCEPT !.pc = "put"]
    /\ OnlyIsr /\ UNCHANGED <<head, pending, screen, missed, work, fault>>

\* The interrupted operation counted as done.
MutantDefer ==
    /\ Isr("vblank", "check")
    /\ mode # "VBlank"
    /\ isr' = [isr EXCEPT !.pc = "publish"]
    /\ OnlyIsr /\ UNCHANGED <<head, pending, screen, missed, work, fault>>

\* VBlank is over in the middle of an operation: it stays at the head.
Defer ==
    /\ Isr("vblank", "check")
    /\ mode # "VBlank"
    /\ ReturnFromIsr
    /\ OnlyIsr /\ UNCHANGED <<head, pending, screen, missed>>

\* One byte of the operation is stored, if the PPU lets it; the handler goes
\* on in either case.
PutByte ==
    /\ isr.pc = "put" /\ fault = "none"
    /\ LET l == Target(isr.s, isr.i) IN
       IF Accessible(DeviceOf(isr.s))
         THEN screen' = [screen EXCEPT ![l] = isr.s.val] /\ missed' = missed \ {l}
         ELSE missed' = missed \cup ({l} \cap Loc) /\ UNCHANGED screen
    /\ isr' = [isr EXCEPT !.i = @ + 1,
                          !.pc = IF isr.i + 1 = Count(isr.s) THEN "publish" ELSE "check"]
    /\ OnlyIsr /\ UNCHANGED <<head, pending, work, fault>>

\* HEAD published, then the loop goes on within the frame's budget.
PublishHead ==
    /\ isr.pc = "publish" /\ fault = "none"
    /\ head' = Succ(head)
    /\ isr' = IF isr.src = "stat" \/ isr.left = 1 THEN IdleIsr
              ELSE [isr EXCEPT !.pc = "loop", !.left = @ - 1]
    /\ queue' = Tail(queue)
    /\ want' = [l \in Loc |-> IF l \in Locs(Head(queue).s) THEN Head(queue).s.val ELSE want[l]]
    /\ UNCHANGED <<tail, slot, main, mode, pending, screen, work, fault, missed>>

-----------------------------------------------------------------------------
Enqueue  == SaveVal \/ SaveAt \/ NextTail \/ WriteKind \/ WriteAt \/ WriteLen \/ WriteVal
            \/ PublishTail
MainStep == \/ \E op \in Op : QueueOp(op)
            \/ \E op \in RegOp : QueueGlyphCell(op)
            \/ Enqueue
IsrStep  == \/ DrainHBlank \/ GuardVBlank \/ Fetch \/ StopLoop \/ Defer \/ PutByte \/ PublishHead
            \/ \E i \in 0..LastLoc : CheckMode(i)

Next == MainStep \/ PpuStep \/ IsrStep \/ \E src \in {"vblank", "stat"} : TakeInterrupt(src)

Spec == Init /\ [][Next]_vars

-----------------------------------------------------------------------------
(* Fairness, for the liveness property only.  Frames keep ending, requests of *)
(* the VBlank interrupt are taken and a handler executes.  VBlank is long     *)
(* enough for the longest operation: a drain that comes to a byte of an       *)
(* operation during VBlank, time after time, finds the time to check the mode *)
(* and to store it.  Nothing is assumed of the main program.                  *)
Longest == IF MaxRun > OamBytes THEN MaxRun ELSE OamBytes

PutInTime(i) == PutByte /\ isr.i = i /\ mode = "VBlank"
FetchEmpty   == Fetch /\ Count(slot[head]) = 0

FairSpec ==
    /\ Spec
    /\ []<><<EndFrame>>_vars
    /\ WF_vars(TakeInterrupt("vblank")) /\ WF_vars(IsrStep)
    /\ []<>(ENABLED <<Fetch>>_vars) => []<><<PutInTime(0) \/ FetchEmpty>>_vars
    /\ \A i \in 1..(Longest - 1) :
          []<>(ENABLED <<CheckMode(i)>>_vars) => []<><<PutInTime(i)>>_vars

-----------------------------------------------------------------------------
(* Properties. *)

\* The slots between HEAD and TAIL are exactly the published operations that
\* have not been committed, in order and unchanged since their publication:
\* no drain sees a half-written slot and no enqueue overwrites a live one
\* (emit_queue_op, compute_next_tail_or_fault, publish_next_head).
QueueIntact ==
    /\ Len(queue) = (tail - head) % RingLen
    /\ \A i \in 1..Len(queue) : slot[(head + i - 1) % RingLen] = queue[i].s

\* The display holds what the committed operations left there, in queue
\* order and each exactly once; only the operation at the head may have been
\* carried out in part (a run or sprite that VBlank was too short for).  A
\* place differs only while the last store made to it came after the PPU had
\* left the mode that the drain had checked: nothing else is ever lost, and
\* the next store that comes in time puts the place right.
ScreenFaithful ==
    \A l \in Loc :
        \/ screen[l] = want[l]
        \/ l \in missed
        \/ /\ queue # <<>>
           /\ l \in Locs(Head(queue).s)
           /\ screen[l] = Head(queue).s.val

\* An operation queued with immediate operands is published as encoded,
\* whatever the interrupts did to the shared scratch bytes meanwhile.
ImmediatesFaithful ==
    \A i \in 1..Len(queue) : queue[i].regs \/ queue[i].s = Encode(queue[i].op)

\* The ring, the handlers and the PPU implement DisplayQueue: what lies between
\* HEAD and TAIL is the line, the display changes only by the operation at HEAD,
\* and HEAD moves on only when every byte of that operation is on the display,
\* or was stored last when the PPU did not listen, after any number of
\* interrupted attempts.
Painting(s) == [on |-> Locs(s) \cap Loc, val |-> s.val]
Live == [i \in 1..((tail - head) % RingLen) |-> Painting(slot[(head + i - 1) % RingLen])]
Line == INSTANCE DisplayQueue WITH Capacity <- RingLen - 1, line <- Live, display <- screen
PaintsInOrder == Line!QueueSpec

\* An operation at the head does not stay there for ever: it is committed,
\* unless the runtime panics.
Drained ==
    []<>(queue = <<>> \/ fault # "none") \/ []<><<PublishHead>>_vars

\* enqueue_glyph_cell publishes the x, y and glyph it was called with: its
\* comment gives the registers they come in.
EnqueueFaithful ==
    \A i \in 1..Len(queue) : queue[i].s = Encode(queue[i].op)

\* The STAT handler that finds an illegal mode returns, and does not panic:
\* what the runtime's design document says of the LCD STAT handler.
IllegalModeReturns ==
    ~(isr.src = "stat" /\ fault = "UiCommitOutsideLegalMode")

\* drain_vblank never stores into a device that the PPU is using: what the
\* gate `no_writes_in_mode_3` asks for.
NoIllegalWrite ==
    [][(Isr("vblank", "put") /\ isr' # isr) => Accessible(DeviceOf(isr.s))]_vars
=============================================================================
