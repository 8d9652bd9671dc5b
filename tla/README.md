# TLA+ models of gbllm

gbllm compiles small language models into Game Boy ROMs.  A Rust workspace trains and quantizes a
model, lowers it through a staged compiler with a content-addressed cache, assembles a ROM together
with a hand-written Bank 0 runtime, and runs the result in an emulator or on hardware.  Most of the
workspace is sequential and pure.  Three parts are not, and they carry guarantees that the rest
relies on:

* **gbf-store**, shared by compiler processes that run side by side: the blob store with its
  write-rename protocol, the garbage collector, the stage cache, archives and integrity checks;
* **gbf-runtime**, where the main program, two interrupt handlers, the PPU and the user at the
  joypad share a ring of display operations and a prompt;
* the **refinement loop** of gbf-codegen, in which planning stages that may answer anything change
  the compile knobs under several budgets.

These are modelled, model-checked with TLC and proved with TLAPS in this directory.

## Inventory

| Component | State | Operations | Interaction | What makes it correct |
|---|---|---|---|---|
| gbf-store blob store (`blob.rs`) | files under `blobs/sha256/`, `tmp/` | put, put_expect, put_as, put_streaming, get, remove, cleanup_tmp | file system, shared by threads and processes | a canonical path holds the right bytes or nothing, through crashes; puts of one blob do not disturb each other |
| gbf-store GC (`gc.rs`) | mark queue, candidates, removed set of one run | run_gc | blob store, pinsets, stage-cache index files | nothing pinned is removed; garbage and stale indexes go |
| gbf-store stage cache (`stage_cache.rs`) | index files: key -> payload hash | get, put | blob store, GC sweep | an index never outlives or precedes its payload unnoticed |
| gbf-store pinsets | pinset files | validate | GC, archives | the roots are what the caller wrote |
| gbf-store archives (`archive.rs`) | one archive file | create_archive, extract_archive, list_archive | reads one store, writes another, beside their other users | an Ok archive is complete and exact; extraction delivers and can be repeated |
| gbf-store integrity (`integrity.rs`) | a report | verify_integrity, verify_all, verify_reachable | blob store beside its other users | a report tells the truth |
| gbf-runtime UI queue (`video_commit.rs`) | ring of 32 slots, HEAD, TAIL, scratch bytes in WRAM | emit_queue_op, enqueue_glyph_cell, drain_hblank, drain_vblank | main program, VBlank and LCD-STAT handlers, PPU | the display shows what was queued, once and in order; no store while the PPU owns the device |
| gbf-runtime boot, interrupts, panic | HRAM bytes, IE, IF, IME | boot init, ISR stubs, panic | all runtime modules | the runtime starts in the state its modules assume; a fault stops it |
| gbf-runtime scheduler, joypad, keyboard, text | polled and previous buttons, keyboard cursor, prompt buffer and cursor, submit flag | poll, keyboard step, halt: one turn of the main loop | UI queue, interrupts that wake the loop | the keyboard is a line editor, a held button acts once, the screen shows the prompt where nothing interfered |
| gbf-runtime banking, persistence, trace, harness | bank shadow in HRAM, trace ring | bank leases, trace emit | interrupt handlers, gbf-emu | the mapped bank is the one the lease says |
| gbf-abi, gbf-hw | none | layouts, tables, validators | used by all | constants agree |
| gbf-asm | sections, symbols | encode, relax branches, lay out, link a ROM | gbf-runtime, gbf-codegen | relaxation terminates with branches in range |
| gbf-codegen refinement loop (`refinement_loop.rs`), gbf-policy admissibility | knobs, three budgets, history | run stages, examine, accept or reject a proposal | planning stages, repair report | convergence is about the final knobs, ranks and sets never retreat, the loop returns, the report explains it |
| gbf-codegen passes and cache keys | stage inputs and outputs | passes, key composition | stage cache | equal keys mean equal inputs |
| gbf-emu, gbf-debug | emulated machine, trace reader | run, step, read the ring | the ROM | every trace record is read once |
| gbf-kernel, gbf-model, gbf-train, gbf-data | tensors, training phase | numeric code | artifacts | numeric agreement with references |
| gbf-artifact, the rest of gbf-policy, gbf-report, gbf-verify, gbf-oracle, gbf-workload, gbf-foundation, gbf-ir, gbf-migrate | none | schemas, validators, evaluators | all | pure functions of their inputs |
| gbf-bench, gbf-experiments, gbf-cli, gbf-test, scripts | none of their own | drivers | all | glue |

The hard behaviours: system calls of several processes in any order; crashes and power loss between
any two of them; a collector that may be cut off halfway; checks that are stale when acted upon;
interrupts between any two instructions of an enqueue; a PPU that changes mode while a handler runs;
a ring at its limit; an archive cut short; a joypad read in two halves; stage successes that belong to
knobs of an earlier round.  `PROJECT.json` lists every such hazard at its line, with the properties that
would catch it, or the reason why none does yet.

## Modules

| Module | Content |
|---|---|
| `BlobStoreSpec` | abstract store: a put takes effect at one instant, or fails and changes nothing |
| `BlobStore` | the write protocol of `blob.rs`, one action per system call |
| `StoreGc` | `run_gc` and the stage cache over the atomic store of `BlobStoreSpec` |
| `StoreArchive` | archives and integrity checks over two stores that change beside them |
| `DisplayQueue` | abstract UI queue: a bounded line of paintings, of which the first is painted and leaves when complete |
| `VideoCommit` | the UI commit queue with program, handlers and PPU |
| `PromptEditor` | abstract keyboard: a line of text that is typed, erased and submitted |
| `PromptShell` | main loop, joypad poll, keyboard step and `enqueue_glyph_cell`, with drains between its steps |
| `RefinementLoop` | the refinement loop and the admissibility of changes |
| `MC...` | instances for TLC |
| `BlobStoreProofs`, `BlobStoreRefinement`, `BlobStoreCallers`, `StoreGcProofs`, `StoreArchiveProofs`, `VideoCommitProofs`, `PromptShellProofs`, `RefinementLoopProofs` | theorems |

`StoreGc` and `StoreArchive` build on `BlobStoreSpec`, which `BlobStore` implements: a put is one step
in them.  `PromptShell` builds on what `VideoCommit` shows of the queue: operations leave it in the
order in which they were published, and what is neither lost by the PPU nor struck in the scratch bytes
arrives.

`map` in `PROJECT.json` ties every definition to the source lines it models.  Operators named
`Mutant...` are plausible faulty versions of the definition that follows them; each property is
violated when the definition is replaced by one of them.

### BlobStore

A file is a record of its bytes and whether they have been fsynced; the bytes whose SHA-256 is `h`
are represented by `h`, everything else by `Bad`.  `canon[h]` is the file at the canonical path,
`disk[h]` what a power loss may bring back, `tmp` the temporary directory, `writer[w]` the program
counter and locals of one `put`.

```
put, put_expect, put_as          put_streaming
  CheckExists --found--> VerifyExisting --> ok / err
     | absent               |
     +--> CreateTmp --> WriteTmp --> SyncTmp --> CommitTmp --absent--> MakeShard --> Rename --> SyncDir --> ok
                                                    | found                             | AlreadyExists
                                                    +--> VerifyBeforeDrop <-------------+ --> DropTmp --> ok
```

`MakeShard` is `create_dir_all`.  It matters for durability: a shard directory is itself an entry of
`blobs/sha256`, and no call syncs that directory.  `shardDir` says whether a shard is not there, made, or
made and known to the disk, which happens in the file system's own time (`Writeback`); `PowerLoss` may
take a shard that was only made, with all its blobs.  So `DurabilityMode::Full` does not make the first
blob of a shard durable by itself, and `AckedReadable` promises a durable blob after a power loss only if
its shard had reached the disk.  RFC F-A6 speaks of "the renamed directory entry" and of a best effort
(lines 130 and 177), so this is no violation of it.  `RenameExists` is the answer of platforms whose rename does not overwrite.  With
`Faults` every system call may fail, `TmpFails`, `VerifyFails`, `RenameFails`, `ShardDirFails`,
`SyncDirFails`, `CleanupFails` and the second alternative of `RemoveTmp` being the error paths.  With
`Coordinated` callers do what RFC F-A6 asks of them: they keep `remove` and `cleanup_tmp` apart from
puts; without it anything goes.  A damaged file (`Damage`) and a power loss (`PowerLoss`) belong to
the environment; the `damaged` and `acked` variables are history.  That a process killed in `put`
leaves its temporary file behind is `Crash`.  Ages are abstracted: any file listed by `cleanup_tmp`
may be too young (`CleanupSkip`).

`Linearizable` maps this state to `BlobStoreSpec`: a put is `applied` from its rename, or from the
re-hash that finds the blob intact; `rooted` are the hashes whose shard the disk knows.

### StoreGc

Since the protocol implements `BlobStoreSpec`, the store is a set of hashes here and a put is one
step.  `gc` holds the locals of `run_gc`: `keep` and `queue` of the mark phase (`Mark`, `MarkFails`),
the candidates in ascending order and what is left of `max_remove_per_run` (`ListBlobs`,
`RemoveBlob`), and the sweep, whose read and remove of an index file are two steps (`SweepRead`,
`SweepRemove`) and which passes over an index file that it cannot read (`SweepSkip`).  `proc[p]` is the stage-cache call of a thread: payload first (`PutBlob`), then the
temporary index and its rename, including the remove-and-rename path for platforms whose rename does
not overwrite.  `Children` is what the registered readers find in a blob, `Opaque` the blobs no reader
recognizes, which matter under the two unknown-reference policies.  Damaged bytes decode to
anything, since `get` does not re-hash.  `GcFails` and `Return` end a call at any point, by an error
or because its process dies.  `stale` is history: the keys whose index has outlived its payload because
the run that removed it did not finish a sweep, or skipped the file; `IndexBacked` says that there are no
others, and a key leaves `stale` as soon as its payload is stored again or its index replaced.

Power loss is not part of this module: index files are never synced, so that one may be lost, empty, or
name a payload that the disk has not, all of which `get` treats as a miss.  A put between the sweep's read
and its remove loses the new index; callers that keep the collector apart, as RFC F-A6 asks (lines 207 and
2050), exclude it, and for others it is again a miss.

### VideoCommit

A step is one access to memory that the handlers share, or one look at the PPU; everything between
two such accesses is invisible to the other side.  `main` is the enqueue in progress (`QueueOp` with
immediate operands, `QueueGlyphCell` with operands in registers, saved to the scratch bytes first);
`isr` is the running handler, with IME off until it returns; the PPU moves from mode to mode at any
moment.  A wire operation keeps where (`at`), how many (`n`) and what (`val`); x and y are one
address, and the bytes of a run or a sprite have one value, which is enough to tell a partial
operation from a complete one.  `Encode` clips runs as `bounded_fill_run_len` does.  `queue`,
`want` and `missed` are history: what has been published, the display that the committed operations
make, and the places whose last store the PPU ignored.

`PaintsInOrder` maps this to `DisplayQueue`: the line is what lies in the ring between HEAD and TAIL, the
display is the display, and `missed` tells which of its places missed a stroke.  Filling a slot, loading it and giving up
at the end of VBlank are stutters; the publication of TAIL, a store and the publication of HEAD are
the abstract steps.

The PPU moves at any moment, also between a mode check and the store that the check is for, since the
code does not prevent it (see `video_late`).  A store that comes when the PPU owns the device is ignored
(`PutByte`), and the place is in `missed` until a later store reaches it; `ScreenFaithful` and
`PaintsInOrder` are about the other places.  They still say what the code can be held to: an operation
leaves the ring only after a store to each of its places was tried, and nothing is painted out of turn.

RFC F-A5 (lines 1231 and 1676) wants `vblank_priority_ops` to be drained first.  The code has the list in
`UiCommitPlan` and a test that reads it, but no drain looks at it: operations leave in the order of their
publication, which is what `PaintsInOrder` states.

The LCD is on: the bootstrap, which runs before interrupts are enabled, and the checks' shortcut
while it is off are left out, as is the frame counter that nothing reads.

### StoreArchive

A store maps a hash to bytes or `Absent`, an archive is a sequence of cells: header with count and
total, pinsets, and for each blob its hash, its length and its bytes.  `call` is the call in
progress, one at a time; what other users of the stores do (`SrcPut`, `SrcRemove`, `SrcDamage`,
`DstPut`, `DstLose`, `DstDamage`) and what happens to the file (`FileCut`, `FileRot`) and to the
process (`Fault`) comes between any two of its steps, `MaxEvents` times in all.  Every step looks at
one blob: `Collect` walks the references without checking a hash, as `get` does, so that damaged
bytes decode to anything or end the call; `Measure` and `Verify` are the first pass of
`create_archive`, `WriteRecord` the second, which leaves what it has copied in the output when the
hash turns out wrong.  `ReadRecord` is a turn of the loop of `extract_archive` or `list_archive`; a reader
that is out of step with the records takes any cell for what it expects.  `FileRot` damages a hash, a
length or a byte; a damaged hash becomes one of no blob, or one of the constant `Forge`.  `ScanBlob` and `WalkBlob`
are the loops of `verify_all` and `verify_reachable`, the latter with the error of a reader that rejects
the bytes.

`IsArchive` is the layout of an archive in closed form: the record of a hash stands behind the header,
the pinsets and the records of all smaller hashes, and the cells these take are counted as a
cardinality.  `MCStoreArchive` writes the same file as a sequence (`Image`), and TLC compares the two
for every set of blobs (`LayoutAssumption`).  A stray byte at the end of a file is read as a byte of a
body where one is expected; `AsRead` says so.

`Repairs` says whether a blob that was damaged during a `create_archive` may be removed and put back
while it runs.  With it `ArchiveClosed` does not hold: the references or the length are taken from
the damaged bytes and the verifying copy reads the good ones, so that the archive lacks children or
states a wrong length, with Ok.  Extraction of a wrong length fails; missing children are noticed by
`verify_reachable`.  A header has no checksum: a count and an end that change together pass, so
`FileRot` leaves the header alone.  `extract_archive` returns the pinsets without writing them; until
its caller does, nothing keeps the blobs from a collector.

### PromptShell

`Poll` reads the two halves of the joypad at two moments: the user may hold something else at each.
`KeyboardStep` is the whole of `emit_keyboard_step` up to its call of `enqueue_glyph_cell`: cursor moves,
then the cell under the cursor if A was pressed, then Start.  The call goes through the scratch bytes
(`SaveX`, `SaveY`, `CopyX`, `CopyY`, `Publish`), panics on a full ring, and moves the cursor when it
returns.  `Drain` is one committed operation of either handler, between any two of these steps: it
overwrites the scratch bytes that hold an operand of the call (`Exposed`, `Struck`), as `video_scratch`
shows, and its store may be ignored, as `video_late` shows; the cell then shows something `Stale`.
`spoiled` is history: the cells whose last operation was published other than asked for.  The panic of a
late STAT handler (`video_stat`) is left to `VideoCommit`.  WRAM starts cleared, as the emulator provides
it; boot does not do that.

`PromptShown` says how far the screen can be trusted: apart from spoiled cells and ignored stores it comes
to show the buffer.  That it catches up in the end is not claimed: the code repeats no lost store.

What the code does and a reader of RFC F-A5 would not expect is in the model as it is: the layout
lookup of the A button overwrites the register with the button edges, so a Start edge of the same poll
is lost (F-A5, section 3E.3, step 6); B, Up, Down and Select have no effect; after `BufLen - 1`
characters the cursor stays on the last slot, which every further character overwrites and which
keeps its character when backspace blanks the slot before it.  `PromptEditor` therefore has texts of
at most `BufLen - 1` characters.

### RefinementLoop

The stages are numbers and answer anything: success, failure, or any proposal of `Proposal`, a list of
changes.  A knob is a rank in a ladder (ten of the code's knobs), a pressure threshold (one for the
twelve of the code, which are checked alike), a set that grows, or an override (one selector for each
map).  `Rejection` has the checks of `check_delta_admissible_with_recompute_purity` in their order, each
against the knobs before the proposal.  `left`, `global` and `acceptLeft` are the three budgets, `log`
the accepted proposals in order, each with the knobs before and after it as in `KnobDeltaSummary`, and
the last rejection, `fitted` is history: the knobs with which
each stage last succeeded.

Statements of RFC F-B16 that are stronger than the code:  "Each accepted delta strictly advances at
least one sub-knob" (line 795): a forced residency is accepted unconditionally, sets and tile classes
if they are not empty, a selector's ceiling is compared with the global one, and an empty list of
changes passes.  Termination "mechanically guaranteed" (line 3274): alternatives after a rejection
(`Offer`) have no budget, so `Returns` is conditional on there being finitely many.
`StageBudgetExhausted` only "while the stage was still needing repair" (line 1472): an early stage
is charged for every restart.  "Override monotonicity" (lines 2049 to 2059): `KnobsAdvance` covers ranks,
thresholds and sets, and overrides only where they are locked, turned off or observed, because
`check_delta_monotone` compares an override with the global value or with nothing; the run
`refinement_overrides` shows one that moves back.  The accepted proposals are nevertheless bounded, by `acceptLeft` alone.

## Runs

| Run | Instance | Checks |
|---|---|---|
| `store_race` | 1 blob, 2 writers, 2 temporary names, faults, no coordination | `TypeOK`, `CanonicalIntact`, `Linearizable` |
| `store_coordinated` | 1 blob, 2 writers, 2 names, Full, coordinated, no faults, fairness | `AckedReadable`, `ConcurrentPutsSucceed`, `OrphansReclaimed` |
| `gc_coordinated` | 3 blobs (a leaf, a cycle), 1 key, 2 threads, limit 1, fairness | `TypeOK`, `IndexBacked`, `RootsSurvive`, `PinnedNeverRemoved`, `GarbageCollected` |
| `gc_stale_index` | 3 blobs, 1 key | `SweepLeavesNoStaleIndex` is violated |
| `archive` | a chain of 3 blobs, one empty, 2 events, fairness | `TypeOK`, `ArchiveClosed`, `ArchiveExact`, `AcceptedExact`, `ExtractDelivers`, `VerifyAllTruthful`, `VerifyReachableTruthful`, `CallsEnd`, `RetryDelivers` |
| `refinement_loop` | 3 stages, ceilings 3, 2, 2 under a saturated total of 6, 2 accepted changes, 12 proposals, fairness | `TypeOK`, `ConvergedFits`, `BudgetsBalance`, `LogExplains`, `KnobsAdvance`, `Returns` |
| `refinement_overrides` | proposals that set a selector's ceiling or residency to one of two ranks | `OverridesAdvance` is violated |
| `prompt_shell` | layout a, Backspace, a, Submit; nothing, Right and A, or A and Start held; 3 slots on 2 rows; ring of 3 | `TypeOK`, `PromptShown`, `NoAutoRepeat`, `EditsPrompt` |
| `video_commit` | 3 slots, a run clipped to 2 cells and a register cell that overlap; fairness | `TypeOK`, `QueueIntact`, `ScreenFaithful`, `ImmediatesFaithful`, `PaintsInOrder`, `Drained` |
| `video_scratch` | 2 slots | `EnqueueFaithful` is violated |
| `video_stat` | 2 slots | `IllegalModeReturns` is violated |
| `video_late` | 2 slots | `NoIllegalWrite` is violated |

Bounds.  Two writers of one blob meet in every pair of steps, and a third temporary file is possible
only after a leak, which two names already allow; that an operation on one blob leaves the others
alone is part of the theorems.  Three blobs give a chain, a cycle and a leaf, and a limit below the number of
candidates.  Three slots let two operations wait, so that the ring is full, empty, wraps and has an
order; two slots suffice for the violations, which need one operation.  The run and the cell of
`video_commit` have the same value, which keeps the state space small; a byte that was not stored still
shows, since the display starts with another value.  Overwriting with different values is covered by the
theorems.  Sprites are deferred like runs and palettes stored like cells, with
other devices; TLC leaves them out, the theorems include them.  A chain of three blobs has a
root, a blob met only through references and a last record, which is empty so that a cut may leave no
trace in its body; two events are enough for a removal and a put between two passes, or damage to
file and store.  The ceilings of the loop let a stage be the last to run and to be exhausted, and
their sum exceeds the global budget; the proposals meet every reason of rejection, change one knob
twice and change nothing.  Three slots on two rows have an inner slot, a last one and a line break,
and a ring of three fills up.  The buttons held give edges of Right, A and Start alone and together and
buttons that stay down; without Left the cursor of the keyboard passes a character, backspace, a
character and submit once.  Left and other layouts are covered by the theorems.  The theorems remove the bounds, and those of the collector also the
coordination: `SpecRootsSurvive` holds for callers that put, pin and damage beside a run, which TLC's
instance does not have.  Deadlock is
checked in all runs.

Fairness.  Writers, handlers and calls in progress take their next step (weak fairness: the operating
system or the CPU executes them).  `store_coordinated`: maintenance is repeated and a file left alone
reaches `max_age` (strong fairness on `StartCleanup` and `CleanupTmp`).  `gc_coordinated`: consumers run
the collector again and again.  `video_commit`: frames end (`EndFrame` again and again), VBlank requests are
taken and handlers go on, and VBlank, 1140 M-cycles, is long enough for the longest operation (20 cells
at some 30 M-cycles each), so that a byte that is tried again and again is stored in VBlank again and again
(`PutInTime`), or the ring is found empty; each store may nevertheless come late any number of times.
`archive`: a call that was started goes on.  `refinement_loop`: the
driver is one thread and stages return.  `store_race` and `prompt_shell` check safety only.

What the violated properties show:

* `gc_stale_index`: the sweep considers only the blobs removed by its own run.  Run once without the
  option, or cut off before the sweep, and the index stays for ever; RFC F-A6 says that GC sweeps
  stale indexes.  A stale index is only a cache miss, so the harm is growth.
* `video_scratch`: `enqueue_glyph_cell` keeps x, y and glyph in the bytes that the drains use.  A
  drain in between makes it publish another operation's cell.
* `video_stat`: a STAT request that is taken late, for instance after a VBlank drain, panics; the
  design document says that the handler returns.
* `video_late`: `drain_vblank` checks the mode and then needs about 110 M-cycles to the glyph store,
  without another check.  HEAD advances although the store may have been ignored.
* `refinement_overrides`: the reduction ceiling of a selector is lowered again by the next accepted
  proposal, against the RFC's override monotonicity, because it is compared with the global ceiling;
  residencies and tile classes are compared with nothing.

## Proofs

All theorems hold for every value of the constants that the modules' assumptions allow.

| Theorem | Needs |
|---|---|
| `BlobStoreProofs!SpecTypeOK`, `SpecCanonicalIntact` | nothing further |
| `BlobStoreRefinement!SpecLinearizable` | nothing further |
| `BlobStoreCallers!SpecAckedReadable` | nothing further (`acked` is filled by coordinated callers only) |
| `BlobStoreCallers!SpecConcurrentPutsSucceed` | coordinated callers, no failing system calls |
| `StoreGcProofs!SpecTypeOK`, `SpecRootsSurvive` | nothing further |
| `StoreGcProofs!SpecPinnedNeverRemoved`, `SpecIndexBacked` | coordinated callers |
| `VideoCommitProofs!SpecTypeOK`, `SpecQueueIntact`, `SpecImmediatesFaithful`, `SpecScreenFaithful`, `SpecPaintsInOrder` | cleared WRAM at the start (`ClearedWram`) |
| `StoreArchiveProofs!SpecTypeOK`, `SpecVerifyAll`, `SpecVerifyReachable` | nothing further |
| `StoreArchiveProofs!SpecArchiveClosed`, `SpecArchiveExact` | no `Repairs` |
| `StoreArchiveProofs!SpecAcceptedExact`, `SpecExtractDelivers` | no `Repairs`, and `Forge` empty |
| `RefinementLoopProofs!SpecTypeOK`, `SpecConvergedFits`, `SpecBudgetsBalance`, `SpecLogExplains`, `SpecKnobsAdvance` | nothing further |
| `PromptShellProofs!SpecTypeOK`, `SpecPromptShown`, `SpecNoAutoRepeat`, `SpecEditsPrompt` | nothing further |

*Blob store.*  `CanonicalIntact` is not inductive: that a rename installs complete bytes depends on
what the temporary file holds.  `IInv` adds the shape of a writer's record (`WriterShape`), that no two
writers hold one name and leaked names have no holder (`TmpOwned`), that a file kept for renaming is
complete and synced unless it is gone (`KeptComplete`), and that both the visible and the flushed
entry of a hash are good (`FilesGood`).  The refinement uses `KeptComplete` for `Rename` and
`FilesGood` for `PowerLoss`; all other steps are stutters or the like-named abstract step.
`SpecAckedReadable` adds that a blob acknowledged, or about to be, is present, and flushed if it is
durable; a power loss strikes from `acked` what is not durable or lies in a shard that the disk does not
know.

*Collector.*  `GInv` says that the keep set contains the roots and is closed under references, apart
from the blobs still queued (`KeepClosed`), and that nothing kept has been removed (`GcShape`).
`Reachable` is the least closed set, so an empty queue puts it inside `keep`.  With coordination the
roots are the current pinsets (`RootsArePins`), no cache call runs beside the collector (`Apart`),
every index is backed by a stored blob or one that this run removed, or is `stale` (`Backed`), and during the sweep the indexes of
removed blobs are among those still to visit (`Swept`).

*UI queue.*  `IInv` relates the handler to the ring: the slot it loaded is the one at HEAD
(`HeadLoaded`), a drain that has started finds a nonempty queue (`IsrShape`), and the slot before TAIL
that the program is filling lies outside the live part and holds the fields written so far
(`SlotFilled`).  Lemmas on `%` (`Wrap`, `SuccIndex`, `PosLive`, `PosTail`, `PosHead`) carry positions
around the ring.  `ScreenFaithful` needs `Progress`: the first `isr.i` bytes of the loaded operation
are on the display or missed.  The refinement of `DisplayQueue` rests on the same two invariants: by `QueueIntact`
the ring is the published queue (`LiveQueue`), by `HeadLoaded` a store goes where the first painting
goes, and by `Progress` HEAD moves on from a complete painting only.

*Archives.*  `AInv` adds to the types what an idle call looks like (`IdleShape`) and that the file
starts with its header (`HeadFirst`), without which the reader's counts would not be numbers.
`CreateInv` says that the collected set holds the roots and is closed under references, apart from
the queue and from blobs damaged since (`hurt`), that measured lengths are true for blobs not hurt, and
that nothing hurt has passed the verifying copy: without repairs a hurt blob cannot pass any more.
`ScanInv` and `WalkInv` say the same of the two checks, whose reports are exact for what has been
looked at.

`ArchiveExact` is proved record by record.  `MakeInv` says what the output looks like in the middle of
the second pass: header and pinsets are those of the collected set, the blobs still to copy are the
larger ones, and the records of the others stand where `At` puts them and end at the end of the file.
A copy that fails its hash ends the call, so that what it left behind is in no file returned with Ok;
with `CreateInv` the collected set is `Reachable` and the lengths are true.  The arithmetic rests on
lemmas about cardinalities (`OneMore`, `SizeMono`, `AtNext`).

For the reader, `FileShape` says what cuts, damage and unfinished writes leave: nothing, or a whole
header, and in the place of each record's hash the hash of that blob or one of no blob, followed by a
length, whatever its value, and by bytes, whatever their values.  The header's count and total stay as
they were written (see above).  `ReadInv` ties the reader's place in the file to its two counters, and
says that an extraction has passed exactly the records that begin before its place, each of them
intact and stored.  A record passes only if its body has the hash in front of it, so the length read
is the true one and the next place is that of the next record; at the end no record is left and no
byte may follow, which fixes the length of the file.

That `Forge` is empty leaves out damage that turns a hash into the hash of another blob, which the
size of SHA-256 makes improbable and the code cannot detect: if the body has changed into that
blob's too, the record is stored as that blob.  The run `archive` admits such hashes; in its instance a
damaged byte belongs to no blob, so that the changed hash does not fit the body.

*Refinement loop.*  `IInv` adds the shape of each control state (`Shape`), that the stages before the
current one have succeeded with the current knobs (`RoundFits`, which makes `ConvergedFits`
inductive), and how the runs of neighbouring stages compare within a round (`RoundRuns`).  `LogExplains`
is inductive with the types: an accepted proposal adds one link to the chain, and no other step touches
the knobs or the accepted records (`AcceptExplains`).  Sums of
budgets are cardinalities of the set of pairs of a stage and a run of it, so that the theorems on
finite sets apply; the first blocked change exists by `WFMin`.

*Shell.*  `ActedDown` says that a button acted upon and not released is still down in the last poll.
`CallShape` says that a call of `enqueue_glyph_cell` is about the slot at the cursor, which holds a typed
character or the blank of a backspace, and `Room` that a full ring was noticed before the copies.  `Cell`
is injective by the uniqueness of quotient and remainder, so that a published operation concerns one slot
(`PublishShows`, `DrainShows`).  The refinement maps the text to the buffer up to the cursor: a character
belongs to the text when the cursor moves past it, so a panic inside the call leaves the text as it was.

Only model-checked: the liveness properties `OrphansReclaimed`, `GarbageCollected`, `Drained`,
`CallsEnd`, `RetryDelivers` and `Returns`, which are outside the prover's reach.  Every
invariant, action property and refinement of a passing run is a theorem.

## Not modelled, and plan

Done so far: the blob store, the collector and stage cache, archives and integrity checks, the UI
queue, the prompt shell, the refinement loop.  What is left with behaviour of its own, in this order:

1. Scheduler and banking: the yield flag between timer handler and compiled code, bank leases and
   their shadow under interrupts.
2. The trace ring: the runtime's producer and the emulator's reader, with overflow.
3. Branch relaxation of gbf-asm against a reference definition.
4. A PPU with cycle counts for the HBlank drain.
5. Arena and overlay allocation of gbf-codegen as bounded algorithm checks.

To prove next: that `PromptShell`, whose drain of one cell is a store and a publication of HEAD in one
step, stands on `DisplayQueue` when the two are separate steps.

The workspace has some 370,000 lines.  By far the most are compiler passes, kernel generators,
schemas, validators, experiment drivers and their tests: deterministic functions from one data
structure to another, with no state that outlives a call and nothing that runs beside them.  A model
of such a pass would be the pass again; its correctness is numeric or structural agreement, which
its own oracles and property tests address.  The models here cover the code in which several
actors, failures or budgets meet.

Left out for good: numeric kernels, training and quantization (floating point and tensors), schemas
and canonical serialization, reports, experiment drivers and command lines: pure functions and I/O with
no interleaving to check.
