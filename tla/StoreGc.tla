------------------------------- MODULE StoreGc -------------------------------
(***************************************************************************)
(* Garbage collection and the stage cache of gbf-store, over one store      *)
(* (src/gbf-store/src/gc.rs and stage_cache.rs): run_gc marks what the      *)
(* pinsets reach, removes other blobs one by one and sweeps the cache's     *)
(* index files, while compiler stages look payloads up and store new ones.  *)
(*                                                                         *)
(* The store is the one of BlobStoreSpec: a put takes effect at one         *)
(* instant (BlobStoreRefinement proves that it does).  The bytes of a blob  *)
(* are its hash; a damaged blob holds other bytes.  Hashes are numbers so   *)
(* that they have the order in which run_gc removes them.  The machine     *)
(* stays up: an index file is a weak reference that the code never syncs,   *)
(* and what a power loss does to the blobs is BlobStore's subject.          *)
(***************************************************************************)
EXTENDS Integers, FiniteSets

CONSTANTS
    Hash,         \* a finite set of hashes, as numbers
    Children,     \* Children[h]: what the bytes of h refer to
    Opaque,       \* the hashes whose bytes no registered reader recognizes
    Key,          \* stage-cache keys (the result of compose_key)
    Proc,         \* threads that use the stage cache
    None,         \* no hash, no index file, a cache miss
    MaxRemove,    \* max_remove_per_run
    Coordinated   \* BOOLEAN: no put and no pin while run_gc runs

ASSUME ConstantsAssumption ==
    /\ Hash \subseteq Nat /\ IsFiniteSet(Hash)
    /\ Children \in [Hash -> SUBSET Hash]
    /\ Opaque \subseteq Hash
    /\ None \notin Hash \cup Key /\ Key \cap Proc = {}
    /\ MaxRemove \in Nat
    /\ Coordinated \in BOOLEAN

VARIABLES
    blobs,    \* the hashes present in the store
    damaged,  \* those whose file no longer holds their bytes
    pins,     \* the roots of all pinsets
    index,    \* index[k]: the payload hash in the index file of key k
    proc,     \* proc[p]: the stage-cache call of p
    gc,       \* the run_gc call in progress
    stale     \* history: keys whose index file a run_gc left behind when it
              \* removed the payload (it did not get to sweep, or to read it)

vars == <<blobs, damaged, pins, index, proc, gc, stale>>

ProcPc == {"idle", "put", "index", "rename", "unlink", "again", "load", "hit", "miss"}
IdleProc == [pc |-> "idle", k |-> None, h |-> None, tmp |-> FALSE]
IdleGc ==
    [pc |-> "idle", dry |-> FALSE, sweep |-> FALSE, leaf |-> FALSE, roots |-> {},
     keep |-> {}, queue |-> {}, cand |-> {}, left |-> 0, removed |-> {},
     todo |-> {}, at |-> None]

ProcType == [pc : ProcPc, k : Key \cup {None}, h : Hash \cup {None}, tmp : BOOLEAN]
GcType ==
    [pc : {"idle", "mark", "remove", "sweep"}, dry : BOOLEAN, sweep : BOOLEAN,
     leaf : BOOLEAN, roots : SUBSET Hash, keep : SUBSET Hash, queue : SUBSET Hash,
     cand : SUBSET Hash, left : 0..MaxRemove, removed : SUBSET Hash,
     todo : SUBSET (Key \cup Proc), at : Key \cup {None}]

TypeOK ==
    /\ blobs \subseteq Hash /\ damaged \subseteq blobs /\ pins \subseteq Hash
    /\ index \in [Key -> Hash \cup {None}]
    /\ proc \in [Proc -> ProcType]
    /\ gc \in GcType
    /\ stale \subseteq Key

Init ==
    /\ blobs = {} /\ damaged = {} /\ pins = {} /\ stale = {}
    /\ index = [k \in Key |-> None]
    /\ proc = [p \in Proc |-> IdleProc]
    /\ gc = IdleGc

At(p, pc)   == proc[p].pc = pc
Goto(p, pc) == proc' = [proc EXCEPT ![p].pc = pc]
End(p)      == proc' = [proc EXCEPT ![p] = IdleProc]

\* Callers that coordinate start nothing while run_gc is in progress.
Free == Coordinated => gc.pc = "idle"

-----------------------------------------------------------------------------
(* The consumers: put a blob, edit a pinset. *)

\* Index files of h have their payload back.
StaleWithout(h) == {k \in stale : index[k] # h}

\* put of intact bytes; on a damaged file verify_existing makes it fail.
Store(h) ==
    /\ Free /\ h \notin blobs
    /\ blobs' = blobs \cup {h} /\ stale' = StaleWithout(h)
    /\ UNCHANGED <<damaged, pins, index, proc, gc>>

Pin(h) ==
    /\ Free /\ h \in blobs \ pins
    /\ pins' = pins \cup {h}
    /\ UNCHANGED <<blobs, damaged, index, proc, gc, stale>>

Unpin(h) ==
    /\ Free /\ h \in pins
    /\ pins' = pins \ {h}
    /\ UNCHANGED <<blobs, damaged, index, proc, gc, stale>>

Damage(h) ==
    /\ h \in blobs \ damaged
    /\ damaged' = damaged \cup {h}
    /\ UNCHANGED <<blobs, pins, index, proc, gc, stale>>

-----------------------------------------------------------------------------
(* run_gc.  Any system call may fail and the process may die: either way    *)
(* the call ends where it is, and what it has removed stays removed.        *)

\* The call ends without having swept the indexes of what it removed.
Stop == gc' = IdleGc /\ stale' = stale \cup {k \in Key : index[k] \in gc.removed}

StartGc(dry, sweep, leaf) ==
    /\ gc.pc = "idle"
    /\ Coordinated => \A p \in Proc : At(p, "idle")
    /\ gc' = [pc |-> "mark", dry |-> dry, sweep |-> sweep, leaf |-> leaf, roots |-> pins,
              keep |-> pins, queue |-> pins, cand |-> {}, left |-> MaxRemove,
              removed |-> {}, todo |-> {}, at |-> None]
    /\ UNCHANGED <<blobs, damaged, pins, index, proc, stale>>

\* Children kept, and their own references forgotten.
MutantMarkChildren(h, C) ==
    gc' = [gc EXCEPT !.keep = @ \cup C, !.queue = @ \ {h}]

\* One turn of collect_keep_set's loop: children not yet kept are queued.
MarkChildren(h, C) ==
    gc' = [gc EXCEPT !.keep = @ \cup C, !.queue = (@ \ {h}) \cup (C \ gc.keep)]

\* The order of the queue decides nothing but which error is met first, so
\* it is a set.  get does not re-hash: damaged bytes decode to anything.
Mark(h) ==
    /\ gc.pc = "mark" /\ h \in gc.queue
    /\ h \in blobs
    /\ \/ h \in Opaque \cup damaged /\ gc.leaf /\ MarkChildren(h, {})
       \/ h \notin Opaque \cup damaged /\ MarkChildren(h, Children[h])
       \/ h \in damaged /\ \E C \in SUBSET Hash : MarkChildren(h, C)
    /\ UNCHANGED <<blobs, damaged, pins, index, proc, stale>>

\* A missing blob skipped, as verify_reachable does, instead of ending the run.
MutantMarkFails(h) ==
    /\ gc.pc = "mark" /\ h \in gc.queue
    /\ h \notin blobs \/ h \in damaged \/ (h \in Opaque /\ ~gc.leaf)
    /\ MarkChildren(h, {})
    /\ UNCHANGED <<blobs, damaged, pins, index, proc, stale>>

\* A pinned or referenced blob is missing, or no reader recognizes it (Abort).
MarkFails(h) ==
    /\ gc.pc = "mark" /\ h \in gc.queue
    /\ h \notin blobs \/ h \in damaged \/ (h \in Opaque /\ ~gc.leaf)
    /\ gc' = IdleGc
    /\ UNCHANGED <<blobs, damaged, pins, index, proc, stale>>

ListBlobs ==
    /\ gc.pc = "mark" /\ gc.queue = {}
    /\ gc' = IF gc.dry THEN IdleGc
                       ELSE [gc EXCEPT !.pc = "remove", !.cand = blobs \ gc.keep]
    /\ UNCHANGED <<blobs, damaged, pins, index, proc, stale>>

\* The limit taken for exclusive.
MutantRemoveBlob ==
    /\ gc.pc = "remove" /\ gc.left > 1
    /\ \E h \in gc.cand :
          /\ \A g \in gc.cand : h <= g
          /\ blobs' = blobs \ {h}
          /\ damaged' = damaged \ {h}
          /\ gc' = [gc EXCEPT !.cand = @ \ {h}, !.left = @ - 1, !.removed = @ \cup {h}]
    /\ UNCHANGED <<pins, index, proc, stale>>

\* Candidates go in ascending order until the limit is reached.
RemoveBlob ==
    /\ gc.pc = "remove" /\ gc.left > 0
    /\ \E h \in gc.cand :
          /\ \A g \in gc.cand : h <= g
          /\ blobs' = blobs \ {h}
          /\ damaged' = damaged \ {h}
          /\ gc' = [gc EXCEPT !.cand = @ \ {h}, !.left = @ - 1, !.removed = @ \cup {h}]
    /\ UNCHANGED <<pins, index, proc, stale>>

\* The sweep meets every index file and every temporary one, in any order;
\* one that is not there when its turn comes is one read_dir did not list.
EndRemove ==
    /\ gc.pc = "remove" /\ (gc.cand = {} \/ gc.left = 0)
    /\ IF gc.sweep
         THEN /\ gc' = [gc EXCEPT !.pc = "sweep", !.todo = Key \cup Proc]
              /\ UNCHANGED stale
         ELSE Stop
    /\ UNCHANGED <<blobs, damaged, pins, index, proc>>

\* read_index_hash, and then, in a step of its own, remove_file.
SweepRead(k) ==
    /\ gc.pc = "sweep" /\ gc.at = None /\ k \in gc.todo
    /\ gc' = [gc EXCEPT !.todo = @ \ {k},
                        !.at = IF index[k] \in gc.removed THEN k ELSE None]
    /\ UNCHANGED <<blobs, damaged, pins, index, proc, stale>>

SweepRemove ==
    /\ gc.pc = "sweep" /\ gc.at # None
    /\ index' = [index EXCEPT ![gc.at] = None]
    /\ gc' = [gc EXCEPT !.at = None]
    /\ UNCHANGED <<blobs, damaged, pins, proc, stale>>

\* A temporary index file lies in the same directory and is read like the
\* others; its bytes never change, so reading and removing it is one step.
SweepTmp(p) ==
    /\ gc.pc = "sweep" /\ gc.at = None /\ p \in gc.todo
    /\ gc' = [gc EXCEPT !.todo = @ \ {p}]
    /\ proc' = [proc EXCEPT ![p].tmp = @ /\ proc[p].h \notin gc.removed]
    /\ UNCHANGED <<blobs, damaged, pins, index, stale>>

\* An index file, temporary or not, that cannot be read or parsed is passed
\* over.
SweepSkip(x) ==
    /\ gc.pc = "sweep" /\ gc.at = None /\ x \in gc.todo
    /\ gc' = [gc EXCEPT !.todo = @ \ {x}]
    /\ stale' = stale \cup {k \in Key \cap {x} : index[k] \in gc.removed}
    /\ UNCHANGED <<blobs, damaged, pins, index, proc>>

EndGc ==
    /\ gc.pc = "sweep" /\ gc.at = None /\ gc.todo = {}
    /\ gc' = IdleGc
    /\ UNCHANGED <<blobs, damaged, pins, index, proc, stale>>

GcFails ==
    /\ gc.pc # "idle"
    /\ Stop
    /\ UNCHANGED <<blobs, damaged, pins, index, proc>>

-----------------------------------------------------------------------------
(* StageCache::put: the blob first, then atomic_write_index. *)

CachePut(p, k, h) ==
    /\ At(p, "idle") /\ Free
    /\ proc' = [proc EXCEPT ![p] = [pc |-> "put", k |-> k, h |-> h, tmp |-> FALSE]]
    /\ UNCHANGED <<blobs, damaged, pins, index, gc, stale>>

\* The index written, by a thread that then dies, before the blob.
MutantPutBlob(p) ==
    /\ At(p, "put")
    /\ Goto(p, "index")
    /\ UNCHANGED <<blobs, damaged, pins, index, gc, stale>>

PutBlob(p) ==
    /\ At(p, "put")
    /\ IF proc[p].h \in damaged
         THEN End(p) /\ UNCHANGED <<blobs, stale>>
         ELSE /\ Goto(p, "index")
              /\ blobs' = blobs \cup {proc[p].h} /\ stale' = StaleWithout(proc[p].h)
    /\ UNCHANGED <<damaged, pins, index, gc>>

WriteIndexTmp(p) ==
    /\ At(p, "index")
    /\ proc' = [proc EXCEPT ![p].pc = "rename", ![p].tmp = TRUE]
    /\ UNCHANGED <<blobs, damaged, pins, index, gc, stale>>

\* The key recorded in place of the payload hash.
MutantRenameIndex(p) ==
    /\ At(p, "rename") /\ proc[p].tmp
    /\ index' = [index EXCEPT ![proc[p].k] = proc[p].k]
    /\ End(p)
    /\ UNCHANGED <<blobs, damaged, pins, gc, stale>>

\* rename replaces the index file; on a platform where it does not, the file
\* is removed first, which fails if another put has just removed it.
RenameIndex(p) ==
    /\ At(p, "rename") \/ (At(p, "again") /\ index[proc[p].k] = None)
    /\ proc[p].tmp
    /\ index' = [index EXCEPT ![proc[p].k] = proc[p].h]
    /\ stale' = stale \ {proc[p].k}
    /\ End(p)
    /\ UNCHANGED <<blobs, damaged, pins, gc>>

IndexExists(p) ==
    /\ At(p, "rename") /\ proc[p].tmp /\ index[proc[p].k] # None
    /\ Goto(p, "unlink")
    /\ UNCHANGED <<blobs, damaged, pins, index, gc, stale>>

Unlink(p) ==
    /\ At(p, "unlink")
    /\ IF index[proc[p].k] = None THEN End(p) ELSE Goto(p, "again")
    /\ index' = [index EXCEPT ![proc[p].k] = None]
    /\ UNCHANGED <<blobs, damaged, pins, gc, stale>>

\* The temporary index has been swept away, or the key has been taken again.
RenameIndexFails(p) ==
    /\ \/ (At(p, "rename") \/ At(p, "again")) /\ ~proc[p].tmp
       \/ At(p, "again") /\ index[proc[p].k] # None
    /\ End(p)
    /\ UNCHANGED <<blobs, damaged, pins, index, gc, stale>>

-----------------------------------------------------------------------------
(* StageCache::get: the index first, then the blob. *)

CacheGet(p, k) ==
    /\ At(p, "idle") /\ Free
    /\ proc' = [proc EXCEPT ![p] = [pc |-> IF index[k] = None THEN "miss" ELSE "load",
                                    k |-> k, h |-> index[k], tmp |-> FALSE]]
    /\ UNCHANGED <<blobs, damaged, pins, index, gc, stale>>

LoadBlob(p) ==
    /\ At(p, "load")
    /\ Goto(p, IF proc[p].h \in blobs THEN "hit" ELSE "miss")
    /\ UNCHANGED <<blobs, damaged, pins, index, gc, stale>>

\* The call returns to its caller, or its thread dies on the way.
Return(p) ==
    /\ ~At(p, "idle")
    /\ End(p)
    /\ UNCHANGED <<blobs, damaged, pins, index, gc, stale>>

GcStep ==
    \/ \E h \in Hash : Mark(h) \/ MarkFails(h)
    \/ ListBlobs \/ RemoveBlob \/ EndRemove \/ SweepRemove \/ EndGc
    \/ \E k \in Key : SweepRead(k)
    \/ \E p \in Proc : SweepTmp(p)
    \/ \E x \in Key \cup Proc : SweepSkip(x)

Next ==
    \/ \E h \in Hash : Store(h) \/ Pin(h) \/ Unpin(h) \/ Damage(h)
    \/ \E dry, sweep, leaf \in BOOLEAN : StartGc(dry, sweep, leaf)
    \/ GcStep \/ GcFails
    \/ \E p \in Proc, k \in Key : CacheGet(p, k) \/ \E h \in Hash : CachePut(p, k, h)
    \/ \E p \in Proc : \/ PutBlob(p) \/ WriteIndexTmp(p) \/ RenameIndex(p) \/ IndexExists(p)
                       \/ Unlink(p) \/ RenameIndexFails(p) \/ LoadBlob(p) \/ Return(p)

Spec == Init /\ [][Next]_vars

\* A run_gc in progress takes its next step, consumers run it again and again
\* for good (no dry run), and a stage-cache call ends.
RealGc == \E sweep \in BOOLEAN : StartGc(FALSE, sweep, TRUE)
FairSpec ==
    /\ Spec
    /\ WF_vars(GcStep) /\ WF_vars(RealGc)
    /\ \A p \in Proc : WF_vars(Return(p))

-----------------------------------------------------------------------------
(* Properties. *)

\* What a set of roots reaches, by definition the least set that contains the
\* roots and the references of its members.  Damaged bytes refer to nothing,
\* nor do unrecognized ones under TreatAsLeaf.
Refs(leaf, h) == IF h \in damaged \/ (leaf /\ h \in Opaque) THEN {} ELSE Children[h]
Closed(leaf, C) == \A h \in C : Refs(leaf, h) \subseteq C
Reachable(leaf, R) ==
    {h \in Hash : \A C \in SUBSET Hash : R \subseteq C /\ Closed(leaf, C) => h \in C}

\* Whatever runs beside it and wherever it is cut off, run_gc removes nothing
\* that the pinsets it was given reach; under Abort not even what they reach
\* through a blob it cannot read (gc.rs collect_keep_set, run_gc).
RootsSurvive == gc.removed \cap Reachable(gc.leaf, gc.roots) = {}

\* While callers keep run_gc apart from puts and pinset edits, no step takes
\* away a stored blob that the current pinsets reach.
PinnedNeverRemoved ==
    [][\A h \in Reachable(gc.leaf, pins) \cap blobs : h \in blobs']_vars

\* While the machine stays up and callers keep run_gc apart from their calls,
\* an index file outlives its payload between runs only if the run that removed
\* the payload did not finish a sweep or could not read this very file: put
\* stores the blob before the index, and a sweep misses no index that it can
\* read of what its run removed.
IndexBacked ==
    gc.pc = "idle" => \A k \in Key : index[k] \in blobs \cup {None} \/ k \in stale

\* Once consumers only collect, max_remove_per_run delays but never prevents
\* the removal of garbage, unless a blob the pinsets reach is missing or
\* damaged, which makes every run fail or keep what it should not.
OnlyGc == GcStep \/ RealGc \/ \E p \in Proc : Return(p)
Healthy == Reachable(TRUE, pins) \subseteq blobs \ damaged
GarbageCollected ==
    <>[][OnlyGc]_vars /\ <>[]Healthy => <>[](blobs \subseteq Reachable(TRUE, pins))

\* RFC F-A6: "GC sweeps stale indexes when this option is set": when run_gc
\* returns from its sweep, every index file points to a stored blob, but for
\* those of this run's own blobs that it could not read.
SweepLeavesNoStaleIndex ==
    [][EndGc => \A k \in Key : index[k] \in blobs \cup gc.removed \cup {None}]_vars
=============================================================================
