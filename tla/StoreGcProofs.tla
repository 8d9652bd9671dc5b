---------------------------- MODULE StoreGcProofs ----------------------------
(***************************************************************************)
(* Machine-checked proofs about StoreGc, for any finite set of hashes, any   *)
(* references between them, any keys, threads and removal limit.            *)
(***************************************************************************)
EXTENDS StoreGc, TLAPS

\* What run_gc has marked is stored, and so is what it refers to or still is
\* in the queue; what it removes or means to remove is not marked.
KeepClosed ==
    \A h \in gc.keep \ gc.queue : h \in blobs /\ Refs(gc.leaf, h) \subseteq gc.keep
GcShape ==
    /\ gc.pc = "idle" => gc = IdleGc
    /\ gc.pc = "mark" => gc.cand = {} /\ gc.removed = {}
    /\ gc.pc \in {"remove", "sweep"} => gc.queue = {}
    /\ gc.roots \subseteq gc.keep /\ gc.queue \subseteq gc.keep
    /\ gc.keep \cap (gc.cand \cup gc.removed) = {}

\* A stage-cache call knows its payload hash until it has missed.
ProcShape ==
    \A p \in Proc : proc[p].pc \notin {"idle", "miss"} => proc[p].h \in Hash

GInv == TypeOK /\ ProcShape /\ GcShape /\ KeepClosed

\* Coordinated callers leave the pinsets alone during a run.
RootsArePins == gc.pc # "idle" => gc.roots = pins

-----------------------------------------------------------------------------

\* A store with nothing in it satisfies the collector's invariant.
LEMMA InitGInv == Init => GInv
BY ConstantsAssumption
   DEF Init, GInv, TypeOK, ProcShape, GcShape, KeepClosed, IdleGc, IdleProc, ProcPc, ProcType, GcType

\* The collector's record between two runs.
LEMMA IdleGcTyped == IdleGc \in GcType
BY ConstantsAssumption DEF IdleGc, GcType

\* Marking one blob and queueing its children keeps the record typed.
LEMMA MarkTyped ==
    ASSUME TypeOK, NEW h \in Hash, NEW C \in SUBSET Hash, MarkChildren(h, C)
    PROVE  gc' \in GcType
<1>1. gc.keep \cup C \in SUBSET Hash /\ (gc.queue \ {h}) \cup (C \ gc.keep) \in SUBSET Hash
    BY DEF TypeOK, GcType
<1> QED
    BY <1>1 DEF TypeOK, GcType, MarkChildren

\* So does starting a run from the pins,
LEMMA StartTyped ==
    ASSUME TypeOK, NEW dry \in BOOLEAN, NEW sweep \in BOOLEAN, NEW leaf \in BOOLEAN,
           StartGc(dry, sweep, leaf)
    PROVE  gc' \in GcType
BY ConstantsAssumption DEF TypeOK, GcType, StartGc

\* listing the blobs that are not kept,
LEMMA ListTyped == ASSUME TypeOK, ListBlobs PROVE gc' \in GcType
<1>1. CASE gc.dry
    BY <1>1, IdleGcTyped DEF ListBlobs
<1>2. CASE ~gc.dry
    BY <1>2 DEF ListBlobs, TypeOK, GcType
<1> QED
    BY <1>1, <1>2

\* and removing one of them.
LEMMA RemoveTyped == ASSUME TypeOK, RemoveBlob PROVE gc' \in GcType
<1>1. PICK h \in gc.cand :
        gc' = [gc EXCEPT !.cand = @ \ {h}, !.left = @ - 1, !.removed = @ \cup {h}]
    BY DEF RemoveBlob
<1>2. gc.left - 1 \in 0..MaxRemove
    <2>1. gc.left \in 0..MaxRemove /\ MaxRemove \in Nat
      BY ConstantsAssumption DEF TypeOK, GcType
    <2>2. gc.left > 0
      BY DEF RemoveBlob
    <2> QED
      BY <2>1, <2>2
<1>3. gc.cand \ {h} \in SUBSET Hash /\ gc.removed \cup {h} \in SUBSET Hash
    BY DEF TypeOK, GcType
<1> QED
    BY <1>1, <1>2, <1>3 DEF TypeOK, GcType

\* A cache call that ends, or
LEMMA EndTyped ==
    ASSUME TypeOK, NEW p \in Proc, End(p) PROVE proc' \in [Proc -> ProcType]
BY DEF TypeOK, End, ProcType, IdleProc, ProcPc

\* moves on, keeps its record typed.
LEMMA GotoTyped ==
    ASSUME TypeOK, NEW p \in Proc, NEW pc \in ProcPc, Goto(p, pc)
    PROVE  proc' \in [Proc -> ProcType]
BY DEF TypeOK, Goto, ProcType

\* The cache calls hold the hash that their step needs.
LEMMA NextProcShape ==
    ASSUME TypeOK, ProcShape, [Next]_vars
    PROVE  ProcShape'
<1> USE ConstantsAssumption
<1> USE DEF ProcPc, ProcType, GcType, IdleProc, IdleGc, At, Goto, End, Free, Stop, StaleWithout, MarkChildren,
        TypeOK, ProcShape
<1>1. ASSUME NEW h \in Hash, Store(h) PROVE ProcShape'
    BY <1>1 DEF Store
<1>2. ASSUME NEW h \in Hash, Pin(h) PROVE ProcShape'
    BY <1>2 DEF Pin
<1>3. ASSUME NEW h \in Hash, Unpin(h) PROVE ProcShape'
    BY <1>3 DEF Unpin
<1>4. ASSUME NEW h \in Hash, Damage(h) PROVE ProcShape'
    BY <1>4 DEF Damage
<1>5. ASSUME NEW dry \in BOOLEAN, NEW sweep \in BOOLEAN, NEW leaf \in BOOLEAN,
             StartGc(dry, sweep, leaf)
      PROVE ProcShape'
    BY <1>5 DEF StartGc
<1>6. ASSUME NEW h \in Hash, Mark(h) PROVE ProcShape'
    BY <1>6 DEF Mark
<1>7. ASSUME NEW h \in Hash, MarkFails(h) PROVE ProcShape'
    BY <1>7 DEF MarkFails
<1>8. ASSUME ListBlobs PROVE ProcShape'
    BY <1>8 DEF ListBlobs
<1>9. ASSUME RemoveBlob PROVE ProcShape'
    BY <1>9 DEF RemoveBlob
<1>10. ASSUME EndRemove PROVE ProcShape'
  <2>1. CASE gc.sweep
    <3>1. gc' = [gc EXCEPT !.pc = "sweep", !.todo = Key \cup Proc] /\ stale' = stale
      BY <1>10, <2>1, Zenon DEF EndRemove
    <3> QED
      BY <1>10, <3>1 DEF EndRemove
  <2>2. CASE ~gc.sweep
    BY <1>10, <2>2 DEF EndRemove
  <2> QED
    BY <2>1, <2>2
<1>11. ASSUME NEW k \in Key, SweepRead(k) PROVE ProcShape'
    BY <1>11 DEF SweepRead
<1>12. ASSUME SweepRemove PROVE ProcShape'
    BY <1>12 DEF SweepRemove
<1>13. ASSUME NEW p \in Proc, SweepTmp(p) PROVE ProcShape'
    BY <1>13 DEF SweepTmp
<1>27. ASSUME NEW x \in Key \cup Proc, SweepSkip(x) PROVE ProcShape'
    BY <1>27 DEF SweepSkip
<1>14. ASSUME EndGc PROVE ProcShape'
    BY <1>14 DEF EndGc
<1>15. ASSUME GcFails PROVE ProcShape'
    BY <1>15 DEF GcFails
<1>16. ASSUME NEW p \in Proc, NEW k \in Key, NEW h \in Hash, CachePut(p, k, h) PROVE ProcShape'
    BY <1>16 DEF CachePut
<1>17. ASSUME NEW p \in Proc, NEW k \in Key, CacheGet(p, k) PROVE ProcShape'
    BY <1>17 DEF CacheGet
<1>18. ASSUME NEW p \in Proc, PutBlob(p) PROVE ProcShape'
    BY <1>18 DEF PutBlob
<1>19. ASSUME NEW p \in Proc, WriteIndexTmp(p) PROVE ProcShape'
    BY <1>19 DEF WriteIndexTmp
<1>20. ASSUME NEW p \in Proc, RenameIndex(p) PROVE ProcShape'
    BY <1>20 DEF RenameIndex
<1>21. ASSUME NEW p \in Proc, IndexExists(p) PROVE ProcShape'
    BY <1>21 DEF IndexExists
<1>22. ASSUME NEW p \in Proc, Unlink(p) PROVE ProcShape'
    BY <1>22 DEF Unlink
<1>23. ASSUME NEW p \in Proc, RenameIndexFails(p) PROVE ProcShape'
    BY <1>23 DEF RenameIndexFails
<1>24. ASSUME NEW p \in Proc, LoadBlob(p) PROVE ProcShape'
    BY <1>24 DEF LoadBlob
<1>25. ASSUME NEW p \in Proc, Return(p) PROVE ProcShape'
    BY <1>25 DEF Return
<1>26. CASE UNCHANGED vars
    BY <1>26 DEF vars
<1> QED
    BY <1>1, <1>2, <1>3, <1>4, <1>5, <1>6, <1>7, <1>8, <1>9, <1>10, <1>11, <1>12, <1>13, <1>14,
       <1>15, <1>16, <1>17, <1>18, <1>19, <1>20, <1>21, <1>22, <1>23, <1>24, <1>25,
       <1>26, <1>27 DEF Next, GcStep

\* Every step of the collector and of the cache calls is well typed.
LEMMA NextTypeOK ==
    ASSUME TypeOK, ProcShape, [Next]_vars
    PROVE  TypeOK'
<1> USE ConstantsAssumption
<1> USE DEF ProcPc, ProcType, IdleProc, At, Goto, End, Free, Stop, StaleWithout, TypeOK
<1>1. ASSUME NEW h \in Hash, Store(h) PROVE TypeOK'
    BY <1>1 DEF Store
<1>2. ASSUME NEW h \in Hash, Pin(h) PROVE TypeOK'
    BY <1>2 DEF Pin
<1>3. ASSUME NEW h \in Hash, Unpin(h) PROVE TypeOK'
    BY <1>3 DEF Unpin
<1>4. ASSUME NEW h \in Hash, Damage(h) PROVE TypeOK'
    BY <1>4 DEF Damage
<1>5. ASSUME NEW dry \in BOOLEAN, NEW sweep \in BOOLEAN, NEW leaf \in BOOLEAN,
             StartGc(dry, sweep, leaf)
      PROVE TypeOK'
  <2>1. gc' \in GcType
    BY <1>5, StartTyped DEF StartGc
  <2> QED
    BY <1>5, <2>1 DEF StartGc
<1>6. ASSUME NEW h \in Hash, Mark(h) PROVE TypeOK'
  <2>1. gc' \in GcType
    BY <1>6, MarkTyped DEF Mark
  <2> QED
    BY <1>6, <2>1 DEF Mark
<1>7. ASSUME NEW h \in Hash, MarkFails(h) PROVE TypeOK'
    BY <1>7, IdleGcTyped DEF MarkFails
<1>8. ASSUME ListBlobs PROVE TypeOK'
  <2>1. gc' \in GcType
    BY <1>8, ListTyped DEF ListBlobs
  <2> QED
    BY <1>8, <2>1 DEF ListBlobs
<1>9. ASSUME RemoveBlob PROVE TypeOK'
  <2>1. gc' \in GcType
    BY <1>9, RemoveTyped DEF RemoveBlob
  <2> QED
    BY <1>9, <2>1 DEF RemoveBlob
<1>10. ASSUME EndRemove PROVE TypeOK'
  <2>1. CASE gc.sweep
    <3>1. gc' = [gc EXCEPT !.pc = "sweep", !.todo = Key \cup Proc] /\ stale' = stale
      BY <1>10, <2>1, Zenon DEF EndRemove
    <3> QED
      BY <1>10, <3>1 DEF EndRemove, GcType
  <2>2. CASE ~gc.sweep
    BY <1>10, <2>2, IdleGcTyped DEF EndRemove, GcType
  <2> QED
    BY <2>1, <2>2
<1>11. ASSUME NEW k \in Key, SweepRead(k) PROVE TypeOK'
    BY <1>11 DEF SweepRead, GcType
<1>12. ASSUME SweepRemove PROVE TypeOK'
    BY <1>12 DEF SweepRemove, GcType
<1>13. ASSUME NEW p \in Proc, SweepTmp(p) PROVE TypeOK'
  <2>1. gc' \in GcType
    BY <1>13 DEF SweepTmp, GcType
  <2>2. proc' \in [Proc -> ProcType]
    <3> DEFINE t == proc[p].tmp /\ proc[p].h \notin gc.removed
    <3>1. t \in BOOLEAN /\ proc' = [proc EXCEPT ![p].tmp = t]
      BY <1>13, Zenon DEF SweepTmp
    <3> HIDE DEF t
    <3> QED
      BY <3>1 DEF ProcType
  <2> QED
    BY <1>13, <2>1, <2>2 DEF SweepTmp
<1>27. ASSUME NEW x \in Key \cup Proc, SweepSkip(x) PROVE TypeOK'
    BY <1>27 DEF SweepSkip, GcType
<1>14. ASSUME EndGc PROVE TypeOK'
    BY <1>14, IdleGcTyped DEF EndGc
<1>15. ASSUME GcFails PROVE TypeOK'
  <2>1. gc' \in GcType
    BY <1>15, IdleGcTyped DEF GcFails
  <2> QED
    BY <1>15, <2>1 DEF GcFails, GcType
<1>16. ASSUME NEW p \in Proc, NEW k \in Key, NEW h \in Hash, CachePut(p, k, h) PROVE TypeOK'
    BY <1>16 DEF CachePut
<1>17. ASSUME NEW p \in Proc, NEW k \in Key, CacheGet(p, k) PROVE TypeOK'
    BY <1>17 DEF CacheGet
<1>18. ASSUME NEW p \in Proc, PutBlob(p) PROVE TypeOK'
  <2>1. proc' \in [Proc -> ProcType]
    BY <1>18, EndTyped, GotoTyped DEF PutBlob
  <2>2. CASE proc[p].h \in damaged
    BY <1>18, <2>1, <2>2 DEF PutBlob
  <2>3. CASE proc[p].h \notin damaged
    <3>1. proc[p].h \in Hash
      BY <1>18 DEF PutBlob, ProcShape
    <3> QED
      BY <1>18, <2>1, <2>3, <3>1 DEF PutBlob
  <2> QED
    BY <2>2, <2>3
<1>19. ASSUME NEW p \in Proc, WriteIndexTmp(p) PROVE TypeOK'
  <2>1. "rename" \in ProcPc
    OBVIOUS
  <2>2. proc' \in [Proc -> ProcType]
    <3> HIDE DEF ProcPc
    <3> QED
      BY <1>19, <2>1, ZenonT(40) DEF WriteIndexTmp
  <2> QED
    BY <1>19, <2>2 DEF WriteIndexTmp
<1>20. ASSUME NEW p \in Proc, RenameIndex(p) PROVE TypeOK'
    BY <1>20 DEF RenameIndex
<1>21. ASSUME NEW p \in Proc, IndexExists(p) PROVE TypeOK'
    BY <1>21 DEF IndexExists
<1>22. ASSUME NEW p \in Proc, Unlink(p) PROVE TypeOK'
  <2>1. proc' \in [Proc -> ProcType]
    BY <1>22, EndTyped, GotoTyped DEF Unlink
  <2> QED
    BY <1>22, <2>1 DEF Unlink
<1>23. ASSUME NEW p \in Proc, RenameIndexFails(p) PROVE TypeOK'
    BY <1>23 DEF RenameIndexFails
<1>24. ASSUME NEW p \in Proc, LoadBlob(p) PROVE TypeOK'
    BY <1>24 DEF LoadBlob
<1>25. ASSUME NEW p \in Proc, Return(p) PROVE TypeOK'
    BY <1>25 DEF Return
<1>26. CASE UNCHANGED vars
    BY <1>26 DEF vars
<1> QED
    BY <1>1, <1>2, <1>3, <1>4, <1>5, <1>6, <1>7, <1>8, <1>9, <1>10, <1>11, <1>12, <1>13, <1>14,
       <1>15, <1>16, <1>17, <1>18, <1>19, <1>20, <1>21, <1>22, <1>23, <1>24, <1>25,
       <1>26, <1>27 DEF Next, GcStep

\* Roots, mark stack and candidates stay where collect_keep_set and run_gc
\* leave them.
LEMMA NextGcShape ==
    ASSUME TypeOK, GcShape, [Next]_vars
    PROVE  GcShape'
<1> USE ConstantsAssumption
<1> USE DEF ProcPc, ProcType, GcType, IdleProc, IdleGc, At, Goto, End, Free, Stop, StaleWithout, MarkChildren,
   TypeOK, GcShape
<1>1. ASSUME NEW h \in Hash, Store(h) PROVE GcShape'
    BY <1>1 DEF Store
<1>2. ASSUME NEW h \in Hash, Pin(h) PROVE GcShape'
    BY <1>2 DEF Pin
<1>3. ASSUME NEW h \in Hash, Unpin(h) PROVE GcShape'
    BY <1>3 DEF Unpin
<1>4. ASSUME NEW h \in Hash, Damage(h) PROVE GcShape'
    BY <1>4 DEF Damage
<1>5. ASSUME NEW dry \in BOOLEAN, NEW sweep \in BOOLEAN, NEW leaf \in BOOLEAN,
             StartGc(dry, sweep, leaf)
      PROVE GcShape'
    BY <1>5 DEF StartGc
<1>6. ASSUME NEW h \in Hash, Mark(h) PROVE GcShape'
  <2>1. PICK C \in SUBSET Hash : MarkChildren(h, C)
    BY <1>6 DEF Mark
  <2> QED
    BY <1>6, <2>1 DEF Mark
<1>7. ASSUME NEW h \in Hash, MarkFails(h) PROVE GcShape'
    BY <1>7 DEF MarkFails
<1>8. ASSUME ListBlobs PROVE GcShape'
    BY <1>8 DEF ListBlobs
<1>9. ASSUME RemoveBlob PROVE GcShape'
    BY <1>9 DEF RemoveBlob
<1>10. ASSUME EndRemove PROVE GcShape'
  <2>1. CASE gc.sweep
    <3>1. gc' = [gc EXCEPT !.pc = "sweep", !.todo = Key \cup Proc]
      BY <1>10, <2>1, Zenon DEF EndRemove
    <3> QED
      BY <1>10, <3>1 DEF EndRemove
  <2>2. CASE ~gc.sweep
    BY <1>10, <2>2 DEF EndRemove
  <2> QED
    BY <2>1, <2>2
<1>11. ASSUME NEW k \in Key, SweepRead(k) PROVE GcShape'
    BY <1>11 DEF SweepRead
<1>12. ASSUME SweepRemove PROVE GcShape'
    BY <1>12 DEF SweepRemove
<1>13. ASSUME NEW p \in Proc, SweepTmp(p) PROVE GcShape'
    BY <1>13 DEF SweepTmp
<1>27. ASSUME NEW x \in Key \cup Proc, SweepSkip(x) PROVE GcShape'
    BY <1>27 DEF SweepSkip
<1>14. ASSUME EndGc PROVE GcShape'
    BY <1>14 DEF EndGc
<1>15. ASSUME GcFails PROVE GcShape'
    BY <1>15 DEF GcFails
<1>16. ASSUME NEW p \in Proc, NEW k \in Key, NEW h \in Hash, CachePut(p, k, h) PROVE GcShape'
    BY <1>16 DEF CachePut
<1>17. ASSUME NEW p \in Proc, NEW k \in Key, CacheGet(p, k) PROVE GcShape'
    BY <1>17 DEF CacheGet
<1>18. ASSUME NEW p \in Proc, PutBlob(p) PROVE GcShape'
    BY <1>18 DEF PutBlob
<1>19. ASSUME NEW p \in Proc, WriteIndexTmp(p) PROVE GcShape'
    BY <1>19 DEF WriteIndexTmp
<1>20. ASSUME NEW p \in Proc, RenameIndex(p) PROVE GcShape'
    BY <1>20 DEF RenameIndex
<1>21. ASSUME NEW p \in Proc, IndexExists(p) PROVE GcShape'
    BY <1>21 DEF IndexExists
<1>22. ASSUME NEW p \in Proc, Unlink(p) PROVE GcShape'
    BY <1>22 DEF Unlink
<1>23. ASSUME NEW p \in Proc, RenameIndexFails(p) PROVE GcShape'
    BY <1>23 DEF RenameIndexFails
<1>24. ASSUME NEW p \in Proc, LoadBlob(p) PROVE GcShape'
    BY <1>24 DEF LoadBlob
<1>25. ASSUME NEW p \in Proc, Return(p) PROVE GcShape'
    BY <1>25 DEF Return
<1>26. CASE UNCHANGED vars
    BY <1>26 DEF vars
<1> QED
    BY <1>1, <1>2, <1>3, <1>4, <1>5, <1>6, <1>7, <1>8, <1>9, <1>10, <1>11, <1>12, <1>13, <1>14,
       <1>15, <1>16, <1>17, <1>18, <1>19, <1>20, <1>21, <1>22, <1>23, <1>24, <1>25,
       <1>26, <1>27 DEF Next, GcStep

\* What has been marked and is not on the stack has its children marked:
\* the mark loop never forgets one.
LEMMA NextKeepClosed ==
    ASSUME TypeOK, GcShape, KeepClosed, [Next]_vars
    PROVE  KeepClosed'
<1> USE ConstantsAssumption
<1> USE DEF ProcPc, ProcType, GcType, IdleProc, IdleGc, At, Goto, End, Free, Stop, StaleWithout, MarkChildren,
   TypeOK, GcShape, KeepClosed, Refs
<1>1. ASSUME NEW h \in Hash, Store(h) PROVE KeepClosed'
    BY <1>1 DEF Store
<1>2. ASSUME NEW h \in Hash, Pin(h) PROVE KeepClosed'
    BY <1>2 DEF Pin
<1>3. ASSUME NEW h \in Hash, Unpin(h) PROVE KeepClosed'
    BY <1>3 DEF Unpin
<1>4. ASSUME NEW h \in Hash, Damage(h) PROVE KeepClosed'
    BY <1>4 DEF Damage
<1>5. ASSUME NEW dry \in BOOLEAN, NEW sweep \in BOOLEAN, NEW leaf \in BOOLEAN,
             StartGc(dry, sweep, leaf)
      PROVE KeepClosed'
    BY <1>5 DEF StartGc
<1>6. ASSUME NEW h \in Hash, Mark(h) PROVE KeepClosed'
  <2>1. PICK C \in SUBSET Hash : MarkChildren(h, C) /\ Refs(gc.leaf, h) \subseteq C
    <3>1. CASE h \in damaged
      <4>1. Refs(gc.leaf, h) = {}
        BY <3>1
      <4> HIDE DEF Refs, MarkChildren
      <4> QED
        BY <1>6, <3>1, <4>1 DEF Mark
    <3>2. CASE h \notin damaged /\ h \in Opaque
      <4>1. gc.leaf /\ MarkChildren(h, {})
        BY <1>6, <3>2, Zenon DEF Mark
      <4>2. Refs(gc.leaf, h) = {}
        BY <3>2, <4>1
      <4> HIDE DEF Refs, MarkChildren
      <4> QED
        BY <4>1, <4>2
    <3>3. CASE h \notin damaged \cup Opaque
      <4>1. Refs(gc.leaf, h) = Children[h] /\ Children[h] \in SUBSET Hash
        BY <3>3
      <4>2. MarkChildren(h, Children[h])
        BY <1>6, <3>3 DEF Mark
      <4> HIDE DEF Refs, MarkChildren
      <4> QED
        BY <4>1, <4>2
    <3> QED
      BY <3>1, <3>2, <3>3
  <2>2. /\ gc'.leaf = gc.leaf /\ gc'.keep = gc.keep \cup C
        /\ gc'.queue = (gc.queue \ {h}) \cup (C \ gc.keep)
    BY <2>1
  <2>3. h \in blobs /\ UNCHANGED <<blobs, damaged>>
    BY <1>6 DEF Mark
  <2>4. ASSUME NEW g \in gc'.keep \ gc'.queue
        PROVE  g \in blobs /\ Refs(gc.leaf, g) \subseteq gc'.keep
    BY <2>1, <2>2, <2>3, <2>4
  <2> QED
    BY <2>2, <2>3, <2>4
<1>7. ASSUME NEW h \in Hash, MarkFails(h) PROVE KeepClosed'
    BY <1>7 DEF MarkFails
<1>8. ASSUME ListBlobs PROVE KeepClosed'
    BY <1>8 DEF ListBlobs
<1>9. ASSUME RemoveBlob PROVE KeepClosed'
    BY <1>9 DEF RemoveBlob
<1>10. ASSUME EndRemove PROVE KeepClosed'
  <2>1. CASE gc.sweep
    <3>1. gc' = [gc EXCEPT !.pc = "sweep", !.todo = Key \cup Proc]
      BY <1>10, <2>1, Zenon DEF EndRemove
    <3> QED
      BY <1>10, <3>1 DEF EndRemove
  <2>2. CASE ~gc.sweep
    BY <1>10, <2>2 DEF EndRemove
  <2> QED
    BY <2>1, <2>2
<1>11. ASSUME NEW k \in Key, SweepRead(k) PROVE KeepClosed'
    BY <1>11 DEF SweepRead
<1>12. ASSUME SweepRemove PROVE KeepClosed'
    BY <1>12 DEF SweepRemove
<1>13. ASSUME NEW p \in Proc, SweepTmp(p) PROVE KeepClosed'
    BY <1>13 DEF SweepTmp
<1>27. ASSUME NEW x \in Key \cup Proc, SweepSkip(x) PROVE KeepClosed'
    BY <1>27 DEF SweepSkip
<1>14. ASSUME EndGc PROVE KeepClosed'
    BY <1>14 DEF EndGc
<1>15. ASSUME GcFails PROVE KeepClosed'
    BY <1>15 DEF GcFails
<1>16. ASSUME NEW p \in Proc, NEW k \in Key, NEW h \in Hash, CachePut(p, k, h) PROVE KeepClosed'
    BY <1>16 DEF CachePut
<1>17. ASSUME NEW p \in Proc, NEW k \in Key, CacheGet(p, k) PROVE KeepClosed'
    BY <1>17 DEF CacheGet
<1>18. ASSUME NEW p \in Proc, PutBlob(p) PROVE KeepClosed'
    BY <1>18 DEF PutBlob
<1>19. ASSUME NEW p \in Proc, WriteIndexTmp(p) PROVE KeepClosed'
    BY <1>19 DEF WriteIndexTmp
<1>20. ASSUME NEW p \in Proc, RenameIndex(p) PROVE KeepClosed'
    BY <1>20 DEF RenameIndex
<1>21. ASSUME NEW p \in Proc, IndexExists(p) PROVE KeepClosed'
    BY <1>21 DEF IndexExists
<1>22. ASSUME NEW p \in Proc, Unlink(p) PROVE KeepClosed'
    BY <1>22 DEF Unlink
<1>23. ASSUME NEW p \in Proc, RenameIndexFails(p) PROVE KeepClosed'
    BY <1>23 DEF RenameIndexFails
<1>24. ASSUME NEW p \in Proc, LoadBlob(p) PROVE KeepClosed'
    BY <1>24 DEF LoadBlob
<1>25. ASSUME NEW p \in Proc, Return(p) PROVE KeepClosed'
    BY <1>25 DEF Return
<1>26. CASE UNCHANGED vars
    BY <1>26 DEF vars
<1> QED
    BY <1>1, <1>2, <1>3, <1>4, <1>5, <1>6, <1>7, <1>8, <1>9, <1>10, <1>11, <1>12, <1>13, <1>14,
       <1>15, <1>16, <1>17, <1>18, <1>19, <1>20, <1>21, <1>22, <1>23, <1>24, <1>25,
       <1>26, <1>27 DEF Next, GcStep

\* The collector's invariant holds in every reachable state.
LEMMA SpecGInv == Spec => []GInv
<1>1. GInv /\ [Next]_vars => GInv'
    BY NextProcShape, NextTypeOK, NextGcShape, NextKeepClosed DEF GInv
<1> QED
    BY <1>1, InitGInv, PTL DEF Spec

\* The keep set, once the queue is empty, contains everything reachable.
LEMMA ReachableKept ==
    ASSUME GInv, gc.queue = {} PROVE Reachable(gc.leaf, gc.roots) \subseteq gc.keep
<1>1. gc.keep \in SUBSET Hash
    BY DEF GInv, TypeOK, GcType
<1>2. Closed(gc.leaf, gc.keep) /\ gc.roots \subseteq gc.keep
    BY DEF GInv, GcShape, KeepClosed, Closed
<1> QED
    BY <1>1, <1>2 DEF Reachable

\* Type correctness of the collector, the callers and the index beside each
\* other.
THEOREM SpecTypeOK == Spec => []TypeOK
<1>1. GInv => TypeOK
    BY DEF GInv
<1> QED
    BY <1>1, SpecGInv, PTL

\* run_gc never removes a blob its pinsets reach, for any reference graph,
\* removal limit and option, beside any other calls, however it is cut off.
THEOREM SpecRootsSurvive == Spec => []RootsSurvive
<1>1. GInv => RootsSurvive
  <2> SUFFICES ASSUME GInv, gc.removed # {} PROVE RootsSurvive
    BY DEF RootsSurvive
  <2>1. gc.pc \in {"remove", "sweep"} /\ gc.queue = {}
    BY DEF GInv, GcShape, IdleGc, TypeOK, GcType
  <2> QED
    BY <2>1, ReachableKept DEF GInv, GcShape, RootsSurvive
<1> QED
    BY <1>1, SpecGInv, PTL

-----------------------------------------------------------------------------
(* Callers that coordinate. *)

\* While callers keep pinning apart from GC, the roots of a run are the pins.
LEMMA NextRootsArePins ==
    ASSUME Coordinated, TypeOK, RootsArePins, [Next]_vars
    PROVE  RootsArePins'
<1> USE ConstantsAssumption
<1> USE DEF ProcPc, ProcType, GcType, IdleProc, IdleGc, At, Goto, End, Free, Stop, StaleWithout, MarkChildren,
        TypeOK, RootsArePins
<1>1. ASSUME NEW h \in Hash, Store(h) PROVE RootsArePins'
    BY <1>1 DEF Store
<1>2. ASSUME NEW h \in Hash, Pin(h) PROVE RootsArePins'
    BY <1>2 DEF Pin
<1>3. ASSUME NEW h \in Hash, Unpin(h) PROVE RootsArePins'
    BY <1>3 DEF Unpin
<1>4. ASSUME NEW h \in Hash, Damage(h) PROVE RootsArePins'
    BY <1>4 DEF Damage
<1>5. ASSUME NEW dry \in BOOLEAN, NEW sweep \in BOOLEAN, NEW leaf \in BOOLEAN,
             StartGc(dry, sweep, leaf)
      PROVE RootsArePins'
    BY <1>5 DEF StartGc
<1>6. ASSUME NEW h \in Hash, Mark(h) PROVE RootsArePins'
    BY <1>6 DEF Mark
<1>7. ASSUME NEW h \in Hash, MarkFails(h) PROVE RootsArePins'
    BY <1>7 DEF MarkFails
<1>8. ASSUME ListBlobs PROVE RootsArePins'
    BY <1>8 DEF ListBlobs
<1>9. ASSUME RemoveBlob PROVE RootsArePins'
    BY <1>9 DEF RemoveBlob
<1>10. ASSUME EndRemove PROVE RootsArePins'
  <2>1. CASE gc.sweep
    <3>1. gc' = [gc EXCEPT !.pc = "sweep", !.todo = Key \cup Proc] /\ stale' = stale
      BY <1>10, <2>1, Zenon DEF EndRemove
    <3> QED
      BY <1>10, <3>1 DEF EndRemove
  <2>2. CASE ~gc.sweep
    BY <1>10, <2>2 DEF EndRemove
  <2> QED
    BY <2>1, <2>2
<1>11. ASSUME NEW k \in Key, SweepRead(k) PROVE RootsArePins'
    BY <1>11 DEF SweepRead
<1>12. ASSUME SweepRemove PROVE RootsArePins'
    BY <1>12 DEF SweepRemove
<1>13. ASSUME NEW p \in Proc, SweepTmp(p) PROVE RootsArePins'
    BY <1>13 DEF SweepTmp
<1>27. ASSUME NEW x \in Key \cup Proc, SweepSkip(x) PROVE RootsArePins'
    BY <1>27 DEF SweepSkip
<1>14. ASSUME EndGc PROVE RootsArePins'
    BY <1>14 DEF EndGc
<1>15. ASSUME GcFails PROVE RootsArePins'
    BY <1>15 DEF GcFails
<1>16. ASSUME NEW p \in Proc, NEW k \in Key, NEW h \in Hash, CachePut(p, k, h) PROVE RootsArePins'
    BY <1>16 DEF CachePut
<1>17. ASSUME NEW p \in Proc, NEW k \in Key, CacheGet(p, k) PROVE RootsArePins'
    BY <1>17 DEF CacheGet
<1>18. ASSUME NEW p \in Proc, PutBlob(p) PROVE RootsArePins'
    BY <1>18 DEF PutBlob
<1>19. ASSUME NEW p \in Proc, WriteIndexTmp(p) PROVE RootsArePins'
    BY <1>19 DEF WriteIndexTmp
<1>20. ASSUME NEW p \in Proc, RenameIndex(p) PROVE RootsArePins'
    BY <1>20 DEF RenameIndex
<1>21. ASSUME NEW p \in Proc, IndexExists(p) PROVE RootsArePins'
    BY <1>21 DEF IndexExists
<1>22. ASSUME NEW p \in Proc, Unlink(p) PROVE RootsArePins'
    BY <1>22 DEF Unlink
<1>23. ASSUME NEW p \in Proc, RenameIndexFails(p) PROVE RootsArePins'
    BY <1>23 DEF RenameIndexFails
<1>24. ASSUME NEW p \in Proc, LoadBlob(p) PROVE RootsArePins'
    BY <1>24 DEF LoadBlob
<1>25. ASSUME NEW p \in Proc, Return(p) PROVE RootsArePins'
    BY <1>25 DEF Return
<1>26. CASE UNCHANGED vars
    BY <1>26 DEF vars
<1> QED
    BY <1>1, <1>2, <1>3, <1>4, <1>5, <1>6, <1>7, <1>8, <1>9, <1>10, <1>11, <1>12, <1>13, <1>14,
       <1>15, <1>16, <1>17, <1>18, <1>19, <1>20, <1>21, <1>22, <1>23, <1>24, <1>25,
       <1>26, <1>27 DEF Next, GcStep

\* With run_gc kept apart from puts and pinset edits, no step of the system
\* removes a stored blob that the current pinsets reach.
THEOREM SpecPinnedNeverRemoved == Coordinated => (Spec => PinnedNeverRemoved)
<1> SUFFICES ASSUME Coordinated PROVE Spec => PinnedNeverRemoved
    OBVIOUS
<1>1. Init => RootsArePins
    BY DEF Init, RootsArePins, IdleGc
<1>2. GInv /\ RootsArePins /\ [Next]_vars => RootsArePins'
    BY NextRootsArePins DEF GInv
<1>3. GInv /\ RootsArePins /\ [Next]_vars
        => [\A h \in Reachable(gc.leaf, pins) \cap blobs : h \in blobs']_vars
  <2> SUFFICES ASSUME GInv, RootsArePins, [Next]_vars,
                      NEW h \in Reachable(gc.leaf, pins) \cap blobs
               PROVE  h \in blobs'
    OBVIOUS
  <2>1. CASE RemoveBlob
    <3>1. gc.queue = {} /\ gc.pc = "remove"
      BY <2>1 DEF GInv, GcShape, RemoveBlob
    <3>2. h \in gc.keep
      BY <3>1, ReachableKept DEF RootsArePins
    <3> QED
      BY <2>1, <3>2 DEF RemoveBlob, GInv, GcShape
  <2>2. CASE ~RemoveBlob
    BY <2>2 DEF Next, GcStep, vars, Store, Pin, Unpin, Damage, StartGc, Mark, MarkFails,
                ListBlobs, EndRemove, SweepRead, SweepRemove, SweepTmp, SweepSkip, EndGc, GcFails,
                CachePut, CacheGet, PutBlob, WriteIndexTmp, RenameIndex, IndexExists,
                Unlink, RenameIndexFails, LoadBlob, Return
  <2> QED
    BY <2>1, <2>2
<1> QED
    BY <1>1, <1>2, <1>3, SpecGInv, PTL DEF Spec, PinnedNeverRemoved

\* During a run no cache call is in flight and what has been removed stays
\* away; an index of it is yet to be swept, is being swept, or was passed over.
Apart ==
    gc.pc # "idle" => /\ \A p \in Proc : At(p, "idle")
                      /\ gc.removed \cap blobs = {}
Backed ==
    /\ \A p \in Proc : proc[p].pc \in {"index", "rename", "unlink", "again"}
                         => proc[p].h \in blobs
    /\ \A k \in Key : index[k] \in blobs \cup gc.removed \cup {None} \/ k \in stale
Swept ==
    /\ gc.at # None => index[gc.at] \in gc.removed
    /\ gc.pc = "sweep" => \A k \in Key : index[k] \in gc.removed
                           => k \in gc.todo \/ k = gc.at \/ k \in stale

\* While callers keep cache calls apart from GC, none is in flight during a run.
LEMMA NextApart ==
    ASSUME Coordinated, GInv, Apart, [Next]_vars
    PROVE  Apart'
<1> USE ConstantsAssumption
<1> USE DEF ProcPc, ProcType, GcType, IdleProc, IdleGc, At, Goto, End, Free, Stop, StaleWithout, MarkChildren,
        GInv, TypeOK, GcShape, Apart
<1>1. ASSUME NEW h \in Hash, Store(h) PROVE Apart'
    BY <1>1 DEF Store
<1>2. ASSUME NEW h \in Hash, Pin(h) PROVE Apart'
    BY <1>2 DEF Pin
<1>3. ASSUME NEW h \in Hash, Unpin(h) PROVE Apart'
    BY <1>3 DEF Unpin
<1>4. ASSUME NEW h \in Hash, Damage(h) PROVE Apart'
    BY <1>4 DEF Damage
<1>5. ASSUME NEW dry \in BOOLEAN, NEW sweep \in BOOLEAN, NEW leaf \in BOOLEAN,
             StartGc(dry, sweep, leaf)
      PROVE Apart'
    BY <1>5 DEF StartGc
<1>6. ASSUME NEW h \in Hash, Mark(h) PROVE Apart'
    BY <1>6 DEF Mark
<1>7. ASSUME NEW h \in Hash, MarkFails(h) PROVE Apart'
    BY <1>7 DEF MarkFails
<1>8. ASSUME ListBlobs PROVE Apart'
    BY <1>8 DEF ListBlobs
<1>9. ASSUME RemoveBlob PROVE Apart'
    BY <1>9 DEF RemoveBlob
<1>10. ASSUME EndRemove PROVE Apart'
  <2>1. CASE gc.sweep
    <3>1. gc' = [gc EXCEPT !.pc = "sweep", !.todo = Key \cup Proc] /\ stale' = stale
      BY <1>10, <2>1, Zenon DEF EndRemove
    <3> QED
      BY <1>10, <3>1 DEF EndRemove
  <2>2. CASE ~gc.sweep
    BY <1>10, <2>2 DEF EndRemove
  <2> QED
    BY <2>1, <2>2
<1>11. ASSUME NEW k \in Key, SweepRead(k) PROVE Apart'
    BY <1>11 DEF SweepRead
<1>12. ASSUME SweepRemove PROVE Apart'
    BY <1>12 DEF SweepRemove
<1>13. ASSUME NEW p \in Proc, SweepTmp(p) PROVE Apart'
    BY <1>13 DEF SweepTmp
<1>27. ASSUME NEW x \in Key \cup Proc, SweepSkip(x) PROVE Apart'
    BY <1>27 DEF SweepSkip
<1>14. ASSUME EndGc PROVE Apart'
    BY <1>14 DEF EndGc
<1>15. ASSUME GcFails PROVE Apart'
    BY <1>15 DEF GcFails
<1>16. ASSUME NEW p \in Proc, NEW k \in Key, NEW h \in Hash, CachePut(p, k, h) PROVE Apart'
    BY <1>16 DEF CachePut
<1>17. ASSUME NEW p \in Proc, NEW k \in Key, CacheGet(p, k) PROVE Apart'
    BY <1>17 DEF CacheGet
<1>18. ASSUME NEW p \in Proc, PutBlob(p) PROVE Apart'
    BY <1>18 DEF PutBlob
<1>19. ASSUME NEW p \in Proc, WriteIndexTmp(p) PROVE Apart'
    BY <1>19 DEF WriteIndexTmp
<1>20. ASSUME NEW p \in Proc, RenameIndex(p) PROVE Apart'
    BY <1>20 DEF RenameIndex
<1>21. ASSUME NEW p \in Proc, IndexExists(p) PROVE Apart'
    BY <1>21 DEF IndexExists
<1>22. ASSUME NEW p \in Proc, Unlink(p) PROVE Apart'
    BY <1>22 DEF Unlink
<1>23. ASSUME NEW p \in Proc, RenameIndexFails(p) PROVE Apart'
    BY <1>23 DEF RenameIndexFails
<1>24. ASSUME NEW p \in Proc, LoadBlob(p) PROVE Apart'
    BY <1>24 DEF LoadBlob
<1>25. ASSUME NEW p \in Proc, Return(p) PROVE Apart'
    BY <1>25 DEF Return
<1>26. CASE UNCHANGED vars
    BY <1>26 DEF vars
<1> QED
    BY <1>1, <1>2, <1>3, <1>4, <1>5, <1>6, <1>7, <1>8, <1>9, <1>10, <1>11, <1>12, <1>13, <1>14,
       <1>15, <1>16, <1>17, <1>18, <1>19, <1>20, <1>21, <1>22, <1>23, <1>24, <1>25,
       <1>26, <1>27 DEF Next, GcStep

\* A cache entry appears after its blob and disappears with it.
LEMMA NextBacked ==
    ASSUME Coordinated, GInv, Apart, Swept, Backed, [Next]_vars
    PROVE  Backed'
<1> USE ConstantsAssumption
<1> USE DEF ProcPc, ProcType, GcType, IdleProc, IdleGc, At, Goto, End, Free, Stop, StaleWithout, MarkChildren,
        GInv, TypeOK, ProcShape, GcShape, Apart, Backed, Swept
<1>1. ASSUME NEW h \in Hash, Store(h) PROVE Backed'
    BY <1>1 DEF Store
<1>2. ASSUME NEW h \in Hash, Pin(h) PROVE Backed'
    BY <1>2 DEF Pin
<1>3. ASSUME NEW h \in Hash, Unpin(h) PROVE Backed'
    BY <1>3 DEF Unpin
<1>4. ASSUME NEW h \in Hash, Damage(h) PROVE Backed'
    BY <1>4 DEF Damage
<1>5. ASSUME NEW dry \in BOOLEAN, NEW sweep \in BOOLEAN, NEW leaf \in BOOLEAN,
             StartGc(dry, sweep, leaf)
      PROVE Backed'
    BY <1>5 DEF StartGc
<1>6. ASSUME NEW h \in Hash, Mark(h) PROVE Backed'
    BY <1>6 DEF Mark
<1>7. ASSUME NEW h \in Hash, MarkFails(h) PROVE Backed'
    BY <1>7 DEF MarkFails
<1>8. ASSUME ListBlobs PROVE Backed'
    BY <1>8 DEF ListBlobs
<1>9. ASSUME RemoveBlob PROVE Backed'
    BY <1>9 DEF RemoveBlob
<1>10. ASSUME EndRemove PROVE Backed'
  <2>1. CASE gc.sweep
    <3>1. gc' = [gc EXCEPT !.pc = "sweep", !.todo = Key \cup Proc] /\ stale' = stale
      BY <1>10, <2>1, Zenon DEF EndRemove
    <3> QED
      BY <1>10, <3>1 DEF EndRemove
  <2>2. CASE ~gc.sweep
    BY <1>10, <2>2 DEF EndRemove
  <2> QED
    BY <2>1, <2>2
<1>11. ASSUME NEW k \in Key, SweepRead(k) PROVE Backed'
    BY <1>11 DEF SweepRead
<1>12. ASSUME SweepRemove PROVE Backed'
    BY <1>12 DEF SweepRemove
<1>13. ASSUME NEW p \in Proc, SweepTmp(p) PROVE Backed'
    BY <1>13 DEF SweepTmp
<1>27. ASSUME NEW x \in Key \cup Proc, SweepSkip(x) PROVE Backed'
    BY <1>27 DEF SweepSkip
<1>14. ASSUME EndGc PROVE Backed'
    BY <1>14 DEF EndGc
<1>15. ASSUME GcFails PROVE Backed'
    BY <1>15 DEF GcFails
<1>16. ASSUME NEW p \in Proc, NEW k \in Key, NEW h \in Hash, CachePut(p, k, h) PROVE Backed'
    BY <1>16 DEF CachePut
<1>17. ASSUME NEW p \in Proc, NEW k \in Key, CacheGet(p, k) PROVE Backed'
    BY <1>17 DEF CacheGet
<1>18. ASSUME NEW p \in Proc, PutBlob(p) PROVE Backed'
  <2>1. CASE proc[p].h \in damaged
    BY <1>18, <2>1 DEF PutBlob
  <2>2. CASE proc[p].h \notin damaged
    <3>1. /\ Goto(p, "index") /\ UNCHANGED <<index, gc>>
          /\ blobs' = blobs \cup {proc[p].h} /\ stale' = StaleWithout(proc[p].h)
      BY <1>18, <2>2, Zenon DEF PutBlob
    <3>2. \A q \in Proc : proc'[q].pc \in {"index", "rename", "unlink", "again"}
                            => proc'[q].h \in blobs'
      BY <3>1
    <3>3. \A k \in Key : index[k] \in blobs' \cup gc.removed \cup {None} \/ k \in stale'
      BY <3>1
    <3> QED
      BY <3>1, <3>2, <3>3
  <2> QED
    BY <2>1, <2>2
<1>19. ASSUME NEW p \in Proc, WriteIndexTmp(p) PROVE Backed'
    BY <1>19 DEF WriteIndexTmp
<1>20. ASSUME NEW p \in Proc, RenameIndex(p) PROVE Backed'
    BY <1>20 DEF RenameIndex
<1>21. ASSUME NEW p \in Proc, IndexExists(p) PROVE Backed'
    BY <1>21 DEF IndexExists
<1>22. ASSUME NEW p \in Proc, Unlink(p) PROVE Backed'
    BY <1>22 DEF Unlink
<1>23. ASSUME NEW p \in Proc, RenameIndexFails(p) PROVE Backed'
    BY <1>23 DEF RenameIndexFails
<1>24. ASSUME NEW p \in Proc, LoadBlob(p) PROVE Backed'
    BY <1>24 DEF LoadBlob
<1>25. ASSUME NEW p \in Proc, Return(p) PROVE Backed'
    BY <1>25 DEF Return
<1>26. CASE UNCHANGED vars
    BY <1>26 DEF vars
<1> QED
    BY <1>1, <1>2, <1>3, <1>4, <1>5, <1>6, <1>7, <1>8, <1>9, <1>10, <1>11, <1>12, <1>13, <1>14,
       <1>15, <1>16, <1>17, <1>18, <1>19, <1>20, <1>21, <1>22, <1>23, <1>24, <1>25,
       <1>26, <1>27 DEF Next, GcStep

\* The index files that a sweep has read point to blobs of its removed set.
LEMMA NextSwept ==
    ASSUME Coordinated, GInv, Apart, Swept, [Next]_vars
    PROVE  Swept'
<1> USE ConstantsAssumption
<1> USE DEF ProcPc, ProcType, GcType, IdleProc, IdleGc, At, Goto, End, Free, Stop, StaleWithout, MarkChildren,
        GInv, TypeOK, ProcShape, GcShape, Apart, Swept
<1>1. ASSUME NEW h \in Hash, Store(h) PROVE Swept'
    BY <1>1 DEF Store
<1>2. ASSUME NEW h \in Hash, Pin(h) PROVE Swept'
    BY <1>2 DEF Pin
<1>3. ASSUME NEW h \in Hash, Unpin(h) PROVE Swept'
    BY <1>3 DEF Unpin
<1>4. ASSUME NEW h \in Hash, Damage(h) PROVE Swept'
    BY <1>4 DEF Damage
<1>5. ASSUME NEW dry \in BOOLEAN, NEW sweep \in BOOLEAN, NEW leaf \in BOOLEAN,
             StartGc(dry, sweep, leaf)
      PROVE Swept'
    BY <1>5 DEF StartGc
<1>6. ASSUME NEW h \in Hash, Mark(h) PROVE Swept'
    BY <1>6, ZenonT(40) DEF Mark
<1>7. ASSUME NEW h \in Hash, MarkFails(h) PROVE Swept'
    BY <1>7 DEF MarkFails
<1>8. ASSUME ListBlobs PROVE Swept'
    BY <1>8 DEF ListBlobs
<1>9. ASSUME RemoveBlob PROVE Swept'
    BY <1>9 DEF RemoveBlob
<1>10. ASSUME EndRemove PROVE Swept'
  <2>1. CASE gc.sweep
    <3>1. gc' = [gc EXCEPT !.pc = "sweep", !.todo = Key \cup Proc] /\ stale' = stale
      BY <1>10, <2>1, Zenon DEF EndRemove
    <3> QED
      BY <1>10, <3>1 DEF EndRemove
  <2>2. CASE ~gc.sweep
    BY <1>10, <2>2 DEF EndRemove
  <2> QED
    BY <2>1, <2>2
<1>11. ASSUME NEW k \in Key, SweepRead(k) PROVE Swept'
    BY <1>11 DEF SweepRead
<1>12. ASSUME SweepRemove PROVE Swept'
    BY <1>12 DEF SweepRemove
<1>13. ASSUME NEW p \in Proc, SweepTmp(p) PROVE Swept'
    BY <1>13 DEF SweepTmp
<1>27. ASSUME NEW x \in Key \cup Proc, SweepSkip(x) PROVE Swept'
    BY <1>27 DEF SweepSkip
<1>14. ASSUME EndGc PROVE Swept'
    BY <1>14 DEF EndGc
<1>15. ASSUME GcFails PROVE Swept'
    BY <1>15 DEF GcFails
<1>16. ASSUME NEW p \in Proc, NEW k \in Key, NEW h \in Hash, CachePut(p, k, h) PROVE Swept'
    BY <1>16 DEF CachePut
<1>17. ASSUME NEW p \in Proc, NEW k \in Key, CacheGet(p, k) PROVE Swept'
    BY <1>17 DEF CacheGet
<1>18. ASSUME NEW p \in Proc, PutBlob(p) PROVE Swept'
    BY <1>18 DEF PutBlob
<1>19. ASSUME NEW p \in Proc, WriteIndexTmp(p) PROVE Swept'
    BY <1>19 DEF WriteIndexTmp
<1>20. ASSUME NEW p \in Proc, RenameIndex(p) PROVE Swept'
    BY <1>20 DEF RenameIndex
<1>21. ASSUME NEW p \in Proc, IndexExists(p) PROVE Swept'
    BY <1>21 DEF IndexExists
<1>22. ASSUME NEW p \in Proc, Unlink(p) PROVE Swept'
    BY <1>22 DEF Unlink
<1>23. ASSUME NEW p \in Proc, RenameIndexFails(p) PROVE Swept'
    BY <1>23 DEF RenameIndexFails
<1>24. ASSUME NEW p \in Proc, LoadBlob(p) PROVE Swept'
    BY <1>24 DEF LoadBlob
<1>25. ASSUME NEW p \in Proc, Return(p) PROVE Swept'
    BY <1>25 DEF Return
<1>26. CASE UNCHANGED vars
    BY <1>26 DEF vars
<1> QED
    BY <1>1, <1>2, <1>3, <1>4, <1>5, <1>6, <1>7, <1>8, <1>9, <1>10, <1>11, <1>12, <1>13, <1>14,
       <1>15, <1>16, <1>17, <1>18, <1>19, <1>20, <1>21, <1>22, <1>23, <1>24, <1>25,
       <1>26, <1>27 DEF Next, GcStep

\* What coordinated callers add to the collector's invariant.
CInv == Apart /\ Backed /\ Swept

LEMMA SpecCInv == Coordinated => (Spec => []CInv)
<1> SUFFICES ASSUME Coordinated PROVE Spec => []CInv
    OBVIOUS
<1>1. Init => CInv
    BY DEF Init, CInv, Apart, Backed, Swept, IdleGc, IdleProc
<1>2. GInv /\ CInv /\ [Next]_vars => CInv'
    BY NextApart, NextBacked, NextSwept DEF CInv
<1> QED
    BY <1>1, <1>2, SpecGInv, PTL DEF Spec

\* The stage cache's index files under coordinated callers: between runs each
\* points to a stored payload, unless the run that removed the payload did not
\* finish its sweep or could not read that file.
THEOREM SpecIndexBacked == Coordinated => (Spec => []IndexBacked)
<1> SUFFICES ASSUME Coordinated PROVE Spec => []IndexBacked
    OBVIOUS
<1>1. GInv /\ CInv => IndexBacked
    BY DEF GInv, GcShape, IdleGc, CInv, Backed, IndexBacked
<1> QED
    BY <1>1, SpecGInv, SpecCInv, PTL
=============================================================================
