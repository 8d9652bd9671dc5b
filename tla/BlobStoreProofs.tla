--------------------------- MODULE BlobStoreProofs ---------------------------
(***************************************************************************)
(* Machine-checked proofs about BlobStore, for any sets of hashes, writers  *)
(* and temporary names and for every setting of Full, Coordinated, Faults.  *)
(***************************************************************************)
EXTENDS BlobStore, TLAPS

\* An idle writer carries no state; a busy one knows its hash; it owns a
\* temporary name exactly while it is between create and rename or drop.
WriterShape ==
    \A w \in Writer :
        /\ At(w, "idle") => writer[w] = IdleWriter
        /\ ~At(w, "idle") => writer[w].h \in Hash
        /\ writer[w].pc \in HoldsTmp <=> writer[w].t \in Tmp

\* No two writers own the same temporary name.
TmpOwned ==
    \A v, w \in Writer : writer[v].t \in Tmp /\ writer[v].t = writer[w].t => v = w

\* A kept temporary file that is still there is complete and fsynced.
KeptPc == {"recheck", "verifyTmp", "drop", "mkdir", "rename"}
KeptComplete ==
    \A w \in Writer :
        writer[w].pc \in KeptPc /\ tmp[writer[w].t] # Absent
            => tmp[writer[w].t] = [bytes |-> writer[w].h, synced |-> TRUE]

\* Canonical files, as seen and as flushed, are fsynced, and intact unless
\* damaged from outside.
GoodFile(h, f) == f # Absent => f.synced /\ (f.bytes = h \/ h \in damaged)
FilesGood == \A h \in Hash : GoodFile(h, canon[h]) /\ GoodFile(h, disk[h])

\* The strengthening of CanonicalIntact that every step preserves.
IInv == TypeOK /\ WriterShape /\ TmpOwned /\ KeptComplete /\ FilesGood

-----------------------------------------------------------------------------

\* An empty store directory satisfies the invariant.
LEMMA InitIInv == Init => IInv
<1> USE ConstantsAssumption
<1> SUFFICES ASSUME Init PROVE IInv
    OBVIOUS
<1>1. TypeOK
    BY DEF Init, TypeOK, FileOrNot, IdleWriter, IdleCleaner, WriterPc, Ack
<1>2. WriterShape
    BY DEF Init, WriterShape, At, IdleWriter, HoldsTmp
<1>3. TmpOwned /\ KeptComplete
    BY DEF Init, TmpOwned, KeptComplete, KeptPc, IdleWriter
<1>4. FilesGood
    BY DEF Init, FilesGood, GoodFile
<1> QED
    BY <1>1, <1>2, <1>3, <1>4 DEF IInv

\* The writers' part of TypeOK, and what the two ways of ending a call do to it.
WriterType == [Writer -> [pc : WriterPc, h : Hash \cup {Absent},
                          t : Tmp \cup {Absent}, ack : Ack]]

\* Letting go of the temporary name with Ok keeps the call record typed.
LEMMA SucceedTyped ==
    ASSUME TypeOK, NEW w \in Writer, NEW a \in Ack, Succeed(w, a)
    PROVE  writer' \in WriterType
BY DEF TypeOK, Succeed, Leave, WriterType, WriterPc, Ack

\* Letting go of the temporary name with Err keeps the call record typed.
LEMMA ErrTyped ==
    ASSUME TypeOK, NEW w \in Writer, Err(w)
    PROVE  writer' \in WriterType
BY DEF TypeOK, Err, Leave, WriterType, WriterPc

\* Every system call, crash, power loss and damage preserves the invariant.
LEMMA NextIInv == IInv /\ [Next]_vars => IInv'
<1> USE ConstantsAssumption
<1> SUFFICES ASSUME IInv, [Next]_vars PROVE IInv'
    OBVIOUS
<1> USE DEF IInv, WriterShape, TmpOwned, KeptComplete, KeptPc, FilesGood, GoodFile, TypeOK, File,
   FileOrNot, BeforeTmp, HoldsTmp, WriterPc, Ack, IdleWriter, IdleCleaner, At, Goto, Leave,
   Succeed, Err, Rewrite, Intact, Forget, Spoil,
        Settle
<1>1. ASSUME NEW w \in Writer, NEW h \in Hash, Put(w, h) PROVE IInv'
  <2>1. TypeOK'
    BY <1>1 DEF Put
  <2>2. WriterShape'
    BY <1>1 DEF Put
  <2>3. TmpOwned'
    BY <1>1 DEF Put
  <2>4. KeptComplete'
    BY <1>1 DEF Put
  <2>5. FilesGood'
    BY <1>1 DEF Put
  <2> QED
    BY <2>1, <2>2, <2>3, <2>4, <2>5 DEF IInv
<1>2. ASSUME NEW w \in Writer, NEW h \in Hash, PutStreaming(w, h) PROVE IInv'
  <2>1. TypeOK'
    BY <1>2 DEF PutStreaming
  <2>2. WriterShape'
    BY <1>2 DEF PutStreaming
  <2>3. TmpOwned'
    BY <1>2 DEF PutStreaming
  <2>4. KeptComplete'
    BY <1>2 DEF PutStreaming
  <2>5. FilesGood'
    BY <1>2 DEF PutStreaming
  <2> QED
    BY <2>1, <2>2, <2>3, <2>4, <2>5 DEF IInv
<1>3. ASSUME NEW w \in Writer, NEW h \in Hash, PutRefused(w, h) PROVE IInv'
  <2>1. TypeOK'
    BY <1>3 DEF PutRefused
  <2>2. WriterShape'
    BY <1>3 DEF PutRefused
  <2>3. TmpOwned'
    BY <1>3 DEF PutRefused
  <2>4. KeptComplete'
    BY <1>3 DEF PutRefused
  <2>5. FilesGood'
    BY <1>3 DEF PutRefused
  <2> QED
    BY <2>1, <2>2, <2>3, <2>4, <2>5 DEF IInv
<1>4. ASSUME NEW w \in Writer, CheckExists(w) PROVE IInv'
    BY <1>4 DEF CheckExists
<1>5. ASSUME NEW w \in Writer, VerifyExisting(w) PROVE IInv'
  <2>1. TypeOK'
    <3>1. writer' \in WriterType
      BY <1>5, SucceedTyped, ErrTyped DEF VerifyExisting, Ack
    <3> QED
      BY <1>5, <3>1 DEF VerifyExisting, WriterType
  <2>2. WriterShape'
    BY <1>5 DEF VerifyExisting
  <2>3. TmpOwned'
    BY <1>5 DEF VerifyExisting
  <2>4. KeptComplete'
    BY <1>5 DEF VerifyExisting
  <2>5. FilesGood'
    BY <1>5 DEF VerifyExisting
  <2> QED
    BY <2>1, <2>2, <2>3, <2>4, <2>5 DEF IInv
<1>6. ASSUME NEW w \in Writer, CreateTmp(w) PROVE IInv'
    BY <1>6 DEF CreateTmp
<1>7. ASSUME NEW w \in Writer, WriteTmp(w) PROVE IInv'
    BY <1>7 DEF WriteTmp
<1>8. ASSUME NEW w \in Writer, SyncTmp(w) PROVE IInv'
  <2>1. TypeOK'
    BY <1>8 DEF SyncTmp
  <2>2. WriterShape'
    BY <1>8 DEF SyncTmp
  <2>3. TmpOwned'
    BY <1>8 DEF SyncTmp
  <2>4. KeptComplete'
    <3> SUFFICES ASSUME NEW v \in Writer, writer'[v].pc \in KeptPc, tmp'[writer'[v].t] # Absent
                 PROVE  tmp'[writer'[v].t] = [bytes |-> writer'[v].h, synced |-> TRUE]
      OBVIOUS
    <3>1. CASE v = w
      BY <1>8, <3>1 DEF SyncTmp
    <3>2. CASE v # w
      BY <1>8, <3>2 DEF SyncTmp
    <3> QED
      BY <3>1, <3>2
  <2>5. FilesGood'
    BY <1>8 DEF SyncTmp
  <2> QED
    BY <2>1, <2>2, <2>3, <2>4, <2>5 DEF IInv
<1>9. ASSUME NEW w \in Writer, CommitTmp(w) PROVE IInv'
    BY <1>9 DEF CommitTmp
<1>10. ASSUME NEW w \in Writer, VerifyBeforeDrop(w) PROVE IInv'
  <2>1. TypeOK'
    BY <1>10 DEF VerifyBeforeDrop
  <2>2. WriterShape'
    BY <1>10 DEF VerifyBeforeDrop
  <2>3. TmpOwned'
    BY <1>10 DEF VerifyBeforeDrop
  <2>4. KeptComplete'
    BY <1>10 DEF VerifyBeforeDrop
  <2>5. FilesGood'
    BY <1>10 DEF VerifyBeforeDrop
  <2> QED
    BY <2>1, <2>2, <2>3, <2>4, <2>5 DEF IInv
<1>11. ASSUME NEW w \in Writer, DropTmp(w) PROVE IInv'
    BY <1>11 DEF DropTmp, RemoveTmp
<1>12. ASSUME NEW w \in Writer, Rename(w) PROVE IInv'
  <2>1. TypeOK'
    BY <1>12 DEF Rename
  <2>2. WriterShape'
    BY <1>12 DEF Rename
  <2>3. TmpOwned'
    BY <1>12 DEF Rename
  <2>4. KeptComplete'
    BY <1>12 DEF Rename
  <2>5. FilesGood'
    <3>1. tmp[writer[w].t] = [bytes |-> writer[w].h, synced |-> TRUE] /\ writer[w].h \in Hash
      BY <1>12 DEF Rename
    <3>2. canon' = [canon EXCEPT ![writer[w].h] = [bytes |-> writer[w].h, synced |-> TRUE]]
      BY <1>12, <3>1 DEF Rename
    <3> QED
      BY <1>12, <3>2 DEF Rename
  <2> QED
    BY <2>1, <2>2, <2>3, <2>4, <2>5 DEF IInv
<1>13. ASSUME NEW w \in Writer, RenameExists(w) PROVE IInv'
  <2>1. TypeOK'
    BY <1>13, SMTT(40) DEF RenameExists
  <2>2. WriterShape'
    BY <1>13 DEF RenameExists
  <2>3. TmpOwned'
    BY <1>13 DEF RenameExists
  <2>4. KeptComplete'
    BY <1>13 DEF RenameExists
  <2>5. FilesGood'
    BY <1>13 DEF RenameExists
  <2> QED
    BY <2>1, <2>2, <2>3, <2>4, <2>5 DEF IInv
<1>14. ASSUME NEW w \in Writer, RenameFails(w) PROVE IInv'
    BY <1>14 DEF RenameFails, RemoveTmp
<1>15. ASSUME NEW w \in Writer, SyncDir(w) PROVE IInv'
  <2>1. TypeOK'
    <3>1. writer' \in WriterType
      BY <1>15, SucceedTyped DEF SyncDir, Ack
    <3> QED
      BY <1>15, <3>1 DEF SyncDir, WriterType
  <2>2. WriterShape'
    BY <1>15 DEF SyncDir
  <2>3. TmpOwned'
    BY <1>15 DEF SyncDir
  <2>4. KeptComplete'
    BY <1>15 DEF SyncDir
  <2>5. FilesGood'
    BY <1>15 DEF SyncDir
  <2> QED
    BY <2>1, <2>2, <2>3, <2>4, <2>5 DEF IInv
<1>16. ASSUME NEW w \in Writer, Return(w) PROVE IInv'
    BY <1>16 DEF Return
<1>17. ASSUME NEW w \in Writer, TmpFails(w) PROVE IInv'
  <2>1. TypeOK'
    <3>1. writer' \in WriterType
      BY <1>17, ErrTyped DEF TmpFails, RemoveTmp, Ack
    <3> QED
      BY <1>17, <3>1 DEF TmpFails, RemoveTmp, WriterType
  <2>2. WriterShape'
    BY <1>17 DEF TmpFails, RemoveTmp
  <2>3. TmpOwned'
    BY <1>17 DEF TmpFails, RemoveTmp
  <2>4. KeptComplete'
    BY <1>17 DEF TmpFails, RemoveTmp
  <2>5. FilesGood'
    BY <1>17 DEF TmpFails, RemoveTmp
  <2> QED
    BY <2>1, <2>2, <2>3, <2>4, <2>5 DEF IInv
<1>18. ASSUME NEW w \in Writer, ShardDirFails(w) PROVE IInv'
    BY <1>18 DEF ShardDirFails
<1>19. ASSUME NEW w \in Writer, SyncDirFails(w) PROVE IInv'
  <2>1. TypeOK'
    <3>1. writer' \in WriterType
      BY <1>19, SucceedTyped DEF SyncDirFails, Ack
    <3> QED
      BY <1>19, <3>1 DEF SyncDirFails, WriterType
  <2>2. WriterShape'
    BY <1>19 DEF SyncDirFails
  <2>3. TmpOwned'
    BY <1>19 DEF SyncDirFails
  <2>4. KeptComplete'
    BY <1>19 DEF SyncDirFails
  <2>5. FilesGood'
    BY <1>19 DEF SyncDirFails
  <2> QED
    BY <2>1, <2>2, <2>3, <2>4, <2>5 DEF IInv
<1>20. ASSUME NEW w \in Writer, Crash(w) PROVE IInv'
    BY <1>20 DEF Crash
<1>21. ASSUME NEW h \in Hash, Remove(h) PROVE IInv'
    BY <1>21 DEF Remove
<1>22. ASSUME NEW h \in Hash, Damage(h) PROVE IInv'
    BY <1>22 DEF Damage
<1>23. ASSUME StartCleanup PROVE IInv'
    BY <1>23 DEF StartCleanup
<1>24. ASSUME EndCleanup PROVE IInv'
    BY <1>24 DEF EndCleanup
<1>25. ASSUME NEW t \in Tmp, CleanupTmp(t) PROVE IInv'
    BY <1>25 DEF CleanupTmp
<1>26. ASSUME NEW t \in Tmp, CleanupSkip(t) PROVE IInv'
    BY <1>26 DEF CleanupSkip
<1>27. ASSUME PowerLoss PROVE IInv'
    BY <1>27 DEF PowerLoss
<1>31. ASSUME NEW w \in Writer, MakeShard(w) PROVE IInv'
  <2>1. TypeOK'
    BY <1>31 DEF MakeShard
  <2>2. WriterShape'
    BY <1>31 DEF MakeShard
  <2>3. TmpOwned'
    BY <1>31 DEF MakeShard
  <2>4. KeptComplete'
    BY <1>31 DEF MakeShard
  <2>5. FilesGood'
    BY <1>31 DEF MakeShard
  <2> QED
    BY <2>1, <2>2, <2>3, <2>4, <2>5 DEF IInv
<1>32. ASSUME NEW s \in Shard, Writeback(s) PROVE IInv'
    BY <1>32 DEF Writeback
<1>28. CASE UNCHANGED vars
    BY <1>28 DEF vars
<1>29. ASSUME NEW w \in Writer, VerifyFails(w) PROVE IInv'
    BY <1>29 DEF VerifyFails
<1>30. ASSUME CleanupFails PROVE IInv'
    BY <1>30 DEF CleanupFails
<1> QED
    BY <1>1, <1>2, <1>3, <1>4, <1>5, <1>6, <1>7, <1>8, <1>9, <1>10, <1>11, <1>12, <1>13, <1>14,
       <1>15, <1>16, <1>17, <1>18, <1>19, <1>20, <1>21, <1>22, <1>23, <1>24, <1>25, <1>26, <1>27,
       <1>28, <1>29, <1>30, <1>31, <1>32 DEF Next, WriterStep

\* The invariant holds in every reachable state of the store.
LEMMA SpecIInv == Spec => []IInv
BY InitIInv, NextIInv, PTL DEF Spec

\* Every variable keeps its type, whatever interleaving of puts, removals,
\* cleanup_tmp, crashes, damage and power losses the store goes through.
THEOREM SpecTypeOK == Spec => []TypeOK
<1>1. IInv => TypeOK
    BY DEF IInv
<1> QED
    BY <1>1, SpecIInv, PTL

\* commit_bytes and commit_tmp never leave a torn or foreign file at a
\* canonical path, for any number of writers, names and hashes, in both
\* durability modes, with or without coordination and failing system calls.
THEOREM SpecCanonicalIntact == Spec => []CanonicalIntact
<1>1. IInv => CanonicalIntact
    BY DEF IInv, FilesGood, GoodFile, CanonicalIntact
<1> QED
    BY <1>1, SpecIInv, PTL

=============================================================================
