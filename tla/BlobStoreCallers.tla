-------------------------- MODULE BlobStoreCallers ---------------------------
(***************************************************************************)
(* What the callers of a BlobStore may rely on when they keep maintenance   *)
(* (remove, cleanup_tmp) apart from their puts, for every value of the      *)
(* constants.                                                               *)
(***************************************************************************)
EXTENDS BlobStoreProofs

\* Between the step in which a put takes effect and its return, the blob is
\* at its canonical path, and on disk if the put is about to promise that.
EffectStays ==
    Coordinated =>
        \A w \in Writer :
            /\ writer[w].pc \in {"drop", "syncdir", "ok"} => canon[writer[w].h] # Absent
            /\ At(w, "ok") /\ writer[w].ack = "durable" => disk[writer[w].h] # Absent

\* An acknowledged blob is there; a durable one in its directory's copy on the
\* disk as well.
AckedStays ==
    \A a \in acked : /\ canon[a[1]] # Absent
                     /\ a[2] = "durable" => disk[a[1]] # Absent

ReadInv == EffectStays /\ AckedStays

\* No maintenance while a put runs, so nothing a put has seen, created or is
\* about to read goes away under it.
CoordinatedNoFaults == Coordinated /\ ~Faults
CallInv ==
    /\ IF cleaner.pc = "idle" THEN cleaner = IdleCleaner ELSE Quiet
    /\ \A w \in Writer :
          /\ writer[w].pc \in {"verify", "verifyTmp"} => canon[writer[w].h] # Absent
          /\ writer[w].pc \in HoldsTmp => tmp[writer[w].t] # Absent
          /\ At(w, "err") => writer[w].h \in damaged

-----------------------------------------------------------------------------

\* Nothing has been acknowledged yet.
LEMMA InitReadInv == Init => ReadInv
BY DEF Init, ReadInv, EffectStays, AckedStays, At, IdleWriter

\* Acknowledged blobs stay readable: only remove, which forgets the
\* acknowledgement, and damage touch them.
LEMMA NextReadInv == IInv /\ ReadInv /\ [Next]_vars => ReadInv'
<1> USE ConstantsAssumption
<1> SUFFICES ASSUME IInv, ReadInv, [Next]_vars PROVE ReadInv'
    OBVIOUS
<1> USE DEF IInv, TypeOK, WriterShape, TmpOwned, File, FileOrNot, BeforeTmp, HoldsTmp, WriterPc,
   Ack, IdleWriter,
        IdleCleaner, At, Goto, Leave, Succeed, Err, Rewrite, Intact, Forget, Spoil, Settle, Quiet, Free, ReadInv,
        EffectStays, AckedStays
<1>1. ASSUME NEW w \in Writer, NEW h \in Hash, Put(w, h) PROVE ReadInv'
    BY <1>1 DEF Put
<1>2. ASSUME NEW w \in Writer, NEW h \in Hash, PutStreaming(w, h) PROVE ReadInv'
    BY <1>2 DEF PutStreaming
<1>3. ASSUME NEW w \in Writer, NEW h \in Hash, PutRefused(w, h) PROVE ReadInv'
    BY <1>3 DEF PutRefused
<1>4. ASSUME NEW w \in Writer, CheckExists(w) PROVE ReadInv'
    BY <1>4 DEF CheckExists
<1>5. ASSUME NEW w \in Writer, VerifyExisting(w) PROVE ReadInv'
    BY <1>5 DEF VerifyExisting
<1>6. ASSUME NEW w \in Writer, CreateTmp(w) PROVE ReadInv'
    BY <1>6 DEF CreateTmp
<1>7. ASSUME NEW w \in Writer, WriteTmp(w) PROVE ReadInv'
    BY <1>7 DEF WriteTmp
<1>8. ASSUME NEW w \in Writer, SyncTmp(w) PROVE ReadInv'
    BY <1>8 DEF SyncTmp
<1>9. ASSUME NEW w \in Writer, CommitTmp(w) PROVE ReadInv'
    BY <1>9 DEF CommitTmp
<1>10. ASSUME NEW w \in Writer, VerifyBeforeDrop(w) PROVE ReadInv'
    BY <1>10 DEF VerifyBeforeDrop
<1>11. ASSUME NEW w \in Writer, DropTmp(w) PROVE ReadInv'
    BY <1>11 DEF DropTmp, RemoveTmp
<1>12. ASSUME NEW w \in Writer, Rename(w) PROVE ReadInv'
    BY <1>12 DEF Rename
<1>13. ASSUME NEW w \in Writer, RenameExists(w) PROVE ReadInv'
    BY <1>13 DEF RenameExists
<1>14. ASSUME NEW w \in Writer, RenameFails(w) PROVE ReadInv'
    BY <1>14 DEF RenameFails, RemoveTmp
<1>15. ASSUME NEW w \in Writer, SyncDir(w) PROVE ReadInv'
    BY <1>15 DEF SyncDir
<1>16. ASSUME NEW w \in Writer, Return(w) PROVE ReadInv'
    BY <1>16 DEF Return
<1>17. ASSUME NEW w \in Writer, TmpFails(w) PROVE ReadInv'
    BY <1>17 DEF TmpFails, RemoveTmp
<1>18. ASSUME NEW w \in Writer, ShardDirFails(w) PROVE ReadInv'
    BY <1>18 DEF ShardDirFails
<1>19. ASSUME NEW w \in Writer, SyncDirFails(w) PROVE ReadInv'
    BY <1>19 DEF SyncDirFails
<1>20. ASSUME NEW w \in Writer, Crash(w) PROVE ReadInv'
    BY <1>20 DEF Crash
<1>21. ASSUME NEW h \in Hash, Remove(h) PROVE ReadInv'
    BY <1>21 DEF Remove
<1>22. ASSUME NEW h \in Hash, Damage(h) PROVE ReadInv'
    BY <1>22 DEF Damage
<1>23. ASSUME StartCleanup PROVE ReadInv'
    BY <1>23 DEF StartCleanup
<1>24. ASSUME EndCleanup PROVE ReadInv'
    BY <1>24 DEF EndCleanup
<1>25. ASSUME NEW t \in Tmp, CleanupTmp(t) PROVE ReadInv'
    BY <1>25 DEF CleanupTmp
<1>26. ASSUME NEW t \in Tmp, CleanupSkip(t) PROVE ReadInv'
    BY <1>26 DEF CleanupSkip
<1>27. ASSUME PowerLoss PROVE ReadInv'
  <2> [bytes |-> Bad, synced |-> TRUE] \in File
    OBVIOUS
  <2>1. \A f \in FileOrNot : f # Absent => Settle(f) # Absent
    OBVIOUS
  <2>2. \A g \in Hash : /\ canon[g] # Absent /\ disk[g] # Absent
                        /\ shardDir[ShardOf[g]] = "flushed"
                        => canon'[g] # Absent /\ disk'[g] # Absent
    BY <1>27, <2>1 DEF PowerLoss
  <2>3. AckedStays'
    BY <1>27, <2>2 DEF PowerLoss
  <2>4. EffectStays'
    BY <1>27 DEF PowerLoss
  <2> QED
    BY <2>3, <2>4
<1>31. ASSUME NEW w \in Writer, MakeShard(w) PROVE ReadInv'
    BY <1>31 DEF MakeShard
<1>32. ASSUME NEW s \in Shard, Writeback(s) PROVE ReadInv'
    BY <1>32 DEF Writeback
<1>28. CASE UNCHANGED vars
    BY <1>28 DEF vars
<1>29. ASSUME NEW w \in Writer, VerifyFails(w) PROVE ReadInv'
    BY <1>29 DEF VerifyFails
<1>30. ASSUME CleanupFails PROVE ReadInv'
    BY <1>30 DEF CleanupFails
<1> QED
    BY <1>1, <1>2, <1>3, <1>4, <1>5, <1>6, <1>7, <1>8, <1>9, <1>10, <1>11, <1>12, <1>13, <1>14,
       <1>15, <1>16, <1>17, <1>18, <1>19, <1>20, <1>21, <1>22, <1>23, <1>24, <1>25, <1>26, <1>27,
       <1>28, <1>29, <1>30, <1>31, <1>32 DEF Next, WriterStep

\* Read after return, and after a power loss when the put synced the shard
\* directory and that directory's own entry had reached the disk.
THEOREM SpecAckedReadable == Spec => []AckedReadable
<1>1. Spec => []ReadInv
    BY SpecIInv, InitReadInv, NextReadInv, PTL DEF Spec
<1>2. IInv /\ ReadInv => AckedReadable
    BY DEF IInv, TypeOK, FilesGood, GoodFile, ReadInv, AckedStays, AckedReadable
<1> QED
    BY <1>1, <1>2, SpecIInv, PTL

\* No call has failed yet.
LEMMA InitCallInv == Init => CallInv
BY DEF Init, CallInv, At, IdleWriter, IdleCleaner, HoldsTmp

\* Without faults and with maintenance kept apart, no step makes a put fail.
LEMMA NextCallInv == CoordinatedNoFaults /\ IInv /\ CallInv /\ [Next]_vars => CallInv'
<1> USE ConstantsAssumption
<1> SUFFICES ASSUME CoordinatedNoFaults, IInv, CallInv, [Next]_vars PROVE CallInv'
    OBVIOUS
<1> USE DEF IInv, TypeOK, WriterShape, TmpOwned, File, FileOrNot, BeforeTmp, HoldsTmp, WriterPc,
   Ack, IdleWriter,
        IdleCleaner, At, Goto, Leave, Succeed, Err, Rewrite, Intact, Forget, Spoil, Settle, Quiet, Free, CallInv,
        KeptComplete, KeptPc, FilesGood, GoodFile, CoordinatedNoFaults
<1>1. ASSUME NEW w \in Writer, NEW h \in Hash, Put(w, h) PROVE CallInv'
    BY <1>1 DEF Put
<1>2. ASSUME NEW w \in Writer, NEW h \in Hash, PutStreaming(w, h) PROVE CallInv'
    BY <1>2 DEF PutStreaming
<1>3. ASSUME NEW w \in Writer, NEW h \in Hash, PutRefused(w, h) PROVE CallInv'
    BY <1>3 DEF PutRefused
<1>4. ASSUME NEW w \in Writer, CheckExists(w) PROVE CallInv'
    BY <1>4 DEF CheckExists
<1>5. ASSUME NEW w \in Writer, VerifyExisting(w) PROVE CallInv'
    BY <1>5, SMTT(40) DEF VerifyExisting
<1>6. ASSUME NEW w \in Writer, CreateTmp(w) PROVE CallInv'
    BY <1>6 DEF CreateTmp
<1>7. ASSUME NEW w \in Writer, WriteTmp(w) PROVE CallInv'
  <2>1. cleaner = IdleCleaner /\ writer[w].t \in Tmp
    BY <1>7 DEF WriteTmp
  <2>2. \A v \in Writer : writer'[v].pc \in HoldsTmp => tmp'[writer'[v].t] # Absent
    <3>1. [bytes |-> writer[w].h, synced |-> FALSE] \in File
      BY <1>7 DEF WriteTmp
    <3>2. [bytes |-> writer[w].h, synced |-> FALSE] # Absent
      BY <3>1
    <3>3. \A t \in Tmp : tmp[t] # Absent => tmp'[t] # Absent
      BY <1>7, <3>2 DEF WriteTmp
    <3>4. \A v \in Writer : /\ writer'[v].t = writer[v].t
                            /\ writer'[v].pc \in HoldsTmp => writer[v].pc \in HoldsTmp
      BY <1>7 DEF WriteTmp
    <3>5. \A v \in Writer : writer[v].pc \in HoldsTmp
                              => writer[v].t \in Tmp /\ tmp[writer[v].t] # Absent
      OBVIOUS
    <3> QED
      BY <3>3, <3>4, <3>5
  <2> QED
    BY <1>7, <2>1, <2>2 DEF WriteTmp
<1>8. ASSUME NEW w \in Writer, SyncTmp(w) PROVE CallInv'
  <2>1. cleaner = IdleCleaner /\ writer[w].t \in Tmp
    BY <1>8 DEF SyncTmp
  <2>2. \A v \in Writer : writer'[v].pc \in HoldsTmp => tmp'[writer'[v].t] # Absent
    <3>1. [bytes |-> writer[w].h, synced |-> TRUE] \in File
      BY <1>8 DEF SyncTmp
    <3>2. [bytes |-> writer[w].h, synced |-> TRUE] # Absent
      BY <3>1
    <3>3. \A t \in Tmp : tmp[t] # Absent => tmp'[t] # Absent
      BY <1>8, <3>2 DEF SyncTmp
    <3>4. \A v \in Writer : /\ writer'[v].t = writer[v].t
                            /\ writer'[v].pc \in HoldsTmp => writer[v].pc \in HoldsTmp
      BY <1>8 DEF SyncTmp
    <3>5. \A v \in Writer : writer[v].pc \in HoldsTmp
                              => writer[v].t \in Tmp /\ tmp[writer[v].t] # Absent
      OBVIOUS
    <3> QED
      BY <3>3, <3>4, <3>5
  <2> QED
    BY <1>8, <2>1, <2>2 DEF SyncTmp
<1>9. ASSUME NEW w \in Writer, CommitTmp(w) PROVE CallInv'
    BY <1>9 DEF CommitTmp
<1>10. ASSUME NEW w \in Writer, VerifyBeforeDrop(w) PROVE CallInv'
    BY <1>10 DEF VerifyBeforeDrop
<1>11. ASSUME NEW w \in Writer, DropTmp(w) PROVE CallInv'
  <2>1. cleaner = IdleCleaner /\ writer[w].t \in Tmp
    BY <1>11 DEF DropTmp, RemoveTmp
  <2>2. \A v \in Writer : writer'[v].pc \in HoldsTmp => tmp'[writer'[v].t] # Absent
    BY <1>11 DEF DropTmp, RemoveTmp
  <2> QED
    BY <1>11, <2>1, <2>2 DEF DropTmp, RemoveTmp
<1>12. ASSUME NEW w \in Writer, Rename(w) PROVE CallInv'
  <2>1. cleaner = IdleCleaner /\ writer[w].t \in Tmp
    BY <1>12 DEF Rename
  <2>2. \A v \in Writer : writer'[v].pc \in HoldsTmp => tmp'[writer'[v].t] # Absent
    BY <1>12 DEF Rename
  <2> QED
    BY <1>12, <2>1, <2>2 DEF Rename
<1>13. ASSUME NEW w \in Writer, RenameExists(w) PROVE CallInv'
    BY <1>13 DEF RenameExists
<1>14. ASSUME NEW w \in Writer, RenameFails(w) PROVE CallInv'
    BY <1>14 DEF RenameFails, RemoveTmp
<1>15. ASSUME NEW w \in Writer, SyncDir(w) PROVE CallInv'
    BY <1>15 DEF SyncDir
<1>16. ASSUME NEW w \in Writer, Return(w) PROVE CallInv'
    BY <1>16 DEF Return
<1>17. ASSUME NEW w \in Writer, TmpFails(w) PROVE CallInv'
    BY <1>17 DEF TmpFails, RemoveTmp
<1>18. ASSUME NEW w \in Writer, ShardDirFails(w) PROVE CallInv'
    BY <1>18 DEF ShardDirFails
<1>19. ASSUME NEW w \in Writer, SyncDirFails(w) PROVE CallInv'
    BY <1>19 DEF SyncDirFails
<1>20. ASSUME NEW w \in Writer, Crash(w) PROVE CallInv'
    BY <1>20 DEF Crash
<1>21. ASSUME NEW h \in Hash, Remove(h) PROVE CallInv'
    BY <1>21 DEF Remove
<1>22. ASSUME NEW h \in Hash, Damage(h) PROVE CallInv'
    BY <1>22 DEF Damage
<1>23. ASSUME StartCleanup PROVE CallInv'
    BY <1>23 DEF StartCleanup
<1>24. ASSUME EndCleanup PROVE CallInv'
    BY <1>24 DEF EndCleanup
<1>25. ASSUME NEW t \in Tmp, CleanupTmp(t) PROVE CallInv'
    BY <1>25 DEF CleanupTmp
<1>26. ASSUME NEW t \in Tmp, CleanupSkip(t) PROVE CallInv'
    BY <1>26 DEF CleanupSkip
<1>27. ASSUME PowerLoss PROVE CallInv'
    BY <1>27 DEF PowerLoss
<1>31. ASSUME NEW w \in Writer, MakeShard(w) PROVE CallInv'
    BY <1>31 DEF MakeShard
<1>32. ASSUME NEW s \in Shard, Writeback(s) PROVE CallInv'
    BY <1>32 DEF Writeback
<1>28. CASE UNCHANGED vars
    BY <1>28 DEF vars
<1>29. ASSUME NEW w \in Writer, VerifyFails(w) PROVE CallInv'
    BY <1>29 DEF VerifyFails
<1>30. ASSUME CleanupFails PROVE CallInv'
    BY <1>30 DEF CleanupFails
<1> QED
    BY <1>1, <1>2, <1>3, <1>4, <1>5, <1>6, <1>7, <1>8, <1>9, <1>10, <1>11, <1>12, <1>13, <1>14,
       <1>15, <1>16, <1>17, <1>18, <1>19, <1>20, <1>21, <1>22, <1>23, <1>24, <1>25, <1>26, <1>27,
       <1>28, <1>29, <1>30, <1>31, <1>32 DEF Next, WriterStep

LEMMA SpecCallInv == CoordinatedNoFaults => (Spec => []CallInv)
<1> SUFFICES ASSUME CoordinatedNoFaults PROVE Spec => []CallInv
    OBVIOUS
<1>1. IInv /\ CallInv /\ [Next]_vars => CallInv'
    BY NextCallInv
<1> QED
    BY <1>1, SpecIInv, InitCallInv, PTL DEF Spec

\* Puts of the same bytes never make each other fail.
THEOREM SpecConcurrentPutsSucceed == CoordinatedNoFaults => (Spec => []ConcurrentPutsSucceed)
<1>1. CallInv => ConcurrentPutsSucceed
    BY DEF CallInv, ConcurrentPutsSucceed
<1> QED
    BY <1>1, SpecCallInv, PTL
=============================================================================
