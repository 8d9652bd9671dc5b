-------------------------- MODULE BlobStoreRefinement ------------------------
(***************************************************************************)
(* BlobStore implements BlobStoreSpec, for every value of the constants.    *)
(***************************************************************************)
EXTENDS BlobStoreProofs

\* What the mapping shows the abstract specification of the concrete state.
BlobsOf == [h \in Hash |-> Bytes(canon[h])]
DiskOf  == [h \in Hash |-> Bytes(disk[h])]
RootedOf == {h \in Hash : shardDir[ShardOf[h]] = "flushed"}
CallOf  == [w \in Writer |-> [st |-> CallState(writer[w].pc), h |-> writer[w].h]]

\* The empty directory is the empty abstract store.
LEMMA InitMapped == Init => Abstract!SpecInit
BY ConstantsAssumption DEF Init, Abstract!SpecInit, Abstract!NoCall, Bytes, CallState, IdleWriter

\* A writer that moves to pc shows the abstract state of pc, and the same hash.
LEMMA CallMoved ==
    ASSUME TypeOK, NEW w \in Writer, NEW pc, NEW a, Goto(w, pc) \/ Leave(w, pc, a)
    PROVE  CallOf' = [CallOf EXCEPT ![w].st = CallState(pc)]
<1>2. \A v \in Writer : writer'[v].h = writer[v].h
    BY DEF TypeOK, Goto, Leave
<1>3. \A v \in Writer : writer'[v].pc = IF v = w THEN pc ELSE writer[v].pc
    BY DEF TypeOK, Goto, Leave
<1>4. CallOf' = [v \in Writer |-> [st |-> CallState(IF v = w THEN pc ELSE writer[v].pc),
                                   h |-> writer[v].h]]
    BY <1>2, <1>3 DEF CallOf
<1> QED
    BY <1>4 DEF CallOf

\* A call that is about to return Err is a failed call of the abstract store.
LEMMA CallFailed ==
    ASSUME TypeOK, NEW w \in Writer, Err(w)
    PROVE  CallOf' = [CallOf EXCEPT ![w].st = "failed"]
<1>1. CallState("err") = "failed"
    BY DEF CallState
<1>2. Leave(w, "err", writer[w].ack)
    BY DEF Err
<1> QED
    BY <1>1, <1>2, CallMoved

\* Every step is a step of the abstract store, or changes nothing it shows.
LEMMA StepMapped == IInv /\ [Next]_vars => [Abstract!SpecNext]_(Abstract!specVars)
<1> USE ConstantsAssumption
<1> SUFFICES ASSUME IInv, [Next]_vars
             PROVE  [Abstract!SpecNext]_(Abstract!specVars)
    OBVIOUS
<1> USE DEF IInv, TypeOK, WriterShape, WriterPc, BeforeTmp, HoldsTmp, IdleWriter, File, FileOrNot,
   At, Goto, Leave, Succeed, Err, Intact, Bytes, CallState, Abstract!NoCall, Abstract!specVars
<1>1. ASSUME NEW w \in Writer, NEW h \in Hash, Put(w, h) PROVE Abstract!Invoke(w, h)
  <2>1. CallOf[w] = Abstract!NoCall
    BY <1>1 DEF Put, CallOf
  <2>2. CallOf' = [CallOf EXCEPT ![w] = [st |-> "pending", h |-> h]]
    BY <1>1 DEF Put, CallOf
  <2> QED
    BY <1>1, <2>1, <2>2 DEF Put, CallOf, Abstract!Invoke
<1>2. ASSUME NEW w \in Writer, NEW h \in Hash, PutStreaming(w, h) PROVE Abstract!Invoke(w, h)
  <2>1. CallOf[w] = Abstract!NoCall
    BY <1>2 DEF PutStreaming, CallOf
  <2>2. CallOf' = [CallOf EXCEPT ![w] = [st |-> "pending", h |-> h]]
    BY <1>2 DEF PutStreaming, CallOf
  <2> QED
    BY <1>2, <2>1, <2>2 DEF PutStreaming, CallOf, Abstract!Invoke
<1>3. ASSUME NEW w \in Writer, NEW h \in Hash, PutRefused(w, h) PROVE Abstract!Refuse(w, h)
  <2>1. CallOf[w] = Abstract!NoCall
    BY <1>3 DEF PutRefused, CallOf
  <2>2. CallOf' = [CallOf EXCEPT ![w] = [st |-> "failed", h |-> h]]
    BY <1>3 DEF PutRefused, CallOf
  <2> QED
    BY <1>3, <2>1, <2>2 DEF PutRefused, CallOf, Abstract!Refuse
<1>4. ASSUME NEW w \in Writer, CheckExists(w) PROVE UNCHANGED Abstract!specVars
    BY <1>4 DEF CheckExists
<1>5. ASSUME NEW w \in Writer, VerifyExisting(w) PROVE Abstract!Apply(w) \/ Abstract!Fail(w)
  <2>1. CallOf[w].st = "pending" /\ CallOf[w].h = writer[w].h /\ writer[w].h \in Hash
    BY <1>5 DEF VerifyExisting, CallOf
  <2>2. CASE Intact(writer[w].h)
    <3>1. CallOf' = [CallOf EXCEPT ![w].st = "applied"]
      BY <1>5, <2>2, CallMoved DEF VerifyExisting
    <3>2. BlobsOf' = [BlobsOf EXCEPT ![writer[w].h] = writer[w].h]
      BY <1>5, <2>1, <2>2 DEF VerifyExisting, BlobsOf
    <3> QED
      BY <1>5, <2>1, <3>1, <3>2 DEF VerifyExisting, CallOf, BlobsOf, Abstract!Apply
  <2>3. CASE ~Intact(writer[w].h)
    <3>1. CallOf' = [CallOf EXCEPT ![w].st = "failed"]
      BY <1>5, <2>3, CallFailed DEF VerifyExisting
    <3> QED
      BY <1>5, <2>1, <3>1 DEF VerifyExisting, CallOf, Abstract!Fail
  <2> QED
    BY <2>2, <2>3
<1>6. ASSUME NEW w \in Writer, CreateTmp(w) PROVE UNCHANGED Abstract!specVars
    BY <1>6 DEF CreateTmp
<1>7. ASSUME NEW w \in Writer, WriteTmp(w) PROVE UNCHANGED Abstract!specVars
    BY <1>7 DEF WriteTmp
<1>8. ASSUME NEW w \in Writer, SyncTmp(w) PROVE UNCHANGED Abstract!specVars
    BY <1>8 DEF SyncTmp
<1>9. ASSUME NEW w \in Writer, CommitTmp(w) PROVE UNCHANGED Abstract!specVars
    BY <1>9 DEF CommitTmp
<1>10. ASSUME NEW w \in Writer, VerifyBeforeDrop(w) PROVE Abstract!Apply(w) \/ Abstract!Fail(w)
  <2>1. CallOf[w].st = "pending" /\ CallOf[w].h = writer[w].h /\ writer[w].h \in Hash
    BY <1>10 DEF VerifyBeforeDrop, CallOf
  <2>2. CASE Intact(writer[w].h)
    <3>1. CallOf' = [CallOf EXCEPT ![w].st = "applied"]
      BY <1>10, <2>2, CallMoved DEF VerifyBeforeDrop
    <3>2. BlobsOf' = [BlobsOf EXCEPT ![writer[w].h] = writer[w].h]
      BY <1>10, <2>1, <2>2 DEF VerifyBeforeDrop, BlobsOf
    <3> QED
      BY <1>10, <2>1, <3>1, <3>2 DEF VerifyBeforeDrop, CallOf, BlobsOf, Abstract!Apply
  <2>3. CASE ~Intact(writer[w].h)
    <3>1. CallOf' = [CallOf EXCEPT ![w].st = "failed"]
      BY <1>10, <2>3, CallFailed DEF VerifyBeforeDrop
    <3> QED
      BY <1>10, <2>1, <3>1 DEF VerifyBeforeDrop, CallOf, Abstract!Fail
  <2> QED
    BY <2>2, <2>3
<1>11. ASSUME NEW w \in Writer, DropTmp(w) PROVE UNCHANGED Abstract!specVars
    BY <1>11 DEF DropTmp, RemoveTmp
<1>12. ASSUME NEW w \in Writer, Rename(w) PROVE Abstract!Apply(w)
  <2>1. CallOf[w].st = "pending" /\ CallOf[w].h = writer[w].h /\ writer[w].h \in Hash
    BY <1>12 DEF Rename, CallOf
  <2>2. CallOf' = [CallOf EXCEPT ![w].st = "applied"]
    BY <1>12, CallMoved DEF Rename
  <2>3. tmp[writer[w].t] = [bytes |-> writer[w].h, synced |-> TRUE]
    BY <1>12 DEF Rename, KeptComplete, KeptPc
  <2>4. BlobsOf' = [BlobsOf EXCEPT ![writer[w].h] = writer[w].h]
    <3>1. Bytes(tmp[writer[w].t]) = writer[w].h
      BY <1>12, <2>3 DEF Rename
    <3> QED
      BY <1>12, <2>1, <3>1 DEF Rename, BlobsOf
  <2> QED
    BY <1>12, <2>1, <2>2, <2>4 DEF Rename, CallOf, BlobsOf, Abstract!Apply
<1>13. ASSUME NEW w \in Writer, RenameExists(w) PROVE UNCHANGED Abstract!specVars
    BY <1>13 DEF RenameExists
<1>14. ASSUME NEW w \in Writer, RenameFails(w) PROVE Abstract!Fail(w)
    BY <1>14 DEF RenameFails, RemoveTmp, Abstract!Fail
<1>15. ASSUME NEW w \in Writer, SyncDir(w) PROVE Abstract!Persist(w)
  <2>1. CallOf[w].st = "applied" /\ CallOf[w].h = writer[w].h /\ writer[w].h \in Hash
    BY <1>15 DEF SyncDir, CallOf
  <2>2. CallOf' = CallOf /\ BlobsOf' = BlobsOf
    BY <1>15 DEF SyncDir, CallOf, BlobsOf
  <2>3. DiskOf' = [DiskOf EXCEPT ![writer[w].h] = BlobsOf[writer[w].h]]
    BY <1>15, <2>1 DEF SyncDir, DiskOf, BlobsOf
  <2> QED
    BY <1>15, <2>1, <2>2, <2>3 DEF SyncDir, CallOf, BlobsOf, DiskOf, Abstract!Persist
<1>16. ASSUME NEW w \in Writer, Return(w) PROVE Abstract!Finish(w)
    BY <1>16, ZenonT(40) DEF Return, Abstract!Finish
<1>17. ASSUME NEW w \in Writer, TmpFails(w) PROVE Abstract!Fail(w)
    BY <1>17 DEF TmpFails, RemoveTmp, Abstract!Fail
<1>18. ASSUME NEW w \in Writer, ShardDirFails(w) PROVE Abstract!Fail(w)
    BY <1>18 DEF ShardDirFails, Abstract!Fail
<1>19. ASSUME NEW w \in Writer, SyncDirFails(w) PROVE UNCHANGED Abstract!specVars
    BY <1>19 DEF SyncDirFails
<1>20. ASSUME NEW w \in Writer, Crash(w) PROVE Abstract!Finish(w)
    BY <1>20 DEF Crash, Abstract!Finish
<1>21. ASSUME NEW h \in Hash, Remove(h) PROVE Abstract!Discard(h)
    BY <1>21 DEF Remove, Abstract!Discard
<1>22. ASSUME NEW h \in Hash, Damage(h) PROVE Abstract!Corrupt(h)
  <2>1. BlobsOf[h] # Absent
    BY <1>22 DEF Damage, BlobsOf
  <2>2. \A f \in FileOrNot : Bytes(Spoil(f)) = IF Bytes(f) = Absent THEN Absent ELSE Bad
    BY DEF Spoil
  <2>3. BlobsOf' = [BlobsOf EXCEPT ![h] = Bad]
    BY <1>22, <2>1, <2>2 DEF Damage, BlobsOf
  <2>4. DiskOf' = [DiskOf EXCEPT ![h] = IF @ = Absent THEN Absent ELSE Bad]
    BY <1>22, <2>2 DEF Damage, DiskOf
  <2> QED
    BY <1>22, <2>1, <2>3, <2>4 DEF Damage, BlobsOf, DiskOf, Abstract!Corrupt
<1>23. ASSUME StartCleanup PROVE UNCHANGED Abstract!specVars
    BY <1>23 DEF StartCleanup
<1>24. ASSUME EndCleanup PROVE UNCHANGED Abstract!specVars
    BY <1>24 DEF EndCleanup
<1>25. ASSUME NEW t \in Tmp, CleanupTmp(t) PROVE UNCHANGED Abstract!specVars
    BY <1>25 DEF CleanupTmp
<1>26. ASSUME NEW t \in Tmp, CleanupSkip(t) PROVE UNCHANGED Abstract!specVars
    BY <1>26 DEF CleanupSkip
<1>27. ASSUME PowerLoss PROVE Abstract!Reboot
  <2>1. PICK S \in SUBSET Hash, G \in SUBSET {s \in Shard : shardDir[s] = "made"} :
           /\ canon' = [h \in Hash |-> IF ShardOf[h] \in G THEN Absent
                                       ELSE Settle(IF h \in S THEN disk[h] ELSE canon[h])]
           /\ shardDir' = [s \in Shard |-> IF s \in G \/ shardDir[s] = "absent"
                                             THEN "absent" ELSE "flushed"]
    BY <1>27 DEF PowerLoss
  <2> DEFINE L == {h \in Hash : ShardOf[h] \in G}
  <2>2. \A h \in Hash : Settle(canon[h]) = canon[h] /\ Settle(disk[h]) = disk[h]
    BY DEF FilesGood, GoodFile, Settle
  <2>3. BlobsOf' = [h \in Hash |-> IF h \in L THEN Absent
                                  ELSE IF h \in S THEN DiskOf[h] ELSE BlobsOf[h]]
    BY <2>1, <2>2 DEF BlobsOf, DiskOf
  <2>6. L \in SUBSET (Hash \ RootedOf)
    BY <2>1 DEF RootedOf
  <2>7. RootedOf \subseteq RootedOf' /\ RootedOf' \subseteq Hash
    BY <2>1 DEF RootedOf
  <2>4. DiskOf' = BlobsOf'
    BY <1>27 DEF PowerLoss, BlobsOf, DiskOf
  <2>5. CallOf' = [w \in Writer |-> Abstract!NoCall]
    BY <1>27 DEF PowerLoss, CallOf
  <2> QED
    <3>1. \E K \in SUBSET Hash, M \in SUBSET (Hash \ RootedOf) :
             BlobsOf' = [h \in Hash |-> IF h \in M THEN Absent
                                       ELSE IF h \in K THEN DiskOf[h] ELSE BlobsOf[h]]
      <4> HIDE DEF L
      <4> QED
        BY <2>3, <2>6
    <3>2. UNCHANGED damaged
      BY <1>27 DEF PowerLoss
    <3> QED
      BY <2>4, <2>5, <2>7, <3>1, <3>2 DEF BlobsOf, DiskOf, CallOf, RootedOf, Abstract!Reboot
<1>31. ASSUME NEW w \in Writer, MakeShard(w) PROVE UNCHANGED Abstract!specVars
    BY <1>31 DEF MakeShard
<1>32. ASSUME NEW s \in Shard, Writeback(s) PROVE Abstract!Root
    BY <1>32 DEF Writeback, Abstract!Root
<1>28. CASE UNCHANGED vars
    BY <1>28 DEF vars
<1>29. ASSUME NEW w \in Writer, VerifyFails(w) PROVE Abstract!Fail(w)
    BY <1>29 DEF VerifyFails, Abstract!Fail
<1>30. ASSUME CleanupFails PROVE UNCHANGED Abstract!specVars
    BY <1>30 DEF CleanupFails
<1> QED
    BY <1>1, <1>2, <1>3, <1>4, <1>5, <1>6, <1>7, <1>8, <1>9, <1>10, <1>11, <1>12, <1>13, <1>14,
       <1>15, <1>16, <1>17, <1>18, <1>19, <1>20, <1>21, <1>22, <1>23, <1>24, <1>25, <1>26, <1>27,
       <1>28, <1>29, <1>30, <1>31, <1>32 DEF Next, WriterStep, Abstract!SpecNext

\* The write protocol of blob.rs (put, put_streaming, commit_bytes, commit_tmp,
\* remove, cleanup_tmp, and every crash in between) implements the store that
\* BlobStoreSpec promises: each put takes effect at one instant or not at all.
THEOREM SpecLinearizable == Spec => Linearizable
BY InitMapped, StepMapped, SpecIInv, PTL DEF Spec, Linearizable, Abstract!StoreSpec
=============================================================================
