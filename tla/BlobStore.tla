------------------------------ MODULE BlobStore ------------------------------
(***************************************************************************)
(* The atomic-write protocol of gbf-store, one action per system call       *)
(* (src/gbf-store/src/blob.rs): several threads or processes put blobs into *)
(* one store directory while other actors remove blobs, clean tmp/, crash,  *)
(* lose power or damage a file.                                             *)
(*                                                                         *)
(*   put / put_expect / put_as      put_streaming                           *)
(*     exists? --yes--> verify        |                                     *)
(*        | no                        |                                     *)
(*        +-------> create -> write -> sync -> recheck -> mkdir -> rename   *)
(*                                                | exists            |     *)
(*                                       verifyTmp -> drop         syncdir  *)
(*                                                                         *)
(* A file is a record of its bytes and whether they have been fsynced; the  *)
(* bytes whose SHA-256 is h are represented by h itself (collision          *)
(* resistance is assumed).  The shard directory a blob lives in is itself   *)
(* an entry of blobs/sha256, which no call of the store ever syncs.         *)
(***************************************************************************)
EXTENDS FiniteSets

CONSTANTS
    Hash,         \* hashes of the byte strings that callers store
    Writer,       \* threads and processes that call put
    Shard,        \* the shard directories blobs/sha256/<ab>
    ShardOf,      \* ShardOf[h]: the one that path_for(h) lies in
    Tmp,          \* names of files under tmp/ (bounds the live and leaked ones)
    Absent,       \* no file, no name
    Bad,          \* bytes that hash to no name they are stored under
    Full,         \* BOOLEAN: DurabilityMode::Full rather than ReadAfterReturn
    Coordinated,  \* BOOLEAN: callers keep remove and cleanup_tmp apart from put
    Faults        \* BOOLEAN: arguments may be refused and system calls may fail

File == [bytes : Hash \cup {Bad}, synced : BOOLEAN]

ASSUME ConstantsAssumption ==
    /\ Absent \notin Hash \cup Tmp \cup {Bad} \cup File
    /\ Bad \notin Hash
    /\ ShardOf \in [Hash -> Shard]
    /\ Full \in BOOLEAN /\ Coordinated \in BOOLEAN /\ Faults \in BOOLEAN

VARIABLES
    canon,    \* canon[h]: the file at blobs/sha256/<ab>/<h>
    disk,     \* disk[h]: its entry in the shard directory, as last flushed
    shardDir, \* shardDir[s]: not there, made, or made and known to the disk
    tmp,      \* tmp[t]: the file tmp/<t>
    writer,   \* writer[w]: the put that w is executing
    cleaner,  \* the cleanup_tmp call in progress
    damaged,  \* history: hashes whose file something outside the store damaged
    acked     \* history: puts of coordinated callers that returned Ok, until
              \* the blob is removed

vars == <<canon, disk, shardDir, tmp, writer, cleaner, damaged, acked>>

FileOrNot == File \cup {Absent}
BeforeTmp == {"exists", "verify", "create"}
HoldsTmp  == {"write", "sync", "recheck", "verifyTmp", "drop", "mkdir", "rename"}
WriterPc  == BeforeTmp \cup HoldsTmp \cup {"idle", "syncdir", "ok", "err"}
Ack       == {"visible", "durable"}

IdleWriter  == [pc |-> "idle", h |-> Absent, t |-> Absent, ack |-> "visible"]
IdleCleaner == [pc |-> "idle", todo |-> {}]

TypeOK ==
    /\ canon \in [Hash -> FileOrNot]
    /\ disk \in [Hash -> FileOrNot]
    /\ shardDir \in [Shard -> {"absent", "made", "flushed"}]
    /\ tmp \in [Tmp -> FileOrNot]
    /\ writer \in [Writer -> [pc : WriterPc, h : Hash \cup {Absent},
                              t : Tmp \cup {Absent}, ack : Ack]]
    /\ cleaner \in [pc : {"idle", "scan", "err"}, todo : SUBSET Tmp]
    /\ damaged \subseteq Hash
    /\ acked \subseteq Hash \X Ack

Init ==
    /\ canon = [h \in Hash |-> Absent]
    /\ disk = [h \in Hash |-> Absent]
    /\ shardDir = [s \in Shard |-> "absent"]
    /\ tmp = [t \in Tmp |-> Absent]
    /\ writer = [w \in Writer |-> IdleWriter]
    /\ cleaner = IdleCleaner
    /\ damaged = {}
    /\ acked = {}

At(w, pc) == writer[w].pc = pc

\* The writer moves on, lets go of its temporary name, or is about to return
\* Ok or Err.
Goto(w, pc)     == writer' = [writer EXCEPT ![w].pc = pc]
Leave(w, pc, a) == writer' = [writer EXCEPT ![w] = [pc |-> pc, h |-> @.h, t |-> Absent, ack |-> a]]
Succeed(w, a)   == Leave(w, "ok", a)
Err(w)          == Leave(w, "err", writer[w].ack)

\* No call is in flight that the maintenance operation would have to wait for.
Quiet == \A w \in Writer : At(w, "idle")
Free  == Coordinated => cleaner.pc = "idle"

-----------------------------------------------------------------------------
(* The calls.  put, put_expect and put_as start by looking at the canonical *)
(* path; put_streaming goes straight to its temporary file.                 *)

Put(w, h) ==
    /\ At(w, "idle") /\ Free
    /\ writer' = [writer EXCEPT ![w] = [IdleWriter EXCEPT !.pc = "exists", !.h = h]]
    /\ UNCHANGED <<canon, disk, shardDir, tmp, cleaner, damaged, acked>>

PutStreaming(w, h) ==
    /\ At(w, "idle") /\ Free
    /\ writer' = [writer EXCEPT ![w] = [IdleWriter EXCEPT !.pc = "create", !.h = h]]
    /\ UNCHANGED <<canon, disk, shardDir, tmp, cleaner, damaged, acked>>

\* put_expect with bytes of another hash, put_as with more than u32::MAX bytes.
PutRefused(w, h) ==
    /\ Faults
    /\ At(w, "idle") /\ Free
    /\ writer' = [writer EXCEPT ![w] = [IdleWriter EXCEPT !.pc = "err", !.h = h]]
    /\ UNCHANGED <<canon, disk, shardDir, tmp, cleaner, damaged, acked>>

CheckExists(w) ==
    /\ At(w, "exists")
    /\ Goto(w, IF canon[writer[w].h] # Absent THEN "verify" ELSE "create")
    /\ UNCHANGED <<canon, disk, shardDir, tmp, cleaner, damaged, acked>>

\* verify_existing opens the canonical file and hashes what it opened: the
\* descriptor keeps the bytes even if the name goes away, so this is one step.
Intact(h) == canon[h] # Absent /\ canon[h].bytes = h

VerifyExisting(w) ==
    /\ At(w, "verify")
    /\ IF Intact(writer[w].h) THEN Succeed(w, "visible") ELSE Err(w)
    /\ UNCHANGED <<canon, disk, shardDir, tmp, cleaner, damaged, acked>>

\* A file that is there cannot be opened or read.
VerifyFails(w) ==
    /\ Faults
    /\ At(w, "verify") \/ At(w, "verifyTmp")
    /\ Err(w)
    /\ UNCHANGED <<canon, disk, shardDir, tmp, cleaner, damaged, acked>>

\* tempfile_in picks a random name: never one that exists or is still in use.
CreateTmp(w) ==
    /\ At(w, "create")
    /\ \E t \in Tmp :
          /\ tmp[t] = Absent
          /\ \A v \in Writer : writer[v].t # t
          /\ tmp' = [tmp EXCEPT ![t] = [bytes |-> Bad, synced |-> FALSE]]
          /\ writer' = [writer EXCEPT ![w].pc = "write", ![w].t = t]
    /\ UNCHANGED <<canon, disk, shardDir, cleaner, damaged, acked>>

\* What a system call on w's open temporary file leaves at its name: nothing
\* if cleanup_tmp has unlinked the name meanwhile.
Rewrite(w, f) == [tmp EXCEPT ![writer[w].t] = IF @ = Absent THEN Absent ELSE f]

WriteTmp(w) ==
    /\ At(w, "write")
    /\ tmp' = Rewrite(w, [bytes |-> writer[w].h, synced |-> FALSE])
    /\ Goto(w, "sync")
    /\ UNCHANGED <<canon, disk, shardDir, cleaner, damaged, acked>>

\* sync_all forgotten before the rename.
MutantSyncTmp(w) ==
    /\ At(w, "sync")
    /\ Goto(w, "recheck")
    /\ UNCHANGED <<canon, disk, shardDir, tmp, cleaner, damaged, acked>>

SyncTmp(w) ==
    /\ At(w, "sync")
    /\ tmp' = Rewrite(w, [bytes |-> writer[w].h, synced |-> TRUE])
    /\ Goto(w, "recheck")
    /\ UNCHANGED <<canon, disk, shardDir, cleaner, damaged, acked>>

\* A temporary file that is no longer needed is unlinked; an error is ignored
\* and leaves the file behind (NamedTempFile's drop, remove_tmp_best_effort).
RemoveTmp(w) ==
    \/ tmp' = [t \in Tmp |-> IF t = writer[w].t THEN Absent ELSE tmp[t]]
    \/ Faults /\ UNCHANGED tmp

\* Until keep() the temporary file is deleted when an error drops it.
TmpFails(w) ==
    /\ Faults
    /\ At(w, "create") \/ At(w, "write") \/ At(w, "sync")
    /\ RemoveTmp(w)
    /\ Err(w)
    /\ UNCHANGED <<canon, disk, shardDir, cleaner, damaged, acked>>

-----------------------------------------------------------------------------
(* commit_tmp: the temporary file has been kept, so from here on an error   *)
(* that does not remove it leaks it.                                        *)

CommitTmp(w) ==
    /\ At(w, "recheck")
    /\ Goto(w, IF canon[writer[w].h] # Absent THEN "verifyTmp" ELSE "mkdir")
    /\ UNCHANGED <<canon, disk, shardDir, tmp, cleaner, damaged, acked>>

\* AlreadyExists taken for success without re-hashing what is there.
MutantVerifyBeforeDrop(w) ==
    /\ At(w, "verifyTmp")
    /\ Goto(w, "drop")
    /\ UNCHANGED <<canon, disk, shardDir, tmp, cleaner, damaged, acked>>

\* The canonical file is already there: verify it, `?` leaking our own copy.
VerifyBeforeDrop(w) ==
    /\ At(w, "verifyTmp")
    /\ IF Intact(writer[w].h) THEN Goto(w, "drop") ELSE Err(w)
    /\ UNCHANGED <<canon, disk, shardDir, tmp, cleaner, damaged, acked>>

DropTmp(w) ==
    /\ At(w, "drop")
    /\ RemoveTmp(w)
    /\ Succeed(w, "visible")
    /\ UNCHANGED <<canon, disk, shardDir, cleaner, damaged, acked>>

\* create_dir_all: a new shard directory is an entry of blobs/sha256 in memory.
MakeShard(w) ==
    /\ At(w, "mkdir")
    /\ shardDir' = [shardDir EXCEPT ![ShardOf[writer[w].h]] = IF @ = "absent" THEN "made" ELSE @]
    /\ Goto(w, "rename")
    /\ UNCHANGED <<canon, disk, tmp, cleaner, damaged, acked>>

\* The name of the temporary file is recorded, not the file moved.
MutantRename(w) ==
    /\ At(w, "rename")
    /\ tmp[writer[w].t] # Absent
    /\ canon' = [canon EXCEPT ![writer[w].h] = writer[w].t]
    /\ Succeed(w, "visible")
    /\ UNCHANGED <<disk, shardDir, tmp, cleaner, damaged, acked>>

\* rename(2) replaces whatever is at the canonical path.
Rename(w) ==
    /\ At(w, "rename")
    /\ tmp[writer[w].t] # Absent
    /\ canon' = [canon EXCEPT ![writer[w].h] = tmp[writer[w].t]]
    /\ tmp' = [tmp EXCEPT ![writer[w].t] = Absent]
    /\ IF Full THEN Leave(w, "syncdir", "visible") ELSE Succeed(w, "visible")
    /\ UNCHANGED <<disk, shardDir, cleaner, damaged, acked>>

\* AlreadyExists treated like any other rename error.
MutantRenameExists(w) ==
    /\ At(w, "rename")
    /\ tmp[writer[w].t] # Absent /\ canon[writer[w].h] # Absent
    /\ tmp' = [tmp EXCEPT ![writer[w].t] = Absent]
    /\ Err(w)
    /\ UNCHANGED <<canon, disk, shardDir, cleaner, damaged, acked>>

\* Platforms whose rename does not overwrite answer AlreadyExists.
RenameExists(w) ==
    /\ At(w, "rename")
    /\ tmp[writer[w].t] # Absent /\ canon[writer[w].h] # Absent
    /\ Goto(w, "verifyTmp")
    /\ UNCHANGED <<canon, disk, shardDir, tmp, cleaner, damaged, acked>>

\* cleanup_tmp has taken the source away, or the call fails for another reason;
\* the temporary file is removed if it is still there.
RenameFails(w) ==
    /\ At(w, "rename")
    /\ Faults \/ tmp[writer[w].t] = Absent
    /\ RemoveTmp(w)
    /\ Err(w)
    /\ UNCHANGED <<canon, disk, shardDir, cleaner, damaged, acked>>

\* create_dir_all fails: the kept temporary file stays behind.
ShardDirFails(w) ==
    /\ Faults
    /\ At(w, "mkdir")
    /\ Err(w)
    /\ UNCHANGED <<canon, disk, shardDir, tmp, cleaner, damaged, acked>>

\* Full: the renamed entry is acknowledged without reaching the disk.
MutantSyncDir(w) ==
    /\ At(w, "syncdir")
    /\ Succeed(w, "durable")
    /\ UNCHANGED <<canon, disk, shardDir, tmp, cleaner, damaged, acked>>

\* sync_dir_best_effort(parent): the shard directory's contents reach the disk,
\* its own entry in blobs/sha256 does not.
SyncDir(w) ==
    /\ At(w, "syncdir")
    /\ disk' = [disk EXCEPT ![writer[w].h] = canon[writer[w].h]]
    /\ Succeed(w, "durable")
    /\ UNCHANGED <<canon, shardDir, tmp, cleaner, damaged, acked>>

\* sync_dir_best_effort ignores a failing fsync.
SyncDirFails(w) ==
    /\ Faults
    /\ At(w, "syncdir")
    /\ Succeed(w, "visible")
    /\ UNCHANGED <<canon, disk, shardDir, tmp, cleaner, damaged, acked>>

Return(w) ==
    /\ At(w, "ok") \/ At(w, "err")
    /\ acked' = IF At(w, "ok") /\ Coordinated
                  THEN acked \cup {<<writer[w].h, writer[w].ack>>} ELSE acked
    /\ writer' = [writer EXCEPT ![w] = IdleWriter]
    /\ UNCHANGED <<canon, disk, shardDir, tmp, cleaner, damaged>>

-----------------------------------------------------------------------------
(* The other actors. *)

Forget(h) == {a \in acked : a[1] # h}

\* remove: what GC and maintenance code call; NotFound is not an error.
Remove(h) ==
    /\ Coordinated => Quiet
    /\ canon' = [canon EXCEPT ![h] = Absent]
    /\ acked' = Forget(h)
    /\ UNCHANGED <<disk, shardDir, tmp, writer, cleaner, damaged>>

\* cleanup_tmp reads the directory, then looks at its entries one by one.
StartCleanup ==
    /\ cleaner.pc = "idle"
    /\ Coordinated => Quiet
    /\ cleaner' = [pc |-> "scan", todo |-> {t \in Tmp : tmp[t] # Absent}]
    /\ UNCHANGED <<canon, disk, shardDir, tmp, writer, damaged, acked>>

\* The file counted as removed and left where it is.
MutantCleanupTmp(t) ==
    /\ cleaner.pc = "scan" /\ t \in cleaner.todo
    /\ cleaner' = [cleaner EXCEPT !.todo = @ \ {t}]
    /\ UNCHANGED <<canon, disk, shardDir, tmp, writer, damaged, acked>>

\* An entry that is old enough (age >= max_age) is removed, one that has gone
\* away meanwhile ends the call with its NotFound error.
CleanupTmp(t) ==
    /\ cleaner.pc = "scan" /\ t \in cleaner.todo
    /\ cleaner' = IF tmp[t] = Absent THEN [cleaner EXCEPT !.pc = "err"]
                                     ELSE [cleaner EXCEPT !.todo = @ \ {t}]
    /\ tmp' = [tmp EXCEPT ![t] = Absent]
    /\ UNCHANGED <<canon, disk, shardDir, writer, damaged, acked>>

\* A young entry, or one whose age the clock cannot tell, is left alone.
CleanupSkip(t) ==
    /\ cleaner.pc = "scan" /\ t \in cleaner.todo
    /\ tmp[t] # Absent
    /\ cleaner' = [cleaner EXCEPT !.todo = @ \ {t}]
    /\ UNCHANGED <<canon, disk, shardDir, tmp, writer, damaged, acked>>

\* An entry cannot be inspected or removed: the call ends there.
CleanupFails ==
    /\ Faults
    /\ cleaner.pc = "scan" /\ cleaner.todo # {}
    /\ cleaner' = [cleaner EXCEPT !.pc = "err"]
    /\ UNCHANGED <<canon, disk, shardDir, tmp, writer, damaged, acked>>

EndCleanup ==
    /\ cleaner.pc = "err" \/ (cleaner.pc = "scan" /\ cleaner.todo = {})
    /\ cleaner' = IdleCleaner
    /\ UNCHANGED <<canon, disk, shardDir, tmp, writer, damaged, acked>>

\* The writer's process is killed: nothing is dropped, its files stay.
Crash(w) ==
    /\ ~At(w, "idle")
    /\ writer' = [writer EXCEPT ![w] = IdleWriter]
    /\ UNCHANGED <<canon, disk, shardDir, tmp, cleaner, damaged, acked>>

\* Something outside the store overwrites a canonical file in place.
Spoil(f) == IF f = Absent THEN Absent ELSE [bytes |-> Bad, synced |-> f.synced]
Damage(h) ==
    /\ canon[h] # Absent
    /\ canon' = [canon EXCEPT ![h] = Spoil(@)]
    /\ disk' = [disk EXCEPT ![h] = Spoil(@)]
    /\ damaged' = damaged \cup {h}
    /\ UNCHANGED <<shardDir, tmp, writer, cleaner, acked>>

\* The operating system writes blobs/sha256 back in its own time, and with it
\* the entry of the shard directory.
Writeback(s) ==
    /\ shardDir[s] = "made"
    /\ shardDir' = [shardDir EXCEPT ![s] = "flushed"]
    /\ UNCHANGED <<canon, disk, tmp, writer, cleaner, damaged, acked>>

\* The machine goes down: bytes that were not fsynced are lost, a directory
\* entry is as last seen or as last flushed, every process is gone.  A shard
\* directory whose own entry was never flushed may be gone with every blob in
\* it.  What the disk still owes is what was acknowledged as durable in a
\* shard directory that was flushed.
Settle(f) == IF f = Absent \/ f.synced THEN f ELSE [bytes |-> Bad, synced |-> TRUE]
PowerLoss ==
    /\ \E S \in SUBSET Hash, L \in SUBSET {s \in Shard : shardDir[s] = "made"} :
          /\ canon' = [h \in Hash |-> IF ShardOf[h] \in L THEN Absent
                                      ELSE Settle(IF h \in S THEN disk[h] ELSE canon[h])]
          /\ shardDir' = [s \in Shard |-> IF s \in L \/ shardDir[s] = "absent"
                                            THEN "absent" ELSE "flushed"]
    /\ disk' = canon'
    /\ \E T \in SUBSET Tmp :
          tmp' = [t \in Tmp |-> IF t \in T THEN Absent ELSE Settle(tmp[t])]
    /\ writer' = [w \in Writer |-> IdleWriter]
    /\ cleaner' = IdleCleaner
    /\ acked' = {a \in acked : a[2] = "durable" /\ shardDir[ShardOf[a[1]]] = "flushed"}
    /\ UNCHANGED damaged

WriterStep(w) ==
    \/ CheckExists(w) \/ VerifyExisting(w) \/ CreateTmp(w) \/ WriteTmp(w) \/ SyncTmp(w)
    \/ CommitTmp(w) \/ VerifyBeforeDrop(w) \/ DropTmp(w) \/ MakeShard(w) \/ Rename(w) \/ RenameExists(w)
    \/ RenameFails(w) \/ SyncDir(w) \/ Return(w)

Next ==
    \/ \E w \in Writer, h \in Hash : Put(w, h) \/ PutStreaming(w, h) \/ PutRefused(w, h)
    \/ \E w \in Writer : WriterStep(w)
    \/ \E w \in Writer : VerifyFails(w) \/ TmpFails(w) \/ ShardDirFails(w) \/ SyncDirFails(w) \/ Crash(w)
    \/ \E h \in Hash : Remove(h) \/ Damage(h)
    \/ StartCleanup \/ CleanupFails \/ EndCleanup
    \/ \E t \in Tmp : CleanupTmp(t) \/ CleanupSkip(t)
    \/ \E s \in Shard : Writeback(s)
    \/ PowerLoss

Spec == Init /\ [][Next]_vars

-----------------------------------------------------------------------------
(* Fairness, for the liveness property only: a writer that is running takes *)
(* its next step; maintenance is run again and again (SF: the caller finds   *)
(* the store quiet infinitely often and then does not miss it for ever); and *)
(* a file that is left alone long enough reaches max_age (SF on CleanupTmp). *)
FairSpec ==
    /\ Spec
    /\ \A w \in Writer : WF_vars(WriterStep(w))
    /\ SF_vars(StartCleanup) /\ WF_vars(EndCleanup)
    /\ \A t \in Tmp : SF_vars(CleanupTmp(t)) /\ WF_vars(CleanupTmp(t) \/ CleanupSkip(t))

-----------------------------------------------------------------------------
(* Properties. *)

\* Whatever the writers, the maintenance calls, crashes and power losses do,
\* the canonical path of h holds the complete bytes of h or nothing, unless
\* something outside the store damaged that file: a torn write never lands
\* there (blob.rs commit_bytes, commit_tmp).
CanonicalIntact ==
    \A h \in Hash : canon[h] # Absent => canon[h].bytes = h \/ h \in damaged

\* Read after return: while callers keep remove and cleanup_tmp apart from
\* their puts, a blob whose put returned Ok can be read back until it is
\* removed.  A power loss leaves of this what DurabilityMode::Full gives: the
\* blob is still there if its put renamed the file itself and synced the shard
\* directory, and the entry of that directory in blobs/sha256, which the store
\* never syncs, had reached the disk as well.
AckedReadable ==
    \A a \in acked : /\ canon[a[1]] # Absent
                     /\ canon[a[1]].bytes = a[1] \/ a[1] \in damaged

\* Two writers that put the same bytes never make each other fail: with no
\* failing system call, a put only fails on a file damaged from outside.
ConcurrentPutsSucceed ==
    \A w \in Writer : At(w, "err") => writer[w].h \in damaged

\* A temporary file leaked by a crash or by an error after keep() is
\* eventually removed by the maintenance runs, provided the callers keep
\* leaving moments in which no put is in flight for cleanup_tmp to start in.
Orphan(t) == tmp[t] # Absent /\ \A w \in Writer : writer[w].t # t
OrphansReclaimed ==
    []<>Quiet => \A t \in Tmp : (Orphan(t) ~> tmp[t] = Absent)

\* The protocol implements BlobStoreSpec: every put takes effect at one
\* instant (its rename, or the re-hash that finds the blob intact) or fails
\* without touching a blob.
Bytes(f) == IF f = Absent THEN Absent ELSE f.bytes
CallState(pc) ==
    CASE pc = "idle" -> "idle"
      [] pc = "err" -> "failed"
      [] pc \in {"drop", "syncdir", "ok"} -> "applied"
      [] OTHER -> "pending"
Abstract == INSTANCE BlobStoreSpec WITH
    blobs <- [h \in Hash |-> Bytes(canon[h])],
    disk  <- [h \in Hash |-> Bytes(disk[h])],
    rooted <- {h \in Hash : shardDir[ShardOf[h]] = "flushed"},
    call  <- [w \in Writer |-> [st |-> CallState(writer[w].pc), h |-> writer[w].h]]
Linearizable == Abstract!StoreSpec
=============================================================================
