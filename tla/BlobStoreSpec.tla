---------------------------- MODULE BlobStoreSpec ----------------------------
(***************************************************************************)
(* What the content-addressed blob store of gbf-store promises its callers *)
(* (src/gbf-store/src/blob.rs), with no temporary files, no rename and no  *)
(* re-hashing in sight: a `put` takes effect at one instant between its    *)
(* call and its return, or it fails and leaves every blob alone.  BlobStore *)
(* is the step-by-step protocol that implements this specification.        *)
(*                                                                         *)
(* The bytes whose SHA-256 is h are represented by h itself, so that "the  *)
(* canonical path of h holds the right bytes" reads blobs[h] = h.          *)
(***************************************************************************)
CONSTANTS
    Hash,    \* the hashes of the byte strings that callers store
    Writer,  \* the threads and processes that call put
    Absent,  \* no file at the path
    Bad      \* bytes that do not hash to the name they are stored under

VARIABLES
    blobs,   \* blobs[h]: what a reader of h's canonical path finds
    disk,    \* disk[h]: what its directory holds for h on the disk
    rooted,  \* hashes whose directory is certain to be there after a power loss
    damaged, \* the hashes whose file something outside the store damaged
    call     \* call[w]: the put that w has in progress

specVars == <<blobs, disk, rooted, damaged, call>>

Content == Hash \cup {Bad, Absent}
NoCall  == [st |-> "idle", h |-> Absent]

SpecTypeOK ==
    /\ blobs \in [Hash -> Content]
    /\ disk \in [Hash -> Content]
    /\ rooted \subseteq Hash
    /\ damaged \subseteq Hash
    /\ call \in [Writer -> [st : {"idle", "pending", "applied", "failed"},
                            h  : Hash \cup {Absent}]]

SpecInit ==
    /\ blobs = [h \in Hash |-> Absent]
    /\ disk = [h \in Hash |-> Absent]
    /\ rooted = {}
    /\ damaged = {}
    /\ call = [w \in Writer |-> NoCall]

-----------------------------------------------------------------------------

\* w calls put, put_expect, put_as or put_streaming for the bytes of h.
Invoke(w, h) ==
    /\ call[w] = NoCall
    /\ call' = [call EXCEPT ![w] = [st |-> "pending", h |-> h]]
    /\ UNCHANGED <<blobs, disk, rooted, damaged>>

\* The call is refused before it touches the store.
Refuse(w, h) ==
    /\ call[w] = NoCall
    /\ call' = [call EXCEPT ![w] = [st |-> "failed", h |-> h]]
    /\ UNCHANGED <<blobs, disk, rooted, damaged>>

\* The instant at which a put takes effect: h is stored, and intact.
Apply(w) ==
    /\ call[w].st = "pending"
    /\ blobs' = [blobs EXCEPT ![call[w].h] = call[w].h]
    /\ call' = [call EXCEPT ![w].st = "applied"]
    /\ UNCHANGED <<disk, rooted, damaged>>

Fail(w) ==
    /\ call[w].st = "pending"
    /\ call' = [call EXCEPT ![w].st = "failed"]
    /\ UNCHANGED <<blobs, disk, rooted, damaged>>

\* DurabilityMode::Full: the blob's directory entry reaches the disk before put
\* returns; the directory itself need not be rooted.
Persist(w) ==
    /\ call[w].st = "applied"
    /\ disk' = [disk EXCEPT ![call[w].h] = blobs[call[w].h]]
    /\ UNCHANGED <<blobs, rooted, damaged, call>>

\* The call returns, or its process dies.
Finish(w) ==
    /\ call[w].st # "idle"
    /\ call' = [call EXCEPT ![w] = NoCall]
    /\ UNCHANGED <<blobs, disk, rooted, damaged>>

Discard(h) ==
    /\ blobs' = [blobs EXCEPT ![h] = Absent]
    /\ UNCHANGED <<disk, rooted, damaged, call>>

Corrupt(h) ==
    /\ blobs[h] # Absent
    /\ blobs' = [blobs EXCEPT ![h] = Bad]
    /\ disk' = [disk EXCEPT ![h] = IF @ = Absent THEN Absent ELSE Bad]
    /\ damaged' = damaged \cup {h}
    /\ UNCHANGED <<rooted, call>>

\* Directories reach the disk in their own time; nothing a caller does asks
\* for it.
Root ==
    /\ rooted \subseteq rooted' /\ rooted' \subseteq Hash
    /\ UNCHANGED <<blobs, disk, damaged, call>>

\* Every call is lost; each entry is as it was, or as the disk last had it, or
\* gone with a directory that was not rooted.
Reboot ==
    /\ \E S \in SUBSET Hash, L \in SUBSET (Hash \ rooted) :
          blobs' = [h \in Hash |-> IF h \in L THEN Absent
                                  ELSE IF h \in S THEN disk[h] ELSE blobs[h]]
    /\ disk' = blobs'
    /\ rooted \subseteq rooted' /\ rooted' \subseteq Hash
    /\ call' = [w \in Writer |-> NoCall]
    /\ UNCHANGED damaged

SpecNext ==
    \/ \E w \in Writer, h \in Hash : Invoke(w, h) \/ Refuse(w, h)
    \/ \E w \in Writer : Apply(w) \/ Fail(w) \/ Persist(w) \/ Finish(w)
    \/ \E h \in Hash : Discard(h) \/ Corrupt(h)
    \/ Root \/ Reboot

StoreSpec == SpecInit /\ [][SpecNext]_specVars
=============================================================================
