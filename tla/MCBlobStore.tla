----------------------------- MODULE MCBlobStore -----------------------------
(* Instances of BlobStore for TLC. *)
EXTENDS BlobStore, TLC

CONSTANTS s1

\* Every hash of the instance lies in one shard directory.
OneShard == [h \in Hash |-> s1]

\* Hashes, writers and temporary names are interchangeable.
StoreSymmetry == Permutations(Hash) \cup Permutations(Writer) \cup Permutations(Tmp)
=============================================================================
