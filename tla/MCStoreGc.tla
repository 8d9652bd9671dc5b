------------------------------ MODULE MCStoreGc ------------------------------
(* Instances of StoreGc for TLC. *)
EXTENDS StoreGc, TLC

\* 1 is a leaf; 2 and 3 refer to each other, 3 also to 1.
ChainChildren ==
    [h \in Hash |-> Hash \cap (CASE h = 1 -> {} [] h = 2 -> {3} [] OTHER -> {1, 2})]
GcSymmetry == Permutations(Key) \cup Permutations(Proc)
=============================================================================
