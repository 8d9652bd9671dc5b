--------------------------- MODULE MCStoreArchive ---------------------------
(* An instance of StoreArchive for TLC, and what repeated extractions do.    *)
EXTENDS StoreArchive, SequencesExt, TLC

\* Blob 1 refers to 2 and blob 2 to 3; 3 is the empty blob.
\* A damaged file may be empty, that is look like blob 3, or be too long.
SmallBytes == [h \in Hash |-> CASE h = 1 -> <<1>> [] h = 2 -> <<2, 2>> [] OTHER -> <<>>]
SmallRefs  == [h \in Hash |-> CASE h = 1 -> {2} [] h = 2 -> {3} [] OTHER -> {}]
SmallJunk  == {<<>>, <<0, 0, 0>>}

\* The archive of the blobs S written out: the layout describes this sequence.
Image(S) ==
    LET sorted  == SetToSortSeq(S, <)
        total   == FoldSet(LAMBDA h, n : n + Len(Bytes[h]), 0, S)
        records == [i \in DOMAIN sorted |->
                       <<HashCell(sorted[i]), LenCell(Len(Bytes[sorted[i]]))>> \o
                       ByteCells(Bytes[sorted[i]])]
    IN  <<HeadCell(Cardinality(S), total), PinsCell>> \o FlattenSeq(records)

ASSUME LayoutAssumption == \A S \in SUBSET Hash : IsArchive(Image(S), S)

\* An extraction that was cut off, or that failed, is finished by repeating
\* it: with an intact archive, and no damage in the store from some point on,
\* the store ends up with everything the pinsets reach.
RetryDelivers ==
    (/\ []<><<StartRead("extract")>>_vars
     /\ <>[](IsArchive(file, Reachable) /\ Damaged(dst) = {}))
    => <>[]Holds(dst, Reachable)
=============================================================================
