--------------------------- MODULE MCVideoCommit ---------------------------
(* Instances of VideoCommit for model checking. *)
EXTENDS VideoCommit

Glyph(at, val)      == [kind |-> "glyph", at |-> at, n |-> 0, val |-> val]
FillRun(at, n, val) == [kind |-> "run", at |-> at, n |-> n, val |-> val]

\* Operations that overlap: a cell, and runs that are clipped to two cells, of
\* another glyph and of the same one.
OneCell  == {Glyph(0, 1)}
OneRun   == {FillRun(0, 3, 0)}
LikeCell == {FillRun(0, 3, 1)}
NoOps == {}
\* WRAM cleared before the runtime starts.
Cleared == {0}
=============================================================================
