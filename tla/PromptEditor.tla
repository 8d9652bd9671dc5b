---------------------------- MODULE PromptEditor ----------------------------
(***************************************************************************)
(* What the on-screen keyboard promises: an editor for one line of text     *)
(* that grows and shrinks at its end, and that can be submitted.            *)
(***************************************************************************)
EXTENDS Naturals, Sequences

CONSTANTS
    Char,       \* the characters that can be typed
    MaxLen      \* the longest text

VARIABLES text, submitted

Init == text = <<>> /\ submitted = FALSE

\* A character typed when the text is full does not become part of it.
Type(c) == /\ Len(text) < MaxLen
           /\ text' = Append(text, c) /\ UNCHANGED submitted
Erase   == /\ text # <<>>
           /\ text' = SubSeq(text, 1, Len(text) - 1) /\ UNCHANGED submitted
Submit  == submitted' = TRUE /\ UNCHANGED text

Next == (\E c \in Char : Type(c)) \/ Erase \/ Submit
Spec == Init /\ [][Next]_<<text, submitted>>
=============================================================================
