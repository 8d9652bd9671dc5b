---------------------------- MODULE DisplayQueue ----------------------------
(***************************************************************************)
(* What the UI commit queue promises to the programs that draw: paintings   *)
(* wait in a bounded line, only the first one is ever being painted, and it *)
(* leaves the line when a stroke has been made at each of its places.  The  *)
(* display may ignore a stroke, and which places it did so at last is known. *)
(***************************************************************************)
EXTENDS Integers, Sequences

CONSTANTS Loc, Capacity   \* the places of the display, the length of the line

VARIABLES
    line,    \* the paintings that wait: where they go and what they put there
    display, \* what every place shows
    missed   \* the places where the last stroke was ignored

Init == line = <<>> /\ display = [l \in Loc |-> 0] /\ missed = {}

\* Another painting joins at the end of the line.
Publish ==
    /\ Len(line) < Capacity
    /\ \E i \in DOMAIN line' : line' = Append(line, line'[i])
    /\ UNCHANGED <<display, missed>>

\* A place of the first painting is painted, perhaps not for the first time.
Paint ==
    /\ line # <<>>
    /\ \E l \in Head(line).on :
          /\ display' = [display EXCEPT ![l] = Head(line).val]
          /\ missed' = missed \ {l}
    /\ UNCHANGED line

\* The display ignores a stroke of the first painting.
Miss ==
    /\ line # <<>>
    /\ \E l \in Head(line).on : missed' = missed \cup {l}
    /\ UNCHANGED <<line, display>>

\* The first painting is complete, but for what was missed, and leaves.
Commit ==
    /\ line # <<>>
    /\ \A l \in Head(line).on : display[l] = Head(line).val \/ l \in missed
    /\ line' = Tail(line)
    /\ UNCHANGED <<display, missed>>

Next == Publish \/ Paint \/ Miss \/ Commit
QueueSpec == Init /\ [][Next]_<<line, display, missed>>
=============================================================================
