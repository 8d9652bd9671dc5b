---------------------------- MODULE MCPromptShell ----------------------------
(* An instance of PromptShell for TLC.  The user holds nothing, moves right   *)
(* and presses A together, or A and Start; since the two halves of the joypad *)
(* are read at two moments, a poll also sees Right alone, and all three.      *)
EXTENDS PromptShell

SmallLayout == <<"a", "Backspace", "a", "Submit">>
Presses == {{}, {"Right", "A"}, {"A", "Start"}}
=============================================================================
