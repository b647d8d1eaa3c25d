------------------------------ MODULE MCUserInput ------------------------------
(***************************************************************************)
(* Instances of UserInput for TLC.  Button 1 stands for the three that are *)
(* numbered alike by SDL and X11, 5 is one of SDL's two side buttons, and  *)
(* 6 and 7 are two SDL has no name for: the mask of 6 is the bit that says *)
(* "clicked", that of 7 is the one of 5.                                   *)
(*                                                                         *)
(* Of the keys 44 is a symbol itself; 60 is in the table, and its symbol   *)
(* is on the same key of the streamer's keyboard; 80 has no key code       *)
(* there.                                                                  *)
(*                                                                         *)
(* While the first of the two sizes is still the renderer's logical size,  *)
(* SDL reports the positions 0 and 1 in the second as -2 and 0.            *)
(***************************************************************************)
EXTENDS UserInput, TLC

Buttons   == {1, 5, 6, 7}
Keys      == {44, 60, 80}
Table     == 60 :> 600
Keycodes  == (44 :> 59) @@ (60 :> 0) @@ (600 :> 59) @@ (80 :> 0)
FirstSize == [w |-> 1, h |-> 2]
Sizes     == {FirstSize, [w |-> 2, h |-> 1]}
=============================================================================
