----------------------------- MODULE MCTerminal -----------------------------
(***************************************************************************)
(* Glyphs of two by two pixels: a screen of five by two cells, so that a   *)
(* tab may end beyond the line, with padding in its lines, and one that    *)
(* cuts off the last column and the last row, as 1920 by 1080 does with    *)
(* glyphs of 16 rows.                                                      *)
(***************************************************************************)
EXTENDS Terminal

SmallScreens == {
  [width |-> 10, height |-> 4, pitch |-> 11],
  [width |-> 5, height |-> 5, pitch |-> 6] }

Error == <<"E", "\n">>
=============================================================================
