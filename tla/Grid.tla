-------------------------------- MODULE Grid --------------------------------
(***************************************************************************)
(* What a screen of characters promises: cells in reading order, the last  *)
(* followed by the first, and a position among them.  Terminal shows that  *)
(* video/terminal.c implements it on screens of whole cells.               *)
(***************************************************************************)
EXTENDS Integers

VARIABLES
  cols,
  rows,
  cells,   \* what each cell shows
  pos      \* the cell that is written next

gridVars == <<cols, rows, cells, pos>>

\* n cells on, or back, from cell p
Onward(p, n) == (p + n) % (cols * rows)

Column == pos % cols

GoTo(p) ==
  /\ pos' = p
  /\ UNCHANGED <<cols, rows, cells>>

Put(c) ==
  /\ cells' = [cells EXCEPT ![pos] = c]
  /\ pos' = Onward(pos, 1)
  /\ UNCHANGED <<cols, rows>>

Newline == GoTo(Onward(pos - Column, cols))

Return == GoTo(pos - Column)

\* To the next column that is a multiple of four.
Tab == GoTo(Onward(pos, 4 - (Column % 4)))

Move(down, right) == GoTo(Onward(pos, down * cols + right))

\* Back by one, and blank what is there.
Rub(blank) ==
  /\ pos' = Onward(pos, -1)
  /\ cells' = [cells EXCEPT ![pos'] = blank]
  /\ UNCHANGED <<cols, rows>>

Clear(blank) ==
  /\ cells' = [p \in DOMAIN cells |-> blank]
  /\ UNCHANGED <<cols, rows, pos>>
=============================================================================
