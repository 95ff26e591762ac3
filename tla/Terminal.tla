------------------------------ MODULE Terminal ------------------------------
(***************************************************************************)
(* The terminal, video/terminal.c, on the framebuffer of graphics.c: the   *)
(* cursor in pixels, characters drawn pixel by pixel, and the arithmetic   *)
(* that wraps the cursor round the screen.                                 *)
(*                                                                         *)
(* The keyboard's handler and tasks write with interrupts off: each call   *)
(* is one step.  kmain prints what NVMe's admin commands fail with         *)
(* (nvme.c:124) with interrupts on, so that keys come between any two of   *)
(* its accesses to the cursor.  A pixel is named by the character whose    *)
(* glyph it is of; a space draws the background alone.  "back" is '\b'.     *)
(***************************************************************************)
EXTENDS Integers, Sequences

CONSTANTS
  Screens,      \* framebuffers: [width, height, pitch], the pitch in pixels
  FontWidth,
  FontHeight,
  Glyphs,       \* characters that are drawn, but for the space
  Text,         \* what kmain prints: glyphs and "\n"
  MaxCalls      \* bound: calls of the masked writers

ASSUME TerminalAssumption ==
  /\ {FontWidth, FontHeight} \subseteq Nat \ {0}
  /\ \A s \in Screens : /\ s.width \in Nat \ {0} /\ s.height \in Nat \ {0}
                        /\ s.pitch \in Nat /\ s.pitch >= s.width
  /\ {" ", "\n", "\r", "\t", "back", "old"} \cap Glyphs = {}
  /\ Text \in Seq(Glyphs \cup {"\n"})
  /\ MaxCalls \in Nat

VARIABLES
  graphics,     \* the framebuffer's measures
  pixels,       \* its memory, padding included, and the memory that follows
  cursor_x,
  cursor_y,
  at,           \* where kmain is
  text,         \* what it has yet to print
  local,        \* the variables of its call: where it draws, the move it makes
  calls

cursor == <<cursor_x, cursor_y>>
kmainVars == <<at, text, local>>
vars == <<graphics, pixels, cursor, kmainVars, calls>>

----------------------------------------------------------------------------
(* graphics.c; Bad... as in Scheduler                                      *)

\* The screen's memory ends here.
End == graphics.height * graphics.pitch

\* How far a character reaches that is begun at the edge.
Reach == (graphics.height + FontHeight) * graphics.pitch

\* put_pixel without its test of y.
BadPixel(y, x) == IF x < graphics.width THEN {y * graphics.pitch + x} ELSE {}

\* The address put_pixel writes, if any.
Pixel(y, x) ==
  IF y < graphics.height /\ x < graphics.width THEN {y * graphics.pitch + x} ELSE {}

\* clear(), for terminal_clear.
Cleared ==
  LET shown == {y * graphics.pitch + x : y \in 0..graphics.height - 1,
                                         x \in 0..graphics.width - 1}
  IN  [a \in DOMAIN pixels |-> IF a \in shown THEN " " ELSE pixels[a]]

----------------------------------------------------------------------------
(* terminal.c                                                              *)

\* What put_pixel writes for some rows of a character.
Drawn(y, x, rows) ==
  UNION {UNION {Pixel(y + i, x + j) : j \in 0..FontWidth - 1} : i \in rows}

Draw(memory, y, x, c, rows) ==
  LET drawn == Drawn(y, x, rows)
  IN  [a \in DOMAIN memory |-> IF a \in drawn THEN c ELSE memory[a]]

\* Row i of draw_char.
DrawRow(memory, y, x, c, i) == Draw(memory, y, x, c, {i})

\* draw_char
DrawChar(memory, y, x, c) == Draw(memory, y, x, c, 0..FontHeight - 1)

\* C's division, which rounds towards zero, and its remainder.
Quotient(a, b) == IF a >= 0 THEN a \div b ELSE -((-a) \div b)
Remainder(a, b) == a - b * Quotient(a, b)

FloorDiv(a, b) ==
  IF Remainder(a, b) < 0 THEN Quotient(a, b) - 1 ELSE Quotient(a, b)

BadFloorMod(a, b) == Remainder(a, b)

FloorMod(a, b) ==
  LET r == Remainder(a, b) IN IF r < 0 THEN r + b ELSE r

\* terminal_move_cursor, of a terminal [memory, y, x].
MoveCursor(t, down, right) ==
  LET new_x == t.x + right * FontWidth
      new_y == t.y + (down + FloorDiv(new_x, graphics.width)) * FontHeight
  IN  [t EXCEPT !.x = FloorMod(new_x, graphics.width),
                !.y = FloorMod(new_y, graphics.height)]

BadTabStop(column) == column + 4

\* The column a tab goes to: (col + 4) & ~3.
TabStop(column) == ((column + 4) \div 4) * 4

\* terminal_putchar
Putchar(t, c) ==
  CASE c = "\n" -> MoveCursor([t EXCEPT !.x = 0], 1, 0)
    [] c = "\r" -> [t EXCEPT !.x = 0]
    [] c = "\t" -> LET column == t.x \div FontWidth
                   IN  MoveCursor(t, 0, TabStop(column) - column)
    [] c = "back" -> MoveCursor(t, 0, -1)
    [] OTHER    -> MoveCursor([t EXCEPT !.memory = DrawChar(@, t.y, t.x, c)], 0, 1)

----------------------------------------------------------------------------
(* The masked writers                                                      *)

terminal == [memory |-> pixels, y |-> cursor_y, x |-> cursor_x]

Becomes(t) ==
  /\ pixels' = t.memory
  /\ cursor_y' = t.y
  /\ cursor_x' = t.x

\* A call leaves kmain where it was interrupted.
Calling ==
  /\ calls < MaxCalls
  /\ calls' = calls + 1
  /\ UNCHANGED <<graphics, kmainVars>>

\* What can be typed or printed: a character, or "\b \b" for the backspace key.
Strings ==
  {<<c>> : c \in Glyphs \cup {" ", "\n", "\r", "\t", "back"}} \cup {<<"back", " ", "back">>}

\* What a string leaves of a terminal, one character after the other.
Written(t, str) ==
  LET after[n \in 0..Len(str)] == IF n = 0 THEN t ELSE Putchar(after[n - 1], str[n])
  IN  after[Len(str)]

\* terminal_write and print_string
TerminalWrite(str) ==
  /\ Calling
  /\ Becomes(Written(terminal, str))

\* terminal_move_cursor, for the arrows
TerminalMoveCursor(down, right) ==
  /\ Calling
  /\ Becomes(MoveCursor(terminal, down, right))

\* terminal_set_position, to cells of the screen and to what lies beyond.
TerminalSetPosition(y, x) ==
  /\ Calling
  /\ IF x > graphics.width \/ y > graphics.height
     THEN UNCHANGED cursor
     ELSE cursor_x' = x /\ cursor_y' = y
  /\ UNCHANGED pixels

TerminalClear ==
  /\ Calling
  /\ pixels' = Cleared
  /\ UNCHANGED cursor

----------------------------------------------------------------------------
(* kmain's terminal_write, one access to the cursor at a time              *)

KmainCalls ==
  /\ at = "call" /\ text # <<>>
  /\ \/ /\ Head(text) = "\n"
        /\ cursor_x' = 0
        /\ at' = "move"
        /\ local' = [local EXCEPT !.down = 1, !.right = 0]
     \/ /\ Head(text) # "\n"
        /\ at' = "read x"
        /\ local' = [local EXCEPT !.y = cursor_y]
        /\ UNCHANGED cursor_x
     \/ /\ Head(text) # "\n"
        /\ at' = "read y"
        /\ local' = [local EXCEPT !.x = cursor_x]
        /\ UNCHANGED cursor_x
  /\ UNCHANGED <<graphics, pixels, cursor_y, text, calls>>

\* The other argument of draw_char: C evaluates them in either order.
KmainReadsOther ==
  /\ \/ at = "read x" /\ local' = [local EXCEPT !.x = cursor_x]
     \/ at = "read y" /\ local' = [local EXCEPT !.y = cursor_y]
  /\ at' = "draw"
  /\ UNCHANGED <<graphics, pixels, cursor, text, calls>>

KmainDraws ==
  /\ at = "draw"
  /\ pixels' = DrawRow(pixels, local.y, local.x, Head(text), local.row)
  /\ IF local.row + 1 < FontHeight
     THEN /\ local' = [local EXCEPT !.row = @ + 1]
          /\ UNCHANGED at
     ELSE /\ local' = [local EXCEPT !.down = 0, !.right = 1]
          /\ at' = "move"
  /\ UNCHANGED <<graphics, cursor, text, calls>>

\* It reads a coordinate,
KmainReads ==
  /\ \/ /\ at = "move" /\ at' = "store x"
        /\ local' = [local EXCEPT !.new = cursor_x + local.right * FontWidth]
     \/ /\ at = "move y" /\ at' = "store y"
        /\ local' = [local EXCEPT !.new = cursor_y + local.down * FontHeight]
  /\ UNCHANGED <<graphics, pixels, cursor, text, calls>>

\* and stores it moved.
KmainStores ==
  /\ \/ /\ at = "store x" /\ at' = "move y"
        /\ cursor_x' = FloorMod(local.new, graphics.width)
        /\ local' = [local EXCEPT !.down = @ + FloorDiv(local.new, graphics.width)]
        /\ UNCHANGED <<cursor_y, text>>
     \/ /\ at = "store y" /\ at' = "call"
        /\ cursor_y' = FloorMod(local.new, graphics.height)
        /\ text' = Tail(text)
        /\ local' = [y |-> 0, x |-> 0, row |-> 0, down |-> 0, right |-> 0, new |-> 0]
        /\ UNCHANGED cursor_x
  /\ UNCHANGED <<graphics, pixels, calls>>

----------------------------------------------------------------------------
\* graphics_init and terminal_init; the screen shows what the boot loader left.
Init ==
  /\ graphics \in Screens
  /\ pixels = [a \in 0..Reach - 1 |-> "old"]
  /\ cursor_x = 0
  /\ cursor_y = 0
  /\ at = "call"
  /\ text = Text
  /\ local = [y |-> 0, x |-> 0, row |-> 0, down |-> 0, right |-> 0, new |-> 0]
  /\ calls = 0

\* The positions callers set: every cell, the edges, and past them.
Heights == {i * FontHeight : i \in 0..graphics.height \div FontHeight + 1}
Widths  == {i * FontWidth : i \in 0..graphics.width \div FontWidth + 1}

Masked ==
  \/ \E str \in Strings : TerminalWrite(str)
  \/ \E d \in {<<-1, 0>>, <<1, 0>>, <<0, -1>>, <<0, 1>>} : TerminalMoveCursor(d[1], d[2])
  \/ \E y \in Heights, x \in Widths : TerminalSetPosition(y, x)
  \/ TerminalClear

Kmain == KmainCalls \/ KmainReadsOther \/ KmainDraws \/ KmainReads \/ KmainStores

Next == Masked \/ Kmain

Spec == Init /\ [][Next]_vars

----------------------------------------------------------------------------
(* Properties                                                              *)

\* The screen is made of whole cells.
Aligned == graphics.width % FontWidth = 0 /\ graphics.height % FontHeight = 0

\* The cursor is on the screen, or at the edge terminal_set_position lets it be
\* put at (terminal.c:72), and on a screen of whole cells it is at the corner of
\* one, wherever kmain is interrupted (terminal.c:63 to :68).
CursorOnCell ==
  /\ cursor_x \in 0..graphics.width
  /\ cursor_y \in 0..graphics.height
  /\ Aligned => cursor_x % FontWidth = 0 /\ cursor_y % FontHeight = 0

\* No pixel of the screen has this address: it is in a line's padding, or past the end.
Outside(a) == a % graphics.pitch >= graphics.width \/ a >= End

\* A glyph that does not fit is cut off: none is drawn into the padding of a line,
\* nor, through it, into the next line, nor below the last line into what is mapped
\* after the framebuffer (graphics.c:28).
GlyphsClipped == \A a \in DOMAIN pixels : Outside(a) => pixels[a] = "old"

OnScreen == cursor_x < graphics.width /\ cursor_y < graphics.height

columns == graphics.width \div FontWidth
lines   == graphics.height \div FontHeight

\* What is seen at cell p, on a screen of whole cells.
Cell(p) ==
  LET y == (p \div columns) * FontHeight
      x == (p % columns) * FontWidth
      seen == {pixels[(y + i) * graphics.pitch + x + j] :
                 i \in 0..FontHeight - 1, j \in 0..FontWidth - 1}
  IN  IF seen = {c \in seen : seen = {c}} THEN CHOOSE c \in seen : TRUE ELSE "mixed"

G == INSTANCE Grid WITH
       cols  <- columns,
       rows  <- lines,
       cells <- [p \in 0..columns * lines - 1 |-> Cell(p)],
       pos   <- (cursor_y \div FontHeight) * columns + cursor_x \div FontWidth

\* On a screen of whole cells each call of a masked writer does what it does to a
\* grid of characters, wrapping at the end of a line and of the screen both ways
\* (terminal.c:58, :79).
ImplementsGrid ==
  [][Aligned /\ OnScreen =>
       /\ \A c \in Glyphs \cup {" "} : TerminalWrite(<<c>>) => G!Put(c)
       /\ TerminalWrite(<<"\n">>) => G!Newline
       /\ TerminalWrite(<<"\r">>) => G!Return
       /\ TerminalWrite(<<"\t">>) => G!Tab
       /\ TerminalWrite(<<"back">>) => G!Move(0, -1)
       /\ TerminalWrite(<<"back", " ", "back">>) => G!Rub(" ")
       /\ \A d \in -1..1, r \in -1..1 : TerminalMoveCursor(d, r) => G!Move(d, r)
       /\ \A y \in 0..lines - 1, x \in 0..columns - 1 :
            TerminalSetPosition(y * FontHeight, x * FontWidth) => G!GoTo(y * columns + x)
       /\ TerminalClear => G!Clear(" ")]_vars
=============================================================================
