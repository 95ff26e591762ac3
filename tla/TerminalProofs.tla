---------------------------- MODULE TerminalProofs ----------------------------
(***************************************************************************)
(* Proofs about the terminal, for all screens, fonts, texts and numbers of *)
(* calls: the cursor stays on a cell, no glyph leaves the screen, and on a *)
(* screen of whole cells each call does what Grid says.                    *)
(***************************************************************************)
EXTENDS Terminal, ListProofs
----------------------------------------------------------------------------
(* Arithmetic                                                              *)

Multiple(n, w) == \E k \in Int : n = w * k

LEMMA QuotientUnique ==
  ASSUME NEW p \in Nat, NEW y \in Int, NEW z \in Int, NEW x \in 0..p - 1, NEW r \in 0..p - 1,
         p * y + x = p * z + r
  PROVE  y = z /\ x = r
<1>1. p * (y - z) = r - x
  OBVIOUS
<1>2. ~(y - z >= 1)
  <2> SUFFICES ASSUME y - z >= 1 PROVE FALSE
    OBVIOUS
  <2>1. p * (y - z) = p * (y - z - 1) + p OBVIOUS
  <2>2. p * (y - z - 1) >= 0 OBVIOUS
  <2> QED BY <1>1, <2>1, <2>2
<1>3. ~(z - y >= 1)
  <2> SUFFICES ASSUME z - y >= 1 PROVE FALSE
    OBVIOUS
  <2>1. p * (z - y) = p * (z - y - 1) + p OBVIOUS
  <2>2. p * (z - y - 1) >= 0 OBVIOUS
  <2>3. p * (z - y) = x - r OBVIOUS
  <2> QED BY <2>1, <2>2, <2>3
<1>4. y = z
  BY <1>2, <1>3
<1> QED BY <1>1, <1>4

LEMMA Division ==
  ASSUME NEW a \in Int, NEW b \in Nat \ {0}
  PROVE  a % b \in 0..b - 1 /\ a \div b \in Int /\ a = b * (a \div b) + (a % b)
OBVIOUS

LEMMA OfMultiple ==
  ASSUME NEW a \in Int, NEW b \in Nat \ {0}
  PROVE  (a % b = 0) <=> Multiple(a, b)
<1> DEFINE r == a % b
           q == a \div b
<1>1. r \in 0..b - 1 /\ q \in Int /\ a = b * q + r
  BY Division
<1> HIDE DEF r, q
<1>2. ASSUME r = 0 PROVE Multiple(a, b)
  BY <1>1, <1>2 DEF Multiple
<1>3. ASSUME Multiple(a, b) PROVE r = 0
  <2>1. PICK k \in Int : a = b * k
    BY <1>3 DEF Multiple
  <2>2. b * k + 0 = b * q + r /\ 0 \in 0..b - 1
    BY <1>1, <2>1
  <2> QED BY <1>1, <2>2, QuotientUnique
<1> QED BY <1>2, <1>3 DEF r

\* floor_div and floor_mod are the quotient and the remainder of floored division.
LEMMA Floored ==
  ASSUME NEW a \in Int, NEW b \in Nat \ {0}
  PROVE  /\ FloorMod(a, b) \in 0..b - 1
         /\ FloorDiv(a, b) \in Int
         /\ a = b * FloorDiv(a, b) + FloorMod(a, b)
<1>1. CASE a >= 0
  <2> DEFINE q == a \div b
             r == a % b
  <2>0. r \in 0..b - 1 /\ q \in Int /\ a = b * q + r
    BY Division
  <2>1. Quotient(a, b) = q
    BY <1>1 DEF Quotient
  <2> HIDE DEF q, r
  <2>2. Remainder(a, b) = r
    BY <2>0, <2>1 DEF Remainder
  <2>3. ~(r < 0)
    BY <2>0
  <2>4. FloorMod(a, b) = r /\ FloorDiv(a, b) = q
    BY <2>1, <2>2, <2>3 DEF FloorMod, FloorDiv
  <2> QED BY <2>0, <2>4
<1>2. CASE a < 0
  <2> DEFINE n == -a
             q == n \div b
             r == n % b
  <2>1. n \in Int
    OBVIOUS
  <2>2. r \in 0..b - 1 /\ q \in Int /\ n = b * q + r
    <3> HIDE DEF n
    <3> QED BY <2>1, Division
  <2>3. Quotient(a, b) = -q
    BY <1>2 DEF Quotient
  <2> HIDE DEF q, r
  <2>4. b * (-q) = -(b * q)
    BY <2>2
  <2>5. Remainder(a, b) = 0 - r
    BY <2>2, <2>3, <2>4 DEF Remainder
  <2>6. CASE r = 0
    <3>1. Remainder(a, b) = 0
      BY <2>5, <2>6
    <3>2. FloorMod(a, b) = 0 /\ FloorDiv(a, b) = -q
      BY <2>3, <3>1 DEF FloorMod, FloorDiv
    <3> QED BY <2>2, <2>4, <2>6, <3>2
  <2>7. CASE r # 0
    <3>1. FloorMod(a, b) = b - r /\ FloorDiv(a, b) = -q - 1
      BY <2>2, <2>3, <2>5, <2>7 DEF FloorMod, FloorDiv
    <3>2. b * (-q - 1) = -(b * q) - b
      BY <2>2
    <3> QED BY <2>2, <2>7, <3>1, <3>2
  <2> QED BY <2>6, <2>7
<1> QED BY <1>1, <1>2

LEMMA MultipleFloored ==
  ASSUME NEW a \in Int, NEW b \in Nat \ {0}, NEW w \in Nat \ {0}, Multiple(a, w), Multiple(b, w)
  PROVE  Multiple(FloorMod(a, b), w)
<1>1. PICK k \in Int : a = w * k
  BY DEF Multiple
<1>2. PICK m \in Int : b = w * m
  BY DEF Multiple
<1>3. PICK d \in Int : a = b * d + FloorMod(a, b)
  BY Floored
<1>4. FloorMod(a, b) \in Int
  BY Floored
<1>5. b * d = w * (m * d) /\ m * d \in Int
  BY <1>2, <1>3
<1> DEFINE e == m * d
<1>6. e \in Int /\ FloorMod(a, b) = w * k - w * e
  BY <1>1, <1>3, <1>4, <1>5
<1> HIDE DEF e
<1>7. FloorMod(a, b) = w * (k - e) /\ k - e \in Int
  BY <1>1, <1>6
<1> QED BY <1>7 DEF Multiple

LEMMA MultipleMoved ==
  ASSUME NEW a \in Int, NEW n \in Int, NEW w \in Nat \ {0}, Multiple(a, w)
  PROVE  a + n * w \in Int /\ Multiple(a + n * w, w)
<1>1. PICK k \in Int : a = w * k
  BY DEF Multiple
<1>2. a + n * w = w * (k + n) /\ k + n \in Int
  BY <1>1
<1> QED BY <1>2 DEF Multiple

\* Number p in lines of c cells is the cell (p \div c, p % c).
LEMMA ReadingOrder ==
  ASSUME NEW c \in Nat \ {0}, NEW l \in Nat \ {0}
  PROVE  /\ \A p \in 0..c * l - 1 : /\ p \div c \in 0..l - 1 /\ p % c \in 0..c - 1
                                  /\ p = c * (p \div c) + (p % c)
         /\ \A i \in 0..l - 1, j \in 0..c - 1 :
              /\ c * i + j \in 0..c * l - 1
              /\ (c * i + j) \div c = i /\ (c * i + j) % c = j
<1>1. ASSUME NEW p \in 0..c * l - 1
      PROVE  p \div c \in 0..l - 1 /\ p % c \in 0..c - 1 /\ p = c * (p \div c) + (p % c)
  <2> DEFINE q == p \div c
             r == p % c
  <2>1. r \in 0..c - 1 /\ q \in Int /\ p = c * q + r
    BY Division
  <2> HIDE DEF q, r
  <2>2. ~(q >= l)
    <3> SUFFICES ASSUME q >= l PROVE FALSE
      OBVIOUS
    <3>1. c * q = c * l + c * (q - l) /\ c * (q - l) >= 0 /\ c * l \in Int
      BY <2>1
    <3> QED BY <2>1, <3>1
  <2>3. ~(q < 0)
    <3> SUFFICES ASSUME q < 0 PROVE FALSE
      OBVIOUS
    <3>1. c * q = c * (q + 1) - c /\ c * (q + 1) <= 0
      <4>1. c * (0 - (q + 1)) >= 0
        BY <2>1
      <4> QED BY <2>1, <4>1
    <3> QED BY <2>1, <3>1
  <2>4. q \in 0..l - 1
    BY <2>1, <2>2, <2>3
  <2> QED BY <2>1, <2>4 DEF q, r
<1>2. ASSUME NEW i \in 0..l - 1, NEW j \in 0..c - 1
      PROVE  /\ c * i + j \in 0..c * l - 1
             /\ (c * i + j) \div c = i /\ (c * i + j) % c = j
  <2> DEFINE p == c * i + j
             q == p \div c
             r == p % c
  <2>1. p \in Int /\ c * i >= 0 /\ c * i + c * (l - i) = c * l /\ c * (l - i) >= c /\ c * i \in Int
    <3>1. c * (l - i) = c * (l - i - 1) + c /\ c * (l - i - 1) >= 0
      OBVIOUS
    <3> QED BY <3>1
  <2>2. p \in 0..c * l - 1
    BY <2>1
  <2> HIDE DEF p
  <2>3. r \in 0..c - 1 /\ q \in Int /\ p = c * q + r
    BY <2>1, Division
  <2> HIDE DEF q, r
  <2>4. c * i + j = c * q + r
    BY <2>3 DEF p
  <2>5. i = q /\ j = r
    BY <2>3, <2>4, QuotientUnique
  <2> QED BY <2>2, <2>5 DEF p, q, r
<1> QED BY <1>1, <1>2
----------------------------------------------------------------------------
(* Drawing                                                                 *)

Measures == graphics \in Screens

Memory == [0..Reach - 1 -> Glyphs \cup {" ", "old"}]

\* Nothing outside the screen has been drawn.
Clipped(memory) == \A a \in DOMAIN memory : Outside(a) => memory[a] = "old"

LEMMA Sizes ==
  ASSUME Measures
  PROVE  /\ graphics.width \in Nat \ {0} /\ graphics.height \in Nat \ {0}
         /\ graphics.pitch \in Nat \ {0} /\ graphics.pitch >= graphics.width
         /\ FontWidth \in Nat \ {0} /\ FontHeight \in Nat \ {0}
<1>1. {FontWidth, FontHeight} \subseteq Nat \ {0}
  BY TerminalAssumption
<1>2. /\ graphics.width \in Nat \ {0} /\ graphics.height \in Nat \ {0}
      /\ graphics.pitch \in Nat /\ graphics.pitch >= graphics.width
  BY TerminalAssumption DEF Measures
<1> QED BY <1>1, <1>2

\* A row and a column of the screen name one of its pixels.
LEMMA OnTheScreen ==
  ASSUME Measures, NEW v \in Nat, v < graphics.height, NEW u \in Nat, u < graphics.width,
         NEW a, a = v * graphics.pitch + u
  PROVE  ~Outside(a)
<1> DEFINE p == graphics.pitch
           h == graphics.height
<1>1. p \in Nat \ {0} /\ h \in Nat \ {0} /\ p >= graphics.width /\ graphics.width \in Nat
  BY Sizes
<1>2. h * p = p * h
  BY <1>1
<1>3. v < h
  OBVIOUS
<1> HIDE DEF p, h
<1>4. u \in 0..p - 1 /\ v \in 0..h - 1 /\ v * p = p * v /\ p * v \in Int
  BY <1>1, <1>3
<1>5. a \in Int /\ a = p * v + u
  BY <1>4 DEF p
<1> DEFINE r == a % p
           q == a \div p
<1>6. r \in 0..p - 1 /\ q \in Int /\ a = p * q + r
  BY <1>1, <1>5, Division
<1> HIDE DEF r, q
<1>7. p * v + u = p * q + r /\ p \in Nat /\ v \in Int
  BY <1>1, <1>5, <1>6
<1>8. u = r
  BY <1>1, <1>4, <1>6, <1>7, QuotientUnique
<1>9. ~(r >= graphics.width)
  BY <1>1, <1>8
<1>10. p * v + u \in 0..p * h - 1
  BY <1>1, <1>4, ReadingOrder
<1>11. p * h \in Int
  BY <1>1
<1>12. ~(a >= p * h)
  BY <1>5, <1>10, <1>11
<1>13. End = p * h
  BY <1>2 DEF End, h, p
<1> QED BY <1>9, <1>12, <1>13 DEF Outside, r, p

\* What is drawn lies on the screen.
LEMMA DrawnOnScreen ==
  ASSUME Measures, NEW y \in Nat, NEW x \in Nat, NEW rows \in SUBSET Nat, NEW a \in Drawn(y, x, rows)
  PROVE  ~Outside(a)
<1> DEFINE row(i) == UNION {Pixel(y + i, x + j) : j \in 0..FontWidth - 1}
<1>1. PICK S \in {row(i) : i \in rows} : a \in S
  BY DEF Drawn
<1>2. PICK i \in rows : a \in row(i)
  BY <1>1
<1>3. PICK S1 \in {Pixel(y + i, x + j) : j \in 0..FontWidth - 1} : a \in S1
  BY <1>2
<1>4. PICK j \in 0..FontWidth - 1 : a \in Pixel(y + i, x + j)
  BY <1>3
<1>5. y + i \in Nat /\ x + j \in Nat
  BY Sizes
<1>6. /\ y + i < graphics.height /\ x + j < graphics.width
      /\ a = (y + i) * graphics.pitch + (x + j)
  BY <1>4 DEF Pixel
<1> QED BY <1>5, <1>6, OnTheScreen

LEMMA DrawClipped ==
  ASSUME Measures, NEW memory \in Memory, Clipped(memory), NEW y \in Nat, NEW x \in Nat,
         NEW c \in Glyphs \cup {" "}, NEW rows \in SUBSET Nat
  PROVE  Draw(memory, y, x, c, rows) \in Memory /\ Clipped(Draw(memory, y, x, c, rows))
<1> DEFINE drawing == Draw(memory, y, x, c, rows)
           addresses == 0..Reach - 1
<1>1. drawing = [a \in DOMAIN memory |-> IF a \in Drawn(y, x, rows) THEN c ELSE memory[a]]
  BY DEF Draw
<1>2. Memory = [addresses -> Glyphs \cup {" ", "old"}]
  BY DEF Memory
<1>3. \A a \in Drawn(y, x, rows) : ~Outside(a)
  BY DrawnOnScreen
<1> HIDE DEF drawing, addresses
<1>4. drawing \in Memory
  BY <1>1, <1>2
<1>5. ASSUME NEW a \in DOMAIN drawing, Outside(a)
      PROVE  drawing[a] = "old"
  <2>1. a \in DOMAIN memory
    BY <1>1
  <2>2. a \notin Drawn(y, x, rows)
    BY <1>3, <1>5, Zenon
  <2> QED BY <1>1, <1>5, <2>1, <2>2 DEF Clipped
<1> QED BY <1>4, <1>5 DEF Clipped, drawing
----------------------------------------------------------------------------
(* Calls                                                                   *)

\* A cursor on the screen or at its edge, and on a screen of whole cells at a corner.
OnCell(y, x) ==
  /\ x \in 0..graphics.width /\ y \in 0..graphics.height
  /\ Aligned => Multiple(x, FontWidth) /\ Multiple(y, FontHeight)

Sound == {t \in [memory : Memory, y : 0..graphics.height, x : 0..graphics.width] :
            Clipped(t.memory) /\ OnCell(t.y, t.x)}

LEMMA AlignedSizes ==
  ASSUME Measures, Aligned
  PROVE  Multiple(graphics.width, FontWidth) /\ Multiple(graphics.height, FontHeight)
BY Sizes, OfMultiple DEF Aligned

LEMMA Moved ==
  ASSUME Measures, NEW t \in Sound, NEW down \in Int, NEW right \in Int
  PROVE  MoveCursor(t, down, right) \in Sound
<1> DEFINE new_x == t.x + right * FontWidth
           d == FloorDiv(new_x, graphics.width)
           new_y == t.y + (down + d) * FontHeight
           fx == FloorMod(new_x, graphics.width)
           fy == FloorMod(new_y, graphics.height)
<1>1. /\ t.x \in Int /\ t.y \in Int /\ t.memory \in Memory /\ Clipped(t.memory) /\ OnCell(t.y, t.x)
      /\ t = [memory |-> t.memory, y |-> t.y, x |-> t.x]
  BY DEF Sound, OnCell
<1>2. new_x \in Int
  BY <1>1, Sizes
<1> HIDE DEF new_x
<1>3. fx \in 0..graphics.width - 1 /\ d \in Int
  BY <1>2, Sizes, Floored
<1> HIDE DEF fx, d
<1>4. new_y \in Int
  BY <1>1, <1>3, Sizes
<1> HIDE DEF new_y
<1>5. fy \in 0..graphics.height - 1
  BY <1>4, Sizes, Floored
<1> HIDE DEF fy
<1>6. ASSUME Aligned PROVE Multiple(fx, FontWidth) /\ Multiple(fy, FontHeight)
  <2>1. Multiple(t.x, FontWidth) /\ Multiple(t.y, FontHeight)
    BY <1>1, <1>6 DEF OnCell
  <2>2. Multiple(new_x, FontWidth)
    BY <1>1, <2>1, Sizes, MultipleMoved DEF new_x
  <2>3. Multiple(new_y, FontHeight)
    <3>1. down + d \in Int BY <1>3
    <3> QED BY <1>1, <2>1, <3>1, Sizes, MultipleMoved DEF new_y
  <2> QED BY <1>2, <1>4, <1>6, <2>2, <2>3, AlignedSizes, Sizes, MultipleFloored DEF fx, fy
<1>7. fx \in 0..graphics.width /\ fy \in 0..graphics.height
  BY <1>3, <1>5, Sizes
<1>8. OnCell(fy, fx)
  BY <1>6, <1>7 DEF OnCell
<1>9. MoveCursor(t, down, right) = [memory |-> t.memory, y |-> fy, x |-> fx]
  <2>1. MoveCursor(t, down, right) = [t EXCEPT !.x = fx, !.y = fy]
    BY DEF MoveCursor, fx, fy, new_x, new_y, d
  <2> QED BY <1>1, <2>1
<1> QED BY <1>1, <1>7, <1>8, <1>9 DEF Sound

Characters == Glyphs \cup {" ", "\n", "\r", "\t", "back"}

LEMMA PutcharSound ==
  ASSUME Measures, NEW t \in Sound, NEW c \in Characters
  PROVE  Putchar(t, c) \in Sound
<1> DEFINE home == [t EXCEPT !.x = 0]
           put == [t EXCEPT !.memory = DrawChar(t.memory, t.y, t.x, c)]
<1>0. /\ t.x \in Nat /\ t.y \in Nat /\ t.memory \in Memory /\ Clipped(t.memory) /\ OnCell(t.y, t.x)
      /\ t = [memory |-> t.memory, y |-> t.y, x |-> t.x]
  BY DEF Sound, OnCell
<1>1. home \in Sound
  <2>1. 0 \in 0..graphics.width /\ Multiple(0, FontWidth)
    BY Sizes DEF Multiple
  <2>2. OnCell(t.y, 0)
    BY <1>0, <2>1 DEF OnCell
  <2>3. home = [memory |-> t.memory, y |-> t.y, x |-> 0]
    BY <1>0
  <2> HIDE DEF home
  <2> QED BY <1>0, <2>1, <2>2, <2>3 DEF Sound, OnCell
<1>2. CASE c = "\n"
  <2>1. Putchar(t, c) = MoveCursor(home, 1, 0)
    BY <1>2 DEF Putchar
  <2> HIDE DEF home
  <2> QED BY <1>1, <2>1, Moved
<1>3. CASE c = "\r"
  <2>1. Putchar(t, c) = home
    BY <1>3 DEF Putchar
  <2> QED BY <1>1, <2>1
<1>4. CASE c = "\t"
  <2> DEFINE column == t.x \div FontWidth
             n == TabStop(column) - column
  <2>1. column \in Int
    BY <1>0, Sizes
  <2> HIDE DEF column
  <2>2. n \in Int
    BY <2>1 DEF TabStop
  <2>3. Putchar(t, c) = MoveCursor(t, 0, n)
    BY <1>4 DEF Putchar, column
  <2> HIDE DEF n
  <2> QED BY <2>2, <2>3, Moved
<1>5. CASE c = "back"
  <2>1. Putchar(t, c) = MoveCursor(t, 0, -1)
    BY <1>5 DEF Putchar
  <2> QED BY <2>1, Moved
<1>6. CASE c \notin {"\n", "\r", "\t", "back"}
  <2>0. c \in Glyphs \cup {" "}
    BY <1>6 DEF Characters
  <2>1. 0..FontHeight - 1 \in SUBSET Nat
    BY Sizes
  <2>2. DrawChar(t.memory, t.y, t.x, c) \in Memory /\ Clipped(DrawChar(t.memory, t.y, t.x, c))
    BY <1>0, <2>0, <2>1, DrawClipped DEF DrawChar
  <2>3. put = [memory |-> DrawChar(t.memory, t.y, t.x, c), y |-> t.y, x |-> t.x]
    BY <1>0
  <2>4. put \in Sound
    BY <1>0, <2>2, <2>3 DEF Sound, OnCell
  <2>5. Putchar(t, c) = MoveCursor(put, 0, 1)
    BY <1>6 DEF Putchar
  <2> HIDE DEF put
  <2> QED BY <2>4, <2>5, Moved
<1> QED BY <1>2, <1>3, <1>4, <1>5, <1>6

\* A string is written one character after the other.
LEMMA WrittenInTurn ==
  ASSUME Measures, NEW t \in Sound, NEW str \in Seq(Characters)
  PROVE  \E f \in [0..Len(str) -> Sound] :
           /\ f[0] = t /\ Written(t, str) = f[Len(str)]
           /\ \A i \in 1..Len(str) : f[i] = Putchar(f[i - 1], str[i])
<1> DEFINE N == Len(str)
           step == [i \in 1..N |-> [u \in Sound |-> Putchar(u, str[i])]]
<1>1. N \in Nat
  OBVIOUS
<1>2. \A i \in 1..N : str[i] \in Characters
  OBVIOUS
<1>3. Closed(step, N, Sound)
  BY <1>2, PutcharSound DEF Closed
<1> HIDE DEF N, step
<1>4. PICK f \in [0..N -> Sound] : Turns(f, t, N, step)
  BY <1>1, <1>3, Iterates
<1>5. ASSUME NEW i \in 1..N PROVE step[i][f[i - 1]] = Putchar(f[i - 1], str[i])
  <2>1. f[i - 1] \in Sound BY <1>1
  <2> QED BY <2>1 DEF step
<1>6. f = [n \in 0..N |-> IF n = 0 THEN t ELSE Putchar(f[n - 1], str[n])]
  <2>1. \A i \in 0..N : i # 0 => i \in 1..N BY <1>1
  <2> QED BY <1>1, <1>4, <1>5, <2>1 DEF Turns
<1> DEFINE g == CHOOSE h : h = [n \in 0..N |-> IF n = 0 THEN t ELSE Putchar(h[n - 1], str[n])]
<1>7. g = [n \in 0..N |-> IF n = 0 THEN t ELSE Putchar(g[n - 1], str[n])]
  BY <1>6
<1>8. Written(t, str) = g[N]
  BY DEF Written, N
<1> HIDE DEF g
<1>9. \A n \in 0..N : g[n] = f[n]
  <2> SUFFICES ASSUME {n \in 0..N : g[n] # f[n]} # {} PROVE FALSE
    OBVIOUS
  <2> DEFINE Bad == {n \in 0..N : g[n] # f[n]}
             m == Min(Bad)
  <2>1. Bad \subseteq Nat /\ Bad # {}
    OBVIOUS
  <2> HIDE DEF Bad
  <2>2. m \in Bad /\ \A k \in Bad : m <= k
    BY <2>1, MinIsLeast
  <2> HIDE DEF m
  <2>3. m \in 0..N /\ g[m] # f[m]
    BY <2>2 DEF Bad
  <2>4. m # 0
    BY <1>1, <1>6, <1>7, <2>3
  <2>5. m \in 1..N /\ m - 1 \in 0..N /\ ~(m <= m - 1)
    BY <1>1, <2>3, <2>4
  <2>6. g[m - 1] = f[m - 1]
    BY <2>2, <2>5 DEF Bad
  <2> QED BY <1>6, <1>7, <2>3, <2>4, <2>6
<1>10. N \in 0..N
  BY <1>1
<1>11. f[0] = t /\ \A i \in 1..N : f[i] = Putchar(f[i - 1], str[i])
  BY <1>4, <1>5 DEF Turns
<1> QED BY <1>8, <1>9, <1>10, <1>11 DEF N

LEMMA WrittenSound ==
  ASSUME Measures, NEW t \in Sound, NEW str \in Seq(Characters)
  PROVE  Written(t, str) \in Sound
<1>1. Len(str) \in 0..Len(str)
  OBVIOUS
<1> QED BY <1>1, WrittenInTurn
----------------------------------------------------------------------------
(* The inductive invariant                                                 *)

Locals == [y : Nat, x : Nat, row : Nat, down : Int, right : Int, new : Int]

\* kmain draws glyphs, and the coordinate it is about to store is a cell's.
KmainSound ==
  /\ local \in Locals
  /\ text \in Seq(Glyphs \cup {"\n"})
  /\ at \in {"call", "read x", "read y", "draw", "move", "store x", "move y", "store y"}
  /\ at # "call" => text # <<>>
  /\ at \in {"read x", "read y", "draw"} => Head(text) \in Glyphs
  /\ Aligned /\ at = "store x" => Multiple(local.new, FontWidth)
  /\ Aligned /\ at = "store y" => Multiple(local.new, FontHeight)

TerminalInv == Measures /\ terminal \in Sound /\ KmainSound

LEMMA SoundParts ==
  TerminalInv <=>
    /\ Measures /\ KmainSound
    /\ pixels \in Memory /\ Clipped(pixels) /\ OnCell(cursor_y, cursor_x)
BY DEF TerminalInv, Sound, terminal, OnCell

LEMMA SoundUnchanged ==
  ASSUME UNCHANGED graphics
  PROVE  /\ Measures' <=> Measures
         /\ Sound' = Sound /\ Memory' = Memory
         /\ Aligned' <=> Aligned
         /\ Clipped(pixels)' <=> Clipped(pixels')
         /\ OnCell(cursor_y, cursor_x)' <=> OnCell(cursor_y', cursor_x')
BY DEF Measures, Sound, Memory, Reach, Aligned, Clipped, Outside, End, OnCell

LEMMA TerminalStart == Init => TerminalInv
<1> SUFFICES ASSUME Init PROVE TerminalInv
  OBVIOUS
<1>1. Measures
  BY DEF Init, Measures
<1>2. pixels \in Memory /\ Clipped(pixels)
  BY DEF Init, Memory, Clipped
<1>3. OnCell(cursor_y, cursor_x)
  <2>1. cursor_x = 0 /\ cursor_y = 0
    BY DEF Init
  <2>2. Multiple(0, FontWidth) /\ Multiple(0, FontHeight)
    BY <1>1, Sizes DEF Multiple
  <2> QED BY <1>1, <2>1, <2>2, Sizes DEF OnCell
<1>4. KmainSound
  <2>1. local \in Locals
    BY DEF Init, Locals
  <2>2. text \in Seq(Glyphs \cup {"\n"})
    BY TerminalAssumption DEF Init
  <2> QED BY <2>1, <2>2 DEF Init, KmainSound
<1> QED BY <1>1, <1>2, <1>3, <1>4, SoundParts
----------------------------------------------------------------------------
(* The masked writers                                                      *)

\* A call that leaves a sound terminal and kmain where it was.
LEMMA CallKeeps ==
  ASSUME TerminalInv, UNCHANGED <<graphics, kmainVars>>, terminal' \in Sound
  PROVE  TerminalInv'
<1>1. UNCHANGED <<graphics, at, text, local>>
  BY DEF kmainVars
<1>2. KmainSound'
  BY <1>1, SoundUnchanged DEF TerminalInv, KmainSound
<1> QED BY <1>1, <1>2, SoundUnchanged DEF TerminalInv

LEMMA BecomesIt == \A t \in Sound : Becomes(t) => terminal' = t
BY DEF Becomes, terminal, Sound

LEMMA StringsAreCharacters == Strings \subseteq Seq(Characters)
<1>1. \A c \in Characters : <<c>> \in Seq(Characters)
  OBVIOUS
<1>2. <<"back", " ", "back">> \in Seq(Characters)
  BY DEF Characters
<1> QED BY <1>1, <1>2 DEF Strings, Characters

LEMMA WriteKeeps ==
  ASSUME TerminalInv, NEW str \in Strings, TerminalWrite(str)
  PROVE  TerminalInv'
<1>1. Written(terminal, str) \in Sound
  BY WrittenSound, StringsAreCharacters DEF TerminalInv
<1>2. UNCHANGED <<graphics, kmainVars>> /\ Becomes(Written(terminal, str))
  BY DEF TerminalWrite, Calling
<1>3. terminal' = Written(terminal, str)
  BY <1>1, <1>2, BecomesIt
<1> QED BY <1>1, <1>2, <1>3, CallKeeps

LEMMA MoveKeeps ==
  ASSUME TerminalInv, NEW down \in Int, NEW right \in Int, TerminalMoveCursor(down, right)
  PROVE  TerminalInv'
<1>1. MoveCursor(terminal, down, right) \in Sound
  BY Moved DEF TerminalInv
<1>2. UNCHANGED <<graphics, kmainVars>> /\ Becomes(MoveCursor(terminal, down, right))
  BY DEF TerminalMoveCursor, Calling
<1>3. terminal' = MoveCursor(terminal, down, right)
  BY <1>1, <1>2, BecomesIt
<1> QED BY <1>1, <1>2, <1>3, CallKeeps

LEMMA SetPositionKeeps ==
  ASSUME TerminalInv, NEW y \in Heights, NEW x \in Widths, TerminalSetPosition(y, x)
  PROVE  TerminalInv'
<1>1. /\ UNCHANGED <<graphics, kmainVars>> /\ pixels' = pixels
      /\ IF x > graphics.width \/ y > graphics.height
         THEN UNCHANGED <<cursor_x, cursor_y>>
         ELSE cursor_x' = x /\ cursor_y' = y
  BY DEF TerminalSetPosition, Calling, cursor
<1>2. PICK i \in 0..graphics.height \div FontHeight + 1 : y = i * FontHeight
  BY DEF Heights
<1>3. PICK j \in 0..graphics.width \div FontWidth + 1 : x = j * FontWidth
  BY DEF Widths
<1>4. i \in Nat /\ j \in Nat /\ FontWidth \in Nat /\ FontHeight \in Nat
  BY Sizes DEF TerminalInv
<1>5. y \in Nat /\ x \in Nat /\ Multiple(y, FontHeight) /\ Multiple(x, FontWidth)
  <2>1. y = FontHeight * i /\ x = FontWidth * j
    BY <1>2, <1>3, <1>4
  <2> QED BY <1>4, <2>1 DEF Multiple
<1>6. graphics.width \in Nat /\ graphics.height \in Nat
  BY Sizes DEF TerminalInv
<1>7. OnCell(cursor_y', cursor_x')
  BY <1>1, <1>5, <1>6, SoundParts DEF OnCell
<1>8. terminal' \in Sound
  BY <1>1, <1>7, SoundParts DEF terminal, Sound, OnCell
<1> QED BY <1>1, <1>8, CallKeeps

LEMMA ClearKeeps ==
  ASSUME TerminalInv, TerminalClear
  PROVE  TerminalInv'
<1>1. UNCHANGED <<graphics, kmainVars>> /\ pixels' = Cleared /\ UNCHANGED <<cursor_x, cursor_y>>
  BY DEF TerminalClear, Calling, cursor
<1> DEFINE shown == {y * graphics.pitch + x : y \in 0..graphics.height - 1,
                                              x \in 0..graphics.width - 1}
<1>2. Cleared = [a \in DOMAIN pixels |-> IF a \in shown THEN " " ELSE pixels[a]]
  BY DEF Cleared
<1>3. ASSUME NEW a \in shown PROVE ~Outside(a)
  <2>1. PICK y \in 0..graphics.height - 1, x \in 0..graphics.width - 1 :
          a = y * graphics.pitch + x
    BY <1>3
  <2>2. Measures /\ y \in Nat /\ y < graphics.height /\ x \in Nat /\ x < graphics.width
    BY Sizes DEF TerminalInv
  <2> QED BY <2>1, <2>2, OnTheScreen
<1> HIDE DEF shown
<1>4. pixels \in Memory /\ Clipped(pixels)
  BY SoundParts
<1>5. Cleared \in Memory
  BY <1>2, <1>4 DEF Memory
<1>6. Clipped(Cleared)
  BY <1>2, <1>3, <1>4, Zenon DEF Clipped
<1>7. terminal' \in Sound
  BY <1>1, <1>5, <1>6, SoundParts DEF terminal, Sound, OnCell
<1> QED BY <1>1, <1>7, CallKeeps
----------------------------------------------------------------------------
(* kmain                                                                   *)

LEMMA KmainKeeps ==
  ASSUME TerminalInv, Kmain
  PROVE  TerminalInv'
<1>0. /\ Measures /\ KmainSound
      /\ pixels \in Memory /\ Clipped(pixels) /\ OnCell(cursor_y, cursor_x)
  BY SoundParts
<1>1. graphics' = graphics
  BY DEF Kmain, KmainCalls, KmainReadsOther, KmainDraws, KmainReads, KmainStores
<1>2. /\ cursor_x \in Nat /\ cursor_y \in Nat
      /\ graphics.width \in Nat \ {0} /\ graphics.height \in Nat \ {0}
      /\ FontWidth \in Nat \ {0} /\ FontHeight \in Nat \ {0}
  BY <1>0, Sizes DEF OnCell
<1>9. local \in Locals
  BY <1>0 DEF KmainSound
<1>10. /\ local.y \in Nat /\ local.x \in Nat /\ local.row \in Nat
       /\ local.down \in Int /\ local.right \in Int /\ local.new \in Int
  BY <1>9 DEF Locals
<1>11. /\ [local EXCEPT !.y = cursor_y] \in Locals
       /\ [local EXCEPT !.x = cursor_x] \in Locals
  BY <1>2, <1>9 DEF Locals
<1>3. Multiple(0, FontWidth)
  BY <1>2 DEF Multiple
<1>4. (TerminalInv <=>
         /\ Measures /\ KmainSound
         /\ pixels \in Memory /\ Clipped(pixels) /\ OnCell(cursor_y, cursor_x))'
  BY SoundParts, PTL
<1>5. CASE KmainCalls
  <2>1. UNCHANGED <<pixels, cursor_y, text>> /\ text # <<>>
        /\ text \in Seq(Glyphs \cup {"\n"})
    BY <1>0, <1>5 DEF KmainCalls, KmainSound
  <2>2. CASE Head(text) = "\n"
    <3>1. cursor_x' = 0 /\ at' = "move" /\ local' = [local EXCEPT !.down = 1, !.right = 0]
      BY <1>5, <2>2 DEF KmainCalls
    <3>2. local' \in Locals
      <4>1. local' = [y |-> local.y, x |-> local.x, row |-> local.row, down |-> 1,
                      right |-> 0, new |-> local.new]
        BY <1>9, <3>1 DEF Locals
      <4> QED BY <1>10, <4>1 DEF Locals
    <3>3. KmainSound'
      BY <2>1, <3>1, <3>2 DEF KmainSound
    <3>4. OnCell(cursor_y', cursor_x')
      BY <1>0, <1>2, <1>3, <2>1, <3>1 DEF OnCell
    <3> QED BY <1>0, <1>1, <1>4, <2>1, <3>3, <3>4, SoundUnchanged
  <2>3. CASE Head(text) # "\n"
    <3>1. /\ cursor_x' = cursor_x
          /\ \/ at' = "read x" /\ local' = [local EXCEPT !.y = cursor_y]
             \/ at' = "read y" /\ local' = [local EXCEPT !.x = cursor_x]
      BY <1>5, <2>3 DEF KmainCalls
    <3>2. local' \in Locals
      BY <1>9, <1>11, <3>1
    <3>3. Head(text) \in Glyphs
      <4>1. Head(text) \in Glyphs \cup {"\n"}
        BY <2>1
      <4> QED BY <2>3, <4>1
    <3>4. KmainSound'
      BY <2>1, <3>1, <3>2, <3>3 DEF KmainSound
    <3> QED BY <1>0, <1>1, <1>4, <2>1, <3>1, <3>4, SoundUnchanged
  <2> QED BY <2>2, <2>3
<1>12. CASE KmainReadsOther
  <2>1. /\ UNCHANGED <<pixels, cursor_x, cursor_y, text>> /\ at' = "draw"
        /\ \/ at = "read x" /\ local' = [local EXCEPT !.x = cursor_x]
           \/ at = "read y" /\ local' = [local EXCEPT !.y = cursor_y]
    BY <1>12 DEF KmainReadsOther, cursor
  <2>2. local' \in Locals
    BY <1>9, <1>11, <2>1
  <2>3. KmainSound'
    BY <1>0, <2>1, <2>2 DEF KmainSound
  <2> QED BY <1>0, <1>1, <1>4, <2>1, <2>3, SoundUnchanged
<1>6. CASE KmainDraws
  <2>1. /\ at = "draw" /\ UNCHANGED <<cursor_x, cursor_y, text>>
        /\ pixels' = Draw(pixels, local.y, local.x, Head(text), {local.row})
        /\ \/ at' = "draw" /\ local' = [local EXCEPT !.row = local.row + 1]
           \/ at' = "move" /\ local' = [local EXCEPT !.down = 0, !.right = 1]
    BY <1>6 DEF KmainDraws, DrawRow, cursor
  <2>2. Head(text) \in Glyphs \cup {" "} /\ {local.row} \in SUBSET Nat
    BY <1>0, <1>10, <2>1 DEF KmainSound
  <2>3. pixels' \in Memory /\ Clipped(pixels')
    BY <1>0, <1>10, <2>1, <2>2, DrawClipped
  <2>4. local' \in Locals
    <3>1. local.row + 1 \in Nat BY <1>10
    <3>2. CASE local' = [local EXCEPT !.row = local.row + 1]
      <4>1. local' = [y |-> local.y, x |-> local.x, row |-> local.row + 1, down |-> local.down,
                      right |-> local.right, new |-> local.new]
        BY <1>9, <3>2 DEF Locals
      <4> QED BY <1>10, <3>1, <4>1 DEF Locals
    <3>3. CASE local' = [local EXCEPT !.down = 0, !.right = 1]
      <4>1. local' = [y |-> local.y, x |-> local.x, row |-> local.row, down |-> 0,
                      right |-> 1, new |-> local.new]
        BY <1>9, <3>3 DEF Locals
      <4> QED BY <1>10, <4>1 DEF Locals
    <3> QED BY <2>1, <3>2, <3>3
  <2>5. KmainSound'
    BY <1>0, <2>1, <2>4 DEF KmainSound
  <2> QED BY <1>0, <1>1, <1>4, <2>1, <2>3, <2>5, SoundUnchanged
<1>7. CASE KmainReads
  <2>1. UNCHANGED <<pixels, cursor_x, cursor_y, text>>
    BY <1>7 DEF KmainReads, cursor
  <2>2. CASE at = "move"
    <3> DEFINE n == cursor_x + local.right * FontWidth
    <3>1. at' = "store x" /\ local' = [local EXCEPT !.new = n]
      BY <1>7, <2>2 DEF KmainReads
    <3>2. n \in Int /\ (Aligned => Multiple(n, FontWidth))
      <4>1. Aligned => Multiple(cursor_x, FontWidth)
        BY <1>0 DEF OnCell
      <4>2. cursor_x \in Int /\ n \in Int
        BY <1>2, <1>10
      <4> QED BY <1>2, <1>10, <4>1, <4>2, MultipleMoved
    <3> HIDE DEF n
    <3>3. local' \in Locals /\ local'.new = n
      BY <1>9, <1>10, <3>1, <3>2 DEF Locals
    <3>4. KmainSound'
      BY <1>0, <1>1, <2>1, <2>2, <3>1, <3>2, <3>3, SoundUnchanged DEF KmainSound
    <3> QED BY <1>0, <1>1, <1>4, <2>1, <3>4, SoundUnchanged
  <2>3. CASE at = "move y"
    <3> DEFINE n == cursor_y + local.down * FontHeight
    <3>1. at' = "store y" /\ local' = [local EXCEPT !.new = n]
      BY <1>7, <2>3 DEF KmainReads
    <3>2. n \in Int /\ (Aligned => Multiple(n, FontHeight))
      <4>1. Aligned => Multiple(cursor_y, FontHeight)
        BY <1>0 DEF OnCell
      <4>2. cursor_y \in Int /\ n \in Int
        BY <1>2, <1>10
      <4> QED BY <1>2, <1>10, <4>1, <4>2, MultipleMoved
    <3> HIDE DEF n
    <3>3. local' \in Locals /\ local'.new = n
      BY <1>9, <1>10, <3>1, <3>2 DEF Locals
    <3>4. KmainSound'
      BY <1>0, <1>1, <2>1, <2>3, <3>1, <3>2, <3>3, SoundUnchanged DEF KmainSound
    <3> QED BY <1>0, <1>1, <1>4, <2>1, <3>4, SoundUnchanged
  <2> QED BY <1>7, <2>2, <2>3 DEF KmainReads
<1>8. CASE KmainStores
  <2>0. pixels' = pixels /\ local.new \in Int /\ local.down \in Int
    BY <1>8, <1>10 DEF KmainStores
  <2>1. CASE at = "store x"
    <3> DEFINE w == FloorMod(local.new, graphics.width)
               d == FloorDiv(local.new, graphics.width)
    <3>1. /\ at' = "move y" /\ cursor_x' = w /\ local' = [local EXCEPT !.down = local.down + d]
          /\ UNCHANGED <<cursor_y, text>>
      BY <1>8, <2>1 DEF KmainStores
    <3>2. w \in 0..graphics.width - 1 /\ d \in Int
      BY <1>2, <2>0, Floored
    <3>3. Aligned => Multiple(w, FontWidth)
      BY <1>0, <1>2, <2>0, <2>1, AlignedSizes, MultipleFloored DEF KmainSound
    <3> HIDE DEF w, d
    <3>4. local' \in Locals
      <4>1. local.down + d \in Int BY <1>10, <3>2
      <4>2. local' = [y |-> local.y, x |-> local.x, row |-> local.row, down |-> local.down + d,
                      right |-> local.right, new |-> local.new]
        BY <1>9, <3>1 DEF Locals
      <4> QED BY <1>10, <4>1, <4>2 DEF Locals
    <3>5. KmainSound'
      BY <1>0, <2>1, <3>1, <3>4 DEF KmainSound
    <3>6. OnCell(cursor_y', cursor_x')
      <4>1. w \in 0..graphics.width
        BY <1>2, <3>2
      <4> QED BY <1>0, <3>1, <3>3, <4>1 DEF OnCell
    <3> QED BY <1>0, <1>1, <1>4, <2>0, <3>5, <3>6, SoundUnchanged
  <2>2. CASE at = "store y"
    <3> DEFINE h == FloorMod(local.new, graphics.height)
    <3>1. /\ at' = "call" /\ cursor_y' = h /\ cursor_x' = cursor_x /\ text' = Tail(text)
          /\ local' = [y |-> 0, x |-> 0, row |-> 0, down |-> 0, right |-> 0, new |-> 0]
      BY <1>8, <2>2 DEF KmainStores
    <3>2. h \in 0..graphics.height - 1
      BY <1>2, <2>0, Floored
    <3>3. Aligned => Multiple(h, FontHeight)
      BY <1>0, <1>2, <2>0, <2>2, AlignedSizes, MultipleFloored DEF KmainSound
    <3> HIDE DEF h
    <3>4. text' \in Seq(Glyphs \cup {"\n"})
      <4>1. text \in Seq(Glyphs \cup {"\n"}) /\ text # <<>>
        BY <1>0, <2>2 DEF KmainSound
      <4> QED BY <3>1, <4>1
    <3>5. KmainSound'
      BY <3>1, <3>4 DEF KmainSound, Locals
    <3>6. OnCell(cursor_y', cursor_x')
      BY <1>0, <1>2, <3>1, <3>2, <3>3 DEF OnCell
    <3> QED BY <1>0, <1>1, <1>4, <2>0, <3>5, <3>6, SoundUnchanged
  <2> QED BY <1>8, <2>1, <2>2 DEF KmainStores
<1> QED BY <1>5, <1>6, <1>7, <1>8, <1>12 DEF Kmain
----------------------------------------------------------------------------
LEMMA TerminalStep == TerminalInv /\ [Next]_vars => TerminalInv'
<1> SUFFICES ASSUME TerminalInv, [Next]_vars PROVE TerminalInv'
  OBVIOUS
<1>1. CASE Masked
  <2>1. \A d \in {<<-1, 0>>, <<1, 0>>, <<0, -1>>, <<0, 1>>} : d[1] \in Int /\ d[2] \in Int
    OBVIOUS
  <2> QED BY <1>1, <2>1, WriteKeeps, MoveKeeps, SetPositionKeeps, ClearKeeps DEF Masked
<1>2. CASE Kmain
  BY <1>2, KmainKeeps
<1>3. CASE UNCHANGED vars
  <2>1. UNCHANGED <<graphics, kmainVars, pixels, cursor_x, cursor_y>>
    BY <1>3 DEF vars, cursor
  <2>2. terminal' \in Sound
    BY <2>1 DEF TerminalInv, terminal
  <2> QED BY <2>1, <2>2, CallKeeps
<1> QED BY <1>1, <1>2, <1>3 DEF Next

\* The terminal and kmain's call in it stay sound, whatever interrupts what.
THEOREM TerminalInvariance == Spec => []TerminalInv
<1>1. Init => TerminalInv
  BY TerminalStart
<1>2. TerminalInv /\ [Next]_vars => TerminalInv'
  BY TerminalStep
<1> QED BY <1>1, <1>2, PTL DEF Spec

\* The cursor is on the screen or at its edge, and at the corner of a cell of a screen
\* of whole cells: terminal_move_cursor and terminal_set_position, and kmain
\* interrupted in the first.
THEOREM CursorStaysOnCell == Spec => []CursorOnCell
<1>1. TerminalInv => CursorOnCell
  <2> SUFFICES ASSUME TerminalInv PROVE CursorOnCell
    OBVIOUS
  <2>1. OnCell(cursor_y, cursor_x) /\ FontWidth \in Nat \ {0} /\ FontHeight \in Nat \ {0}
    BY SoundParts, Sizes
  <2>2. cursor_x \in Int /\ cursor_y \in Int
    BY <2>1 DEF OnCell
  <2>3. Aligned => cursor_x % FontWidth = 0 /\ cursor_y % FontHeight = 0
    BY <2>1, <2>2, OfMultiple DEF OnCell
  <2> QED BY <2>1, <2>3 DEF OnCell, CursorOnCell
<1> QED BY <1>1, TerminalInvariance, PTL

\* No glyph is drawn beside the screen: put_pixel cuts it off.
THEOREM GlyphsStayClipped == Spec => []GlyphsClipped
<1>1. TerminalInv => GlyphsClipped
  BY SoundParts DEF Clipped, GlyphsClipped
<1> QED BY <1>1, TerminalInvariance, PTL
----------------------------------------------------------------------------
(* The grid of characters.  A terminal at cell p is `Placed` there; what   *)
(* moves, draws and clears is first shown of a terminal at a cell.         *)

LEMMA Cells ==
  ASSUME Measures, Aligned
  PROVE  /\ columns \in Nat \ {0} /\ lines \in Nat \ {0}
         /\ graphics.width = FontWidth * columns /\ graphics.height = FontHeight * lines
<1>1. ASSUME NEW a \in Nat \ {0}, NEW b \in Nat \ {0}, a % b = 0
      PROVE  a \div b \in Nat \ {0} /\ a = b * (a \div b)
  <2> DEFINE q == a \div b
  <2>1. q \in Int /\ a = b * q
    BY <1>1, Division
  <2> HIDE DEF q
  <2>2. ~(q <= 0)
    <3> SUFFICES ASSUME q <= 0 PROVE FALSE
      OBVIOUS
    <3>1. b * (0 - q) >= 0
      BY <2>1
    <3> QED BY <2>1, <3>1
  <2>3. q \in Nat \ {0}
    BY <2>1, <2>2
  <2> QED BY <2>1, <2>3 DEF q
<1> QED BY <1>1, Sizes DEF Aligned, columns, lines

\* Pixels and cells are floored alike.
LEMMA CellsFloored ==
  ASSUME NEW w \in Nat \ {0}, NEW c \in Nat \ {0}, NEW k \in Int
  PROVE  /\ FloorDiv(w * k, w * c) = FloorDiv(k, c)
         /\ FloorMod(w * k, w * c) = w * FloorMod(k, c)
<1> DEFINE q == FloorDiv(k, c)
           m == FloorMod(k, c)
           d == FloorDiv(w * k, w * c)
           n == FloorMod(w * k, w * c)
<1>1. m \in 0..c - 1 /\ q \in Int /\ k = c * q + m
  BY Floored
<1>2. w * k \in Int /\ w * c \in Nat \ {0}
  OBVIOUS
<1>3. n \in 0..w * c - 1 /\ d \in Int /\ w * k = (w * c) * d + n
  <2>1. \A a \in Int, b \in Nat \ {0} :
          FloorMod(a, b) \in 0..b - 1 /\ FloorDiv(a, b) \in Int /\ a = b * FloorDiv(a, b) + FloorMod(a, b)
    BY Floored
  <2> QED BY <1>2, <2>1
<1> HIDE DEF q, m, d, n
<1>4. w * k = (w * c) * q + w * m
  <2>1. w * (c * q + m) = w * (c * q) + w * m /\ w * (c * q) = (w * c) * q
    BY <1>1
  <2> QED BY <1>1, <2>1
<1>5. w * m \in 0..w * c - 1
  <2>1. w * m >= 0 /\ w * (c - 1 - m) >= 0 /\ w * m + w * (c - 1 - m) + w = w * c
    BY <1>1
  <2>2. w * m \in Int /\ w * (c - 1 - m) \in Int /\ w * c \in Int
    BY <1>1
  <2> QED BY <2>1, <2>2
<1>6. (w * c) * q + w * m = (w * c) * d + n
  BY <1>3, <1>4
<1> DEFINE p == w * c
           x == w * m
<1>7. p \in Nat /\ x \in 0..p - 1 /\ n \in 0..p - 1 /\ p * q + x = p * d + n
  BY <1>2, <1>3, <1>5, <1>6
<1> HIDE DEF p, x
<1>8. q = d /\ x = n
  BY <1>1, <1>3, <1>7, QuotientUnique
<1> QED BY <1>8 DEF q, m, d, n, x

LEMMA RemainderIs ==
  ASSUME NEW a \in Int, NEW b \in Nat \ {0}, NEW z \in Int, NEW x \in 0..b - 1, a = b * z + x
  PROVE  a % b = x /\ a \div b = z
<1> DEFINE q == a \div b
           r == a % b
<1>1. r \in 0..b - 1 /\ q \in Int /\ a = b * q + r
  BY Division
<1> HIDE DEF q, r
<1>2. b * z + x = b * q + r /\ b \in Nat
  BY <1>1
<1>3. z = q /\ x = r
  BY <1>1, <1>2, QuotientUnique
<1> QED BY <1>3 DEF q, r

\* The cursor is at the corner of cell p.
Placed(t, p) ==
  /\ t \in [memory : Memory, y : Nat, x : Nat]
  /\ p \in 0..columns * lines - 1
  /\ t.y = FontHeight * (p \div columns) /\ t.x = FontWidth * (p % columns)

\* The cell n after p, round the screen.
Onward(p, n) == (p + n) % (columns * lines)

\* terminal_move_cursor counts cells in reading order, wrapping both ways.
LEMMA MovedOnward ==
  ASSUME Measures, Aligned, NEW t, NEW p, Placed(t, p), NEW down \in Int, NEW right \in Int
  PROVE  /\ Placed(MoveCursor(t, down, right), Onward(p, down * columns + right))
         /\ MoveCursor(t, down, right).memory = t.memory
<1> DEFINE C == columns
           L == lines
           W == FontWidth
           H == FontHeight
           i == p \div C
           j == p % C
           q == FloorDiv(j + right, C)
           m == FloorMod(j + right, C)
           z == FloorDiv(i + (down + q), L)
           n == FloorMod(i + (down + q), L)
           new_x == t.x + right * W
           new_y == t.y + (down + q) * H
<1>1. /\ C \in Nat \ {0} /\ L \in Nat \ {0} /\ W \in Nat \ {0} /\ H \in Nat \ {0}
      /\ graphics.width = W * C /\ graphics.height = H * L
  BY Cells, Sizes
<1>2. /\ t.memory \in Memory /\ t.y = H * i /\ t.x = W * j
      /\ t = [memory |-> t.memory, y |-> t.y, x |-> t.x]
      /\ p \in 0..C * L - 1
  BY DEF Placed
<1>3. MoveCursor(t, down, right) =
        [t EXCEPT !.x = FloorMod(new_x, graphics.width),
                  !.y = FloorMod(t.y + (down + FloorDiv(new_x, graphics.width)) * H, graphics.height)]
  BY DEF MoveCursor
<1> HIDE DEF C, L, W, H
<1>4. i \in 0..L - 1 /\ j \in 0..C - 1 /\ p = C * i + j
  BY <1>1, <1>2, ReadingOrder
<1> HIDE DEF i, j
<1>5. j + right \in Int /\ i \in Int /\ j \in Int
  BY <1>1, <1>4
<1>6. q \in Int /\ m \in 0..C - 1 /\ j + right = C * q + m
  BY <1>1, <1>5, Floored
<1>7. new_x = W * (j + right)
  BY <1>1, <1>2, <1>5
<1> HIDE DEF new_x
<1>8. FloorDiv(new_x, graphics.width) = q /\ FloorMod(new_x, graphics.width) = W * m
  <2>1. \A k \in Int : FloorDiv(W * k, W * C) = FloorDiv(k, C) /\ FloorMod(W * k, W * C) = W * FloorMod(k, C)
    BY <1>1, CellsFloored
  <2> QED BY <1>1, <1>5, <1>7, <2>1
<1> HIDE DEF q, m
<1>9. i + (down + q) \in Int
  BY <1>5, <1>6
<1>10. z \in Int /\ n \in 0..L - 1 /\ i + (down + q) = L * z + n
  BY <1>1, <1>9, Floored
<1>11. new_y = H * (i + (down + q))
  BY <1>1, <1>2, <1>5, <1>6
<1>12. FloorMod(new_y, graphics.height) = H * n
  BY <1>1, <1>9, <1>11, CellsFloored
<1> HIDE DEF z, n
<1>13. MoveCursor(t, down, right) = [memory |-> t.memory, y |-> H * n, x |-> W * m]
  BY <1>2, <1>3, <1>8, <1>12
<1> HIDE DEF new_y
<1>14. p + (down * C + right) = (C * L) * z + (C * n + m)
  <2>1. p + (down * C + right) = C * (i + down) + (j + right)
    BY <1>1, <1>4, <1>5
  <2>2. C * (i + down) + (C * q + m) = C * (i + (down + q)) + m
    BY <1>1, <1>5, <1>6
  <2>3. C * (L * z + n) = (C * L) * z + C * n
    <3>1. C * (L * z + n) = C * (L * z) + C * n /\ C * (L * z) = (C * L) * z
      BY <1>1, <1>10
    <3> QED BY <3>1
  <2>4. C * n \in Int /\ (C * L) * z \in Int /\ m \in Int
    BY <1>1, <1>6, <1>10
  <2> QED BY <1>6, <1>10, <2>1, <2>2, <2>3, <2>4
<1>15. C * n + m \in 0..C * L - 1 /\ (C * n + m) \div C = n /\ (C * n + m) % C = m
  BY <1>1, <1>6, <1>10, ReadingOrder
<1>16. C * L \in Nat \ {0} /\ p + (down * C + right) \in Int
  <2>1. C * L \in Nat
    BY <1>1
  <2>2. 0 \in 0..L - 1 /\ C * 0 + m >= 0 /\ C * 0 + m \in 0..C * L - 1
    BY <1>1, <1>6, ReadingOrder
  <2>3. C * L # 0
    BY <2>2
  <2> QED BY <1>1, <1>2, <2>1, <2>3
<1>17. (p + (down * C + right)) % (C * L) = C * n + m
  BY <1>10, <1>14, <1>15, <1>16, RemainderIs
<1>18. H * n \in Nat /\ W * m \in Nat
  BY <1>1, <1>6, <1>10
<1> DEFINE u == [memory |-> t.memory, y |-> H * n, x |-> W * m]
<1>19. u \in [memory : Memory, y : Nat, x : Nat] /\ u.y = H * n /\ u.x = W * m /\ u.memory = t.memory
  BY <1>2, <1>18
<1> HIDE DEF u
<1>20. Onward(p, down * columns + right) = C * n + m
  BY <1>17 DEF Onward, C, L
<1>21. Placed(u, C * n + m)
  BY <1>15, <1>19 DEF Placed, C, L, W, H
<1> QED BY <1>13, <1>19, <1>20, <1>21 DEF u

\* Where a terminal at cell p is, in the grid.
LEMMA PlacedAt ==
  ASSUME Measures, Aligned, NEW t, NEW p, Placed(t, p)
  PROVE  (t.y \div FontHeight) * columns + t.x \div FontWidth = p
<1>1. /\ columns \in Nat \ {0} /\ lines \in Nat \ {0}
      /\ FontWidth \in Nat \ {0} /\ FontHeight \in Nat \ {0}
  BY Cells, Sizes
<1>2. /\ p \div columns \in 0..lines - 1 /\ p % columns \in 0..columns - 1
      /\ p = columns * (p \div columns) + (p % columns)
  BY <1>1, ReadingOrder DEF Placed
<1>3. ASSUME NEW w \in Nat \ {0}, NEW k \in Nat PROVE (w * k) \div w = k
  <2>1. w * k \in Int /\ 0 \in 0..w - 1 /\ w * k = w * k + 0
    BY <1>3
  <2> QED BY <2>1, RemainderIs
<1>4. p \div columns \in Nat /\ p % columns \in Nat
  BY <1>1, <1>2
<1>5. t.y \div FontHeight = p \div columns /\ t.x \div FontWidth = p % columns
  BY <1>1, <1>3, <1>4 DEF Placed
<1>6. (p \div columns) * columns = columns * (p \div columns)
  BY <1>1, <1>4
<1> QED BY <1>2, <1>5, <1>6
----------------------------------------------------------------------------
(* What the cells show                                                     *)

\* The address of pixel j of row i of cell p, what is seen there, what shown.
Spot(p, i, j) ==
  ((p \div columns) * FontHeight + i) * graphics.pitch + (p % columns) * FontWidth + j

Spots(p) == {Spot(p, i, j) : i \in 0..FontHeight - 1, j \in 0..FontWidth - 1}

Seen(memory, p) == {memory[Spot(p, i, j)] : i \in 0..FontHeight - 1, j \in 0..FontWidth - 1}

ShownAt(memory, p) ==
  LET seen == Seen(memory, p)
  IN  IF seen = {c \in seen : seen = {c}} THEN CHOOSE c \in seen : TRUE ELSE "mixed"

LEMMA CellShows == \A p : Cell(p) = ShownAt(pixels, p)
BY DEF Cell, ShownAt, Seen, Spot

\* A cell is on the screen, and no pixel is in two.
LEMMA SpotsApart ==
  ASSUME Measures, Aligned, NEW p \in 0..columns * lines - 1,
         NEW i \in 0..FontHeight - 1, NEW j \in 0..FontWidth - 1
  PROVE  /\ Spot(p, i, j) \in 0..graphics.height * graphics.pitch - 1
         /\ (p \div columns) * FontHeight + i \in 0..graphics.height - 1
         /\ (p % columns) * FontWidth + j \in 0..graphics.width - 1
         /\ \A q \in 0..columns * lines - 1, k \in 0..FontHeight - 1, l \in 0..FontWidth - 1 :
              Spot(p, i, j) = Spot(q, k, l) => p = q
<1> DEFINE P == graphics.pitch
           W == FontWidth
           H == FontHeight
           C == columns
           L == lines
           row(q, k) == (q \div C) * H + k
           col(q, l) == (q % C) * W + l
<1>1. /\ C \in Nat \ {0} /\ L \in Nat \ {0} /\ W \in Nat \ {0} /\ H \in Nat \ {0} /\ P \in Nat \ {0}
      /\ graphics.width = W * C /\ graphics.height = H * L /\ P >= W * C
  <2>1. graphics.width = FontWidth * columns /\ graphics.pitch >= graphics.width
    BY Cells, Sizes
  <2> QED BY <2>1, Cells, Sizes
<1>2. \A q, k, l : Spot(q, k, l) = row(q, k) * P + (q % C) * W + l
  BY DEF Spot
<1> HIDE DEF C, L, W, H, P
\* A digit below n, and one of w * a in base w, make one below w * n.
<1>3. ASSUME NEW w \in Nat \ {0}, NEW n \in Nat \ {0}, NEW a \in 0..n - 1, NEW b \in 0..w - 1
      PROVE  a * w + b \in 0..w * n - 1 /\ a * w + b = w * a + b
  <2>1. w * a + b \in 0..w * n - 1
    BY <1>3, ReadingOrder
  <2>2. a * w = w * a
    BY <1>3
  <2> QED BY <2>1, <2>2
<1>4. ASSUME NEW q \in 0..C * L - 1, NEW k \in 0..H - 1, NEW l \in 0..W - 1
      PROVE  /\ row(q, k) \in 0..H * L - 1 /\ col(q, l) \in 0..W * C - 1 /\ col(q, l) \in 0..P - 1
             /\ row(q, k) = H * (q \div C) + k /\ col(q, l) = W * (q % C) + l
             /\ Spot(q, k, l) = P * row(q, k) + col(q, l)
             /\ q \div C \in Int /\ q % C \in Int /\ q = C * (q \div C) + (q % C)
  <2>1. q \div C \in 0..L - 1 /\ q % C \in 0..C - 1 /\ q = C * (q \div C) + (q % C)
    BY <1>1, ReadingOrder
  <2>2. row(q, k) \in 0..H * L - 1 /\ row(q, k) = H * (q \div C) + k
    BY <1>1, <1>3, <2>1
  <2>3. col(q, l) \in 0..W * C - 1 /\ col(q, l) = W * (q % C) + l
    BY <1>1, <1>3, <2>1
  <2>4. Spot(q, k, l) = row(q, k) * P + (q % C) * W + l
    BY <1>2
  <2>5. (q % C) * W \in Int /\ l \in Int /\ col(q, l) = (q % C) * W + l
    BY <1>1, <2>1
  <2> DEFINE u == row(q, k)
             v == col(q, l)
  <2>6. u \in Int /\ u * P = P * u /\ u * P \in Int
    BY <1>1, <2>2
  <2> HIDE DEF u, v, row, col
  <2>7. Spot(q, k, l) = u * P + v
    <3>1. Spot(q, k, l) = u * P + (q % C) * W + l
      BY <2>4 DEF u
    <3>2. v = (q % C) * W + l
      BY <2>5 DEF v
    <3> QED BY <2>5, <2>6, <3>1, <3>2
  <2>8. Spot(q, k, l) = P * u + v
    BY <2>6, <2>7
  <2>9. W * C \in Int /\ v \in 0..W * C - 1
    BY <1>1, <2>3 DEF v
  <2>10. v \in 0..P - 1
    BY <1>1, <2>9
  <2> QED BY <2>1, <2>2, <2>3, <2>8, <2>10 DEF u, v
<1> HIDE DEF row, col
<1>5. p \in 0..C * L - 1 /\ i \in 0..H - 1 /\ j \in 0..W - 1
  BY DEF C, L, H, W
<1>6. H * L \in Nat \ {0}
  <2>1. H * L \in Nat
    BY <1>1
  <2>2. row(p, i) \in 0..H * L - 1
    BY <1>4, <1>5
  <2> QED BY <2>1, <2>2
<1>7. P * row(p, i) + col(p, j) \in 0..P * (H * L) - 1
  <2>1. \A n \in Nat \ {0} : \A a \in 0..n - 1, b \in 0..P - 1 : P * a + b \in 0..P * n - 1
    BY <1>1, ReadingOrder
  <2> QED BY <1>4, <1>5, <1>6, <2>1
<1>8. ASSUME NEW q \in 0..C * L - 1, NEW k \in 0..H - 1, NEW l \in 0..W - 1,
             Spot(p, i, j) = Spot(q, k, l)
      PROVE  p = q
  <2> DEFINE a == row(p, i)
             b == row(q, k)
             c == col(p, j)
             d == col(q, l)
  <2>1. /\ a \in Int /\ b \in Int /\ c \in 0..P - 1 /\ d \in 0..P - 1
        /\ P * a + c = P * b + d
    BY <1>4, <1>5, <1>8
  <2> HIDE DEF a, b, c, d
  <2>2. a = b /\ c = d
    BY <1>1, <2>1, QuotientUnique
  <2>3. /\ H * (p \div C) + i = H * (q \div C) + k
        /\ W * (p % C) + j = W * (q % C) + l
    BY <1>4, <1>5, <2>2 DEF a, b, c, d
  <2>4. p \div C = q \div C
    <3>1. \A x, y \in Int : H * x + i = H * y + k => x = y
      BY <1>1, <1>5, QuotientUnique
    <3> QED BY <1>4, <1>5, <2>3, <3>1
  <2>5. p % C = q % C
    <3>1. \A x, y \in Int : W * x + j = W * y + l => x = y
      BY <1>1, <1>5, QuotientUnique
    <3> QED BY <1>4, <1>5, <2>3, <3>1
  <2> QED BY <1>4, <1>5, <2>4, <2>5
<1>9. Spot(p, i, j) \in 0..graphics.height * graphics.pitch - 1
  <2>1. P * (H * L) = (H * L) * P
    BY <1>1, <1>6
  <2>2. graphics.height * graphics.pitch = (H * L) * P
    BY <1>1 DEF P
  <2> QED BY <1>4, <1>5, <1>7, <2>1, <2>2
<1> QED BY <1>1, <1>4, <1>5, <1>8, <1>9 DEF row, col, C, L, H, W

\* What follows the screen's memory comes after it.
LEMMA ScreenIsReached ==
  ASSUME Measures
  PROVE  0..graphics.height * graphics.pitch - 1 \subseteq 0..Reach - 1
<1> DEFINE p == graphics.pitch
           h == graphics.height
           f == FontHeight
<1>1. p \in Nat /\ h \in Nat /\ f \in Nat
  BY Sizes
<1> HIDE DEF p, h, f
<1>2. (h + f) * p = h * p + f * p /\ h * p \in Nat /\ f * p \in Nat
  BY <1>1
<1>3. 0..h * p - 1 \subseteq 0..(h + f) * p - 1
  BY <1>2
<1> QED BY <1>3 DEF Reach, p, h, f

LEMMA InSpots ==
  ASSUME NEW p, NEW a
  PROVE  a \in Spots(p) <=> \E i \in 0..FontHeight - 1, j \in 0..FontWidth - 1 : a = Spot(p, i, j)
BY DEF Spots

LEMMA DrawnSpots ==
  ASSUME Measures, Aligned, NEW t, NEW p, Placed(t, p)
  PROVE  Drawn(t.y, t.x, 0..FontHeight - 1) = Spots(p)
<1> SUFFICES ASSUME NEW a
             PROVE  a \in Drawn(t.y, t.x, 0..FontHeight - 1) <=> a \in Spots(p)
  OBVIOUS
<1> DEFINE Rows == 0..FontHeight - 1
           Cols == 0..FontWidth - 1
           row(i) == {Pixel(t.y + i, t.x + j) : j \in Cols}
<1>1. ASSUME NEW i \in Rows, NEW j \in Cols
      PROVE  Pixel(t.y + i, t.x + j) = {Spot(p, i, j)}
  <2> DEFINE y == (p \div columns) * FontHeight
             x == (p % columns) * FontWidth
  <2>1. /\ y + i \in 0..graphics.height - 1 /\ x + j \in 0..graphics.width - 1
        /\ Spot(p, i, j) = (y + i) * graphics.pitch + x + j
    BY SpotsApart DEF Placed, Spot
  <2>2. /\ columns \in Nat \ {0} /\ lines \in Nat \ {0}
        /\ FontWidth \in Nat \ {0} /\ FontHeight \in Nat \ {0}
    BY Cells, Sizes
  <2>3. p \div columns \in Int /\ p % columns \in Int
    BY <2>2, ReadingOrder DEF Placed
  <2>4. t.y = y /\ t.x = x /\ y \in Int /\ x \in Int
    BY <2>2, <2>3 DEF Placed
  <2> HIDE DEF y, x
  <2>5. y + i < graphics.height /\ x + j < graphics.width
    BY <2>1, Sizes
  <2>6. Pixel(y + i, x + j) = {(y + i) * graphics.pitch + (x + j)}
    BY <2>5 DEF Pixel
  <2> DEFINE z == (y + i) * graphics.pitch
  <2>7. z \in Int
    BY <2>4, Sizes
  <2> HIDE DEF z
  <2>8. z + (x + j) = z + x + j
    BY <2>4, <2>7
  <2> QED BY <2>1, <2>4, <2>6, <2>8 DEF z
<1>2. a \in Drawn(t.y, t.x, Rows) <=> \E i \in Rows : a \in UNION row(i)
  BY DEF Drawn
<1>3. ASSUME NEW i \in Rows
      PROVE  a \in UNION row(i) <=> \E j \in Cols : a \in Pixel(t.y + i, t.x + j)
  OBVIOUS
<1> HIDE DEF row, Rows, Cols
<1>4. ASSUME NEW i \in Rows PROVE a \in UNION row(i) <=> \E j \in Cols : a = Spot(p, i, j)
  BY <1>1, <1>3
<1>5. a \in Drawn(t.y, t.x, Rows) <=> \E i \in Rows : \E j \in Cols : a = Spot(p, i, j)
  BY <1>2, <1>4
<1> QED BY <1>5 DEF Rows, Cols, Spots

\* A cell whose pixels are all of one character shows it.
LEMMA OneCharacter ==
  ASSUME Measures, NEW memory, NEW p, NEW c,
         \A i \in 0..FontHeight - 1, j \in 0..FontWidth - 1 : memory[Spot(p, i, j)] = c
  PROVE  ShownAt(memory, p) = c
<1>1. 0 \in 0..FontHeight - 1 /\ 0 \in 0..FontWidth - 1
  BY Sizes
<1>2. Seen(memory, p) = {c}
  BY <1>1 DEF Seen
<1>3. {c} = {d \in {c} : {c} = {d}} /\ (CHOOSE d \in {c} : TRUE) = c
  OBVIOUS
<1> QED BY <1>2, <1>3 DEF ShownAt

\* What a cell shows depends on its own pixels only.
LEMMA SeenAlike ==
  ASSUME NEW memory, NEW other, NEW p,
         \A i \in 0..FontHeight - 1, j \in 0..FontWidth - 1 : memory[Spot(p, i, j)] = other[Spot(p, i, j)]
  PROVE  ShownAt(memory, p) = ShownAt(other, p)
<1>1. Seen(memory, p) = Seen(other, p)
  <2> DEFINE of(m, i, j) == m[Spot(p, i, j)]
  <2>1. \A i \in 0..FontHeight - 1, j \in 0..FontWidth - 1 : of(memory, i, j) = of(other, i, j)
    OBVIOUS
  <2>2. /\ Seen(memory, p) = {of(memory, i, j) : i \in 0..FontHeight - 1, j \in 0..FontWidth - 1}
        /\ Seen(other, p) = {of(other, i, j) : i \in 0..FontHeight - 1, j \in 0..FontWidth - 1}
    BY DEF Seen
  <2> HIDE DEF of
  <2> QED BY <2>1, <2>2
<1> DEFINE shown(seen) == IF seen = {c \in seen : seen = {c}} THEN CHOOSE c \in seen : TRUE ELSE "mixed"
<1>2. ShownAt(memory, p) = shown(Seen(memory, p)) /\ ShownAt(other, p) = shown(Seen(other, p))
  BY DEF ShownAt
<1> HIDE DEF shown
<1> QED BY <1>1, <1>2

Printable == Glyphs \cup {" "}

\* A character drawn at cell p is what p shows, and no other cell changes.
LEMMA PutShows ==
  ASSUME Measures, Aligned, NEW t, NEW p, Placed(t, p), NEW c \in Printable,
         NEW after, after = DrawChar(t.memory, t.y, t.x, c)
  PROVE  /\ after \in Memory
         /\ \A q \in 0..columns * lines - 1 :
              ShownAt(after, q) = IF q = p THEN c ELSE ShownAt(t.memory, q)
<1> DEFINE drawn == Drawn(t.y, t.x, 0..FontHeight - 1)
           addresses == 0..Reach - 1
<1>1. /\ t.memory \in [addresses -> Glyphs \cup {" ", "old"}]
      /\ Memory = [addresses -> Glyphs \cup {" ", "old"}]
      /\ p \in 0..columns * lines - 1
  BY DEF Placed, Memory
<1>2. after = [a \in addresses |-> IF a \in drawn THEN c ELSE t.memory[a]]
  BY <1>1 DEF DrawChar, Draw
<1>3. ASSUME NEW a
      PROVE  a \in drawn <=> \E i \in 0..FontHeight - 1, j \in 0..FontWidth - 1 : a = Spot(p, i, j)
  <2>1. drawn = Spots(p)
    BY DrawnSpots
  <2> QED BY <2>1, InSpots
<1>4. \A q \in 0..columns * lines - 1, i \in 0..FontHeight - 1, j \in 0..FontWidth - 1 :
        Spot(q, i, j) \in addresses
  BY SpotsApart, ScreenIsReached
<1> HIDE DEF drawn, addresses
<1>5. after \in Memory
  BY <1>1, <1>2 DEF Printable
<1>6. ShownAt(after, p) = c
  <2>1. p \in 0..columns * lines - 1
    BY DEF Placed
  <2>2. ASSUME NEW i \in 0..FontHeight - 1, NEW j \in 0..FontWidth - 1
        PROVE  after[Spot(p, i, j)] = c
    <3>1. Spot(p, i, j) \in addresses /\ Spot(p, i, j) \in drawn
      BY <1>3, <1>4, <2>1
    <3> QED BY <1>2, <3>1
  <2> QED BY <2>2, OneCharacter
<1>7. ASSUME NEW q \in 0..columns * lines - 1, q # p
      PROVE  ShownAt(after, q) = ShownAt(t.memory, q)
  <2>1. ASSUME NEW i \in 0..FontHeight - 1, NEW j \in 0..FontWidth - 1
        PROVE  after[Spot(q, i, j)] = t.memory[Spot(q, i, j)]
    <3>1. Spot(q, i, j) \notin drawn
      <4>1. ASSUME NEW k \in 0..FontHeight - 1, NEW l \in 0..FontWidth - 1
            PROVE  Spot(q, i, j) # Spot(p, k, l)
        <5>1. p \in 0..columns * lines - 1
          BY DEF Placed
        <5> QED BY <1>7, <5>1, SpotsApart
      <4> QED BY <1>3, <4>1
    <3> QED BY <1>2, <1>4, <3>1
  <2> QED BY <2>1, SeenAlike
<1> QED BY <1>5, <1>6, <1>7

LEMMA ClearShows ==
  ASSUME Measures, Aligned, pixels \in Memory, NEW p \in 0..columns * lines - 1
  PROVE  ShownAt(Cleared, p) = " "
<1> DEFINE shown == {y * graphics.pitch + x : y \in 0..graphics.height - 1,
                                              x \in 0..graphics.width - 1}
<1>1. Cleared = [a \in DOMAIN pixels |-> IF a \in shown THEN " " ELSE pixels[a]]
  BY DEF Cleared
<1>2. ASSUME NEW i \in 0..FontHeight - 1, NEW j \in 0..FontWidth - 1
      PROVE  Cleared[Spot(p, i, j)] = " "
  <2> DEFINE y == (p \div columns) * FontHeight + i
             x == (p % columns) * FontWidth + j
  <2>1. Spot(p, i, j) \in DOMAIN pixels
    BY SpotsApart, ScreenIsReached DEF Memory
  <2>2. y \in 0..graphics.height - 1 /\ x \in 0..graphics.width - 1
    BY SpotsApart
  <2>3. Spot(p, i, j) = y * graphics.pitch + x
    <3> DEFINE z == y * graphics.pitch
               v == (p % columns) * FontWidth
    <3>1. Spot(p, i, j) = z + v + j
      BY DEF Spot
    <3>2. columns \in Nat \ {0} /\ lines \in Nat \ {0} /\ FontWidth \in Nat \ {0}
      BY Cells, Sizes
    <3>3. v \in Int
      <4>1. p % columns \in Int BY <3>2, ReadingOrder
      <4> QED BY <3>2, <4>1
    <3>4. z \in Int
      <4> HIDE DEF y
      <4> QED BY <2>2, Sizes
    <3> HIDE DEF z, v, y
    <3>5. z + v + j = z + (v + j)
      BY <3>3, <3>4
    <3> QED BY <3>1, <3>5 DEF z, v
  <2> HIDE DEF y, x
  <2>4. Spot(p, i, j) \in shown
    BY <2>2, <2>3
  <2> HIDE DEF shown
  <2> QED BY <1>1, <2>1, <2>4
<1> QED BY <1>2, OneCharacter
----------------------------------------------------------------------------
(* Each call is one of the grid's                                          *)

GridPos == (cursor_y \div FontHeight) * columns + cursor_x \div FontWidth

GridCells == [p \in 0..columns * lines - 1 |-> Cell(p)]

\* On the screen, the cursor of a sound terminal is at a cell.
LEMMA OnGrid ==
  ASSUME TerminalInv, Aligned, OnScreen
  PROVE  Placed(terminal, GridPos)
<1>1. /\ Measures /\ pixels \in Memory /\ cursor_x \in Nat /\ cursor_y \in Nat
      /\ Multiple(cursor_x, FontWidth) /\ Multiple(cursor_y, FontHeight)
      /\ cursor_x < graphics.width /\ cursor_y < graphics.height
  BY SoundParts DEF OnCell, OnScreen
<1>2. /\ columns \in Nat \ {0} /\ lines \in Nat \ {0}
      /\ FontWidth \in Nat \ {0} /\ FontHeight \in Nat \ {0}
      /\ graphics.width = FontWidth * columns /\ graphics.height = FontHeight * lines
  BY <1>1, Cells, Sizes
<1>3. ASSUME NEW w \in Nat \ {0}, NEW n \in Nat \ {0}, NEW a \in Nat, Multiple(a, w), a < w * n
      PROVE  a \div w \in 0..n - 1 /\ a = w * (a \div w)
  <2>1. PICK k \in Int : a = w * k
    BY <1>3 DEF Multiple
  <2>2. a = w * k + 0 /\ 0 \in 0..w - 1 /\ a \in Int
    BY <1>3, <2>1
  <2>3. a \div w = k
    BY <1>3, <2>2, RemainderIs
  <2>4. a \in 0..w * n - 1
    BY <1>3
  <2>5. a \div w \in 0..n - 1
    BY <1>3, <2>4, ReadingOrder
  <2> QED BY <2>1, <2>3, <2>5
<1> DEFINE i == cursor_y \div FontHeight
           j == cursor_x \div FontWidth
<1>4. /\ i \in 0..lines - 1 /\ cursor_y = FontHeight * i
      /\ j \in 0..columns - 1 /\ cursor_x = FontWidth * j
  BY <1>1, <1>2, <1>3
<1>5. GridPos = i * columns + j
  BY DEF GridPos
<1> HIDE DEF i, j
<1>6. GridPos = columns * i + j
  BY <1>2, <1>4, <1>5
<1>7. GridPos \in 0..columns * lines - 1 /\ GridPos \div columns = i /\ GridPos % columns = j
  BY <1>2, <1>4, <1>6, ReadingOrder
<1> QED BY <1>1, <1>4, <1>7 DEF Placed, terminal

\* Where a call leaves the grid.
LEMMA Arrives ==
  ASSUME Measures, Aligned, graphics' = graphics, NEW u, NEW p, Placed(u, p), Becomes(u)
  PROVE  /\ GridPos' = p /\ columns' = columns /\ lines' = lines
         /\ GridCells' = [q \in 0..columns * lines - 1 |-> ShownAt(u.memory, q)]
<1>1. pixels' = u.memory /\ cursor_y' = u.y /\ cursor_x' = u.x
  BY DEF Becomes
<1>2. columns' = columns /\ lines' = lines
  BY DEF columns, lines
<1>3. GridPos' = (u.y \div FontHeight) * columns + u.x \div FontWidth
  BY <1>1, <1>2 DEF GridPos
<1>4. \A q : Cell(q)' = ShownAt(u.memory, q)
  BY <1>1, <1>2 DEF Cell, ShownAt, Seen, Spot
<1>5. GridCells' = [q \in 0..columns * lines - 1 |-> Cell(q)']
  BY <1>2 DEF GridCells
<1> QED BY <1>2, <1>3, <1>4, <1>5, PlacedAt

LEMMA GridCellsAre == GridCells = [q \in 0..columns * lines - 1 |-> ShownAt(pixels, q)]
BY CellShows DEF GridCells
----------------------------------------------------------------------------
(* What each character, and each call, does to a terminal at cell p        *)

LEMMA PutPlaced ==
  ASSUME Measures, Aligned, NEW t, NEW p, Placed(t, p), NEW c \in Printable
  PROVE  /\ Placed(Putchar(t, c), Onward(p, 1))
         /\ \A q \in 0..columns * lines - 1 :
              ShownAt(Putchar(t, c).memory, q) = IF q = p THEN c ELSE ShownAt(t.memory, q)
<1> DEFINE after == DrawChar(t.memory, t.y, t.x, c)
           u == [t EXCEPT !.memory = after]
<1>1. /\ after \in Memory
      /\ \A q \in 0..columns * lines - 1 :
           ShownAt(after, q) = IF q = p THEN c ELSE ShownAt(t.memory, q)
  <2>1. after = DrawChar(t.memory, t.y, t.x, c)
    OBVIOUS
  <2> HIDE DEF after
  <2> QED BY <2>1, PutShows
<1>2. c \notin {"\n", "\r", "\t", "back"}
  BY TerminalAssumption, Zenon DEF Printable
<1>3. Putchar(t, c) = MoveCursor(u, 0, 1)
  BY <1>2 DEF Putchar
<1> HIDE DEF after
<1>4. Placed(u, p) /\ u.memory = after
  BY <1>1 DEF Placed
<1> HIDE DEF u
<1>5. columns \in Nat
  BY Cells
<1>6. 0 \in Int /\ 1 \in Int /\ 0 * columns + 1 = 1
  <2>1. \A n \in Nat : 0 * n + 1 = 1
    OBVIOUS
  <2> QED BY <1>5, <2>1
<1>7. /\ Placed(MoveCursor(u, 0, 1), Onward(p, 0 * columns + 1))
      /\ MoveCursor(u, 0, 1).memory = u.memory
  BY <1>4, <1>6, MovedOnward
<1> QED BY <1>1, <1>3, <1>4, <1>6, <1>7

LEMMA ReturnPlaced ==
  ASSUME Measures, Aligned, NEW t, NEW p, Placed(t, p)
  PROVE  /\ Placed([t EXCEPT !.x = 0], p - (p % columns))
         /\ [t EXCEPT !.x = 0].memory = t.memory
<1> DEFINE i == p \div columns
           j == p % columns
           u == [t EXCEPT !.x = 0]
<1>1. /\ columns \in Nat \ {0} /\ lines \in Nat \ {0}
      /\ FontWidth \in Nat \ {0} /\ FontHeight \in Nat \ {0}
  BY Cells, Sizes
<1>2. i \in 0..lines - 1 /\ j \in 0..columns - 1 /\ p = columns * i + j
  BY <1>1, ReadingOrder DEF Placed
<1>3. u \in [memory : Memory, y : Nat, x : Nat] /\ u.y = t.y /\ u.x = 0 /\ u.memory = t.memory
  BY DEF Placed
<1>4. t.y = FontHeight * i
  BY DEF Placed
<1> HIDE DEF i, j, u
<1>5. columns * i \in Int /\ 0 \in 0..columns - 1
  BY <1>1, <1>2
<1>6. p - j = columns * i + 0
  BY <1>1, <1>2, <1>5
<1>7. p - j \in 0..columns * lines - 1 /\ (p - j) \div columns = i /\ (p - j) % columns = 0
  BY <1>1, <1>2, <1>5, <1>6, ReadingOrder
<1>8. FontWidth * 0 = 0
  BY <1>1
<1>9. Placed(u, p - j)
  BY <1>3, <1>4, <1>7, <1>8 DEF Placed
<1> QED BY <1>3, <1>9 DEF j, u

LEMMA MovesPlaced ==
  ASSUME Measures, Aligned, NEW t, NEW p, Placed(t, p)
  PROVE  /\ Placed(Putchar(t, "\n"), Onward(p - (p % columns), columns))
         /\ Placed(Putchar(t, "\r"), p - (p % columns))
         /\ Placed(Putchar(t, "\t"), Onward(p, 4 - ((p % columns) % 4)))
         /\ Placed(Putchar(t, "back"), Onward(p, -1))
         /\ \A c \in {"\n", "\r", "\t", "back"} : Putchar(t, c).memory = t.memory
<1> DEFINE j == p % columns
           u == [t EXCEPT !.x = 0]
<1>1. columns \in Nat \ {0} /\ FontWidth \in Nat \ {0} /\ lines \in Nat \ {0}
  BY Cells, Sizes
<1>2. j \in 0..columns - 1
  BY <1>1, ReadingOrder DEF Placed
<1>3. Placed(u, p - j) /\ u.memory = t.memory
  BY ReturnPlaced
<1>4. /\ Putchar(t, "\n") = MoveCursor(u, 1, 0)
      /\ Putchar(t, "\r") = u
      /\ Putchar(t, "back") = MoveCursor(t, 0, -1)
  BY DEF Putchar
<1>5. Putchar(t, "\t") = MoveCursor(t, 0, TabStop(t.x \div FontWidth) - t.x \div FontWidth)
  BY DEF Putchar
<1>6. t.x \div FontWidth = j
  <2>1. t.x = FontWidth * j + 0 /\ t.x \in Int /\ 0 \in 0..FontWidth - 1 /\ j \in Int
    BY <1>1, <1>2 DEF Placed
  <2> HIDE DEF j
  <2> QED BY <1>1, <2>1, RemainderIs
<1> HIDE DEF j, u
<1>7. TabStop(j) - j = 4 - (j % 4) /\ 4 - (j % 4) \in Int
  <2>1. j \in Nat
    BY <1>1, <1>2
  <2> QED BY <2>1 DEF TabStop
<1>8. /\ 1 * columns + 0 = columns /\ 0 * columns + -1 = -1
      /\ 0 * columns + (4 - (j % 4)) = 4 - (j % 4)
  BY <1>1, <1>7
<1>9. /\ Placed(MoveCursor(u, 1, 0), Onward(p - j, 1 * columns + 0))
      /\ MoveCursor(u, 1, 0).memory = u.memory
  BY <1>3, MovedOnward
<1>10. /\ Placed(MoveCursor(t, 0, -1), Onward(p, 0 * columns + -1))
       /\ MoveCursor(t, 0, -1).memory = t.memory
  BY MovedOnward
<1>11. /\ Placed(MoveCursor(t, 0, 4 - (j % 4)), Onward(p, 0 * columns + (4 - (j % 4))))
       /\ MoveCursor(t, 0, 4 - (j % 4)).memory = t.memory
  BY <1>7, MovedOnward
<1>12. Putchar(t, "\t") = MoveCursor(t, 0, 4 - (j % 4))
  BY <1>5, <1>6, <1>7
<1> QED BY <1>3, <1>4, <1>8, <1>9, <1>10, <1>11, <1>12 DEF j
----------------------------------------------------------------------------
(* Each call is one of the grid's                                          *)

LEMMA GridSteps ==
  ASSUME columns' = columns, lines' = lines
  PROVE  /\ \A p : GridPos' = p /\ GridCells' = GridCells => G!GoTo(p)
         /\ \A c : /\ GridPos' = Onward(GridPos, 1)
                   /\ GridCells' = [GridCells EXCEPT ![GridPos] = c]
                   => G!Put(c)
         /\ \A c : /\ GridPos' = Onward(GridPos, -1)
                   /\ GridCells' = [GridCells EXCEPT ![GridPos'] = c]
                   => G!Rub(c)
         /\ \A c : GridPos' = GridPos /\ GridCells' = [q \in DOMAIN GridCells |-> c] => G!Clear(c)
<1>1. \A p : GridPos' = p /\ GridCells' = GridCells => G!GoTo(p)
  BY DEF G!GoTo, GridPos, GridCells
<1>2. \A c : GridPos' = Onward(GridPos, 1) /\ GridCells' = [GridCells EXCEPT ![GridPos] = c] => G!Put(c)
  BY DEF G!Put, G!Onward, Onward, GridPos, GridCells
<1>3. \A c : GridPos' = Onward(GridPos, -1) /\ GridCells' = [GridCells EXCEPT ![GridPos'] = c] => G!Rub(c)
  BY DEF G!Rub, G!Onward, Onward, GridPos, GridCells
<1>4. \A c : GridPos' = GridPos /\ GridCells' = [q \in DOMAIN GridCells |-> c] => G!Clear(c)
  BY DEF G!Clear, GridPos, GridCells
<1> QED BY <1>1, <1>2, <1>3, <1>4

\* Where the grid's own moves go.
LEMMA GridMoves ==
  /\ \A d, r : G!Move(d, r) <=> G!GoTo(Onward(GridPos, d * columns + r))
  /\ G!Newline <=> G!GoTo(Onward(GridPos - (GridPos % columns), columns))
  /\ G!Return <=> G!GoTo(GridPos - (GridPos % columns))
  /\ G!Tab <=> G!GoTo(Onward(GridPos, 4 - ((GridPos % columns) % 4)))
BY DEF G!Move, G!Newline, G!Return, G!Tab, G!Onward, G!Column, Onward, GridPos

\* A call that draws nothing is one of them.
LEMMA CallGoes ==
  ASSUME TerminalInv, Aligned, graphics' = graphics,
         NEW u, NEW p, Placed(u, p), Becomes(u), u.memory = pixels
  PROVE  G!GoTo(p)
<1>1. Measures
  BY DEF TerminalInv
<1>2. /\ GridPos' = p /\ columns' = columns /\ lines' = lines
      /\ GridCells' = [q \in 0..columns * lines - 1 |-> ShownAt(u.memory, q)]
  BY <1>1, Arrives
<1>3. GridCells' = GridCells
  BY <1>2, GridCellsAre
<1> QED BY <1>2, <1>3, GridSteps

LEMMA WrittenOne ==
  ASSUME TerminalInv, NEW c \in Characters
  PROVE  Written(terminal, <<c>>) = Putchar(terminal, c)
<1>1. Measures /\ terminal \in Sound
  BY DEF TerminalInv
<1>2. <<c>> \in Seq(Characters) /\ Len(<<c>>) = 1 /\ <<c>>[1] = c
  OBVIOUS
<1>3. PICK f \in [0..1 -> Sound] :
        /\ f[0] = terminal /\ Written(terminal, <<c>>) = f[1]
        /\ \A i \in 1..1 : f[i] = Putchar(f[i - 1], <<c>>[i])
  BY <1>1, <1>2, WrittenInTurn
<1>4. f[1] = Putchar(f[0], c)
  BY <1>2, <1>3
<1> QED BY <1>3, <1>4

LEMMA WrittenThree ==
  ASSUME TerminalInv, NEW a \in Characters, NEW b \in Characters, NEW c \in Characters
  PROVE  Written(terminal, <<a, b, c>>) = Putchar(Putchar(Putchar(terminal, a), b), c)
<1> DEFINE str == <<a, b, c>>
<1>1. Measures /\ terminal \in Sound
  BY DEF TerminalInv
<1>2. str \in Seq(Characters) /\ Len(str) = 3 /\ str[1] = a /\ str[2] = b /\ str[3] = c
  OBVIOUS
<1> HIDE DEF str
<1>3. PICK f \in [0..3 -> Sound] :
        /\ f[0] = terminal /\ Written(terminal, str) = f[3]
        /\ \A i \in 1..3 : f[i] = Putchar(f[i - 1], str[i])
  BY <1>1, <1>2, WrittenInTurn
<1>4. f[1] = Putchar(f[0], a) /\ f[2] = Putchar(f[1], b) /\ f[3] = Putchar(f[2], c)
  BY <1>2, <1>3
<1> QED BY <1>3, <1>4 DEF str

LEMMA PutOnGrid ==
  ASSUME TerminalInv, Aligned, OnScreen, NEW c \in Printable, TerminalWrite(<<c>>)
  PROVE  G!Put(c)
<1> DEFINE u == Putchar(terminal, c)
           p == GridPos
<1>1. Measures /\ Placed(terminal, p) /\ terminal.memory = pixels
  BY OnGrid DEF TerminalInv, terminal
<1>2. c \in Characters
  BY DEF Characters, Printable
<1>3. graphics' = graphics /\ Becomes(u)
  BY <1>2, WrittenOne DEF TerminalWrite, Calling
<1>4. /\ Placed(u, Onward(p, 1))
      /\ \A q \in 0..columns * lines - 1 :
           ShownAt(u.memory, q) = IF q = p THEN c ELSE ShownAt(pixels, q)
  BY <1>1, PutPlaced
<1> HIDE DEF u, p
<1>5. /\ GridPos' = Onward(p, 1) /\ columns' = columns /\ lines' = lines
      /\ GridCells' = [q \in 0..columns * lines - 1 |-> ShownAt(u.memory, q)]
  BY <1>1, <1>3, <1>4, Arrives
<1>6. GridCells' = [GridCells EXCEPT ![p] = c]
  <2>1. p \in 0..columns * lines - 1
    BY <1>1 DEF Placed
  <2> QED BY <1>4, <1>5, <2>1, GridCellsAre
<1> QED BY <1>5, <1>6, GridSteps DEF p

\* One on and one back is where it was.
LEMMA OnAndBack ==
  ASSUME Measures, Aligned, NEW p \in 0..columns * lines - 1
  PROVE  Onward(Onward(p, 1), -1) = p
<1> DEFINE N == columns * lines
<1>1. N \in Nat \ {0}
  <2>1. N \in Int
    BY Cells
  <2> HIDE DEF N
  <2>2. p \in 0..N - 1
    BY DEF N
  <2> QED BY <2>1, <2>2
<1>2. p \in 0..N - 1
  OBVIOUS
<1>3. Onward(Onward(p, 1), -1) = (((p + 1) % N) + -1) % N
  BY DEF Onward
<1> HIDE DEF N
<1>4. \A q \in 0..N - 1 : q % N = q
  <2> TAKE q \in 0..N - 1
  <2>1. q \in Int /\ q = N * 0 + q
    BY <1>1
  <2> QED BY <1>1, <2>1, RemainderIs
<1>5. CASE p + 1 \in 0..N - 1
  <2>1. ((p + 1) % N) + -1 = p
    BY <1>1, <1>2, <1>4, <1>5
  <2> QED BY <1>2, <1>3, <1>4, <2>1
<1>6. CASE p + 1 = N
  <2>1. N \in Int /\ N = N * 1 + 0 /\ 0 \in 0..N - 1
    BY <1>1
  <2>2. (p + 1) % N = 0
    BY <1>1, <1>6, <2>1, RemainderIs
  <2>3. -1 \in Int /\ -1 = N * (-1) + p
    BY <1>1, <1>2, <1>6
  <2>4. (-1) % N = p
    BY <1>1, <1>2, <2>3, RemainderIs
  <2> QED BY <1>3, <2>2, <2>4
<1> QED BY <1>1, <1>2, <1>5, <1>6

LEMMA RubOnGrid ==
  ASSUME TerminalInv, Aligned, OnScreen, NEW c \in Printable, TerminalWrite(<<"back", c, "back">>)
  PROVE  G!Rub(c)
<1> DEFINE t1 == Putchar(terminal, "back")
           t2 == Putchar(t1, c)
           t3 == Putchar(t2, "back")
           p == Onward(GridPos, -1)
<1>1. Measures /\ Placed(terminal, GridPos) /\ terminal.memory = pixels
  BY OnGrid DEF TerminalInv, terminal
<1>2. c \in Characters /\ "back" \in Characters
  BY DEF Characters, Printable
<1>3. graphics' = graphics /\ Becomes(t3)
  BY <1>2, WrittenThree DEF TerminalWrite, Calling
<1>4. Placed(t1, p) /\ t1.memory = pixels
  BY <1>1, MovesPlaced
<1> HIDE DEF t1
<1>5. /\ Placed(t2, Onward(p, 1))
      /\ \A q \in 0..columns * lines - 1 :
           ShownAt(t2.memory, q) = IF q = p THEN c ELSE ShownAt(pixels, q)
  BY <1>1, <1>4, PutPlaced
<1> HIDE DEF t2, p
<1>6. Placed(t3, Onward(Onward(p, 1), -1)) /\ t3.memory = t2.memory
  BY <1>1, <1>5, MovesPlaced
<1>7. p \in 0..columns * lines - 1
  BY <1>4 DEF Placed
<1>8. Placed(t3, p)
  BY <1>1, <1>6, <1>7, OnAndBack
<1> HIDE DEF t3
<1>9. /\ GridPos' = p /\ columns' = columns /\ lines' = lines
      /\ GridCells' = [q \in 0..columns * lines - 1 |-> ShownAt(t3.memory, q)]
  BY <1>1, <1>3, <1>8, Arrives
<1>10. GridCells' = [GridCells EXCEPT ![p] = c]
  BY <1>5, <1>6, <1>7, <1>9, GridCellsAre
<1> QED BY <1>9, <1>10, GridSteps DEF p

LEMMA MovesOnGrid ==
  ASSUME TerminalInv, Aligned, OnScreen
  PROVE  /\ TerminalWrite(<<"\n">>) => G!Newline
         /\ TerminalWrite(<<"\r">>) => G!Return
         /\ TerminalWrite(<<"\t">>) => G!Tab
         /\ TerminalWrite(<<"back">>) => G!Move(0, -1)
         /\ \A d \in Int, r \in Int : TerminalMoveCursor(d, r) => G!Move(d, r)
<1> DEFINE p == GridPos
<1>1. Measures /\ Placed(terminal, p) /\ terminal.memory = pixels
  BY OnGrid DEF TerminalInv, terminal
<1>2. {"\n", "\r", "\t", "back"} \subseteq Characters
  BY DEF Characters
<1> HIDE DEF p
<1>3. ASSUME NEW c \in {"\n", "\r", "\t", "back"}, TerminalWrite(<<c>>)
      PROVE  /\ graphics' = graphics /\ Becomes(Putchar(terminal, c))
             /\ Putchar(terminal, c).memory = pixels
  BY <1>1, <1>2, <1>3, WrittenOne, MovesPlaced DEF TerminalWrite, Calling
<1>4. ASSUME TerminalWrite(<<"\n">>) PROVE G!Newline
  BY <1>1, <1>3, <1>4, MovesPlaced, CallGoes, GridMoves DEF p
<1>5. ASSUME TerminalWrite(<<"\r">>) PROVE G!Return
  BY <1>1, <1>3, <1>5, MovesPlaced, CallGoes, GridMoves DEF p
<1>6. ASSUME TerminalWrite(<<"\t">>) PROVE G!Tab
  BY <1>1, <1>3, <1>6, MovesPlaced, CallGoes, GridMoves DEF p
<1>7. ASSUME TerminalWrite(<<"back">>) PROVE G!Move(0, -1)
  <2>1. Placed(Putchar(terminal, "back"), Onward(p, -1))
    BY <1>1, MovesPlaced
  <2>2. G!GoTo(Onward(p, -1))
    BY <1>3, <1>7, <2>1, CallGoes
  <2>3. 0 * columns + -1 = -1
    BY <1>1, Cells
  <2> QED BY <2>2, <2>3, GridMoves DEF p
<1>8. ASSUME NEW d \in Int, NEW r \in Int, TerminalMoveCursor(d, r) PROVE G!Move(d, r)
  <2>1. graphics' = graphics /\ Becomes(MoveCursor(terminal, d, r))
    BY <1>8 DEF TerminalMoveCursor, Calling
  <2>2. /\ Placed(MoveCursor(terminal, d, r), Onward(p, d * columns + r))
        /\ MoveCursor(terminal, d, r).memory = pixels
    BY <1>1, MovedOnward
  <2> QED BY <2>1, <2>2, CallGoes, GridMoves DEF p
<1> QED BY <1>4, <1>5, <1>6, <1>7, <1>8

LEMMA SetPositionOnGrid ==
  ASSUME TerminalInv, Aligned, NEW y \in 0..lines - 1, NEW x \in 0..columns - 1,
         TerminalSetPosition(y * FontHeight, x * FontWidth)
  PROVE  G!GoTo(y * columns + x)
<1> DEFINE C == columns
           L == lines
           W == FontWidth
           H == FontHeight
           Y == y * H
           X == x * W
           p == y * C + x
           u == [memory |-> pixels, y |-> Y, x |-> X]
<1>1. Measures /\ pixels \in Memory
  BY SoundParts
<1>2. /\ C \in Nat \ {0} /\ L \in Nat \ {0} /\ W \in Nat \ {0} /\ H \in Nat \ {0}
      /\ graphics.width = W * C /\ graphics.height = H * L
  BY <1>1, Cells, Sizes
<1>3. /\ graphics' = graphics /\ pixels' = pixels
      /\ IF X > graphics.width \/ Y > graphics.height
         THEN UNCHANGED cursor ELSE cursor_x' = X /\ cursor_y' = Y
  BY DEF TerminalSetPosition, Calling
<1>4. y \in 0..L - 1 /\ x \in 0..C - 1
  OBVIOUS
<1> HIDE DEF C, L, W, H
<1>5. ASSUME NEW w \in Nat \ {0}, NEW n \in Nat \ {0}, NEW a \in 0..n - 1
      PROVE  a * w = w * a /\ a * w \in 0..w * n - 1
  <2>1. w * a + 0 \in 0..w * n - 1 /\ w * a \in Int /\ 0 \in 0..w - 1
    <3>1. 0 \in 0..w - 1 /\ w * a \in Int
      BY <1>5
    <3> QED BY <1>5, <3>1, ReadingOrder
  <2> QED BY <1>5, <2>1
<1>6. Y = H * y /\ Y \in 0..H * L - 1 /\ X = W * x /\ X \in 0..W * C - 1
  BY <1>2, <1>4, <1>5
<1>7. /\ y * C = C * y /\ C * y + x \in 0..C * L - 1
      /\ (C * y + x) \div C = y /\ (C * y + x) % C = x
  BY <1>2, <1>4, <1>5, ReadingOrder
<1> HIDE DEF Y, X
<1>8. Y \in Nat /\ X \in Nat /\ H * L \in Int /\ W * C \in Int
  BY <1>2, <1>6
<1>9. ~(X > graphics.width \/ Y > graphics.height)
  BY <1>2, <1>6, <1>8
<1>10. u \in [memory : Memory, y : Nat, x : Nat] /\ u.y = Y /\ u.x = X /\ u.memory = pixels
  BY <1>1, <1>8
<1> HIDE DEF u
<1>11. p \in 0..C * L - 1 /\ p \div C = y /\ p % C = x
  BY <1>7
<1> HIDE DEF p
<1>12. Placed(u, p)
  BY <1>6, <1>10, <1>11 DEF Placed, C, L, W, H
<1>13. Becomes(u)
  BY <1>3, <1>9, <1>10 DEF Becomes
<1>14. G!GoTo(p)
  BY <1>3, <1>10, <1>12, <1>13, CallGoes
<1> QED BY <1>14 DEF p, C

LEMMA ClearedMemory == pixels \in Memory => Cleared \in Memory
<1> DEFINE shown == {y * graphics.pitch + x : y \in 0..graphics.height - 1,
                                              x \in 0..graphics.width - 1}
<1>1. Cleared = [a \in DOMAIN pixels |-> IF a \in shown THEN " " ELSE pixels[a]]
  BY DEF Cleared
<1> HIDE DEF shown
<1> QED BY <1>1 DEF Memory

LEMMA ClearOnGrid ==
  ASSUME TerminalInv, Aligned, OnScreen, NEW blank, blank = " ", TerminalClear
  PROVE  G!Clear(blank)
<1> DEFINE u == [memory |-> Cleared, y |-> cursor_y, x |-> cursor_x]
           p == GridPos
<1>1. Measures /\ pixels \in Memory /\ Placed(terminal, p)
  BY OnGrid, SoundParts
<1>2. graphics' = graphics /\ Becomes(u)
  BY DEF TerminalClear, Calling, cursor, Becomes
<1>3. Cleared \in Memory
  BY <1>1, ClearedMemory
<1>4. ASSUME NEW q \in 0..columns * lines - 1 PROVE ShownAt(Cleared, q) = blank
  BY <1>1, ClearShows
<1> HIDE DEF p
<1>5. Placed(u, p) /\ u.memory = Cleared
  BY <1>1, <1>3 DEF Placed, terminal
<1> HIDE DEF u
<1>6. /\ GridPos' = p /\ columns' = columns /\ lines' = lines
      /\ GridCells' = [q \in 0..columns * lines - 1 |-> ShownAt(Cleared, q)]
  BY <1>1, <1>2, <1>5, Arrives
<1>7. GridCells' = [q \in DOMAIN GridCells |-> blank]
  <2>1. DOMAIN GridCells = 0..columns * lines - 1
    BY DEF GridCells
  <2> QED BY <1>4, <1>6, <2>1
<1> QED BY <1>6, <1>7, GridSteps DEF p

\* On a screen of whole cells every call does to the characters on it what Grid says,
\* whatever the sizes of the screen and of the font: draw_char and put_pixel, clear,
\* terminal_move_cursor, terminal_set_position, terminal_putchar and the loop over
\* a string.
THEOREM TerminalImplementsGrid == Spec => ImplementsGrid
<1> DEFINE Blank == " "
           Calls ==
             /\ \A c \in Printable : TerminalWrite(<<c>>) => G!Put(c)
             /\ TerminalWrite(<<"\n">>) => G!Newline
             /\ TerminalWrite(<<"\r">>) => G!Return
             /\ TerminalWrite(<<"\t">>) => G!Tab
             /\ TerminalWrite(<<"back">>) => G!Move(0, -1)
             /\ TerminalWrite(<<"back", Blank, "back">>) => G!Rub(Blank)
             /\ \A d \in -1..1, r \in -1..1 : TerminalMoveCursor(d, r) => G!Move(d, r)
             /\ \A y \in 0..lines - 1, x \in 0..columns - 1 :
                  TerminalSetPosition(y * FontHeight, x * FontWidth) => G!GoTo(y * columns + x)
             /\ TerminalClear => G!Clear(Blank)
<1>1. TerminalInv /\ Aligned /\ OnScreen => Calls
  <2> SUFFICES ASSUME TerminalInv, Aligned, OnScreen PROVE Calls
    OBVIOUS
  <2>1. Blank \in Printable
    BY DEF Printable
  <2>2. \A c \in Printable : TerminalWrite(<<c>>) => G!Put(c)
    BY PutOnGrid
  <2>3. TerminalClear => G!Clear(Blank)
    BY ClearOnGrid
  <2> HIDE DEF Blank
  <2>4. TerminalWrite(<<"back", Blank, "back">>) => G!Rub(Blank)
    BY <2>1, RubOnGrid
  <2>5. \A d \in -1..1, r \in -1..1 : TerminalMoveCursor(d, r) => G!Move(d, r)
    BY MovesOnGrid
  <2>6. \A y \in 0..lines - 1, x \in 0..columns - 1 :
          TerminalSetPosition(y * FontHeight, x * FontWidth) => G!GoTo(y * columns + x)
    BY SetPositionOnGrid
  <2> QED BY <2>2, <2>3, <2>4, <2>5, <2>6, MovesOnGrid
<1>2. TerminalInv /\ [Next]_vars => [Aligned /\ OnScreen => Calls]_vars
  BY <1>1
<1>3. ImplementsGrid <=> [][Aligned /\ OnScreen => Calls]_vars
  BY DEF ImplementsGrid, Printable
<1> HIDE DEF Calls
<1> QED BY <1>2, <1>3, TerminalInvariance, PTL DEF Spec
=============================================================================
