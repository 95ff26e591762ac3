--------------------------- MODULE VirtMemProofs ---------------------------
(***************************************************************************)
(* Proofs about physical and virtual memory.  The allocator's bits and the *)
(* frames are in one-to-one correspondence, the page tables form a tree    *)
(* over the frames that are owned, and the pages of the heap are mapped    *)
(* but for as many as there are lost frames.                               *)
(***************************************************************************)
EXTENDS VirtMem, ListProofs, FiniteSetTheorems

----------------------------------------------------------------------------
(* Sums over arrays                                                        *)

Adds(sum, amount, n) == sum[0] = 0 /\ \A i \in 1..n : sum[i] = sum[i - 1] + amount[i]

LEMMA SumsAgree ==
  ASSUME NEW n \in Nat, NEW amount, NEW f, NEW g, Adds(f, amount, n), Adds(g, amount, n)
  PROVE  \A i \in 0..n : f[i] = g[i]
<1> SUFFICES ASSUME {i \in 0..n : f[i] # g[i]} # {} PROVE FALSE
  OBVIOUS
<1> DEFINE Bad == {i \in 0..n : f[i] # g[i]}
           m == Min(Bad)
<1>1. Bad \subseteq Nat /\ Bad # {}
  OBVIOUS
<1> HIDE DEF Bad
<1>2. m \in Bad /\ \A k \in Bad : m <= k
  BY <1>1, MinIsLeast
<1> HIDE DEF m
<1>3. m \in 0..n /\ f[m] # g[m]
  BY <1>2 DEF Bad
<1>4. m # 0
  BY <1>3 DEF Adds
<1>5. m \in 1..n /\ m - 1 \in 0..n /\ ~(m <= m - 1)
  BY <1>3, <1>4
<1>6. f[m - 1] = g[m - 1]
  BY <1>2, <1>5 DEF Bad
<1> QED BY <1>3, <1>5, <1>6 DEF Adds

\* Total adds up its array.
LEMMA TotalAdds ==
  ASSUME NEW N \in Nat, NEW amount \in [1..N -> Nat]
  PROVE  /\ \A n \in 0..N : Total(amount, n) \in Nat
         /\ Total(amount, 0) = 0
         /\ \A n \in 1..N : Total(amount, n) = Total(amount, n - 1) + amount[n]
<1> DEFINE step == [i \in 1..N |-> [x \in Nat |-> x + amount[i]]]
<1>1. Closed(step, N, Nat)
  BY DEF Closed
<1> HIDE DEF step
<1>2. PICK f \in [0..N -> Nat] : Turns(f, 0, N, step)
  BY <1>1, Iterates
<1>3. ASSUME NEW i \in 1..N PROVE step[i][f[i - 1]] = f[i - 1] + amount[i]
  <2>1. f[i - 1] \in Nat BY <1>2
  <2> QED BY <2>1 DEF step
<1>4. Adds(f, amount, N)
  BY <1>2, <1>3 DEF Turns, Adds
<1>5. ASSUME NEW n \in 0..N PROVE Total(amount, n) = f[n]
  <2> DEFINE g == CHOOSE h : h = [i \in 0..n |-> IF i = 0 THEN 0 ELSE h[i - 1] + amount[i]]
             r == [i \in 0..n |-> f[i]]
  <2>1. r = [i \in 0..n |-> IF i = 0 THEN 0 ELSE r[i - 1] + amount[i]]
    <3>1. \A i \in 0..n : i # 0 => i \in 1..N /\ i - 1 \in 0..n
      OBVIOUS
    <3>2. \A i \in 0..n : f[i] = IF i = 0 THEN 0 ELSE r[i - 1] + amount[i]
      BY <3>1, <1>4 DEF Adds
    <3> QED BY <3>2
  <2>2. g = [i \in 0..n |-> IF i = 0 THEN 0 ELSE g[i - 1] + amount[i]]
    BY <2>1
  <2>3. Total(amount, n) = g[n]
    BY DEF Total
  <2> HIDE DEF g, r
  <2>4. Adds(g, amount, n)
    BY <2>2 DEF Adds
  <2>5. Adds(f, amount, n) /\ n \in Nat /\ n \in 0..n
    BY <1>4 DEF Adds
  <2> QED BY <2>3, <2>4, <2>5, SumsAgree
<1>6. \A n \in 1..N : n \in 0..N /\ n - 1 \in 0..N
  OBVIOUS
<1> QED BY <1>2, <1>4, <1>5, <1>6 DEF Adds
\* Arrays that begin alike have the same sums so far.
LEMMA TotalOfPrefix ==
  ASSUME NEW N \in Nat, NEW a \in [1..N -> Nat], NEW M \in Nat, NEW b \in [1..M -> Nat],
         NEW n \in Nat, n <= N, n <= M, \A i \in 1..n : a[i] = b[i]
  PROVE  Total(a, n) = Total(b, n)
<1> DEFINE f == [i \in 0..n |-> Total(a, i)]
           g == [i \in 0..n |-> Total(b, i)]
<1>1. \A i \in 1..n : i \in 1..N /\ i \in 1..M /\ i \in 0..n /\ i - 1 \in 0..n
  OBVIOUS
<1>2. Adds(f, a, n)
  <2>1. f[0] = 0
    <3>1. Total(a, 0) = 0 BY TotalAdds
    <3> QED BY <3>1
  <2>2. \A i \in 1..n : Total(a, i) = Total(a, i - 1) + a[i]
    BY <1>1, TotalAdds
  <2> QED BY <1>1, <2>1, <2>2 DEF Adds
<1>4. Adds(g, a, n)
  <2>1. g[0] = 0
    <3>1. Total(b, 0) = 0 BY TotalAdds
    <3> QED BY <3>1
  <2>2. \A i \in 1..n : Total(b, i) = Total(b, i - 1) + b[i]
    BY <1>1, TotalAdds
  <2> QED BY <1>1, <2>1, <2>2 DEF Adds
<1> HIDE DEF f, g
<1>5. f[n] = g[n]
  BY <1>2, <1>4, SumsAgree
<1> QED BY <1>5 DEF f, g

\* Sums of natural numbers do not fall.
LEMMA TotalRises ==
  ASSUME NEW N \in Nat, NEW a \in [1..N -> Nat], NEW i \in 0..N, NEW j \in i..N
  PROVE  Total(a, i) <= Total(a, j)
<1> SUFFICES ASSUME {k \in i..N : ~(Total(a, i) <= Total(a, k))} # {} PROVE FALSE
  OBVIOUS
<1> DEFINE Bad == {k \in i..N : ~(Total(a, i) <= Total(a, k))}
           m == Min(Bad)
<1>1. Bad \subseteq Nat /\ Bad # {}
  OBVIOUS
<1> HIDE DEF Bad
<1>2. m \in Bad /\ \A k \in Bad : m <= k
  BY <1>1, MinIsLeast
<1> HIDE DEF m
<1>3. m \in i..N /\ ~(Total(a, i) <= Total(a, m))
  BY <1>2 DEF Bad
<1>4. Total(a, i) \in Nat /\ Total(a, m) \in Nat
  BY <1>3, TotalAdds
<1>5. m # i
  BY <1>3, <1>4
<1>6. m \in 1..N /\ m - 1 \in i..N /\ ~(m <= m - 1)
  BY <1>3, <1>5
<1>7. Total(a, i) <= Total(a, m - 1)
  BY <1>2, <1>6 DEF Bad
<1>8. Total(a, m) = Total(a, m - 1) + a[m] /\ Total(a, m - 1) \in Nat /\ a[m] \in Nat
  <2>1. m - 1 \in 0..N BY <1>6
  <2>2. a[m] \in Nat BY <1>6
  <2>3. Total(a, m - 1) \in Nat BY <2>1, TotalAdds
  <2>4. Total(a, m) = Total(a, m - 1) + a[m] BY <1>6, TotalAdds
  <2> QED BY <2>2, <2>3, <2>4
<1> QED BY <1>3, <1>4, <1>7, <1>8

----------------------------------------------------------------------------
(* Bits and frames                                                         *)

Region == [base : Nat \ {0}, pages : Nat, type : STRING \cup {"unknown"}]

Apart(r, s) == r.base + r.pages <= s.base \/ s.base + s.pages <= r.base

\* A table of regions of which no two overlap.
Regular(u) ==
  /\ u \in Seq(Region)
  /\ \A i, j \in 1..Len(u) : i < j => Apart(u[i], u[j])

LEMMA PagesAdd ==
  ASSUME NEW u \in Seq(Region)
  PROVE  /\ \A i \in 0..Len(u) : PagesOf(u, i) \in Nat
         /\ PagesOf(u, 0) = 0
         /\ \A i \in 1..Len(u) : PagesOf(u, i) = PagesOf(u, i - 1) + u[i].pages
         /\ \A i, j \in 0..Len(u) : i <= j => PagesOf(u, i) <= PagesOf(u, j)
         /\ PageCount(u) = PagesOf(u, Len(u)) /\ PageCount(u) \in Nat
<1> DEFINE N == Len(u)
           a == [k \in DOMAIN u |-> u[k].pages]
<1>1. N \in Nat /\ DOMAIN u = 1..N /\ \A k \in 1..N : u[k] \in Region
  OBVIOUS
<1>2. a \in [1..N -> Nat] /\ \A k \in 1..N : a[k] = u[k].pages
  BY <1>1 DEF Region
<1>3. \A i : PagesOf(u, i) = Total(a, i)
  BY DEF PagesOf
<1> HIDE DEF N, a
<1>4. \A i, j \in 0..N : i <= j => Total(a, i) <= Total(a, j)
  <2> SUFFICES ASSUME NEW i \in 0..N, NEW j \in 0..N, i <= j PROVE Total(a, i) <= Total(a, j)
    OBVIOUS
  <2>1. j \in i..N BY <1>1
  <2> QED BY <2>1, <1>1, <1>2, TotalRises
<1>5. /\ \A i \in 0..N : Total(a, i) \in Nat
      /\ Total(a, 0) = 0
      /\ \A i \in 1..N : Total(a, i) = Total(a, i - 1) + a[i]
  BY <1>1, <1>2, TotalAdds
<1>6. N \in 0..N
  BY <1>1
<1>7. PageCount(u) = PagesOf(u, N)
  BY DEF PageCount, N
<1> QED BY <1>2, <1>3, <1>4, <1>5, <1>6, <1>7 DEF N

\* Bit b stands for frame f, which is in region i.
StandsFor(u, i, b, f) ==
  /\ i \in 1..Len(u)
  /\ f \in u[i].base..u[i].base + u[i].pages - 1
  /\ b = PagesOf(u, i - 1) + (f - u[i].base)

LEMMA FramesAre ==
  ASSUME NEW u, Regular(u), NEW f
  PROVE  f \in FramesIn(u) <=> \E i \in 1..Len(u) : f \in u[i].base..u[i].base + u[i].pages - 1
<1>1. DOMAIN u = 1..Len(u)
  BY DEF Regular
<1> QED BY <1>1 DEF FramesIn, FramesOf

\* No frame is in two regions.
LEMMA OneRegion ==
  ASSUME NEW u, Regular(u), NEW i \in 1..Len(u), NEW j \in 1..Len(u),
         NEW f \in u[i].base..u[i].base + u[i].pages - 1,
         f \in u[j].base..u[j].base + u[j].pages - 1
  PROVE  i = j
<1>1. u[i] \in Region /\ u[j] \in Region /\ Len(u) \in Nat
  BY DEF Regular
<1>2. ASSUME NEW r \in Region, NEW s \in Region, Apart(r, s),
             f \in r.base..r.base + r.pages - 1, f \in s.base..s.base + s.pages - 1
      PROVE  FALSE
  BY <1>2 DEF Region, Apart
<1>3. ~(i < j) /\ ~(j < i)
  BY <1>1, <1>2 DEF Regular
<1> QED BY <1>1, <1>3

LEMMA BitStands ==
  ASSUME NEW u, Regular(u), NEW i, NEW b, NEW f, StandsFor(u, i, b, f)
  PROVE  /\ b \in 0..PageCount(u) - 1
         /\ f \in FramesIn(u) /\ f \in Nat \ {0}
         /\ IndexOf(u, f) = b
         /\ FrameOf(u, b) = f
<1>0. u \in Seq(Region) /\ Len(u) \in Nat /\ DOMAIN u = 1..Len(u)
  BY DEF Regular
<1>1. /\ i \in 1..Len(u) /\ i - 1 \in 0..Len(u) /\ i \in 0..Len(u) /\ Len(u) \in 0..Len(u)
      /\ u[i] \in Region /\ u[i].base \in Nat \ {0} /\ u[i].pages \in Nat
  <2>1. i \in 1..Len(u) BY DEF StandsFor
  <2>2. u[i] \in Region BY <1>0, <2>1
  <2> QED BY <1>0, <2>1, <2>2 DEF Region
<1>2. f \in Nat \ {0} /\ u[i].base <= f /\ f < u[i].base + u[i].pages
  BY <1>1 DEF StandsFor
<1>3. /\ PagesOf(u, i - 1) \in Nat /\ PagesOf(u, i) = PagesOf(u, i - 1) + u[i].pages
      /\ PagesOf(u, i) <= PageCount(u) /\ PageCount(u) \in Nat
  <2>1. i <= Len(u) BY <1>0, <1>1
  <2>2. PagesOf(u, i) <= PagesOf(u, Len(u)) BY <1>0, <1>1, <2>1, PagesAdd
  <2> QED BY <1>0, <1>1, <2>2, PagesAdd
<1>4. b \in 0..PageCount(u) - 1 /\ PagesOf(u, i - 1) <= b /\ b < PagesOf(u, i)
  <2>1. ASSUME NEW p \in Nat, NEW s \in Nat, NEW n \in Nat, NEW all \in Nat, p + n <= all,
               NEW g \in Nat, s <= g, g < s + n, NEW c, c = p + (g - s)
        PROVE  c \in 0..all - 1 /\ p <= c /\ c < p + n
    BY <2>1
  <2>2. b = PagesOf(u, i - 1) + (f - u[i].base)
    BY DEF StandsFor
  <2> DEFINE p == PagesOf(u, i - 1)
             s == u[i].base
             n == u[i].pages
             all == PageCount(u)
  <2>3. /\ p \in Nat /\ s \in Nat /\ n \in Nat /\ all \in Nat /\ p + n <= all
        /\ f \in Nat /\ s <= f /\ f < s + n /\ b = p + (f - s) /\ PagesOf(u, i) = p + n
    BY <1>1, <1>2, <1>3, <2>2
  <2> HIDE DEF p, s, n, all
  <2>4. b \in 0..all - 1 /\ p <= b /\ b < p + n
    BY <2>1, <2>3
  <2> QED BY <2>3, <2>4 DEF p, all
<1>5. f \in FramesIn(u)
  BY <1>1, FramesAre DEF StandsFor
<1>6. IndexOf(u, f) = b
  <2> DEFINE k == CHOOSE k \in DOMAIN u : f \in FramesOf(u[k])
  <2>1. k \in DOMAIN u /\ f \in FramesOf(u[k])
    BY <1>0, <1>1 DEF StandsFor, FramesOf
  <2>2. IndexOf(u, f) = PagesOf(u, k - 1) + (f - u[k].base)
    BY DEF IndexOf
  <2> HIDE DEF k
  <2>3. k = i
    BY <2>1, <1>0, <1>1, OneRegion DEF StandsFor, FramesOf
  <2> QED BY <2>2, <2>3 DEF StandsFor
<1>7. FrameOf(u, b) = f
  <2> DEFINE k == CHOOSE k \in DOMAIN u : PagesOf(u, k - 1) <= b /\ b < PagesOf(u, k)
  <2>1. k \in DOMAIN u /\ PagesOf(u, k - 1) <= b /\ b < PagesOf(u, k)
    BY <1>0, <1>1, <1>4
  <2>2. FrameOf(u, b) = u[k].base + (b - PagesOf(u, k - 1))
    BY DEF FrameOf
  <2> HIDE DEF k
  <2>3. k \in 1..Len(u) /\ k - 1 \in 0..Len(u) /\ k \in 0..Len(u)
    BY <2>1, <1>0
  <2>4. PagesOf(u, k) \in Nat /\ PagesOf(u, k - 1) \in Nat
    BY <2>3, <1>0, PagesAdd
  <2>5. ~(k < i)
    <3> SUFFICES ASSUME k < i PROVE FALSE
      OBVIOUS
    <3>1. k <= i - 1 BY <2>3, <1>1
    <3>2. PagesOf(u, k) <= PagesOf(u, i - 1) BY <3>1, <2>3, <1>0, <1>1, PagesAdd
    <3> QED BY <3>2, <2>1, <2>4, <1>3, <1>4
  <2>6. ~(i < k)
    <3> SUFFICES ASSUME i < k PROVE FALSE
      OBVIOUS
    <3>1. i <= k - 1 BY <2>3, <1>1
    <3>2. PagesOf(u, i) <= PagesOf(u, k - 1) BY <3>1, <2>3, <1>0, <1>1, PagesAdd
    <3>3. b \in Int /\ b < PagesOf(u, i) /\ PagesOf(u, i) \in Int
      BY <1>1, <1>3, <1>4
    <3> QED BY <3>2, <3>3, <2>1, <2>4
  <2>7. k = i
    BY <2>3, <2>5, <2>6, <1>1
  <2> QED BY <2>2, <2>7, <1>1, <1>2, <1>3 DEF StandsFor
<1> QED BY <1>2, <1>4, <1>5, <1>6, <1>7

\* Each bit stands for a frame.
LEMMA EachBitStands ==
  ASSUME NEW u, Regular(u), NEW b \in 0..PageCount(u) - 1
  PROVE  \E i, f : StandsFor(u, i, b, f)
<1>0. u \in Seq(Region) /\ Len(u) \in Nat /\ Len(u) \in 0..Len(u)
  BY DEF Regular
<1> DEFINE Over == {i \in 0..Len(u) : b < PagesOf(u, i)}
           k == Min(Over)
<1>1. Over \subseteq Nat
  OBVIOUS
<1>2. PageCount(u) \in Nat /\ PagesOf(u, Len(u)) = PageCount(u)
  BY <1>0, PagesAdd
<1>3. Over # {}
  BY <1>0, <1>2
<1> HIDE DEF Over
<1>4. k \in Over /\ \A i \in Over : k <= i
  BY <1>1, <1>3, MinIsLeast
<1> HIDE DEF k
<1>5. k \in 0..Len(u) /\ b < PagesOf(u, k)
  BY <1>4 DEF Over
<1>6. k # 0
  BY <1>0, <1>2, <1>5, PagesAdd
<1>7. k \in 1..Len(u) /\ k - 1 \in 0..Len(u) /\ ~(k <= k - 1)
  BY <1>0, <1>5, <1>6
<1>8. PagesOf(u, k - 1) <= b
  <2>1. ~(b < PagesOf(u, k - 1)) BY <1>4, <1>7 DEF Over
  <2>2. PagesOf(u, k - 1) \in Nat BY <1>0, <1>7, PagesAdd
  <2> QED BY <2>1, <2>2, <1>2
<1>9. u[k] \in Region /\ u[k].base \in Nat /\ u[k].pages \in Nat
  <2>1. u[k] \in Region BY <1>0, <1>7
  <2> QED BY <2>1 DEF Region
<1>10. PagesOf(u, k - 1) \in Nat /\ PagesOf(u, k) = PagesOf(u, k - 1) + u[k].pages
  BY <1>0, <1>7, PagesAdd
<1> DEFINE f == u[k].base + (b - PagesOf(u, k - 1))
<1> HIDE DEF f
<1>11. f \in u[k].base..u[k].base + u[k].pages - 1 /\ b = PagesOf(u, k - 1) + (f - u[k].base)
  <2>1. ASSUME NEW p \in Nat, NEW s \in Nat, NEW n \in Nat, NEW g, p <= b, b < p + n, g = s + (b - p)
        PROVE  g \in s..s + n - 1 /\ b = p + (g - s)
    BY <1>2, <2>1
  <2> QED BY <1>5, <1>8, <1>9, <1>10, <2>1 DEF f
<1> QED BY <1>7, <1>11 DEF StandsFor

\* Bits and frames are in one-to-one correspondence.
LEMMA BitsAreFrames ==
  ASSUME NEW u, Regular(u)
  PROVE  /\ \A b \in 0..PageCount(u) - 1 : FrameOf(u, b) \in FramesIn(u) /\ IndexOf(u, FrameOf(u, b)) = b
         /\ \A f \in FramesIn(u) : IndexOf(u, f) \in 0..PageCount(u) - 1 /\ FrameOf(u, IndexOf(u, f)) = f
         /\ FramesIn(u) \subseteq Nat \ {0}
<1>1. ASSUME NEW b \in 0..PageCount(u) - 1
      PROVE  FrameOf(u, b) \in FramesIn(u) /\ IndexOf(u, FrameOf(u, b)) = b
  <2>1. PICK i, f : StandsFor(u, i, b, f) BY EachBitStands
  <2> QED BY <2>1, BitStands
<1>2. ASSUME NEW f \in FramesIn(u)
      PROVE  /\ IndexOf(u, f) \in 0..PageCount(u) - 1 /\ FrameOf(u, IndexOf(u, f)) = f
             /\ f \in Nat \ {0}
  <2>1. PICK i \in 1..Len(u) : f \in u[i].base..u[i].base + u[i].pages - 1 BY FramesAre
  <2>2. StandsFor(u, i, PagesOf(u, i - 1) + (f - u[i].base), f) BY <2>1 DEF StandsFor
  <2> QED BY <2>2, BitStands
<1> QED BY <1>1, <1>2
----------------------------------------------------------------------------
(* The table pmm_init makes                                                *)

\* The pages of a table's regions up to i that are usable.
UsablePages(regions) ==
  [i \in DOMAIN regions |-> IF regions[i].type = "usable" THEN regions[i].pages ELSE 0]

\* What pmm_init has found in the first i regions.
Found(t, regions, i) ==
  /\ Regular(t)
  /\ \A k \in 1..Len(t) : \E j \in 1..i : regions[j].type = "usable" /\ t[k] = regions[j]
  /\ \A j \in 1..i : regions[j].type = "usable" => \E k \in 1..Len(t) : t[k] = regions[j]
  /\ PageCount(t) = Total(UsablePages(regions), i)

FindNext(t, regions, i) ==
  IF regions[i].type = "usable" THEN Append(t, regions[i]) ELSE t

LEMMA FindNextFinds ==
  ASSUME NEW regions, Regular(regions), NEW i \in 1..Len(regions),
         NEW t, Found(t, regions, i - 1)
  PROVE  Found(FindNext(t, regions, i), regions, i)
<1>0. /\ regions \in Seq(Region) /\ Len(regions) \in Nat /\ DOMAIN regions = 1..Len(regions)
      /\ i \in Nat /\ i \in 1..i /\ 1..i = (1..i - 1) \cup {i} /\ regions[i] \in Region
      /\ 1..i - 1 \subseteq 1..Len(regions)
      /\ \A j \in 1..Len(regions) : regions[j] \in Region
  BY DEF Regular
<1>1. /\ t \in Seq(Region) /\ Len(t) \in Nat /\ PageCount(t) \in Nat /\ regions[i].pages \in Nat
      /\ PageCount(t) = PagesOf(t, Len(t))
  <2>1. t \in Seq(Region) BY DEF Found, Regular
  <2> QED BY <1>0, <2>1, PagesAdd DEF Region
<1> DEFINE a == UsablePages(regions)
<1>2. /\ a \in [1..Len(regions) -> Nat]
      /\ a[i] = IF regions[i].type = "usable" THEN regions[i].pages ELSE 0
  BY <1>0 DEF UsablePages, Region
<1> HIDE DEF a
<1>3. Total(a, i) = Total(a, i - 1) + a[i]
  BY <1>0, <1>2, TotalAdds
<1>4. CASE regions[i].type # "usable"
  <2>1. FindNext(t, regions, i) = t
    BY <1>4 DEF FindNext
  <2>2. Total(a, i - 1) = PageCount(t) /\ Total(a, i) = PageCount(t)
    BY <1>1, <1>2, <1>3, <1>4 DEF Found, a
  <2> QED BY <2>1, <2>2, <1>0, <1>4 DEF Found, a
<1>5. CASE regions[i].type = "usable"
  <2> DEFINE n == Len(t)
             s == Append(t, regions[i])
  <2>1. /\ s \in Seq(Region) /\ n \in Nat /\ Len(s) = n + 1 /\ s[n + 1] = regions[i]
        /\ \A k \in 1..n : s[k] = t[k]
        /\ 1..n + 1 = (1..n) \cup {n + 1}
    BY <1>0, <1>1
  <2>2. FindNext(t, regions, i) = s
    BY <1>5 DEF FindNext
  <2> HIDE DEF s, n
  <2>3. Regular(s)
    <3> SUFFICES ASSUME NEW k \in 1..n + 1, NEW l \in 1..n + 1, k < l PROVE Apart(s[k], s[l])
      BY <2>1 DEF Regular
    <3>0. k \in 1..n BY <2>1
    <3>1. CASE l \in 1..n BY <3>0, <3>1, <2>1 DEF Found, Regular, n
    <3>2. CASE l = n + 1
      <4>1. PICK j \in 1..i - 1 : t[k] = regions[j] BY <3>0 DEF Found, n
      <4>2. j \in 1..Len(regions) /\ j < i BY <1>0
      <4>3. Apart(regions[j], regions[i]) BY <4>2 DEF Regular
      <4> QED BY <4>1, <4>3, <3>0, <3>2, <2>1
    <3> QED BY <3>1, <3>2, <2>1
  <2>4. \A k \in 1..n + 1 : \E j \in 1..i : regions[j].type = "usable" /\ s[k] = regions[j]
    BY <2>1, <1>0, <1>5 DEF Found, n
  <2>5. \A j \in 1..i : regions[j].type = "usable" => \E k \in 1..n + 1 : s[k] = regions[j]
    BY <2>1, <1>0 DEF Found, n
  <2>6. PageCount(s) = Total(a, i)
    <3>1. /\ PageCount(s) = PagesOf(s, n + 1)
          /\ PagesOf(s, n + 1) = PagesOf(s, n + 1 - 1) + s[n + 1].pages
      <4>1. n + 1 \in 1..Len(s) BY <2>1
      <4> QED BY <4>1, <2>1, PagesAdd
    <3>2. PagesOf(s, n) = PagesOf(t, n)
      <4> DEFINE b == [k \in DOMAIN s |-> s[k].pages]
                 c == [k \in DOMAIN t |-> t[k].pages]
      <4>1. DOMAIN s = 1..n + 1 /\ DOMAIN t = 1..n
        BY <1>1, <2>1 DEF n
      <4>2. /\ \A k \in 1..n + 1 : s[k] \in Region
            /\ \A k \in 1..n : t[k] \in Region
        BY <1>1, <2>1 DEF n
      <4>3. b \in [1..n + 1 -> Nat] /\ c \in [1..n -> Nat] /\ \A k \in 1..n : b[k] = c[k]
        BY <4>1, <4>2, <2>1 DEF Region
      <4>4. PagesOf(s, n) = Total(b, n) /\ PagesOf(t, n) = Total(c, n)
        BY DEF PagesOf
      <4> HIDE DEF b, c
      <4>5. n <= n + 1 /\ n <= n /\ n + 1 \in Nat
        BY <2>1
      <4>6. Total(b, n) = Total(c, n)
        BY <4>3, <4>5, <2>1, TotalOfPrefix
      <4> QED BY <4>4, <4>6
    <3>3. PageCount(t) = Total(a, i - 1)
      BY DEF Found, a
    <3> QED BY <3>1, <3>2, <3>3, <2>1, <1>1, <1>2, <1>3, <1>5 DEF n
  <2> QED BY <2>1, <2>2, <2>3, <2>4, <2>5, <2>6 DEF Found, a
<1> QED BY <1>4, <1>5

LEMMA UsableFound ==
  ASSUME NEW regions, Regular(regions)
  PROVE  Found(UsableTable(regions), regions, Len(regions))
<1> DEFINE N == Len(regions)
           T == Seq(Region)
           step == [i \in 1..N |-> [t \in T |-> FindNext(t, regions, i)]]
<1>1. N \in Nat /\ <<>> \in T /\ \A i \in 1..N : regions[i] \in Region
  BY DEF Regular
<1>2. ASSUME NEW i \in 1..N, NEW t \in T PROVE FindNext(t, regions, i) \in T
  <2>1. regions[i] \in Region BY <1>1
  <2>2. Append(t, regions[i]) \in T BY <2>1
  <2> QED BY <2>2 DEF FindNext
<1>3. Closed(step, N, T)
  BY <1>2 DEF Closed
<1> HIDE DEF N, T, step
<1>4. PICK f \in [0..N -> T] : Turns(f, <<>>, N, step)
  BY <1>1, <1>3, Iterates
<1>5. ASSUME NEW i \in 1..N PROVE step[i][f[i - 1]] = FindNext(f[i - 1], regions, i)
  <2>1. f[i - 1] \in T BY <1>1
  <2> QED BY <2>1 DEF step
<1> DEFINE found == CHOOSE g : g = [i \in 0..N |->
                      IF i = 0 THEN <<>>
                      ELSE IF regions[i].type = "usable" THEN Append(g[i - 1], regions[i])
                      ELSE g[i - 1]]
<1>6. f = [i \in 0..N |-> IF i = 0 THEN <<>>
                          ELSE IF regions[i].type = "usable" THEN Append(f[i - 1], regions[i])
                          ELSE f[i - 1]]
  <2>1. \A i \in 0..N : i # 0 => i \in 1..N BY <1>1
  <2> QED BY <1>1, <1>4, <1>5, <2>1 DEF Turns, FindNext
<1>7. found = [i \in 0..N |-> IF i = 0 THEN <<>>
                              ELSE IF regions[i].type = "usable" THEN Append(found[i - 1], regions[i])
                              ELSE found[i - 1]]
  BY <1>6
<1>8. UsableTable(regions) = found[N]
  BY DEF UsableTable, N
<1> HIDE DEF found
<1>9. found[0] = <<>> /\ \A i \in 1..N : found[i] = FindNext(found[i - 1], regions, i)
  <2>1. 0 \in 0..N /\ \A i \in 1..N : i \in 0..N /\ i # 0
    BY <1>1
  <2>2. found[0] = <<>>
    BY <1>7, <2>1
  <2>3. ASSUME NEW i \in 1..N PROVE found[i] = FindNext(found[i - 1], regions, i)
    BY <1>7, <2>1 DEF FindNext
  <2> QED BY <2>2, <2>3
<1> DEFINE Bad == {i \in 0..N : ~Found(found[i], regions, i)}
           k == Min(Bad)
<1>10. Bad = {}
  <2> SUFFICES ASSUME Bad # {} PROVE FALSE
    OBVIOUS
  <2>1. Bad \subseteq Nat
    OBVIOUS
  <2> HIDE DEF Bad
  <2>2. k \in Bad /\ \A i \in Bad : k <= i
    BY <2>1, MinIsLeast
  <2> HIDE DEF k
  <2>3. k \in 0..N /\ ~Found(found[k], regions, k)
    BY <2>2 DEF Bad
  <2>4. k # 0
    <3>1. <<>> \in Seq(Region) /\ Len(<<>>) = 0
      OBVIOUS
    <3>2. PageCount(<<>>) = 0
      BY <3>1, PagesAdd
    <3>3. Total(UsablePages(regions), 0) = 0
      <4>1. UsablePages(regions) \in [1..N -> Nat]
        <5>1. DOMAIN regions = 1..N BY DEF Regular, N
        <5> QED BY <1>1, <5>1 DEF UsablePages, Region
      <4> QED BY <1>1, <4>1, TotalAdds
    <3>4. Found(<<>>, regions, 0)
      BY <3>1, <3>2, <3>3 DEF Found, Regular
    <3> QED BY <3>4, <2>3, <1>9
  <2>5. k \in 1..N /\ k - 1 \in 0..N /\ ~(k <= k - 1)
    BY <2>3, <2>4, <1>1
  <2>6. Found(found[k - 1], regions, k - 1)
    BY <2>2, <2>5 DEF Bad
  <2>7. Found(FindNext(found[k - 1], regions, k), regions, k)
    BY <2>5, <2>6, FindNextFinds DEF N
  <2> QED BY <2>3, <2>5, <2>7, <1>9
<1>11. Found(found[N], regions, N)
  BY <1>1, <1>10
<1> QED BY <1>8, <1>11 DEF N
\* The boot loader's map, as kmain converts it, and pmm_init's table of it.
LEMMA MapsAreRegular ==
  ASSUME NEW m \in Maps
  PROVE  /\ Regular(Regions(m))
         /\ Len(Regions(m)) = Len(m) /\ Len(m) \in Nat /\ DOMAIN m = 1..Len(m)
         /\ \A i \in 1..Len(m) :
              /\ Regions(m)[i].base = m[i].base /\ Regions(m)[i].pages = m[i].pages
              /\ Regions(m)[i].type = MemoryType(m[i].type)
<1> DEFINE R == Regions(m)
<1>1. m \in Seq(Region) /\ Len(m) \in Nat /\ DOMAIN m = 1..Len(m)
  <2> DEFINE S == [base : Nat \ {0}, pages : Nat, type : STRING]
  <2>1. m \in Seq(S)
    BY PhysMemAssumption
  <2>2. S \subseteq Region
    BY DEF Region
  <2> HIDE DEF S
  <2>3. Len(m) \in Nat /\ m \in [1..Len(m) -> S]
    BY <2>1
  <2>4. m \in [1..Len(m) -> Region]
    BY <2>2, <2>3
  <2> QED BY <2>3, <2>4
<1>2. \A i \in 1..Len(m) : m[i] \in Region /\ MemoryType(m[i].type) \in STRING \cup {"unknown"}
  <2>1. \A i \in 1..Len(m) : m[i] \in Region
    BY <1>1
  <2>2. \A r \in Region : r.type \in STRING \cup {"unknown"}
    BY DEF Region
  <2>3. ASSUME NEW type \in STRING \cup {"unknown"}
        PROVE  MemoryType(type) \in STRING \cup {"unknown"}
    BY DEF MemoryType
  <2> QED BY <2>1, <2>2, <2>3
<1>3. R = [i \in 1..Len(m) |-> [base |-> m[i].base, pages |-> m[i].pages, type |-> MemoryType(m[i].type)]]
  BY <1>1, <1>2 DEF Regions, Region
<1> HIDE DEF R
<1>4. R \in [1..Len(m) -> Region]
  BY <1>2, <1>3 DEF Region
<1>5. R \in Seq(Region) /\ Len(R) = Len(m)
  BY <1>1, <1>4, <1>3
<1>6. \A i \in 1..Len(m) : R[i].base = m[i].base /\ R[i].pages = m[i].pages /\ R[i].type = MemoryType(m[i].type)
  BY <1>3
<1>7. ASSUME NEW i \in 1..Len(m), NEW j \in 1..Len(m), i < j PROVE Apart(R[i], R[j])
  <2>1. \/ m[i].base + m[i].pages <= m[j].base
        \/ m[j].base + m[j].pages <= m[i].base
    BY <1>7, PhysMemAssumption
  <2> QED BY <2>1, <1>6 DEF Apart
<1> QED BY <1>1, <1>5, <1>6, <1>7 DEF R, Regular

\* The usable frames are those of the table, which holds as many pages.
LEMMA TableSound ==
  ASSUME NEW m \in Maps
  PROVE  /\ Regular(UsableTable(Regions(m)))
         /\ FramesIn(UsableTable(Regions(m)))
              = UNION {FramesOf(m[i]) : i \in {i \in DOMAIN m : m[i].type = "usable"}}
         /\ PageCount(UsableTable(Regions(m))) = MemoryAmount(Regions(m), "usable")
<1> DEFINE R == Regions(m)
           u == UsableTable(R)
<1>1. /\ Regular(R) /\ Len(R) = Len(m) /\ Len(m) \in Nat /\ DOMAIN m = 1..Len(m)
      /\ \A i \in 1..Len(m) : R[i].base = m[i].base /\ R[i].pages = m[i].pages
                              /\ R[i].type = MemoryType(m[i].type)
  BY MapsAreRegular
<1> HIDE DEF R
<1>2. Found(u, R, Len(m))
  BY <1>1, UsableFound
<1> HIDE DEF u
<1>3. \A i \in 1..Len(m) : R[i].type = "usable" <=> m[i].type = "usable"
  BY <1>1 DEF MemoryType, LimineTypes
<1>4. Regular(u)
  BY <1>2 DEF Found
<1>5. PageCount(u) = MemoryAmount(R, "usable")
  BY <1>1, <1>2 DEF Found, UsablePages, MemoryAmount
<1>6. ASSUME NEW f \in FramesIn(u)
      PROVE  \E i \in DOMAIN m : m[i].type = "usable" /\ f \in FramesOf(m[i])
  <2>1. PICK k \in 1..Len(u) : f \in u[k].base..u[k].base + u[k].pages - 1
    BY <1>4, FramesAre
  <2>2. PICK j \in 1..Len(m) : R[j].type = "usable" /\ u[k] = R[j]
    BY <1>2 DEF Found
  <2> QED BY <2>1, <2>2, <1>1, <1>3 DEF FramesOf
<1>7. ASSUME NEW i \in DOMAIN m, m[i].type = "usable", NEW f \in FramesOf(m[i])
      PROVE  f \in FramesIn(u)
  <2>1. PICK k \in 1..Len(u) : u[k] = R[i]
    BY <1>1, <1>2, <1>3, <1>7 DEF Found
  <2>2. f \in u[k].base..u[k].base + u[k].pages - 1
    BY <1>1, <1>7, <2>1 DEF FramesOf
  <2> QED BY <2>2, <1>4, FramesAre
<1>8. FramesIn(u) = UNION {FramesOf(m[i]) : i \in {i \in DOMAIN m : m[i].type = "usable"}}
  BY <1>6, <1>7
<1> QED BY <1>4, <1>5, <1>8 DEF u, R
\* The sum over the nine types of a table's pages of the type.
OfType(regions, k) ==
  [i \in DOMAIN regions |-> IF regions[i].type = MemoryTypes[k] THEN regions[i].pages ELSE 0]

LEMMA NineSum ==
  ASSUME NEW a \in [1..9 -> Nat]
  PROVE  Total(a, 9) = a[1] + a[2] + a[3] + a[4] + a[5] + a[6] + a[7] + a[8] + a[9]
<1>1. Total(a, 0) = 0 /\ \A n \in 1..9 : Total(a, n) = Total(a, n - 1) + a[n]
  BY TotalAdds
<1>2. /\ Total(a, 1) = Total(a, 0) + a[1] /\ Total(a, 2) = Total(a, 1) + a[2]
      /\ Total(a, 3) = Total(a, 2) + a[3] /\ Total(a, 4) = Total(a, 3) + a[4]
      /\ Total(a, 5) = Total(a, 4) + a[5] /\ Total(a, 6) = Total(a, 5) + a[6]
      /\ Total(a, 7) = Total(a, 6) + a[7] /\ Total(a, 8) = Total(a, 7) + a[8]
      /\ Total(a, 9) = Total(a, 8) + a[9]
  BY <1>1
<1>3. \A n \in 1..9 : a[n] \in Nat
  OBVIOUS
<1> QED BY <1>1, <1>2, <1>3

\* What memory_amount says of the types adds up to what memory_total says.
LEMMA TypesAddUp ==
  ASSUME NEW m \in Maps
  PROVE  Total([k \in DOMAIN MemoryTypes |-> MemoryAmount(Regions(m), MemoryTypes[k])],
               Len(MemoryTypes)) = MemoryTotal(Regions(m))
<1> DEFINE R == Regions(m)
           N == Len(R)
           p == [i \in DOMAIN R |-> R[i].pages]
           a(k, i) == Total(OfType(R, k), i)
           f == [i \in 0..N |-> a(1, i) + a(2, i) + a(3, i) + a(4, i) + a(5, i)
                                + a(6, i) + a(7, i) + a(8, i) + a(9, i)]
           g == [i \in 0..N |-> Total(p, i)]
<1>1. /\ N \in Nat /\ DOMAIN R = 1..N
      /\ \A i \in 1..N : R[i].pages \in Nat /\ R[i].type = MemoryType(m[i].type)
  <2>1. /\ R \in Seq(Region)
        /\ \A i \in 1..N : R[i].type = MemoryType(m[i].type)
    BY MapsAreRegular DEF Regular
  <2> HIDE DEF R
  <2>2. \A i \in 1..N : R[i] \in Region
    BY <2>1
  <2>3. \A r \in Region : r.pages \in Nat
    BY DEF Region
  <2> QED BY <2>1, <2>2, <2>3
<1> HIDE DEF R, N
<1>2. p \in [1..N -> Nat] /\ \A k : OfType(R, k) \in [1..N -> Nat]
  BY <1>1 DEF OfType
<1>3. \A k \in 1..9 : a(k, 0) = 0 /\ \A i \in 0..N : a(k, i) \in Nat
  BY <1>1, <1>2, TotalAdds
<1>4. \A k : \A i \in 1..N : OfType(R, k)[i] = IF R[i].type = MemoryTypes[k] THEN R[i].pages ELSE 0
  BY <1>1 DEF OfType
<1>5. \A k \in 1..9 : \A i \in 1..N :
        a(k, i) = a(k, i - 1) + (IF R[i].type = MemoryTypes[k] THEN R[i].pages ELSE 0)
  <2> SUFFICES ASSUME NEW k \in 1..9, NEW i \in 1..N
               PROVE  a(k, i) = a(k, i - 1)
                                  + (IF R[i].type = MemoryTypes[k] THEN R[i].pages ELSE 0)
    OBVIOUS
  <2>1. OfType(R, k) \in [1..N -> Nat]
    BY <1>2
  <2>2. Total(OfType(R, k), i) = Total(OfType(R, k), i - 1) + OfType(R, k)[i]
    BY <2>1, <1>1, TotalAdds
  <2> QED BY <2>2, <1>4
<1>6. \A i \in 1..N :
        \E k \in 1..9 : \A l \in 1..9 : R[i].type = MemoryTypes[l] <=> l = k
  <2>1. \A i \in 1..N : R[i].type \in LimineTypes \cup {"unknown"}
    BY <1>1 DEF MemoryType
  <2>2. \A l \in 1..9 : MemoryTypes[l] =
          CASE l = 1 -> "usable" [] l = 2 -> "reserved" [] l = 3 -> "acpi_reclaimable"
            [] l = 4 -> "acpi_nvs" [] l = 5 -> "bad" [] l = 6 -> "bootloader_reclaimable"
            [] l = 7 -> "executable" [] l = 8 -> "framebuffer" [] l = 9 -> "unknown"
    BY DEF MemoryTypes
  <2>3. \A k, l \in 1..9 : MemoryTypes[k] = MemoryTypes[l] => k = l
    BY <2>2
  <2>4. \A type \in LimineTypes \cup {"unknown"} : \E k \in 1..9 : MemoryTypes[k] = type
    BY <2>2 DEF LimineTypes
  <2> QED BY <2>1, <2>3, <2>4
<1> HIDE DEF p, a
<1>7. ASSUME NEW i \in 1..N PROVE f[i] = f[i - 1] + p[i]
  <2>1. i \in 0..N /\ i - 1 \in 0..N /\ p[i] = R[i].pages /\ R[i].pages \in Nat
    BY <1>1 DEF p
  <2>2. \A k \in 1..9 : a(k, i - 1) \in Nat
    BY <2>1, <1>3
  <2>3. PICK k \in 1..9 : \A l \in 1..9 : R[i].type = MemoryTypes[l] <=> l = k
    BY <1>6
  <2>4. \A l \in 1..9 : a(l, i) = a(l, i - 1) + (IF l = k THEN R[i].pages ELSE 0)
    BY <1>5, <2>3
  <2>5. /\ a(1, i - 1) \in Nat /\ a(2, i - 1) \in Nat /\ a(3, i - 1) \in Nat /\ a(4, i - 1) \in Nat
        /\ a(5, i - 1) \in Nat /\ a(6, i - 1) \in Nat /\ a(7, i - 1) \in Nat /\ a(8, i - 1) \in Nat
        /\ a(9, i - 1) \in Nat
    BY <2>2
  <2>6. /\ a(1, i) = a(1, i - 1) + (IF 1 = k THEN R[i].pages ELSE 0)
        /\ a(2, i) = a(2, i - 1) + (IF 2 = k THEN R[i].pages ELSE 0)
        /\ a(3, i) = a(3, i - 1) + (IF 3 = k THEN R[i].pages ELSE 0)
        /\ a(4, i) = a(4, i - 1) + (IF 4 = k THEN R[i].pages ELSE 0)
        /\ a(5, i) = a(5, i - 1) + (IF 5 = k THEN R[i].pages ELSE 0)
        /\ a(6, i) = a(6, i - 1) + (IF 6 = k THEN R[i].pages ELSE 0)
        /\ a(7, i) = a(7, i - 1) + (IF 7 = k THEN R[i].pages ELSE 0)
        /\ a(8, i) = a(8, i - 1) + (IF 8 = k THEN R[i].pages ELSE 0)
        /\ a(9, i) = a(9, i - 1) + (IF 9 = k THEN R[i].pages ELSE 0)
    BY <2>4
  <2>7. a(1, i) + a(2, i) + a(3, i) + a(4, i) + a(5, i) + a(6, i) + a(7, i) + a(8, i) + a(9, i)
          = a(1, i - 1) + a(2, i - 1) + a(3, i - 1) + a(4, i - 1) + a(5, i - 1)
              + a(6, i - 1) + a(7, i - 1) + a(8, i - 1) + a(9, i - 1) + R[i].pages
    BY <2>1, <2>5, <2>6
  <2> QED BY <2>1, <2>7
<1>8. Adds(f, p, N)
  <2>1. a(1, 0) + a(2, 0) + a(3, 0) + a(4, 0) + a(5, 0) + a(6, 0) + a(7, 0) + a(8, 0) + a(9, 0) = 0
    BY <1>3
  <2>2. f[0] = 0
    BY <1>1, <2>1
  <2> QED BY <1>7, <2>2 DEF Adds
<1>9. Adds(g, p, N)
  <2>1. Total(p, 0) = 0 /\ \A i \in 1..N : Total(p, i) = Total(p, i - 1) + p[i]
    BY <1>1, <1>2, TotalAdds DEF p
  <2>2. \A i \in 1..N : i \in 0..N /\ i - 1 \in 0..N
    BY <1>1
  <2> QED BY <1>1, <2>1, <2>2 DEF Adds
<1>10. N \in 0..N /\ f[N] = a(1, N) + a(2, N) + a(3, N) + a(4, N) + a(5, N)
                              + a(6, N) + a(7, N) + a(8, N) + a(9, N)
       /\ g[N] = Total(p, N)
  BY <1>1
<1> HIDE DEF f, g
<1>11. f[N] = g[N]
  BY <1>1, <1>8, <1>9, <1>10, SumsAgree
<1> DEFINE b == [k \in DOMAIN MemoryTypes |-> MemoryAmount(Regions(m), MemoryTypes[k])]
<1>12. DOMAIN MemoryTypes = 1..9 /\ Len(MemoryTypes) = 9
  BY DEF MemoryTypes
<1>13. \A k \in 1..9 : b[k] = a(k, N)
  BY <1>12 DEF MemoryAmount, OfType, R, N, a
<1>14. b \in [1..9 -> Nat]
  BY <1>12, <1>13, <1>3, <1>10
<1> HIDE DEF b
<1>15. Total(b, 9) = a(1, N) + a(2, N) + a(3, N) + a(4, N) + a(5, N)
                       + a(6, N) + a(7, N) + a(8, N) + a(9, N)
  <2>1. /\ b[1] = a(1, N) /\ b[2] = a(2, N) /\ b[3] = a(3, N) /\ b[4] = a(4, N) /\ b[5] = a(5, N)
        /\ b[6] = a(6, N) /\ b[7] = a(7, N) /\ b[8] = a(8, N) /\ b[9] = a(9, N)
    BY <1>13
  <2> QED BY <2>1, <1>14, NineSum
<1>16. MemoryTotal(Regions(m)) = Total(p, N)
  BY DEF MemoryTotal, PageCount, PagesOf, p, R, N
<1> QED BY <1>10, <1>11, <1>12, <1>15, <1>16 DEF b
----------------------------------------------------------------------------
(* The bits and the frames that are owned                                  *)

\* The bits set are the bitmap's and one for each frame owned.
Allots(u, set, own) ==
  /\ Regular(u)
  /\ own \subseteq FramesIn(u)
  /\ set = Reserved(u) \cup {IndexOf(u, f) : f \in own}
  /\ \A f \in own : IndexOf(u, f) \notin Reserved(u)

LEMMA BitmapFitsBits ==
  ASSUME NEW u, Regular(u)
  PROVE  /\ BitmapPages(u) \in Nat /\ BitmapPages(u) <= PageCount(u)
         /\ PageCount(u) \in Nat /\ Reserved(u) \subseteq 0..PageCount(u) - 1
<1>1. PageCount(u) \in Nat
  BY PagesAdd DEF Regular
<1>2. ASSUME NEW p \in Nat, NEW b \in Nat \ {0}, NEW q, q = (p + b - 1) \div b
      PROVE  q \in Nat /\ q <= p
  <2> DEFINE r == (p + b - 1) % b
  <2>1. r \in 0..b - 1 /\ q \in Int /\ p + b - 1 = b * q + r
    BY <1>2
  <2> HIDE DEF r
  <2>2. q >= 0
    <3> SUFFICES ASSUME q <= -1 PROVE FALSE
      BY <2>1
    <3>1. b * (-1 - q) \in Nat /\ b * (-1 - q) = (-b) - b * q
      BY <2>1
    <3> QED BY <2>1, <3>1
  <2>3. q <= p
    <3> SUFFICES ASSUME q >= p + 1 PROVE FALSE
      BY <2>1
    <3>1. q - p - 1 \in Nat /\ b - 1 \in Nat
      BY <2>1
    <3>2. b * (q - p - 1) >= 0 /\ (b - 1) * p >= 0
      BY <3>1
    <3>3. b * (q - p - 1) = b * q - b * p - b /\ (b - 1) * p = b * p - p
      BY <2>1
    <3>4. b * q \in Int /\ b * p \in Int
      BY <2>1
    <3> QED BY <2>1, <3>2, <3>3, <3>4
  <2> QED BY <2>1, <2>2, <2>3
<1>3. BitmapPages(u) \in Nat /\ BitmapPages(u) <= PageCount(u)
  BY <1>1, <1>2, PhysMemAssumption DEF BitmapPages
<1> QED BY <1>1, <1>3 DEF Reserved

LEMMA IndicesDiffer ==
  ASSUME NEW u, Regular(u), NEW f \in FramesIn(u), NEW g \in FramesIn(u), IndexOf(u, f) = IndexOf(u, g)
  PROVE  f = g
BY BitsAreFrames

LEMMA BitsAreBits ==
  ASSUME NEW u, NEW set, NEW own, Allots(u, set, own)
  PROVE  set \subseteq 0..PageCount(u) - 1
BY BitmapFitsBits, BitsAreFrames DEF Allots

\* pmm_alloc_page hands out a usable frame that nobody owns.
LEMMA AllocAllots ==
  ASSUME NEW m, Allots(m.usable, m.bits, m.owned), ~NoPage(m)
  PROVE  /\ NextPage(m) \in FramesIn(m.usable) \ m.owned
         /\ Allots(m.usable, m.bits \cup {Min(ClearBits(m))}, m.owned \cup {NextPage(m)})
<1> DEFINE u == m.usable
           b == Min(ClearBits(m))
           f == NextPage(m)
<1>1. ClearBits(m) \subseteq Nat /\ ClearBits(m) # {} /\ Regular(u)
  BY DEF NoPage, ClearBits, Allots
<1>2. b \in ClearBits(m)
  BY <1>1, MinIsLeast
<1>3. f = FrameOf(u, b)
  BY DEF NextPage
<1> HIDE DEF b, f
<1>4. b \in 0..PageCount(u) - 1 /\ b \notin m.bits
  BY <1>2 DEF ClearBits
<1>5. f \in FramesIn(u) /\ IndexOf(u, f) = b
  BY <1>1, <1>3, <1>4, BitsAreFrames
<1>6. f \notin m.owned /\ b \notin Reserved(u)
  BY <1>4, <1>5 DEF Allots
<1> HIDE DEF u
<1>7. m.bits \cup {b} = Reserved(u) \cup {IndexOf(u, g) : g \in m.owned \cup {f}}
  BY <1>5 DEF Allots, u
<1> QED BY <1>5, <1>6, <1>7 DEF Allots, b, f, u

\* pmm_free_page clears the bit of that frame and no other.
LEMMA FreeAllots ==
  ASSUME NEW u, NEW set, NEW own, Allots(u, set, own), NEW f \in own
  PROVE  Allots(u, set \ {IndexOf(u, f)}, own \ {f})
<1>1. \A g \in own : IndexOf(u, g) = IndexOf(u, f) => g = f
  BY IndicesDiffer DEF Allots
<1>2. set \ {IndexOf(u, f)} = Reserved(u) \cup {IndexOf(u, g) : g \in own \ {f}}
  BY <1>1 DEF Allots
<1> QED BY <1>2 DEF Allots

LEMMA CountOfBits ==
  ASSUME NEW n \in Nat
  PROVE  IsFiniteSet(0..n - 1) /\ Cardinality(0..n - 1) = n
<1>1. 0 \in Int /\ n - 1 \in Int
  OBVIOUS
<1>2. IsFiniteSet(0..n - 1) /\ Cardinality(0..n - 1) = IF 0 > n - 1 THEN 0 ELSE n - 1 - 0 + 1
  BY <1>1, FS_Interval
<1> QED BY <1>2

\* There are as many bits set as frames taken.
LEMMA BitsCounted ==
  ASSUME NEW u, NEW set, NEW own, Allots(u, set, own)
  PROVE  /\ IsFiniteSet(set) /\ IsFiniteSet(own)
         /\ Cardinality(set) = BitmapPages(u) + Cardinality(own)
         /\ Cardinality(set) + Cardinality((0..PageCount(u) - 1) \ set) = PageCount(u)
<1> DEFINE all == 0..PageCount(u) - 1
           taken == {IndexOf(u, f) : f \in own}
<1>1. PageCount(u) \in Nat /\ BitmapPages(u) \in Nat /\ Regular(u) /\ set \subseteq all
  BY BitmapFitsBits, BitsAreBits DEF Allots
<1>2. IsFiniteSet(all) /\ Cardinality(all) = PageCount(u)
  BY <1>1, CountOfBits
<1>3. IsFiniteSet(Reserved(u)) /\ Cardinality(Reserved(u)) = BitmapPages(u)
  BY <1>1, CountOfBits DEF Reserved
<1>4. IsFiniteSet(set)
  BY <1>1, <1>2, FS_Subset
<1>5. taken \subseteq set /\ Reserved(u) \cap taken = {} /\ set = Reserved(u) \cup taken
  BY DEF Allots
<1>6. IsFiniteSet(taken)
  BY <1>4, <1>5, FS_Subset
<1>7. IsFiniteSet(own) /\ Cardinality(own) = Cardinality(taken)
  <2> DEFINE bit == [f \in own |-> IndexOf(u, f)]
             back == [b \in taken |-> FrameOf(u, b)]
  <2>1. own \subseteq FramesIn(u)
    BY DEF Allots
  <2>2. \A f \in own : FrameOf(u, IndexOf(u, f)) = f
    BY <1>1, <2>1, BitsAreFrames
  <2>3. back \in [taken -> own]
    BY <2>2
  <2>4. \A f \in own : \E b \in taken : back[b] = f
    BY <2>2
  <2>5. \A b, c \in taken : back[b] = back[c] => b = c
    BY <2>2
  <2> HIDE DEF back, taken
  <2>6. back \in Bijection(taken, own)
    BY <2>3, <2>4, <2>5 DEF Bijection, Injection, Surjection, IsInjective
  <2>7. ExistsBijection(taken, own)
    BY <2>6 DEF ExistsBijection
  <2> QED BY <2>7, <1>6, FS_Bijection
<1>8. Cardinality(set) = BitmapPages(u) + Cardinality(own)
  <2> HIDE DEF taken
  <2>1. Cardinality(set) = Cardinality(Reserved(u)) + Cardinality(taken) - Cardinality({})
    BY <1>3, <1>5, <1>6, FS_Union
  <2>2. Cardinality({}) = 0 /\ Cardinality(taken) \in Nat
    BY <1>6, FS_EmptySet, FS_CardinalityType
  <2> QED BY <1>1, <1>3, <1>7, <2>1, <2>2
<1>9. Cardinality(all \ set) = Cardinality(all) - Cardinality(all \cap set)
  BY <1>2, FS_Difference
<1>10. all \cap set = set
  BY <1>1
<1>11. Cardinality(set) \in Nat
  BY <1>4, FS_CardinalityType
<1> HIDE DEF all, taken
<1>12. Cardinality(set) + Cardinality(all \ set) = PageCount(u)
  BY <1>1, <1>2, <1>9, <1>10, <1>11
<1> QED BY <1>4, <1>7, <1>8, <1>12 DEF all
\* The first region that is not empty has room for the bitmap.
RoomForBitmap(u) ==
  NonEmpty(u) # {} => BitmapPages(u) <= u[Min(NonEmpty(u))].pages

\* Then the bitmap's frames are those of its bits.
LEMMA BitmapStands ==
  ASSUME NEW u, Regular(u), RoomForBitmap(u), NonEmpty(u) # {},
         NEW f \in u[Min(NonEmpty(u))].base..u[Min(NonEmpty(u))].base + BitmapPages(u) - 1
  PROVE  f \in FramesIn(u) /\ IndexOf(u, f) \in Reserved(u)
<1> DEFINE i == Min(NonEmpty(u))
<1>0. u \in Seq(Region) /\ Len(u) \in Nat /\ DOMAIN u = 1..Len(u)
  BY DEF Regular
<1>1. NonEmpty(u) \subseteq Nat /\ NonEmpty(u) \subseteq 1..Len(u)
  BY <1>0 DEF NonEmpty
<1>2. i \in NonEmpty(u) /\ \A k \in NonEmpty(u) : i <= k
  BY <1>1, MinIsLeast
<1>3. BitmapPages(u) <= u[i].pages /\ f \in u[i].base..u[i].base + BitmapPages(u) - 1
  BY DEF RoomForBitmap
<1> HIDE DEF i
<1>4. i \in 1..Len(u) /\ i - 1 \in 0..Len(u) /\ u[i] \in Region
  BY <1>0, <1>1, <1>2
<1>5. u[i].base \in Nat /\ u[i].pages \in Nat /\ BitmapPages(u) \in Nat
  BY <1>4, BitmapFitsBits DEF Region
<1>6. PagesOf(u, i - 1) = 0
  <2>0. PagesOf(u, i - 1) \in Nat
    BY <1>0, <1>4, PagesAdd
  <2> SUFFICES ASSUME PagesOf(u, i - 1) > 0 PROVE FALSE
    BY <2>0
  <2>1. PageCount(u) \in Nat /\ PagesOf(u, i - 1) <= PageCount(u)
    <3>1. Len(u) \in 0..Len(u) /\ i - 1 <= Len(u) BY <1>0, <1>4
    <3> QED BY <3>1, <1>0, <1>4, PagesAdd
  <2>2. 0 \in 0..PageCount(u) - 1
    BY <2>0, <2>1
  <2>3. PICK j, g : StandsFor(u, j, 0, g)
    BY <2>2, EachBitStands
  <2>4. /\ j \in 1..Len(u) /\ g \in u[j].base..u[j].base + u[j].pages - 1
        /\ 0 = PagesOf(u, j - 1) + (g - u[j].base)
    BY <2>3 DEF StandsFor
  <2>5. u[j] \in Region /\ u[j].base \in Nat /\ u[j].pages \in Nat
    <3>1. u[j] \in Region BY <1>0, <2>4
    <3> QED BY <3>1 DEF Region
  <2>6. j \in NonEmpty(u)
    BY <2>4, <2>5, <1>0 DEF NonEmpty
  <2>7. i <= j /\ j - 1 \in 0..Len(u) /\ i - 1 <= j - 1
    BY <2>4, <2>6, <1>0, <1>2, <1>4
  <2>8. PagesOf(u, i - 1) <= PagesOf(u, j - 1) /\ PagesOf(u, j - 1) \in Nat
    BY <2>7, <1>0, <1>4, PagesAdd
  <2> QED BY <2>0, <2>4, <2>5, <2>8
<1> DEFINE b == f - u[i].base
<1>7. f \in u[i].base..u[i].base + u[i].pages - 1 /\ b \in 0..BitmapPages(u) - 1
  BY <1>3, <1>5
<1>8. StandsFor(u, i, b, f)
  BY <1>4, <1>5, <1>6, <1>7 DEF StandsFor
<1>9. f \in FramesIn(u) /\ IndexOf(u, f) = b
  BY <1>8, BitStands
<1> QED BY <1>7, <1>9 DEF Reserved
----------------------------------------------------------------------------
(* The tree of tables                                                      *)

\* The frames that the entries of a set of tables lead to, and so level by level.
Under(T, tables) == {T[t][i] : t \in tables, i \in Index} \ {0}

Third(T) == Under(T, {Root})
Second(T) == Under(T, Third(T))
First(T) == Under(T, Second(T))
InUse(T) == {Root} \cup Third(T) \cup Second(T) \cup First(T)

Devices == {Lapic, Bar, Bar + 1}

\* Frames F in which the tables lie, frames H in the hands of vmm.c.
Tree(T, F, H) ==
  /\ Root \notin F /\ 0 \notin F /\ Devices \cap F = {} /\ H \subseteq F /\ F \subseteq Nat
  /\ T \in [F \cup {Root} -> [Index -> Nat]]
  /\ Third(T) \subseteq H /\ Second(T) \subseteq H /\ First(T) \subseteq H
  /\ \A t \in First(T) : \A i \in Index : T[t][i] \in {0} \cup Devices \cup H
  /\ \A s, t \in InUse(T) : \A i, j \in Index :
       T[s][i] = T[t][j] /\ T[s][i] \in F => s = t /\ i = j

\* No table in use leads to frame f.
Unlinked(T, f) == \A t \in InUse(T) : \A i \in Index : T[t][i] # f

LEMMA UnderIs ==
  ASSUME NEW T, NEW tables, NEW f
  PROVE  f \in Under(T, tables) <=> f # 0 /\ \E t \in tables : \E i \in Index : T[t][i] = f
BY DEF Under

\* The levels of the tree have no table in common.
LEMMA LevelsApart ==
  ASSUME NEW T, NEW F, NEW H, Tree(T, F, H)
  PROVE  /\ Root \notin Third(T) /\ Root \notin Second(T) /\ Root \notin First(T)
         /\ Third(T) \cap Second(T) = {} /\ Third(T) \cap First(T) = {}
         /\ Second(T) \cap First(T) = {}
         /\ 0 \notin InUse(T) /\ InUse(T) \subseteq H \cup {Root}
<1>1. Root \notin H /\ H \subseteq F /\ Third(T) \subseteq H /\ Second(T) \subseteq H /\ First(T) \subseteq H
  BY DEF Tree
<1>2. ASSUME NEW s \in InUse(T), NEW t \in InUse(T), NEW i \in Index, NEW j \in Index,
             T[s][i] = T[t][j], T[s][i] \in H
      PROVE  s = t
  BY <1>1, <1>2 DEF Tree
<1>3. ASSUME NEW f \in Third(T), f \in Second(T) PROVE FALSE
  <2>1. PICK i \in Index : T[Root][i] = f
    BY UnderIs DEF Third
  <2>2. PICK t \in Third(T), j \in Index : T[t][j] = f
    BY <1>3, UnderIs DEF Second
  <2>3. t = Root
    BY <2>1, <2>2, <1>1, <1>2 DEF InUse
  <2> QED BY <2>2, <2>3, <1>1
<1>4. ASSUME NEW f \in Third(T), f \in First(T) PROVE FALSE
  <2>1. PICK i \in Index : T[Root][i] = f
    BY UnderIs DEF Third
  <2>2. PICK t \in Second(T), j \in Index : T[t][j] = f
    BY <1>4, UnderIs DEF First
  <2>3. t = Root
    BY <2>1, <2>2, <1>1, <1>2 DEF InUse
  <2> QED BY <2>2, <2>3, <1>1
<1>5. ASSUME NEW f \in Second(T), f \in First(T) PROVE FALSE
  <2>1. PICK s \in Third(T), i \in Index : T[s][i] = f
    BY UnderIs DEF Second
  <2>2. PICK t \in Second(T), j \in Index : T[t][j] = f
    BY <1>5, UnderIs DEF First
  <2>3. s = t
    BY <2>1, <2>2, <1>1, <1>2 DEF InUse
  <2> QED BY <2>1, <2>2, <2>3, <1>3
<1>6. 0 \notin H /\ Root # 0
  BY VirtMemAssumption DEF Tree
<1> QED BY <1>1, <1>3, <1>4, <1>5, <1>6 DEF InUse

\* Tables that are the same lead to the same frames.
LEMMA UnderSame ==
  ASSUME NEW T, NEW U, NEW tables, \A t \in tables : U[t] = T[t]
  PROVE  Under(U, tables) = Under(T, tables)
<1>1. \A f : f \in Under(U, tables) <=> f \in Under(T, tables)
  BY UnderIs
<1> QED BY <1>1

\* An entry that was not present is made to lead to a new, empty table.
Linked(T, a, i, f) == [T EXCEPT ![f] = EmptyTable, ![a][i] = f]

\* What the tables are then.
Extends(U, T, F, a, i, f) ==
  /\ f \notin InUse(T) /\ f # 0 /\ f \in Nat
  /\ U \in [F \cup {Root} -> [Index -> Nat]]
  /\ \A t \in InUse(T) : \A j \in Index : U[t][j] = IF t = a /\ j = i THEN f ELSE T[t][j]
  /\ \A t \in InUse(T) : t # a => U[t] = T[t]
  /\ \A j \in Index : U[f][j] = 0

LeadsOn(U, T, tables, a, f) ==
  /\ a \in tables => Under(U, tables) = Under(T, tables) \cup {f}
  /\ a \notin tables => Under(U, tables) = Under(T, tables)
  /\ Under(U, tables \cup {f}) = Under(U, tables)

LinkedBelow(U, T, F, H, a, f) ==
  /\ Tree(U, F, H \cup {f})
  /\ InUse(U) = InUse(T) \cup {f}
  /\ Third(U) = Third(T) \cup (IF a = Root THEN {f} ELSE {})
  /\ Second(U) = Second(T) \cup (IF a \in Third(T) THEN {f} ELSE {})
  /\ First(U) = First(T) \cup (IF a \in Second(T) THEN {f} ELSE {})

LEMMA LinkedIs ==
  ASSUME NEW T, NEW F, NEW H, Tree(T, F, H), NEW a \in InUse(T), NEW i \in Index,
         NEW f \in F \ H
  PROVE  Extends(Linked(T, a, i, f), T, F, a, i, f)
<1> DEFINE U == Linked(T, a, i, f)
           S == [Index -> Nat]
<1>1. /\ f \notin InUse(T) /\ f # 0 /\ f \in Nat /\ f # a /\ a \in F \cup {Root}
      /\ InUse(T) \subseteq F \cup {Root} /\ f \in F \cup {Root}
  <2>1. Root \notin F /\ 0 \notin F /\ H \subseteq F /\ F \subseteq Nat
    BY DEF Tree
  <2>2. InUse(T) \subseteq H \cup {Root}
    BY LevelsApart
  <2> QED BY <2>1, <2>2
<1>2. T \in [F \cup {Root} -> S]
  BY DEF Tree
<1>3. EmptyTable \in S /\ \A j \in Index : EmptyTable[j] = 0
  BY DEF EmptyTable
<1>4. T[a] \in S
  BY <1>1, <1>2
<1> DEFINE b == [T[a] EXCEPT ![i] = f]
<1>5. b \in S /\ \A j \in Index : b[j] = IF j = i THEN f ELSE T[a][j]
  BY <1>1, <1>4
<1> HIDE DEF S, b
<1>6. U = [t \in F \cup {Root} |-> IF t = a THEN b ELSE IF t = f THEN EmptyTable ELSE T[t]]
  BY <1>1, <1>2 DEF Linked, b
<1> HIDE DEF U
<1>7. U \in [F \cup {Root} -> S]
  BY <1>2, <1>3, <1>5, <1>6
<1>8. \A t \in InUse(T) : U[t] = IF t = a THEN b ELSE T[t]
  BY <1>1, <1>6
<1>9. U[f] = EmptyTable
  BY <1>1, <1>6
<1> QED BY <1>1, <1>3, <1>5, <1>7, <1>8, <1>9 DEF U, S, Extends
LEMMA UnderLinked ==
  ASSUME NEW T, NEW F, NEW H, Tree(T, F, H), NEW a \in InUse(T), NEW i \in Index, T[a][i] = 0,
         NEW f \in F \ H, NEW tables, tables \subseteq InUse(T)
  PROVE  LeadsOn(Linked(T, a, i, f), T, tables, a, f)
<1> DEFINE U == Linked(T, a, i, f)
<1>1. /\ f # 0
      /\ \A t \in InUse(T) : \A j \in Index : U[t][j] = IF t = a /\ j = i THEN f ELSE T[t][j]
      /\ \A t \in InUse(T) : t # a => U[t] = T[t]
      /\ \A j \in Index : U[f][j] = 0
  <2>1. Extends(U, T, F, a, i, f)
    BY LinkedIs
  <2> QED BY <2>1 DEF Extends
<1> HIDE DEF U
<1>2. ASSUME a \in tables, NEW g
      PROVE  g \in Under(U, tables) <=> g \in Under(T, tables) \cup {f}
  <2>1. g \in Under(U, tables) <=> g # 0 /\ \E t \in tables : \E j \in Index : U[t][j] = g
    BY UnderIs
  <2>2. g \in Under(T, tables) <=> g # 0 /\ \E t \in tables : \E j \in Index : T[t][j] = g
    BY UnderIs
  <2> QED BY <1>1, <1>2, <2>1, <2>2
<1>3. a \in tables => Under(U, tables) = Under(T, tables) \cup {f}
  BY <1>2
<1>4. a \notin tables => Under(U, tables) = Under(T, tables)
  BY <1>1, UnderSame
<1>5. ASSUME NEW g PROVE g \in Under(U, tables \cup {f}) <=> g \in Under(U, tables)
  BY <1>1, UnderIs
<1>6. Under(U, tables \cup {f}) = Under(U, tables)
  BY <1>5
<1> QED BY <1>3, <1>4, <1>6 DEF U, LeadsOn

\* Linking a new table leaves a tree, with the table at the level below.
LEMMA LinkedTree ==
  ASSUME NEW T, NEW F, NEW H, Tree(T, F, H),
         NEW a \in {Root} \cup Third(T) \cup Second(T), NEW i \in Index, T[a][i] = 0,
         NEW f \in F \ H, NEW U, U = Linked(T, a, i, f)
  PROVE  LinkedBelow(U, T, F, H, a, f)
<1>0. /\ a \in InUse(T) /\ Third(T) \subseteq InUse(T) /\ Second(T) \subseteq InUse(T)
      /\ First(T) \subseteq InUse(T) /\ {Root} \subseteq InUse(T)
  BY DEF InUse
<1>1. /\ f \notin InUse(T) /\ f # 0 /\ f \in Nat
      /\ U \in [F \cup {Root} -> [Index -> Nat]]
      /\ \A t \in InUse(T) : \A j \in Index : U[t][j] = IF t = a /\ j = i THEN f ELSE T[t][j]
      /\ \A t \in InUse(T) : t # a => U[t] = T[t]
      /\ \A j \in Index : U[f][j] = 0
  <2>1. Extends(U, T, F, a, i, f)
    BY <1>0, LinkedIs
  <2> QED BY <2>1 DEF Extends
<1>2. /\ Root \notin Third(T) /\ Root \notin Second(T) /\ Root \notin First(T)
      /\ Third(T) \cap Second(T) = {} /\ Third(T) \cap First(T) = {}
      /\ Second(T) \cap First(T) = {}
      /\ 0 \notin InUse(T) /\ InUse(T) \subseteq H \cup {Root}
  BY LevelsApart
<1>3. ASSUME NEW tables, tables \subseteq InUse(T)
      PROVE  /\ a \in tables => Under(U, tables) = Under(T, tables) \cup {f}
             /\ a \notin tables => Under(U, tables) = Under(T, tables)
             /\ Under(U, tables \cup {f}) = Under(U, tables)
  <2>1. LeadsOn(U, T, tables, a, f)
    BY <1>0, <1>3, UnderLinked
  <2> QED BY <2>1 DEF LeadsOn
<1>4. Third(U) = Third(T) \cup (IF a = Root THEN {f} ELSE {})
  BY <1>0, <1>3 DEF Third
<1>5. Second(U) = Second(T) \cup (IF a \in Third(T) THEN {f} ELSE {})
  <2>1. Under(U, Third(U)) = Under(U, Third(T))
    BY <1>0, <1>3, <1>4
  <2> QED BY <2>1, <1>0, <1>3 DEF Second
<1>6. First(U) = First(T) \cup (IF a \in Second(T) THEN {f} ELSE {})
  <2>1. Under(U, Second(U)) = Under(U, Second(T))
    BY <1>0, <1>3, <1>5
  <2> QED BY <2>1, <1>0, <1>3 DEF First
<1>7. InUse(U) = InUse(T) \cup {f}
  BY <1>4, <1>5, <1>6 DEF InUse
<1>8. ASSUME NEW t \in First(U), NEW j \in Index PROVE U[t][j] \in {0} \cup Devices \cup (H \cup {f})
  <2>1. CASE t = f BY <2>1, <1>1
  <2>2. CASE t # f
    <3>1. t \in First(T) /\ t # a BY <2>2, <1>2, <1>6
    <3>2. U[t][j] = T[t][j] BY <3>1, <1>0, <1>1
    <3> QED BY <3>1, <3>2 DEF Tree
  <2> QED BY <2>1, <2>2
<1>9. /\ Root \notin F /\ 0 \notin F /\ Devices \cap F = {} /\ H \subseteq F /\ F \subseteq Nat
      /\ Third(T) \subseteq H /\ Second(T) \subseteq H /\ First(T) \subseteq H
  BY DEF Tree
<1>10. ASSUME NEW s \in InUse(U), NEW t \in InUse(U), NEW j \in Index, NEW k \in Index,
              U[s][j] = U[t][k], U[s][j] \in F
       PROVE  s = t /\ j = k
  <2>1. s # f /\ t # f
    BY <1>1, <1>9, <1>10
  <2>2. s \in InUse(T) /\ t \in InUse(T)
    BY <1>7, <2>1
  <2>3. ASSUME NEW r \in InUse(T), NEW l \in Index PROVE T[r][l] # f
    <3>1. CASE r \in First(T)
      <4>1. T[r][l] \in {0} \cup Devices \cup H BY <3>1 DEF Tree
      <4> QED BY <4>1, <1>1, <1>9
    <3>2. CASE r \notin First(T)
      <4> SUFFICES ASSUME T[r][l] = f PROVE FALSE
        OBVIOUS
      <4>1. f \in Third(T) \cup Second(T) \cup First(T)
        BY <2>3, <3>2, <1>1, UnderIs DEF InUse, Third, Second, First
      <4> QED BY <4>1, <1>0, <1>1
    <3> QED BY <3>1, <3>2
  <2>4. /\ U[s][j] = IF s = a /\ j = i THEN f ELSE T[s][j]
        /\ U[t][k] = IF t = a /\ k = i THEN f ELSE T[t][k]
    BY <1>1, <2>2
  <2>5. CASE s = a /\ j = i
    BY <2>2, <2>3, <2>4, <2>5, <1>10
  <2>6. CASE ~(s = a /\ j = i)
    <3>1. U[t][k] = T[t][k] /\ T[s][j] = T[t][k] /\ T[s][j] \in F
      BY <2>2, <2>3, <2>4, <2>6, <1>10
    <3> QED BY <3>1, <2>2 DEF Tree
  <2> QED BY <2>5, <2>6
<1>11. Third(U) \subseteq H \cup {f} /\ Second(U) \subseteq H \cup {f} /\ First(U) \subseteq H \cup {f}
  BY <1>4, <1>5, <1>6, <1>9
<1>12. Tree(U, F, H \cup {f})
  <2>1. H \cup {f} \subseteq F BY <1>9
  <2>2. \A t \in First(U) : \A j \in Index : U[t][j] \in {0} \cup Devices \cup (H \cup {f})
    BY <1>8
  <2>3. \A s, t \in InUse(U) : \A j, k \in Index :
          U[s][j] = U[t][k] /\ U[s][j] \in F => s = t /\ j = k
    BY <1>10
  <2> QED BY <2>1, <2>2, <2>3, <1>1, <1>9, <1>11 DEF Tree
<1> QED BY <1>4, <1>5, <1>6, <1>7, <1>12 DEF LinkedBelow
----------------------------------------------------------------------------
(* Writing an entry of a table of the last level                           *)

Stored(T, a, i, p) == [T EXCEPT ![a][i] = p]

\* The tables are where they were and one entry is p.
Rewrites(U, T, F, a, i, p) ==
  /\ U \in [F \cup {Root} -> [Index -> Nat]]
  /\ \A t \in InUse(T) : \A j \in Index : U[t][j] = IF t = a /\ j = i THEN p ELSE T[t][j]
  /\ Third(U) = Third(T) /\ Second(U) = Second(T) /\ First(U) = First(T) /\ InUse(U) = InUse(T)

LEMMA StoredRewrites ==
  ASSUME NEW T, NEW F, NEW H, Tree(T, F, H), NEW a \in First(T), NEW i \in Index, NEW p \in Nat
  PROVE  Rewrites(Stored(T, a, i, p), T, F, a, i, p)
<1> DEFINE U == Stored(T, a, i, p)
           S == [Index -> Nat]
           b == [T[a] EXCEPT ![i] = p]
<1>0. /\ {Root} \subseteq InUse(T) /\ Third(T) \subseteq InUse(T) /\ Second(T) \subseteq InUse(T)
      /\ First(T) \subseteq InUse(T)
  BY DEF InUse
<1>1. a # Root /\ a \notin Third(T) /\ a \notin Second(T) /\ InUse(T) \subseteq F \cup {Root}
  <2>1. H \subseteq F BY DEF Tree
  <2> QED BY <2>1, LevelsApart
<1>2. T \in [F \cup {Root} -> S] /\ a \in F \cup {Root}
  BY <1>0, <1>1 DEF Tree
<1>3. T[a] \in S
  BY <1>2
<1>4. b \in S /\ \A j \in Index : b[j] = IF j = i THEN p ELSE T[a][j]
  BY <1>3
<1> HIDE DEF S, b
<1>5. U = [t \in F \cup {Root} |-> IF t = a THEN b ELSE T[t]]
  BY <1>2 DEF Stored, b
<1> HIDE DEF U
<1>6. U \in [F \cup {Root} -> S]
  BY <1>2, <1>4, <1>5
<1>7. \A t \in InUse(T) : U[t] = IF t = a THEN b ELSE T[t]
  BY <1>1, <1>5
<1>8. Third(U) = Third(T)
  <2>1. \A t \in {Root} : U[t] = T[t]
    BY <1>0, <1>1, <1>7
  <2> QED BY <2>1, UnderSame DEF Third
<1>9. Second(U) = Second(T)
  <2>1. \A t \in Third(T) : U[t] = T[t]
    BY <1>0, <1>1, <1>7
  <2> QED BY <2>1, <1>8, UnderSame DEF Second
<1>10. First(U) = First(T)
  <2>1. \A t \in Second(T) : U[t] = T[t]
    BY <1>0, <1>1, <1>7
  <2> QED BY <2>1, <1>9, UnderSame DEF First
<1>11. InUse(U) = InUse(T)
  BY <1>8, <1>9, <1>10 DEF InUse
<1> QED BY <1>4, <1>6, <1>7, <1>8, <1>9, <1>10, <1>11 DEF Rewrites, U, S

\* Storing a frame that no table leads to, or none, leaves a tree.
LEMMA StoredTree ==
  ASSUME NEW T, NEW F, NEW H, Tree(T, F, H), NEW a \in First(T), NEW i \in Index,
         NEW p \in {0} \cup Devices \cup H, p \in H => Unlinked(T, p),
         NEW U, Rewrites(U, T, F, a, i, p)
  PROVE  Tree(U, F, H)
<1>1. /\ U \in [F \cup {Root} -> [Index -> Nat]]
      /\ \A t \in InUse(T) : \A j \in Index : U[t][j] = IF t = a /\ j = i THEN p ELSE T[t][j]
      /\ Third(U) = Third(T) /\ Second(U) = Second(T) /\ First(U) = First(T) /\ InUse(U) = InUse(T)
  BY DEF Rewrites
<1>2. /\ Root \notin F /\ 0 \notin F /\ Devices \cap F = {} /\ H \subseteq F /\ F \subseteq Nat
      /\ Third(T) \subseteq H /\ Second(T) \subseteq H /\ First(T) \subseteq H
      /\ \A t \in First(T) : \A j \in Index : T[t][j] \in {0} \cup Devices \cup H
      /\ \A s, t \in InUse(T) : \A j, k \in Index :
           T[s][j] = T[t][k] /\ T[s][j] \in F => s = t /\ j = k
  BY DEF Tree
<1>3. \A t \in First(U) : \A j \in Index : U[t][j] \in {0} \cup Devices \cup H
  BY <1>1, <1>2 DEF InUse
<1>4. ASSUME NEW s \in InUse(T), NEW t \in InUse(T), NEW j \in Index, NEW k \in Index,
             U[s][j] = U[t][k], U[s][j] \in F
      PROVE  s = t /\ j = k
  <2>1. \A r \in InUse(T) : \A l \in Index : p \in F => T[r][l] # p
    BY <1>2 DEF Unlinked
  <2>2. /\ U[s][j] = IF s = a /\ j = i THEN p ELSE T[s][j]
        /\ U[t][k] = IF t = a /\ k = i THEN p ELSE T[t][k]
    BY <1>1
  <2> QED BY <2>1, <2>2, <1>2, <1>4
<1> QED BY <1>1, <1>2, <1>3, <1>4 DEF Tree

\* Frames that come into the hands of vmm.c, and unlinked ones that leave them.
LEMMA TreeOfMore ==
  ASSUME NEW T, NEW F, NEW H, Tree(T, F, H), NEW G, H \subseteq G, G \subseteq F
  PROVE  Tree(T, F, G)
BY DEF Tree

LEMMA TreeOfLess ==
  ASSUME NEW T, NEW F, NEW H, Tree(T, F, H), NEW f, f # 0, Unlinked(T, f), NEW G, G = H \ {f}
  PROVE  Tree(T, F, G)
<1>1. f \notin Third(T) /\ f \notin Second(T) /\ f \notin First(T)
  BY UnderIs DEF Third, Second, First, Unlinked, InUse
<1>2. \A t \in First(T) : \A j \in Index : T[t][j] # f
  BY DEF Unlinked, InUse
<1> QED BY <1>1, <1>2 DEF Tree
----------------------------------------------------------------------------
(* Walks                                                                   *)

Step(T, t, i) == IF t = 0 THEN 0 ELSE T[t][i]

ToThird(T, v) == Step(T, Root, Indices(v)[1])
ToSecond(T, v) == Step(T, ToThird(T, v), Indices(v)[2])
ToFirst(T, v) == Step(T, ToSecond(T, v), Indices(v)[3])
Leaf(T, v) == Step(T, ToFirst(T, v), Indices(v)[4])

LEMMA TranslateIsLeaf ==
  ASSUME NEW m, NEW v
  PROVE  Translate(m, v) = Leaf(m.table, v)
BY DEF Translate, Entry, Leaf, ToFirst, ToSecond, ToThird, Step

LEMMA IndicesAre ==
  ASSUME NEW v \in Nat
  PROVE  /\ Indices(v)[1] \in Index /\ Indices(v)[2] \in Index
         /\ Indices(v)[3] \in Index /\ Indices(v)[4] \in Index
<1>1. Entries \in Nat \ {0} /\ Entries * Entries \in Nat \ {0}
  BY VirtMemAssumption
<1>2. \A a \in Int : a % Entries \in Index /\ a \div Entries \in Int
  BY <1>1 DEF Index
<1> DEFINE gib == v \div (Entries * Entries)
<1>3. gib \in Int
  BY <1>1
<1> HIDE DEF gib
<1>4. Indices(v) = <<(gib \div Entries) % Entries, gib % Entries, (v \div Entries) % Entries, v % Entries>>
  BY DEF Indices, gib
<1>5. /\ Indices(v)[1] = (gib \div Entries) % Entries /\ Indices(v)[2] = gib % Entries
      /\ Indices(v)[3] = (v \div Entries) % Entries /\ Indices(v)[4] = v % Entries
  BY <1>4
<1> QED BY <1>2, <1>3, <1>5

LEMMA IndicesSame ==
  ASSUME NEW v \in Nat, NEW w \in Nat,
         Indices(v)[1] = Indices(w)[1], Indices(v)[2] = Indices(w)[2],
         Indices(v)[3] = Indices(w)[3], Indices(v)[4] = Indices(w)[4]
  PROVE  Indices(v) = Indices(w)
<1>1. \A u \in Nat : \E a, b, c, d : Indices(u) = <<a, b, c, d>>
  BY DEF Indices
<1>2. PICK a, b, c, d : Indices(v) = <<a, b, c, d>>
  BY <1>1
<1>3. PICK e, f, g, h : Indices(w) = <<e, f, g, h>>
  BY <1>1
<1> QED BY <1>2, <1>3

\* Where the steps of a walk lead.
LEMMA WalkLeads ==
  ASSUME NEW T, NEW F, NEW H, Tree(T, F, H), NEW v \in Nat
  PROVE  /\ ToThird(T, v) \in {0} \cup Third(T)
         /\ ToSecond(T, v) \in {0} \cup Second(T)
         /\ ToFirst(T, v) \in {0} \cup First(T)
         /\ Leaf(T, v) \in {0} \cup Devices \cup H
<1>1. Root # 0
  BY VirtMemAssumption
<1>2. ToThird(T, v) \in {0} \cup Third(T)
  BY <1>1, IndicesAre, UnderIs DEF ToThird, Step, Third
<1>3. ToSecond(T, v) \in {0} \cup Second(T)
  BY <1>2, IndicesAre, UnderIs DEF ToSecond, Step, Second
<1>4. ToFirst(T, v) \in {0} \cup First(T)
  BY <1>3, IndicesAre, UnderIs DEF ToFirst, Step, First
<1>5. Leaf(T, v) \in {0} \cup Devices \cup H
  <2>1. CASE ToFirst(T, v) = 0
    BY <2>1 DEF Leaf, Step
  <2>2. CASE ToFirst(T, v) \in First(T)
    BY <2>2, IndicesAre DEF Leaf, Step, Tree
  <2> QED BY <1>4, <2>1, <2>2
<1> QED BY <1>2, <1>3, <1>4, <1>5

\* Walks that meet have come the same way.
LEMMA WalksMeet ==
  ASSUME NEW T, NEW F, NEW H, Tree(T, F, H), NEW v \in Nat, NEW w \in Nat,
         ToFirst(T, v) # 0, ToFirst(T, v) = ToFirst(T, w)
  PROVE  /\ Indices(v)[1] = Indices(w)[1] /\ Indices(v)[2] = Indices(w)[2]
         /\ Indices(v)[3] = Indices(w)[3]
<1>1. /\ Indices(v)[1] \in Index /\ Indices(v)[2] \in Index /\ Indices(v)[3] \in Index
      /\ Indices(w)[1] \in Index /\ Indices(w)[2] \in Index /\ Indices(w)[3] \in Index
  BY IndicesAre
<1>2. ASSUME NEW s \in InUse(T), NEW t \in InUse(T), NEW i \in Index, NEW j \in Index,
             T[s][i] = T[t][j], T[s][i] \in Third(T) \cup Second(T) \cup First(T)
      PROVE  s = t /\ i = j
  <2>1. T[s][i] \in F
    BY <1>2 DEF Tree
  <2> QED BY <1>2, <2>1 DEF Tree
<1>3. /\ ToFirst(T, v) \in First(T)
      /\ ToSecond(T, v) \in {0} \cup Second(T) /\ ToSecond(T, w) \in {0} \cup Second(T)
      /\ ToThird(T, v) \in {0} \cup Third(T) /\ ToThird(T, w) \in {0} \cup Third(T)
  BY WalkLeads
<1>4. ASSUME NEW x \in {0} \cup InUse(T), NEW y \in {0} \cup InUse(T),
             NEW i \in Index, NEW j \in Index, Step(T, x, i) = Step(T, y, j),
             Step(T, x, i) \in Third(T) \cup Second(T) \cup First(T)
      PROVE  x = y /\ x # 0 /\ i = j
  <2>1. 0 \notin Third(T) \cup Second(T) \cup First(T)
    BY LevelsApart DEF InUse
  <2>2. x # 0 /\ y # 0
    BY <1>4, <2>1 DEF Step
  <2>3. T[x][i] = T[y][j] /\ T[x][i] \in Third(T) \cup Second(T) \cup First(T)
    BY <1>4, <2>2 DEF Step
  <2> QED BY <1>2, <2>2, <2>3
<1>5. ToSecond(T, v) = ToSecond(T, w) /\ ToSecond(T, v) # 0 /\ Indices(v)[3] = Indices(w)[3]
  <2>1. /\ Step(T, ToSecond(T, v), Indices(v)[3]) = Step(T, ToSecond(T, w), Indices(w)[3])
        /\ Step(T, ToSecond(T, v), Indices(v)[3]) \in First(T)
    BY <1>3 DEF ToFirst
  <2>2. ToSecond(T, v) \in {0} \cup InUse(T) /\ ToSecond(T, w) \in {0} \cup InUse(T)
    BY <1>3 DEF InUse
  <2> DEFINE x == ToSecond(T, v)
             y == ToSecond(T, w)
             i == Indices(v)[3]
             j == Indices(w)[3]
  <2>3. /\ x \in {0} \cup InUse(T) /\ y \in {0} \cup InUse(T) /\ i \in Index /\ j \in Index
        /\ Step(T, x, i) = Step(T, y, j) /\ Step(T, x, i) \in Third(T) \cup Second(T) \cup First(T)
    BY <1>1, <2>1, <2>2
  <2> HIDE DEF x, y, i, j
  <2>4. x = y /\ x # 0 /\ i = j
    BY <2>3, <1>4
  <2> QED BY <2>4 DEF x, y, i, j
<1>6. ToThird(T, v) = ToThird(T, w) /\ ToThird(T, v) # 0 /\ Indices(v)[2] = Indices(w)[2]
  <2>1. /\ Step(T, ToThird(T, v), Indices(v)[2]) = Step(T, ToThird(T, w), Indices(w)[2])
        /\ Step(T, ToThird(T, v), Indices(v)[2]) \in Second(T)
    BY <1>3, <1>5 DEF ToSecond
  <2>2. ToThird(T, v) \in {0} \cup InUse(T) /\ ToThird(T, w) \in {0} \cup InUse(T)
    BY <1>3 DEF InUse
  <2> DEFINE x == ToThird(T, v)
             y == ToThird(T, w)
             i == Indices(v)[2]
             j == Indices(w)[2]
  <2>3. /\ x \in {0} \cup InUse(T) /\ y \in {0} \cup InUse(T) /\ i \in Index /\ j \in Index
        /\ Step(T, x, i) = Step(T, y, j) /\ Step(T, x, i) \in Third(T) \cup Second(T) \cup First(T)
    BY <1>1, <2>1, <2>2
  <2> HIDE DEF x, y, i, j
  <2>4. x = y /\ x # 0 /\ i = j
    BY <2>3, <1>4
  <2> QED BY <2>4 DEF x, y, i, j
<1>7. Indices(v)[1] = Indices(w)[1]
  <2>1. /\ Step(T, Root, Indices(v)[1]) = Step(T, Root, Indices(w)[1])
        /\ Step(T, Root, Indices(v)[1]) \in Third(T)
    BY <1>3, <1>6 DEF ToThird
  <2>2. Root \in {0} \cup InUse(T)
    BY DEF InUse
  <2> QED BY <1>1, <1>4, <2>1, <2>2
<1> QED BY <1>5, <1>6, <1>7

\* Where the pages lead when those with the indices of v lead to p.
Redirects(U, T, v, p) ==
  \A w \in Nat : Leaf(U, w) = IF Indices(w) = Indices(v) THEN p ELSE Leaf(T, w)

\* Storing an entry changes where the pages lead that have the same indices.
LEMMA StoredWalks ==
  ASSUME NEW T, NEW F, NEW H, Tree(T, F, H), NEW v \in Nat, NEW p, NEW U,
         NEW a, a = ToFirst(T, v), a # 0, NEW i, i = Indices(v)[4], Rewrites(U, T, F, a, i, p)
  PROVE  Redirects(U, T, v, p)
<1> SUFFICES ASSUME NEW w \in Nat
             PROVE  Leaf(U, w) = IF Indices(w) = Indices(v) THEN p ELSE Leaf(T, w)
  BY DEF Redirects
<1>1. /\ \A t \in InUse(T) : \A j \in Index : U[t][j] = IF t = a /\ j = i THEN p ELSE T[t][j]
  BY DEF Rewrites
<1>2. /\ a \in First(T) /\ a # Root /\ a \notin Third(T) /\ a \notin Second(T)
      /\ Root \in InUse(T) /\ Third(T) \subseteq InUse(T) /\ Second(T) \subseteq InUse(T)
      /\ First(T) \subseteq InUse(T) /\ Root # 0
  BY WalkLeads, LevelsApart, VirtMemAssumption DEF InUse
<1>3. /\ ToThird(T, w) \in {0} \cup Third(T) /\ ToSecond(T, w) \in {0} \cup Second(T)
      /\ ToFirst(T, w) \in {0} \cup First(T)
  BY WalkLeads
<1>4. /\ Indices(w)[1] \in Index /\ Indices(w)[2] \in Index
      /\ Indices(w)[3] \in Index /\ Indices(w)[4] \in Index
  BY IndicesAre
<1>5. ToThird(U, w) = ToThird(T, w)
  BY <1>1, <1>2, <1>4 DEF ToThird, Step
<1>6. ToSecond(U, w) = ToSecond(T, w)
  BY <1>1, <1>2, <1>3, <1>4, <1>5 DEF ToSecond, Step
<1>7. ToFirst(U, w) = ToFirst(T, w)
  BY <1>1, <1>2, <1>3, <1>4, <1>6 DEF ToFirst, Step
<1>8. Leaf(U, w) = IF ToFirst(T, w) = a /\ Indices(w)[4] = i THEN p ELSE Leaf(T, w)
  BY <1>1, <1>2, <1>3, <1>4, <1>7 DEF Leaf, Step
<1>9. ASSUME ToFirst(T, w) = a, Indices(w)[4] = i PROVE Indices(w) = Indices(v)
  BY <1>9, WalksMeet, IndicesSame
<1>10. ASSUME Indices(w) = Indices(v) PROVE ToFirst(T, w) = a /\ Indices(w)[4] = i
  BY <1>10 DEF ToFirst, ToSecond, ToThird
<1> QED BY <1>8, <1>9, <1>10

\* Walks go on where they went when tables are added.
Keeps(U, T, v) ==
  /\ ToThird(T, v) # 0 => ToThird(U, v) = ToThird(T, v)
  /\ ToSecond(T, v) # 0 => ToSecond(U, v) = ToSecond(T, v)
  /\ ToFirst(T, v) # 0 => ToFirst(U, v) = ToFirst(T, v)
  /\ Leaf(U, v) = Leaf(T, v)

LEMMA LinkedWalks ==
  ASSUME NEW T, NEW F, NEW H, Tree(T, F, H),
         NEW a \in {Root} \cup Third(T) \cup Second(T), NEW i \in Index, T[a][i] = 0,
         NEW f \in F \ H, NEW U, U = Linked(T, a, i, f), NEW v \in Nat
  PROVE  Keeps(U, T, v)
<1>0. /\ a \in InUse(T) /\ Third(T) \subseteq InUse(T) /\ Second(T) \subseteq InUse(T)
      /\ First(T) \subseteq InUse(T) /\ Root \in InUse(T) /\ Root # 0
  BY VirtMemAssumption DEF InUse
<1>1. /\ f \notin InUse(T) /\ f # 0
      /\ \A t \in InUse(T) : \A j \in Index : U[t][j] = IF t = a /\ j = i THEN f ELSE T[t][j]
      /\ \A t \in InUse(T) : t # a => U[t] = T[t]
      /\ \A j \in Index : U[f][j] = 0
  <2>1. Extends(U, T, F, a, i, f)
    BY <1>0, LinkedIs
  <2> QED BY <2>1 DEF Extends
<1>2. a \notin First(T) /\ 0 \notin InUse(T)
  BY LevelsApart
<1>3. /\ ToThird(T, v) \in {0} \cup Third(T) /\ ToSecond(T, v) \in {0} \cup Second(T)
      /\ ToFirst(T, v) \in {0} \cup First(T)
  BY WalkLeads
<1>4. /\ Indices(v)[1] \in Index /\ Indices(v)[2] \in Index
      /\ Indices(v)[3] \in Index /\ Indices(v)[4] \in Index
  BY IndicesAre
<1>5. \A t \in {0} \cup InUse(T) : \A j \in Index :
        \/ Step(U, t, j) = Step(T, t, j)
        \/ Step(T, t, j) = 0 /\ Step(U, t, j) = f /\ t = a
  BY <1>0, <1>1 DEF Step
<1>6. \A j \in Index : Step(U, f, j) = 0 /\ Step(U, 0, j) = 0 /\ Step(T, 0, j) = 0
  BY <1>1 DEF Step
<1>7. \/ ToThird(U, v) = ToThird(T, v)
      \/ ToThird(U, v) = f /\ ToThird(T, v) = 0
  BY <1>0, <1>4, <1>5 DEF ToThird
<1>11. ASSUME NEW x \in {0} \cup InUse(T), NEW y, y = x \/ (y = f /\ x = 0), NEW j \in Index
       PROVE  \/ Step(U, y, j) = Step(T, x, j)
              \/ Step(T, x, j) = 0 /\ Step(U, y, j) = f /\ x = a
  <2>1. CASE y = x
    BY <2>1, <1>5
  <2>2. CASE y = f /\ x = 0
    BY <2>2, <1>6
  <2> QED BY <1>11, <2>1, <2>2
<1>12. /\ ToThird(T, v) \in {0} \cup InUse(T) /\ ToSecond(T, v) \in {0} \cup InUse(T)
       /\ ToFirst(T, v) \in {0} \cup InUse(T) /\ ToFirst(T, v) # a
  <2>1. ToFirst(T, v) # a
    BY <1>0, <1>2, <1>3
  <2> QED BY <2>1, <1>0, <1>3
<1>8. \/ ToSecond(U, v) = ToSecond(T, v)
      \/ ToSecond(U, v) = f /\ ToSecond(T, v) = 0
  <2>1. \/ Step(U, ToThird(U, v), Indices(v)[2]) = Step(T, ToThird(T, v), Indices(v)[2])
        \/ /\ Step(T, ToThird(T, v), Indices(v)[2]) = 0
           /\ Step(U, ToThird(U, v), Indices(v)[2]) = f
    BY <1>4, <1>7, <1>11, <1>12
  <2> QED BY <2>1 DEF ToSecond
<1>9. \/ ToFirst(U, v) = ToFirst(T, v)
      \/ ToFirst(U, v) = f /\ ToFirst(T, v) = 0
  <2> DEFINE x == ToSecond(T, v)
             y == ToSecond(U, v)
             j == Indices(v)[3]
  <2>1. x \in {0} \cup InUse(T) /\ (y = x \/ (y = f /\ x = 0)) /\ j \in Index
    BY <1>4, <1>8, <1>12
  <2>2. ToFirst(U, v) = Step(U, y, j) /\ ToFirst(T, v) = Step(T, x, j)
    BY DEF ToFirst
  <2> HIDE DEF x, y, j
  <2>3. Step(U, y, j) = Step(T, x, j) \/ (Step(T, x, j) = 0 /\ Step(U, y, j) = f)
    BY <2>1, <1>11
  <2> QED BY <2>2, <2>3
<1>10. Leaf(U, v) = Leaf(T, v)
  <2> DEFINE x == ToFirst(T, v)
             y == ToFirst(U, v)
             j == Indices(v)[4]
  <2>1. x \in {0} \cup InUse(T) /\ x # a /\ (y = x \/ (y = f /\ x = 0)) /\ j \in Index
    BY <1>4, <1>9, <1>12
  <2>2. Leaf(U, v) = Step(U, y, j) /\ Leaf(T, v) = Step(T, x, j)
    BY DEF Leaf
  <2> HIDE DEF x, y, j
  <2>3. Step(U, y, j) = Step(T, x, j)
    BY <2>1, <1>11
  <2> QED BY <2>2, <2>3
<1> QED BY <1>1, <1>7, <1>8, <1>9, <1>10 DEF Keeps
----------------------------------------------------------------------------
(* The calls of vmm.c                                                      *)

Mem(u, T, set, own, a) == [usable |-> u, table |-> T, bits |-> set, owned |-> own, at |-> a]

\* A memory whose bits and tables are in order; D is in direct use.
Good(m, D) ==
  /\ m = Mem(m.usable, m.table, m.bits, m.owned, m.at)
  /\ Allots(m.usable, m.bits, m.owned)
  /\ D \subseteq m.owned
  /\ Tree(m.table, FramesIn(m.usable), m.owned \ D)

\* Tables have been added and nothing else has changed: walks go where they
\* went, and the frames that are new are linked.
Grew(n, m) ==
  /\ n.usable = m.usable
  /\ m.owned \subseteq n.owned
  /\ ClearBits(n) \subseteq ClearBits(m)
  /\ \A v \in Nat : Keeps(n.table, m.table, v)
  /\ \A f \in m.owned : Unlinked(n.table, f) <=> Unlinked(m.table, f)
  /\ \A f \in n.owned : f \in m.owned \/ ~Unlinked(n.table, f)

LEMMA MemParts ==
  ASSUME NEW u, NEW T, NEW set, NEW own, NEW a
  PROVE  /\ Mem(u, T, set, own, a).usable = u /\ Mem(u, T, set, own, a).table = T
         /\ Mem(u, T, set, own, a).bits = set /\ Mem(u, T, set, own, a).owned = own
         /\ Mem(u, T, set, own, a).at = a
BY DEF Mem

LEMMA GrewSelf ==
  ASSUME NEW m, NEW n, n.usable = m.usable, n.owned = m.owned, n.table = m.table, n.bits = m.bits
  PROVE  Grew(n, m)
BY DEF Grew, Keeps, ClearBits

LEMMA GrewAgain ==
  ASSUME NEW l, NEW m, NEW n, Grew(m, l), Grew(n, m)
  PROVE  Grew(n, l)
BY DEF Grew, Keeps

\* A memory with one of its fields changed.
WithTable(m, x) == [m EXCEPT !.table = x]
WithBits(m, x) == [m EXCEPT !.bits = x]
WithOwned(m, x) == [m EXCEPT !.owned = x]
WithAt(m, x) == [m EXCEPT !.at = x]

LEMMA Fields ==
  ASSUME NEW u, NEW T, NEW set, NEW own, NEW a, NEW m, m = Mem(u, T, set, own, a), NEW x
  PROVE  /\ WithTable(m, x) = Mem(u, x, set, own, a)
         /\ WithBits(m, x) = Mem(u, T, x, own, a)
         /\ WithOwned(m, x) = Mem(u, T, set, x, a)
         /\ WithAt(m, x) = Mem(u, T, set, own, x)
<1>1. WithTable(m, x) = Mem(u, x, set, own, a)
  BY DEF Mem, WithTable
<1>2. WithBits(m, x) = Mem(u, T, x, own, a)
  BY DEF Mem, WithBits
<1>3. WithOwned(m, x) = Mem(u, T, set, x, a)
  BY DEF Mem, WithOwned
<1>4. WithAt(m, x) = Mem(u, T, set, own, x)
  BY DEF Mem, WithAt
<1> QED BY <1>1, <1>2, <1>3, <1>4

LEMMA AllocPageIs ==
  ASSUME NEW m, NEW D, Good(m, D)
  PROVE  PmmAllocPage(m) = Mem(m.usable, m.table, m.bits \cup {Min(ClearBits(m))},
                               m.owned \cup {NextPage(m)}, m.at)
<1> DEFINE x == m.bits \cup {Min(ClearBits(m))}
           y == m.owned \cup {NextPage(m)}
<1>1. m = Mem(m.usable, m.table, m.bits, m.owned, m.at)
  BY DEF Good
<1>2. PmmAllocPage(m) = [m EXCEPT !.bits = x, !.owned = y]
  BY DEF PmmAllocPage
<1> HIDE DEF x, y
<1>3. [m EXCEPT !.bits = x, !.owned = y] = WithOwned(WithBits(m, x), y)
  <2>1. ASSUME NEW u, NEW T, NEW set, NEW own, NEW a, m = Mem(u, T, set, own, a)
        PROVE  [m EXCEPT !.bits = x, !.owned = y] = WithOwned(WithBits(m, x), y)
    BY <2>1 DEF Mem, WithOwned, WithBits
  <2> QED BY <1>1, <2>1
<1>4. WithBits(m, x) = Mem(m.usable, m.table, x, m.owned, m.at)
  BY <1>1, Fields
<1>5. WithOwned(WithBits(m, x), y) = Mem(m.usable, m.table, x, y, m.at)
  BY <1>4, Fields
<1> QED BY <1>2, <1>3, <1>5 DEF x, y

LEMMA FreePageIs ==
  ASSUME NEW m, NEW D, Good(m, D), NEW f \in FramesIn(m.usable)
  PROVE  PmmFreePage(m, f) = Mem(m.usable, m.table, m.bits \ {IndexOf(m.usable, f)},
                                 m.owned \ {f}, m.at)
<1> DEFINE x == m.bits \ {IndexOf(m.usable, f)}
           y == m.owned \ {f}
<1>1. m = Mem(m.usable, m.table, m.bits, m.owned, m.at)
  BY DEF Good
<1>2. PmmFreePage(m, f) = [m EXCEPT !.bits = x, !.owned = y]
  BY DEF PmmFreePage
<1> HIDE DEF x, y
<1>3. [m EXCEPT !.bits = x, !.owned = y] = WithOwned(WithBits(m, x), y)
  <2>1. ASSUME NEW u, NEW T, NEW set, NEW own, NEW a, m = Mem(u, T, set, own, a)
        PROVE  [m EXCEPT !.bits = x, !.owned = y] = WithOwned(WithBits(m, x), y)
    BY <2>1 DEF Mem, WithOwned, WithBits
  <2> QED BY <1>1, <2>1
<1>4. WithBits(m, x) = Mem(m.usable, m.table, x, m.owned, m.at)
  BY <1>1, Fields
<1>5. WithOwned(WithBits(m, x), y) = Mem(m.usable, m.table, x, y, m.at)
  BY <1>4, Fields
<1> QED BY <1>2, <1>3, <1>5 DEF x, y

LEMMA MoveTo ==
  ASSUME NEW m, NEW D, Good(m, D), NEW a
  PROVE  WithAt(m, a) = Mem(m.usable, m.table, m.bits, m.owned, a)
BY Fields DEF Good

LEMMA GoodAnywhere ==
  ASSUME NEW m, NEW D, Good(m, D), NEW a
  PROVE  Good(Mem(m.usable, m.table, m.bits, m.owned, a), D)
<1> DEFINE n == Mem(m.usable, m.table, m.bits, m.owned, a)
<1>1. /\ n.usable = m.usable /\ n.table = m.table /\ n.bits = m.bits /\ n.owned = m.owned
      /\ n.at = a
  BY MemParts
<1>2. n = Mem(n.usable, n.table, n.bits, n.owned, n.at)
  BY <1>1
<1> HIDE DEF n
<1>3. Good(n, D)
  BY <1>1, <1>2 DEF Good
<1> QED BY <1>3 DEF n

NewTable(m, i) ==
  Mem(m.usable, Linked(m.table, m.at, i, NextPage(m)), m.bits \cup {Min(ClearBits(m))},
      m.owned \cup {NextPage(m)}, NextPage(m))

LEMMA EnsureTableIs ==
  ASSUME NEW m, NEW D, Good(m, D), NEW i \in Index
  PROVE  /\ m.at = 0 => EnsureTable(m, i) = m
         /\ m.at # 0 /\ m.table[m.at][i] # 0 =>
              EnsureTable(m, i) = Mem(m.usable, m.table, m.bits, m.owned, m.table[m.at][i])
         /\ m.at # 0 /\ m.table[m.at][i] = 0 /\ NoPage(m) =>
              EnsureTable(m, i) = Mem(m.usable, m.table, m.bits, m.owned, 0)
         /\ m.at # 0 /\ m.table[m.at][i] = 0 /\ ~NoPage(m) => EnsureTable(m, i) = NewTable(m, i)
<1>1. m.at = 0 => EnsureTable(m, i) = m
  BY DEF EnsureTable
<1>2. m.at # 0 /\ m.table[m.at][i] # 0 => EnsureTable(m, i) = WithAt(m, m.table[m.at][i])
  BY DEF EnsureTable, WithAt
<1>3. m.at # 0 /\ m.table[m.at][i] = 0 /\ NoPage(m) => EnsureTable(m, i) = WithAt(m, 0)
  BY DEF EnsureTable, WithAt
<1>4. m.at # 0 /\ m.table[m.at][i] = 0 /\ ~NoPage(m) =>
        EnsureTable(m, i) = [PmmAllocPage(m) EXCEPT !.table[NextPage(m)] = EmptyTable,
                               !.table[m.at][i] = NextPage(m), !.at = NextPage(m)]
  BY DEF EnsureTable
<1> DEFINE f == NextPage(m)
           p == PmmAllocPage(m)
           b == m.bits \cup {Min(ClearBits(m))}
           o == m.owned \cup {f}
<1>5. p = Mem(m.usable, m.table, b, o, m.at)
  BY AllocPageIs
<1> HIDE DEF b, o, p
<1>6. p.table = m.table
  BY <1>5, MemParts
<1> DEFINE x == [p.table EXCEPT ![f] = EmptyTable]
           y == [x EXCEPT ![m.at][i] = f]
           q == [p EXCEPT !.table[f] = EmptyTable]
           r == [q EXCEPT !.table[m.at][i] = f]
<1> HIDE DEF f
<1>7. q = WithTable(p, x)
  BY <1>5 DEF Mem, WithTable
<1>8. q = Mem(m.usable, x, b, o, m.at)
  BY <1>5, <1>7, Fields
<1>9. [p EXCEPT !.table[f] = EmptyTable, !.table[m.at][i] = f, !.at = f] = [r EXCEPT !.at = f]
  OBVIOUS
<1> HIDE DEF q, x
<1>10. r = WithTable(q, y)
  <2>1. q.table = x
    BY <1>8, MemParts
  <2> QED BY <1>8, <2>1 DEF Mem, WithTable
<1> HIDE DEF y, r
<1>11. r = Mem(m.usable, y, b, o, m.at)
  BY <1>8, <1>10, Fields
<1>12. WithAt(r, f) = Mem(m.usable, y, b, o, f)
  BY <1>11, Fields
<1>13. y = Linked(m.table, m.at, i, f)
  BY <1>6 DEF x, y, Linked
<1>14. [p EXCEPT !.table[f] = EmptyTable, !.table[m.at][i] = f, !.at = f] = NewTable(m, i)
  <2>1. [r EXCEPT !.at = f] = NewTable(m, i)
    BY <1>12, <1>13 DEF WithAt, NewTable, b, o, f
  <2> QED BY <1>9, <2>1
<1>15. m.at # 0 /\ m.table[m.at][i] = 0 /\ ~NoPage(m) => EnsureTable(m, i) = NewTable(m, i)
  BY <1>4, <1>14 DEF p, f
<1> QED BY <1>1, <1>2, <1>3, <1>15, MoveTo
\* pmm_alloc_page's page is new to the page tables.
LEMMA AllocFacts ==
  ASSUME NEW m, NEW D, Good(m, D), ~NoPage(m)
  PROVE  /\ NextPage(m) \in FramesIn(m.usable) /\ NextPage(m) \notin m.owned
         /\ NextPage(m) \in Nat \ {0}
         /\ Allots(m.usable, m.bits \cup {Min(ClearBits(m))}, m.owned \cup {NextPage(m)})
         /\ Unlinked(m.table, NextPage(m))
<1>1. Allots(m.usable, m.bits, m.owned) /\ Regular(m.usable)
  BY DEF Good, Allots
<1>2. /\ NextPage(m) \in FramesIn(m.usable) \ m.owned
      /\ Allots(m.usable, m.bits \cup {Min(ClearBits(m))}, m.owned \cup {NextPage(m)})
  BY <1>1, AllocAllots
<1>3. NextPage(m) \in Nat \ {0}
  BY <1>1, <1>2, BitsAreFrames
<1> DEFINE f == NextPage(m)
           H == m.owned \ D
           F == FramesIn(m.usable)
           T == m.table
<1>4. Tree(T, F, H) /\ f \in F /\ f \notin H /\ f # 0
  BY <1>2, <1>3 DEF Good
<1> HIDE DEF f, H, F, T
<1>5. f \notin InUse(T)
  <2>1. InUse(T) \subseteq H \cup {Root} /\ Root \notin F
    BY <1>4, LevelsApart DEF Tree
  <2> QED BY <1>4, <2>1
<1>6. ASSUME NEW t \in InUse(T), NEW i \in Index, T[t][i] = f PROVE FALSE
  <2>1. CASE t \in First(T)
    <3>1. T[t][i] \in {0} \cup Devices \cup H /\ Devices \cap F = {}
      BY <1>4, <2>1 DEF Tree
    <3> QED BY <3>1, <1>4, <1>6
  <2>2. CASE t \notin First(T)
    <3>1. f \in Third(T) \cup Second(T) \cup First(T)
      BY <1>4, <1>6, <2>2, UnderIs DEF InUse, Third, Second, First
    <3> QED BY <3>1, <1>5 DEF InUse
  <2> QED BY <2>1, <2>2
<1>7. Unlinked(T, f)
  BY <1>6 DEF Unlinked
<1> QED BY <1>2, <1>3, <1>7 DEF f, T

\* Which frames are linked once a table is.
LEMMA LinkedLinks ==
  ASSUME NEW T, NEW F, NEW H, Tree(T, F, H),
         NEW a \in {Root} \cup Third(T) \cup Second(T), NEW i \in Index, T[a][i] = 0,
         NEW f \in F \ H, NEW U, U = Linked(T, a, i, f)
  PROVE  /\ ~Unlinked(U, f)
         /\ \A g : g # f /\ g # 0 => (Unlinked(U, g) <=> Unlinked(T, g))
<1>0. a \in InUse(T)
  BY DEF InUse
<1>1. /\ f \notin InUse(T) /\ f # 0
      /\ \A t \in InUse(T) : \A j \in Index : U[t][j] = IF t = a /\ j = i THEN f ELSE T[t][j]
      /\ \A j \in Index : U[f][j] = 0
  <2>1. Extends(U, T, F, a, i, f)
    BY <1>0, LinkedIs
  <2> QED BY <2>1 DEF Extends
<1>2. InUse(U) = InUse(T) \cup {f}
  <2>1. LinkedBelow(U, T, F, H, a, f)
    BY LinkedTree
  <2> QED BY <2>1 DEF LinkedBelow
<1>3. ~Unlinked(U, f)
  BY <1>0, <1>1, <1>2 DEF Unlinked
<1>4. ASSUME NEW g, g # f, g # 0 PROVE Unlinked(U, g) <=> Unlinked(T, g)
  <2>1. ASSUME Unlinked(T, g), NEW t \in InUse(U), NEW j \in Index PROVE U[t][j] # g
    <3>1. CASE t = f BY <3>1, <1>1, <1>4
    <3>2. CASE t \in InUse(T)
      <4>1. T[t][j] # g BY <3>2, <2>1 DEF Unlinked
      <4>2. U[t][j] = IF t = a /\ j = i THEN f ELSE T[t][j] BY <3>2, <1>1
      <4> QED BY <4>1, <4>2, <1>4
    <3> QED BY <3>1, <3>2, <2>1, <1>2
  <2>2. ASSUME Unlinked(U, g), NEW t \in InUse(T), NEW j \in Index PROVE T[t][j] # g
    <3>1. U[t][j] # g BY <2>2, <1>2 DEF Unlinked
    <3>2. U[t][j] = IF t = a /\ j = i THEN f ELSE T[t][j] BY <1>1
    <3>3. T[a][i] # g BY <1>4
    <3> QED BY <3>1, <3>2, <3>3
  <2>3. Unlinked(T, g) => Unlinked(U, g)
    BY <2>1 DEF Unlinked
  <2>4. Unlinked(U, g) => Unlinked(T, g)
    BY <2>2 DEF Unlinked
  <2> QED BY <2>3, <2>4
<1> QED BY <1>3, <1>4

LEMMA EnsureTableSound ==
  ASSUME NEW m, NEW D, Good(m, D), NEW i \in Index,
         m.at = 0 \/ m.at \in {Root} \cup Third(m.table) \cup Second(m.table),
         NEW n, n = EnsureTable(m, i)
  PROVE  /\ Good(n, D) /\ Grew(n, m)
         /\ n.at = Step(n.table, m.at, i)
         /\ m.at = 0 => n = m
         /\ m.at # 0 /\ n.at = 0 => NoPage(n)
         /\ m.at # 0 /\ m.table[m.at][i] # 0 =>
              n = Mem(m.usable, m.table, m.bits, m.owned, m.table[m.at][i])
<1>1. CASE m.at = 0
  <2>1. n = m BY <1>1, EnsureTableIs
  <2> QED BY <1>1, <2>1, GrewSelf DEF Step
<1>2. CASE m.at # 0 /\ m.table[m.at][i] # 0
  <2>1. n = Mem(m.usable, m.table, m.bits, m.owned, m.table[m.at][i])
    BY <1>2, EnsureTableIs
  <2>2. /\ n.usable = m.usable /\ n.table = m.table /\ n.bits = m.bits /\ n.owned = m.owned
        /\ n.at = m.table[m.at][i]
    BY <2>1, MemParts
  <2>3. Good(n, D) /\ Grew(n, m)
    BY <2>1, <2>2, GoodAnywhere, GrewSelf
  <2> QED BY <1>2, <2>1, <2>2, <2>3 DEF Step
<1>3. CASE m.at # 0 /\ m.table[m.at][i] = 0 /\ NoPage(m)
  <2>1. n = Mem(m.usable, m.table, m.bits, m.owned, 0)
    BY <1>3, EnsureTableIs
  <2>2. /\ n.usable = m.usable /\ n.table = m.table /\ n.bits = m.bits /\ n.owned = m.owned
        /\ n.at = 0
    BY <2>1, MemParts
  <2>3. Good(n, D) /\ Grew(n, m)
    BY <2>1, <2>2, GoodAnywhere, GrewSelf
  <2>4. NoPage(n)
    BY <1>3, <2>2 DEF NoPage, ClearBits
  <2> QED BY <1>3, <2>2, <2>3, <2>4 DEF Step
<1>4. CASE m.at # 0 /\ m.table[m.at][i] = 0 /\ ~NoPage(m)
  <2> DEFINE f == NextPage(m)
             U == Linked(m.table, m.at, i, f)
             T == m.table
             F == FramesIn(m.usable)
             H == m.owned \ D
             a == m.at
             b == Min(ClearBits(m))
  <2>1. n = Mem(m.usable, U, m.bits \cup {b}, m.owned \cup {f}, f)
    BY <1>4, EnsureTableIs DEF NewTable
  <2>2. /\ f \in F /\ f \notin m.owned /\ f # 0 /\ Allots(m.usable, m.bits \cup {b}, m.owned \cup {f})
        /\ f \notin D /\ D \subseteq m.owned /\ m.owned \subseteq F
    BY <1>4, AllocFacts DEF Good, Allots
  <2>3. Tree(T, F, H) /\ a \in {Root} \cup Third(T) \cup Second(T) /\ T[a][i] = 0 /\ a # 0
    BY <1>4 DEF Good
  <2> HIDE DEF f, U, b
  <2>4. /\ n.usable = m.usable /\ n.table = U /\ n.bits = m.bits \cup {b}
        /\ n.owned = m.owned \cup {f} /\ n.at = f
    BY <2>1, MemParts
  <2> HIDE DEF T, F, H, a
  <2>5. U = Linked(T, a, i, f)
    BY DEF U, T, a
  <2>6. f \in F \ H
    BY <2>2 DEF H
  <2>7. Tree(U, F, H \cup {f})
    <3>1. LinkedBelow(U, T, F, H, a, f)
      BY <2>3, <2>5, <2>6, LinkedTree
    <3> QED BY <3>1 DEF LinkedBelow
  <2>8. U[a][i] = f
    <3>1. a \in InUse(T) BY <2>3 DEF InUse
    <3>2. Extends(U, T, F, a, i, f)
      BY <2>3, <2>5, <2>6, <3>1, LinkedIs
    <3> QED BY <3>1, <3>2 DEF Extends
  <2>9. (m.owned \cup {f}) \ D = H \cup {f}
    BY <2>2 DEF H
  <2>10. Good(n, D)
    <3>1. n = Mem(n.usable, n.table, n.bits, n.owned, n.at)
      BY <2>1, <2>4
    <3>2. Allots(n.usable, n.bits, n.owned)
      BY <2>2, <2>4
    <3>3. Tree(n.table, FramesIn(n.usable), n.owned \ D)
      BY <2>4, <2>7, <2>9 DEF F
    <3> QED BY <3>1, <3>2, <3>3, <2>2, <2>4 DEF Good
  <2>11. \A v \in Nat : Keeps(U, T, v)
    BY <2>3, <2>5, <2>6, LinkedWalks
  <2>12. ~Unlinked(U, f) /\ \A g : g # f /\ g # 0 => (Unlinked(U, g) <=> Unlinked(T, g))
    BY <2>3, <2>5, <2>6, LinkedLinks
  <2>13. Grew(n, m)
    <3>1. 0 \notin m.owned
      BY <2>2, <2>3 DEF Tree
    <3>2. \A g \in m.owned : Unlinked(U, g) <=> Unlinked(T, g)
      BY <2>2, <2>12, <3>1
    <3>3. ClearBits(n) \subseteq ClearBits(m)
      BY <2>4 DEF ClearBits
    <3> QED BY <3>2, <3>3, <2>4, <2>11, <2>12 DEF Grew, T
  <2>14. n.at = Step(n.table, m.at, i) /\ n.at # 0
    BY <2>2, <2>3, <2>4, <2>8 DEF Step, a
  <2> QED BY <1>4, <2>10, <2>13, <2>14
<1> QED BY <1>1, <1>2, <1>3, <1>4
\* The walk that makes what it looks for ends at the page's table, or memory is full.
LEMMA PageTableSound ==
  ASSUME NEW m, NEW D, Good(m, D), NEW v \in Nat, NEW n, n = PageTable(m, v)
  PROVE  /\ Good(n, D) /\ Grew(n, m)
         /\ n.at = ToFirst(n.table, v)
         /\ n.at = 0 => NoPage(n)
         /\ ToFirst(m.table, v) # 0 => n.table = m.table /\ n.bits = m.bits /\ n.owned = m.owned
<1> DEFINE i == Indices(v)[1]
           j == Indices(v)[2]
           k == Indices(v)[3]
           l == Mem(m.usable, m.table, m.bits, m.owned, Root)
           n1 == EnsureTable(l, i)
           n2 == EnsureTable(n1, j)
<1>1. n = EnsureTable(n2, k)
  BY MoveTo DEF PageTable, WithAt
<1>2. /\ l.usable = m.usable /\ l.table = m.table /\ l.bits = m.bits /\ l.owned = m.owned
      /\ l.at = Root /\ Root # 0
  BY MemParts, VirtMemAssumption
<1>3. Good(l, D) /\ Grew(l, m) /\ i \in Index /\ j \in Index /\ k \in Index
  <2>1. Good(l, D) BY GoodAnywhere
  <2>2. i \in Index /\ j \in Index /\ k \in Index BY IndicesAre
  <2> HIDE DEF l
  <2>3. Grew(l, m) BY <1>2, GrewSelf
  <2> QED BY <2>1, <2>2, <2>3
<1>4. ASSUME NEW q, Good(q, D)
      PROVE  /\ Tree(q.table, FramesIn(q.usable), q.owned \ D)
             /\ ToThird(q.table, v) \in {0} \cup Third(q.table)
             /\ ToSecond(q.table, v) \in {0} \cup Second(q.table)
  <2>1. Tree(q.table, FramesIn(q.usable), q.owned \ D)
    BY <1>4 DEF Good
  <2> QED BY <2>1, WalkLeads
<1> HIDE DEF l
<1>5. /\ Good(n1, D) /\ Grew(n1, l) /\ n1.at = Step(n1.table, Root, i)
      /\ (n1.at = 0 => NoPage(n1))
      /\ l.table[Root][i] # 0 => n1 = Mem(l.usable, l.table, l.bits, l.owned, l.table[Root][i])
  BY <1>2, <1>3, EnsureTableSound
<1> HIDE DEF n1
<1>6. n1.at = ToThird(n1.table, v)
  BY <1>5 DEF ToThird
<1>7. n1.at = 0 \/ n1.at \in {Root} \cup Third(n1.table) \cup Second(n1.table)
  BY <1>4, <1>5, <1>6
<1>8. /\ Good(n2, D) /\ Grew(n2, n1) /\ n2.at = Step(n2.table, n1.at, j)
      /\ (n1.at = 0 => n2 = n1)
      /\ (n1.at # 0 /\ n2.at = 0 => NoPage(n2))
      /\ n1.at # 0 /\ n1.table[n1.at][j] # 0 =>
           n2 = Mem(n1.usable, n1.table, n1.bits, n1.owned, n1.table[n1.at][j])
  BY <1>3, <1>5, <1>7, EnsureTableSound
<1> HIDE DEF n2
<1>9. n2.at = ToSecond(n2.table, v)
  <2>1. n1.at = ToThird(n2.table, v)
    BY <1>6, <1>8 DEF Grew, Keeps
  <2> QED BY <1>8, <2>1 DEF ToSecond
<1>10. n2.at = 0 \/ n2.at \in {Root} \cup Third(n2.table) \cup Second(n2.table)
  BY <1>4, <1>8, <1>9
<1>11. /\ Good(n, D) /\ Grew(n, n2) /\ n.at = Step(n.table, n2.at, k)
       /\ (n2.at = 0 => n = n2)
       /\ (n2.at # 0 /\ n.at = 0 => NoPage(n))
       /\ n2.at # 0 /\ n2.table[n2.at][k] # 0 =>
            n = Mem(n2.usable, n2.table, n2.bits, n2.owned, n2.table[n2.at][k])
  BY <1>1, <1>3, <1>8, <1>10, EnsureTableSound
<1>12. n.at = ToFirst(n.table, v)
  <2>1. n2.at = ToSecond(n.table, v)
    BY <1>9, <1>11 DEF Grew, Keeps
  <2> QED BY <1>11, <2>1 DEF ToFirst
<1>13. n.at = 0 => NoPage(n)
  BY <1>5, <1>8, <1>11
<1>14. Grew(n, m)
  BY <1>3, <1>5, <1>8, <1>11, GrewAgain
<1>15. ASSUME ToFirst(m.table, v) # 0
       PROVE  n.table = m.table /\ n.bits = m.bits /\ n.owned = m.owned
  <2>1. /\ ToSecond(m.table, v) # 0 /\ m.table[ToSecond(m.table, v)][k] # 0
    BY <1>15 DEF ToFirst, Step
  <2>2. /\ ToThird(m.table, v) # 0 /\ m.table[ToThird(m.table, v)][j] # 0
    BY <2>1 DEF ToSecond, Step
  <2>3. m.table[Root][i] # 0
    BY <1>2, <2>2 DEF ToThird, Step
  <2>4. n1 = Mem(m.usable, m.table, m.bits, m.owned, m.table[Root][i])
    BY <1>2, <1>5, <2>3
  <2>5. n1.usable = m.usable /\ n1.table = m.table /\ n1.bits = m.bits /\ n1.owned = m.owned
    BY <2>4, MemParts
  <2>6. n2 = Mem(m.usable, m.table, m.bits, m.owned, m.table[n1.at][j])
    BY <1>6, <1>8, <2>2, <2>5
  <2>7. n2.usable = m.usable /\ n2.table = m.table /\ n2.bits = m.bits /\ n2.owned = m.owned
    BY <2>6, MemParts
  <2>8. n = Mem(m.usable, m.table, m.bits, m.owned, m.table[n2.at][k])
    BY <1>9, <1>11, <2>1, <2>7
  <2> QED BY <2>8, MemParts
<1> QED BY <1>11, <1>12, <1>13, <1>14, <1>15

\* What vmm_map makes of a memory: the page leads to frame p and no other page
\* to another frame, or memory is full and every page leads where it did.
Mapped(n, m, v, p) ==
  /\ n.usable = m.usable
  /\ m.owned \subseteq n.owned
  /\ ClearBits(n) \subseteq ClearBits(m)
  /\ \/ NoPage(n) /\ Grew(n, m)
     \/ /\ Redirects(n.table, m.table, v, p)
        /\ \A f \in n.owned :
             Unlinked(n.table, f) =>
               f \in m.owned /\ f # p /\ (Unlinked(m.table, f) \/ f = Leaf(m.table, v))
        /\ \A f \in m.owned : Unlinked(m.table, f) /\ f # p => Unlinked(n.table, f)

LEMMA VmmMapIs ==
  ASSUME NEW m, NEW D, Good(m, D), NEW v \in Nat, NEW p, NEW l, l = PageTable(m, v)
  PROVE  /\ l.at = 0 => VmmMap(m, v, p) = l
         /\ l.at # 0 => VmmMap(m, v, p) = Mem(l.usable, Stored(l.table, l.at, Indices(v)[4], p),
                                              l.bits, l.owned, l.at)
<1>1. l.at = 0 => VmmMap(m, v, p) = l
  BY DEF VmmMap
<1> DEFINE i == Indices(v)[4]
<1>2. l.at # 0 => VmmMap(m, v, p) = [l EXCEPT !.table[l.at][i] = p]
  BY DEF VmmMap
<1> HIDE DEF i
<1>3. l = Mem(l.usable, l.table, l.bits, l.owned, l.at)
  <2>1. Good(l, D) BY PageTableSound
  <2> QED BY <2>1 DEF Good
<1>4. [l EXCEPT !.table[l.at][i] = p] = WithTable(l, Stored(l.table, l.at, i, p))
  <2>1. ASSUME NEW u, NEW T, NEW set, NEW own, NEW a, l = Mem(u, T, set, own, a)
        PROVE  [l EXCEPT !.table[l.at][i] = p] = WithTable(l, Stored(l.table, l.at, i, p))
    BY <2>1 DEF Mem, WithTable, Stored
  <2> QED BY <1>3, <2>1
<1>5. WithTable(l, Stored(l.table, l.at, i, p))
        = Mem(l.usable, Stored(l.table, l.at, i, p), l.bits, l.owned, l.at)
  BY <1>3, Fields
<1> QED BY <1>1, <1>2, <1>4, <1>5 DEF i

LEMMA VmmMapSound ==
  ASSUME NEW m, NEW D, Good(m, D), NEW v \in Nat,
         NEW p, p = 0 \/ p \in Devices \/ p \in m.owned \ D, p \in m.owned => Unlinked(m.table, p),
         NEW n, n = VmmMap(m, v, p)
  PROVE  Good(n, D) /\ Mapped(n, m, v, p)
<1> DEFINE l == PageTable(m, v)
<1>1. /\ Good(l, D) /\ Grew(l, m) /\ l.at = ToFirst(l.table, v) /\ (l.at = 0 => NoPage(l))
  BY PageTableSound
<1>2. /\ l.at = 0 => n = l
      /\ l.at # 0 => n = Mem(l.usable, Stored(l.table, l.at, Indices(v)[4], p),
                             l.bits, l.owned, l.at)
  BY VmmMapIs
<1> HIDE DEF l
<1>3. l.usable = m.usable /\ m.owned \subseteq l.owned /\ ClearBits(l) \subseteq ClearBits(m)
  BY <1>1 DEF Grew
<1>4. CASE l.at = 0
  BY <1>1, <1>2, <1>3, <1>4 DEF Mapped
<1>5. CASE l.at # 0
  <2> DEFINE T == l.table
             i == Indices(v)[4]
             a == l.at
             U == Stored(T, a, i, p)
             F == FramesIn(l.usable)
             H == l.owned \ D
  <2>1. /\ n.usable = l.usable /\ n.table = U /\ n.bits = l.bits /\ n.owned = l.owned
        /\ n = Mem(n.usable, n.table, n.bits, n.owned, n.at)
    BY <1>2, <1>5, MemParts
  <2>2. Tree(T, F, H) /\ H \subseteq F /\ F \subseteq Nat /\ Devices \cap F = {}
    BY <1>1 DEF Good, Tree
  <2>3. i \in Index /\ a = ToFirst(T, v) /\ a \in First(T)
    BY <1>1, <1>5, <2>2, IndicesAre, WalkLeads
  <2>4. p \in {0} \cup Devices \cup H /\ p \in Nat /\ (p \in l.owned => p \in m.owned)
    <3>1. Devices \subseteq Nat
      BY VirtMemAssumption DEF Devices
    <3>2. l.owned \subseteq F
      BY <1>1 DEF Good, Allots
    <3>3. 0 \notin F
      BY <2>2 DEF Tree
    <3>4. p \in {0} \cup Devices \cup H
      BY <1>3 DEF H
    <3>5. p \in l.owned => p \in m.owned
      BY <3>2, <3>3, <2>2
    <3>6. p \in Nat
      BY <3>1, <3>4, <2>2
    <3> QED BY <3>4, <3>5, <3>6
  <2>5. p \in H => Unlinked(T, p)
    BY <1>1, <2>4 DEF Grew
  <2> HIDE DEF U, T, F, H, a
  <2>6. Rewrites(U, T, F, a, i, p)
    BY <2>2, <2>3, <2>4, StoredRewrites DEF U
  <2>7. Tree(U, F, H)
    BY <2>2, <2>3, <2>4, <2>5, <2>6, StoredTree
  <2>8. Good(n, D)
    BY <1>1, <2>1, <2>7 DEF Good, F, H
  <2>9. Redirects(U, m.table, v, p)
    <3>1. a # 0
      BY <1>5 DEF a
    <3>2. Redirects(U, T, v, p)
      BY <2>2, <2>3, <2>6, <3>1, StoredWalks
    <3>3. \A w \in Nat : Leaf(T, w) = Leaf(m.table, w)
      BY <1>1 DEF Grew, Keeps, T
    <3> QED BY <3>2, <3>3 DEF Redirects
  <2>10. /\ \A t \in InUse(T) : \A j \in Index : U[t][j] = IF t = a /\ j = i THEN p ELSE T[t][j]
         /\ InUse(U) = InUse(T) /\ a \in InUse(T)
    BY <2>3, <2>6 DEF Rewrites, InUse
  <2>11. T[a][i] = Leaf(m.table, v)
    <3>1. Leaf(T, v) = T[a][i]
      BY <1>5, <2>3 DEF Leaf, Step, a
    <3> QED BY <3>1, <1>1 DEF Grew, Keeps, T
  <2>12. ASSUME NEW f \in n.owned, Unlinked(U, f)
         PROVE  f \in m.owned /\ f # p /\ (Unlinked(m.table, f) \/ f = Leaf(m.table, v))
    <3>1. f # p
      BY <2>3, <2>10, <2>12 DEF Unlinked
    <3>2. CASE f = Leaf(m.table, v)
      <4>1. ~Unlinked(T, f)
        BY <2>3, <2>10, <2>11, <3>2 DEF Unlinked
      <4>2. f \in m.owned
        <5>1. Leaf(m.table, v) \in {0} \cup Devices \cup (m.owned \ D)
          BY WalkLeads DEF Good
        <5>2. f \in F
          BY <1>1, <2>1 DEF Good, Allots, F
        <5>3. 0 \notin F
          BY <2>2 DEF Tree
        <5> QED BY <5>1, <5>2, <5>3, <3>2, <2>2
      <4> QED BY <3>1, <3>2, <4>2
    <3>3. CASE f # Leaf(m.table, v)
      <4>1. ASSUME NEW t \in InUse(T), NEW j \in Index PROVE T[t][j] # f
        BY <2>10, <2>11, <2>12, <3>3 DEF Unlinked
      <4>2. Unlinked(T, f)
        BY <4>1 DEF Unlinked
      <4> QED BY <1>1, <2>1, <3>1, <4>2 DEF Grew, T
    <3> QED BY <3>2, <3>3
  <2>13. ASSUME NEW f \in m.owned, Unlinked(m.table, f), f # p PROVE Unlinked(U, f)
    <3>1. Unlinked(T, f)
      BY <1>1, <2>13 DEF Grew, T
    <3> QED BY <3>1, <2>10, <2>13 DEF Unlinked
  <2>14. ClearBits(n) \subseteq ClearBits(m) /\ n.usable = m.usable /\ m.owned \subseteq n.owned
    BY <1>3, <2>1 DEF ClearBits
  <2> QED BY <2>1, <2>8, <2>9, <2>12, <2>13, <2>14 DEF Mapped
<1> QED BY <1>4, <1>5
\* pmm_alloc_page leaves a memory in order, with the new page linked nowhere.
LEMMA PageTaken ==
  ASSUME NEW m, NEW D, Good(m, D), ~NoPage(m), NEW n, n = PmmAllocPage(m),
         NEW p, p = NextPage(m)
  PROVE  /\ Good(n, D) /\ Good(n, D \cup {p})
         /\ n.usable = m.usable /\ n.table = m.table /\ n.owned = m.owned \cup {p}
         /\ ClearBits(n) \subseteq ClearBits(m)
         /\ p \in FramesIn(m.usable) \ m.owned /\ p \in Nat \ {0} /\ Unlinked(m.table, p)
<1> DEFINE b == m.bits \cup {Min(ClearBits(m))}
           F == FramesIn(m.usable)
           T == m.table
           o == m.owned \cup {p}
<1>1. /\ p \in F /\ p \notin m.owned /\ p \in Nat \ {0}
      /\ Allots(m.usable, b, o) /\ Unlinked(T, p)
  BY AllocFacts
<1>2. n = Mem(m.usable, T, b, o, m.at)
  BY AllocPageIs
<1>3. Tree(T, F, m.owned \ D) /\ D \subseteq m.owned /\ m.owned \subseteq F
  BY DEF Good, Allots
<1>4. ClearBits(n) \subseteq ClearBits(m)
  BY <1>2, MemParts DEF ClearBits
<1> HIDE DEF b, F, T, o
<1>5. n.usable = m.usable /\ n.table = T /\ n.bits = b /\ n.owned = o /\ n.at = m.at
  BY <1>2, MemParts
<1>6. Tree(T, F, o \ D)
  <2>1. m.owned \ D \subseteq o \ D /\ o \ D \subseteq F
    BY <1>1, <1>3 DEF o
  <2> QED BY <2>1, <1>3, TreeOfMore
<1>7. o \ (D \cup {p}) = m.owned \ D /\ D \cup {p} \subseteq o /\ D \subseteq o
  BY <1>1, <1>3 DEF o
<1>8. n = Mem(n.usable, n.table, n.bits, n.owned, n.at) /\ Allots(n.usable, n.bits, n.owned)
  BY <1>1, <1>2, <1>5
<1>9. Good(n, D)
  BY <1>5, <1>6, <1>7, <1>8 DEF Good, F
<1>10. Good(n, D \cup {p})
  BY <1>3, <1>5, <1>7, <1>8 DEF Good, F
<1> QED BY <1>1, <1>4, <1>5, <1>9, <1>10 DEF F, T, o

\* vmm_alloc_page maps such a page.
LEMMA AllocPageSound ==
  ASSUME NEW m, NEW D, Good(m, D), ~NoPage(m), NEW v \in Nat, NEW n, n = AllocPage(m, v)
  PROVE  Good(n, D) /\ Mapped(n, PmmAllocPage(m), v, NextPage(m))
<1> DEFINE l == PmmAllocPage(m)
           p == NextPage(m)
<1>1. /\ Good(l, D) /\ l.table = m.table /\ l.owned = m.owned \cup {p}
      /\ p \in FramesIn(m.usable) \ m.owned /\ Unlinked(m.table, p)
  BY PageTaken
<1>2. n = VmmMap(l, v, p)
  BY DEF AllocPage
<1>3. p \in l.owned \ D /\ (p \in l.owned => Unlinked(l.table, p))
  BY <1>1 DEF Good
<1> HIDE DEF l, p
<1>4. Good(n, D) /\ Mapped(n, l, v, p)
  BY <1>1, <1>2, <1>3, VmmMapSound
<1> QED BY <1>4 DEF l, p

\* pmm_free_page takes back a page that is linked nowhere.
LEMMA PageGiven ==
  ASSUME NEW m, NEW D, Good(m, D), NEW f \in m.owned, Unlinked(m.table, f),
         NEW E, E = D \ {f}, NEW n, n = PmmFreePage(m, f)
  PROVE  Good(n, E) /\ n.usable = m.usable /\ n.table = m.table /\ n.owned = m.owned \ {f}
<1> DEFINE b == m.bits \ {IndexOf(m.usable, f)}
           o == m.owned \ {f}
           T == m.table
           F == FramesIn(m.usable)
<1>1. Allots(m.usable, m.bits, m.owned) /\ m.owned \subseteq F
  BY DEF Good, Allots
<1>2. n = Mem(m.usable, T, b, o, m.at)
  BY <1>1, FreePageIs
<1>3. Allots(m.usable, b, o)
  BY <1>1, FreeAllots
<1>4. Tree(T, F, m.owned \ D) /\ D \subseteq m.owned /\ f # 0
  BY <1>1 DEF Good, Tree
<1> HIDE DEF b, o, T, F
<1>5. n.usable = m.usable /\ n.table = T /\ n.bits = b /\ n.owned = o /\ n.at = m.at
  BY <1>2, MemParts
<1>6. Tree(T, F, o \ E)
  <2>1. o \ E = (m.owned \ D) \ {f}
    BY DEF o
  <2> QED BY <2>1, <1>4, TreeOfLess DEF T
<1>7. E \subseteq o
  BY <1>4 DEF o
<1>8. n = Mem(n.usable, n.table, n.bits, n.owned, n.at)
  BY <1>2, <1>5
<1>9. Good(n, E)
  BY <1>3, <1>5, <1>6, <1>7, <1>8 DEF Good, F
<1> QED BY <1>5, <1>9 DEF o, T

\* vmm_free_page of a page that is mapped: no table leads to its frame any more.
LEMMA FreePageSound ==
  ASSUME NEW m, NEW D, Good(m, D), NEW v \in Nat, NEW q, q = Translate(m, v), q # 0,
         NEW n, n = FreePage(m, v)
  PROVE  /\ Good(n, D) /\ n.usable = m.usable /\ n.owned = m.owned \ {q}
         /\ Redirects(n.table, m.table, v, 0)
         /\ \A f \in n.owned : Unlinked(n.table, f) <=> Unlinked(m.table, f)
<1> DEFINE T == m.table
           F == FramesIn(m.usable)
           H == m.owned \ D
           l == VmmMap(m, v, 0)
           a == ToFirst(T, v)
           i == Indices(v)[4]
           U == Stored(T, a, i, 0)
<1>1. n = PmmFreePage(l, q)
  BY DEF FreePage
<1>2. q = Leaf(T, v)
  BY TranslateIsLeaf
<1>3. Tree(T, F, H) /\ D \subseteq m.owned /\ m.owned \subseteq F
  BY DEF Good, Allots
<1>4. 0 \notin F /\ Devices \cap F = {} /\ H \subseteq F
  BY <1>3 DEF Tree
<1>5. Good(l, D)
  BY <1>3, <1>4, VmmMapSound
<1>6. a # 0 /\ q = T[a][i]
  BY <1>2 DEF Leaf, Step
<1>7. a \in First(T) /\ i \in Index
  BY <1>3, <1>6, IndicesAre, WalkLeads
<1>8. /\ l.usable = m.usable /\ l.table = U /\ l.bits = m.bits /\ l.owned = m.owned
  <2> DEFINE t == PageTable(m, v)
  <2>1. t.table = m.table /\ t.bits = m.bits /\ t.owned = m.owned /\ t.at = ToFirst(t.table, v)
    BY <1>6, PageTableSound
  <2>2. t.usable = m.usable
    <3>1. Grew(t, m) BY PageTableSound
    <3> QED BY <3>1 DEF Grew
  <2>3. t.at # 0 =>
          VmmMap(m, v, 0) = Mem(t.usable, Stored(t.table, t.at, Indices(v)[4], 0), t.bits, t.owned, t.at)
    BY VmmMapIs
  <2> HIDE DEF t
  <2>4. l = Mem(m.usable, U, m.bits, m.owned, a)
    BY <1>6, <2>1, <2>2, <2>3
  <2> HIDE DEF l
  <2> QED BY <2>4, MemParts
<1>9. q \in {0} \cup Devices \cup H
  BY <1>2, <1>3, WalkLeads
<1> HIDE DEF T, F, H, l, a, i, U
<1>10. Rewrites(U, T, F, a, i, 0)
  BY <1>3, <1>7, StoredRewrites DEF U
<1>11. Redirects(U, T, v, 0)
  BY <1>3, <1>6, <1>10, StoredWalks DEF a, i
<1>12. /\ \A t \in InUse(T) : \A j \in Index : U[t][j] = IF t = a /\ j = i THEN 0 ELSE T[t][j]
       /\ InUse(U) = InUse(T) /\ a \in InUse(T)
  BY <1>7, <1>10 DEF Rewrites, InUse
<1>13. ASSUME q \in F PROVE Unlinked(U, q)
  <2>1. ASSUME NEW t \in InUse(T), NEW j \in Index, U[t][j] = q PROVE FALSE
    <3>1. ~(t = a /\ j = i) /\ T[t][j] = q
      BY <1>12, <2>1
    <3>2. T[t][j] = T[a][i] /\ T[t][j] \in F
      BY <1>6, <1>13, <3>1
    <3> QED BY <1>3, <1>7, <1>12, <3>1, <3>2 DEF Tree
  <2> QED BY <2>1, <1>12 DEF Unlinked
<1>14. ASSUME NEW f \in m.owned, f # q PROVE Unlinked(U, f) <=> Unlinked(T, f)
  <2>1. f # 0
    BY <1>3, <1>4
  <2> QED BY <2>1, <1>6, <1>7, <1>12, <1>14 DEF Unlinked
<1>15. CASE q \in F
  <2>1. q \in m.owned /\ q \notin D
    BY <1>4, <1>9, <1>15 DEF H
  <2>2. Unlinked(l.table, q) /\ q \in l.owned /\ D = D \ {q}
    BY <1>8, <1>13, <1>15, <2>1
  <2>3. Good(n, D) /\ n.usable = l.usable /\ n.table = l.table /\ n.owned = l.owned \ {q}
    BY <1>1, <1>5, <2>2, PageGiven
  <2> QED BY <1>8, <1>11, <1>14, <2>3 DEF T
<1>16. CASE q \notin F
  <2>1. n = l
    BY <1>1, <1>8, <1>16 DEF PmmFreePage, F
  <2>2. m.owned = m.owned \ {q}
    BY <1>3, <1>16
  <2> QED BY <1>3, <1>5, <1>8, <1>11, <1>14, <1>16, <2>1, <2>2 DEF T
<1> QED BY <1>15, <1>16----------------------------------------------------------------------------
(* Lost frames and the pages of the heap                                   *)

LostIn(m, D) == {f \in m.owned \ D : Unlinked(m.table, f)}

\* What vmm_alloc_page makes of a memory: no frame is lost, but for the one that
\* v led to, or memory is full and the new one is.
Allocated(n, m, D, v, p) ==
  /\ n.usable = m.usable /\ ClearBits(n) \subseteq ClearBits(m)
  /\ p # 0 /\ p \notin LostIn(m, D)
  /\ \/ /\ NoPage(n) /\ LostIn(n, D) = LostIn(m, D) \cup {p}
        /\ \A w \in Nat : Leaf(n.table, w) = Leaf(m.table, w)
     \/ /\ LostIn(m, D) \subseteq LostIn(n, D)
        /\ LostIn(n, D) \subseteq LostIn(m, D) \cup {Leaf(m.table, v)}
        /\ Redirects(n.table, m.table, v, p)

LEMMA AllocLoses ==
  ASSUME NEW m, NEW D, Good(m, D), ~NoPage(m), NEW v \in Nat, NEW n, n = AllocPage(m, v)
  PROVE  Allocated(n, m, D, v, NextPage(m))
<1> DEFINE l == PmmAllocPage(m)
           p == NextPage(m)
<1>1. /\ l.usable = m.usable /\ l.table = m.table /\ l.owned = m.owned \cup {p}
      /\ ClearBits(l) \subseteq ClearBits(m)
      /\ p \in FramesIn(m.usable) \ m.owned /\ p # 0 /\ Unlinked(m.table, p)
  BY PageTaken
<1>2. Good(n, D) /\ Mapped(n, l, v, p)
  BY AllocPageSound
<1> HIDE DEF l, p
<1>3. D \subseteq m.owned /\ p \notin LostIn(m, D)
  BY <1>1 DEF Good, LostIn
<1>4. n.usable = m.usable /\ ClearBits(n) \subseteq ClearBits(m) /\ l.owned \subseteq n.owned
  BY <1>1, <1>2 DEF Mapped
<1>5. CASE NoPage(n) /\ Grew(n, l)
  <2>1. \A w \in Nat : Leaf(n.table, w) = Leaf(m.table, w)
    BY <1>1, <1>5 DEF Grew, Keeps
  <2>2. ASSUME NEW f PROVE f \in LostIn(n, D) <=> f \in LostIn(m, D) \cup {p}
    <3>1. f \in n.owned /\ Unlinked(n.table, f) <=> f \in l.owned /\ Unlinked(l.table, f)
      BY <1>5 DEF Grew
    <3> QED BY <3>1, <1>1, <1>3 DEF LostIn
  <2>3. LostIn(n, D) = LostIn(m, D) \cup {p}
    BY <2>2
  <2> QED BY <2>1, <2>3, <1>1, <1>3, <1>4, <1>5 DEF Allocated, p
<1>6. CASE ~(NoPage(n) /\ Grew(n, l))
  <2>1. /\ Redirects(n.table, l.table, v, p)
        /\ \A f \in n.owned :
             Unlinked(n.table, f) =>
               f \in l.owned /\ f # p /\ (Unlinked(l.table, f) \/ f = Leaf(l.table, v))
        /\ \A f \in l.owned : Unlinked(l.table, f) /\ f # p => Unlinked(n.table, f)
    BY <1>2, <1>6 DEF Mapped
  <2>2. LostIn(m, D) \subseteq LostIn(n, D)
    BY <2>1, <1>1, <1>3, <1>4 DEF LostIn
  <2>3. LostIn(n, D) \subseteq LostIn(m, D) \cup {Leaf(m.table, v)}
    BY <2>1, <1>1 DEF LostIn
  <2> QED BY <2>1, <2>2, <2>3, <1>1, <1>3, <1>4 DEF Allocated, p
<1> QED BY <1>5, <1>6

\* Of the first c pages of the heap, those that are not mapped.
Unbacked(T, c) == {k \in 0..c - 1 : Leaf(T, HeapStart + k) = 0}

\* The pages the heap has still to reach are no page's frame.
Ahead(T, c) == \A k \in HeapPages : k >= c => Leaf(T, HeapStart + k) \in {0} \cup Devices

Backs(m, D, c) ==
  /\ Ahead(m.table, c)
  /\ Cardinality(Unbacked(m.table, c)) <= Cardinality(LostIn(m, D))

LEMMA HeapFinite ==
  ASSUME NEW m, NEW D, Good(m, D), NEW c \in Nat
  PROVE  /\ IsFiniteSet(LostIn(m, D)) /\ IsFiniteSet(Unbacked(m.table, c))
         /\ Cardinality(LostIn(m, D)) \in Nat /\ Cardinality(Unbacked(m.table, c)) \in Nat
<1>1. IsFiniteSet(m.owned)
  BY BitsCounted DEF Good
<1>2. IsFiniteSet(LostIn(m, D))
  <2>1. LostIn(m, D) \in SUBSET m.owned BY DEF LostIn
  <2> QED BY <1>1, <2>1, FS_Subset
<1>3. IsFiniteSet(Unbacked(m.table, c))
  <2>1. Unbacked(m.table, c) \in SUBSET (0..c - 1) BY DEF Unbacked
  <2>2. IsFiniteSet(0..c - 1) BY CountOfBits
  <2> QED BY <2>1, <2>2, FS_Subset
<1> QED BY <1>2, <1>3, FS_CardinalityType

\* Pages stay mapped and frames lost.
LEMMA BacksStill ==
  ASSUME NEW m, NEW D, Good(m, D), NEW n, NEW E, Good(n, E), NEW c \in Nat, Backs(m, D, c),
         LostIn(m, D) \subseteq LostIn(n, E), Ahead(n.table, c),
         \A k \in 0..c - 1 : Leaf(n.table, HeapStart + k) = 0 => Leaf(m.table, HeapStart + k) = 0
  PROVE  Backs(n, E, c)
<1>1. /\ IsFiniteSet(LostIn(n, E)) /\ IsFiniteSet(Unbacked(m.table, c))
      /\ Cardinality(LostIn(m, D)) \in Nat /\ Cardinality(LostIn(n, E)) \in Nat
      /\ Cardinality(Unbacked(m.table, c)) \in Nat /\ Cardinality(Unbacked(n.table, c)) \in Nat
  BY HeapFinite
<1>2. Unbacked(n.table, c) \in SUBSET Unbacked(m.table, c)
  BY DEF Unbacked
<1>3. Cardinality(Unbacked(n.table, c)) <= Cardinality(Unbacked(m.table, c))
  BY <1>1, <1>2, FS_Subset
<1>4. Cardinality(LostIn(m, D)) <= Cardinality(LostIn(n, E))
  BY <1>1, FS_Subset
<1>5. Cardinality(Unbacked(m.table, c)) <= Cardinality(LostIn(m, D))
  BY DEF Backs
<1>6. Cardinality(Unbacked(n.table, c)) <= Cardinality(LostIn(n, E))
  BY <1>1, <1>3, <1>4, <1>5
<1> QED BY <1>6 DEF Backs

\* What is done to no page of the heap leaves those ahead as they are.
LEMMA AheadStill ==
  ASSUME NEW T, NEW U, NEW c, Ahead(T, c),
         \A k \in HeapPages :
           \/ Leaf(U, HeapStart + k) \in {0} \cup Devices
           \/ Leaf(U, HeapStart + k) = Leaf(T, HeapStart + k)
  PROVE  Ahead(U, c)
BY DEF Ahead

LEMMA HeapPagesBelow ==
  ASSUME NEW c \in HeapPages
  PROVE  \A k \in 0..c - 1 : k \in HeapPages /\ k # c
<1>1. c \in 0..MaxHeap /\ PageUnits \in Nat /\ MaxHeap \in Nat
  BY VirtMemAssumption DEF HeapPages
<1>2. ASSUME NEW k \in 0..c - 1 PROVE k \in HeapPages /\ k # c
  <2>1. k \in 0..MaxHeap /\ k # c /\ c # 0 /\ c - k \in Nat /\ k \in Nat /\ c \in Nat
    BY <1>1, <1>2
  <2>2. c * PageUnits < MaxHeap
    BY <2>1 DEF HeapPages
  <2>3. c * PageUnits = k * PageUnits + (c - k) * PageUnits /\ (c - k) * PageUnits \in Nat
    BY <1>1, <2>1
  <2>4. k * PageUnits \in Nat /\ c * PageUnits \in Nat
    BY <1>1, <2>1
  <2> DEFINE x == k * PageUnits
             y == c * PageUnits
             z == (c - k) * PageUnits
  <2>5. x \in Nat /\ y \in Nat /\ z \in Nat /\ y = x + z /\ y < MaxHeap
    BY <2>2, <2>3, <2>4
  <2> HIDE DEF x, y, z
  <2>6. x < MaxHeap
    BY <1>1, <2>5
  <2> QED BY <2>1, <2>6 DEF HeapPages, x
<1> QED BY <1>2

\* The heap grows by a page that is mapped or by one whose frame is lost.
LEMMA BacksGrow ==
  ASSUME NEW m, NEW D, Good(m, D), ~NoPage(m), NEW c \in HeapPages, Backs(m, D, c),
         NEW n, n = AllocPage(m, HeapStart + c)
  PROVE  /\ Good(n, D) /\ Backs(n, D, c + 1)
         /\ n.usable = m.usable /\ ClearBits(n) \subseteq ClearBits(m)
         /\ LostIn(n, D) \subseteq LostIn(m, D) \/ NoPage(n)
<1> DEFINE p == NextPage(m)
           v == HeapStart + c
<1>0. c \in Nat /\ c + 1 \in Nat /\ v \in Nat /\ HeapPages \subseteq Nat /\ HeapStart \in Nat
  <2>1. HeapPages \subseteq Nat /\ HeapStart \in Nat BY VirtMemAssumption DEF HeapPages
  <2> QED BY <2>1
<1>1. Good(n, D) /\ Allocated(n, m, D, v, p)
  <2>1. Good(n, D) BY <1>0, AllocPageSound
  <2>2. Allocated(n, m, D, v, p) BY <1>0, AllocLoses
  <2> QED BY <2>1, <2>2
<1> HIDE DEF p
<1>2. /\ n.usable = m.usable /\ ClearBits(n) \subseteq ClearBits(m)
      /\ p # 0 /\ p \notin LostIn(m, D)
  BY <1>1 DEF Allocated
<1>3. Tree(m.table, FramesIn(m.usable), m.owned \ D)
  BY DEF Good
<1>4. Leaf(m.table, v) \in {0} \cup Devices
  BY <1>0, VirtMemAssumption DEF Backs, Ahead
<1>5. /\ IsFiniteSet(LostIn(m, D)) /\ IsFiniteSet(Unbacked(m.table, c))
      /\ Cardinality(LostIn(m, D)) \in Nat /\ Cardinality(Unbacked(m.table, c)) \in Nat
      /\ IsFiniteSet(LostIn(n, D)) /\ IsFiniteSet(Unbacked(n.table, c + 1))
      /\ Cardinality(LostIn(n, D)) \in Nat /\ Cardinality(Unbacked(n.table, c + 1)) \in Nat
  <2>1. /\ IsFiniteSet(LostIn(m, D)) /\ IsFiniteSet(Unbacked(m.table, c))
        /\ Cardinality(LostIn(m, D)) \in Nat /\ Cardinality(Unbacked(m.table, c)) \in Nat
    BY <1>0, HeapFinite
  <2>2. /\ IsFiniteSet(LostIn(n, D)) /\ IsFiniteSet(Unbacked(n.table, c + 1))
        /\ Cardinality(LostIn(n, D)) \in Nat /\ Cardinality(Unbacked(n.table, c + 1)) \in Nat
    BY <1>0, <1>1, HeapFinite
  <2> QED BY <2>1, <2>2
<1>6. Cardinality(Unbacked(m.table, c)) <= Cardinality(LostIn(m, D)) /\ Ahead(m.table, c)
  BY DEF Backs
<1> HIDE DEF v
<1>7. CASE /\ NoPage(n) /\ LostIn(n, D) = LostIn(m, D) \cup {p}
           /\ \A w \in Nat : Leaf(n.table, w) = Leaf(m.table, w)
  <2>1. Cardinality(LostIn(n, D)) = Cardinality(LostIn(m, D)) + 1
    BY <1>2, <1>5, <1>7, FS_AddElement
  <2> DEFINE S == Unbacked(m.table, c) \cup {c}
  <2>2. IsFiniteSet(S) /\ Cardinality(S) <= Cardinality(Unbacked(m.table, c)) + 1
    <3> DEFINE B == Unbacked(m.table, c)
    <3>1. IsFiniteSet(B) /\ Cardinality(B) \in Nat
      BY <1>5
    <3> HIDE DEF B
    <3>2. /\ IsFiniteSet(B \cup {c})
          /\ Cardinality(B \cup {c}) = IF c \in B THEN Cardinality(B) ELSE Cardinality(B) + 1
      BY <3>1, FS_AddElement
    <3>3. Cardinality(B \cup {c}) <= Cardinality(B) + 1
      BY <3>1, <3>2
    <3> QED BY <3>2, <3>3 DEF B
  <2>3. Unbacked(n.table, c + 1) \in SUBSET S
    <3>1. \A k \in 0..c : HeapStart + k \in Nat
      BY <1>0
    <3> QED BY <3>1, <1>0, <1>7 DEF Unbacked
  <2>4. Cardinality(Unbacked(n.table, c + 1)) <= Cardinality(S) /\ Cardinality(S) \in Nat
    BY <2>2, <2>3, FS_Subset, FS_CardinalityType
  <2>5. Cardinality(Unbacked(n.table, c + 1)) <= Cardinality(LostIn(n, D))
    BY <1>5, <1>6, <2>1, <2>2, <2>4
  <2>6. Ahead(n.table, c + 1)
    <3>1. \A k \in HeapPages : HeapStart + k \in Nat /\ (k >= c + 1 => k >= c)
      BY <1>0
    <3> QED BY <3>1, <1>6, <1>7 DEF Ahead
  <2> QED BY <2>5, <2>6, <1>1, <1>2, <1>7 DEF Backs
<1>8. CASE /\ LostIn(m, D) \subseteq LostIn(n, D)
           /\ LostIn(n, D) \subseteq LostIn(m, D) \cup {Leaf(m.table, v)}
           /\ Redirects(n.table, m.table, v, p)
  <2>1. LostIn(n, D) = LostIn(m, D)
    <3>1. Leaf(m.table, v) \notin LostIn(n, D)
      <4>1. 0 \notin FramesIn(n.usable) /\ Devices \cap FramesIn(n.usable) = {}
        BY <1>1 DEF Good, Tree
      <4>2. LostIn(n, D) \subseteq FramesIn(n.usable)
        BY <1>1 DEF Good, Allots, LostIn
      <4> QED BY <4>1, <4>2, <1>4
    <3> QED BY <3>1, <1>8
  <2>2. \A k \in HeapPages : k # c => Leaf(n.table, HeapStart + k) = Leaf(m.table, HeapStart + k)
    <3>1. \A k \in HeapPages : HeapStart + k \in Nat
      BY <1>0
    <3>2. \A k \in HeapPages : k # c => Indices(HeapStart + k) # Indices(v)
      BY HeapAssumption DEF v
    <3> QED BY <3>1, <3>2, <1>8 DEF Redirects
  <2>3. Leaf(n.table, v) = p
    BY <1>0, <1>8 DEF Redirects
  <2>4. \A k \in 0..c - 1 : k \in HeapPages /\ k # c
    BY HeapPagesBelow
  <2>5. Unbacked(n.table, c + 1) \in SUBSET Unbacked(m.table, c)
    <3>1. ASSUME NEW k \in Unbacked(n.table, c + 1) PROVE k \in Unbacked(m.table, c)
      <4>1. k \in 0..c /\ Leaf(n.table, HeapStart + k) = 0
        BY <3>1, <1>0 DEF Unbacked
      <4>2. k # c
        BY <4>1, <2>3, <1>2 DEF v
      <4>3. k \in 0..c - 1
        BY <4>1, <4>2, <1>0
      <4> QED BY <4>1, <4>3, <2>2, <2>4 DEF Unbacked
    <3> QED BY <3>1
  <2>6. Cardinality(Unbacked(n.table, c + 1)) <= Cardinality(Unbacked(m.table, c))
    BY <1>5, <2>5, FS_Subset
  <2>7. Cardinality(Unbacked(n.table, c + 1)) <= Cardinality(LostIn(n, D))
    BY <1>5, <1>6, <2>1, <2>6
  <2>8. Ahead(n.table, c + 1)
    <3>1. \A k \in HeapPages : k >= c + 1 => k >= c /\ k # c
      BY <1>0
    <3> QED BY <3>1, <2>2, <1>6 DEF Ahead
  <2> QED BY <2>1, <2>7, <2>8, <1>1, <1>2 DEF Backs
<1> QED BY <1>1, <1>7, <1>8 DEF Allocated----------------------------------------------------------------------------
(* The turns of kmalloc's loop                                             *)

\* A heap that ends there has c pages.
Pages(end, c) ==
  /\ c \in 0..MaxHeap /\ end = c * PageUnits
  /\ c = 0 \/ c - 1 \in HeapPages

\* A heap of c pages over a memory in order.
HeapAt(h, D, c) ==
  /\ h = [mem |-> h.mem, end |-> h.end, ok |-> h.ok]
  /\ h.ok \in BOOLEAN
  /\ Pages(h.end, c)
  /\ Good(h.mem, D) /\ Backs(h.mem, D, c)

\* No frame has been lost, or memory is full.
Spared(n, m, D) ==
  /\ n.usable = m.usable
  /\ ClearBits(n) \subseteq ClearBits(m)
  /\ LostIn(n, D) \subseteq LostIn(m, D) \/ NoPage(n)

LEMMA SparedAgain ==
  ASSUME NEW l, NEW m, NEW n, NEW D, Spared(m, l, D), Spared(n, m, D)
  PROVE  Spared(n, l, D)
BY DEF Spared, NoPage

\* The page the heap grows by, when it has c of them.
LEMMA NextOfHeap ==
  ASSUME NEW c \in 0..MaxHeap, NEW end, end = c * PageUnits, NEW target \in Nat,
         target <= MaxHeap \/ target = PageUnits, end < target
  PROVE  /\ c \in HeapPages /\ c + 1 \in 0..MaxHeap
         /\ end \div PageUnits = c /\ end + PageUnits = (c + 1) * PageUnits
<1>1. PageUnits \in Nat \ {0} /\ MaxHeap \in Nat \ {0} /\ c \in Nat
  BY VirtMemAssumption
<1>2. end \in Nat /\ c <= end
  <2>1. (PageUnits - 1) * c \in Nat /\ c * PageUnits = c + (PageUnits - 1) * c
    BY <1>1
  <2> DEFINE x == (PageUnits - 1) * c
  <2>2. x \in Nat /\ end = c + x
    BY <2>1
  <2> HIDE DEF x
  <2> QED BY <1>1, <2>2
<1>3. end \div PageUnits = c
  BY <1>1
<1>4. end + PageUnits = (c + 1) * PageUnits
  BY <1>1
<1>5. CASE target <= MaxHeap
  <2>1. end < MaxHeap /\ c < MaxHeap
    BY <1>1, <1>2, <1>5
  <2> QED BY <1>1, <1>3, <1>4, <2>1 DEF HeapPages
<1>6. CASE target = PageUnits
  <2>1. c = 0
    <3> SUFFICES ASSUME c >= 1 PROVE FALSE
      BY <1>1
    <3>1. (c - 1) * PageUnits \in Nat /\ end = PageUnits + (c - 1) * PageUnits
      BY <1>1
    <3> DEFINE y == (c - 1) * PageUnits
    <3>2. y \in Nat /\ end = PageUnits + y /\ end < PageUnits
      BY <3>1, <1>6
    <3> HIDE DEF y
    <3> QED BY <1>1, <3>2
  <2> QED BY <1>1, <1>3, <1>4, <2>1 DEF HeapPages
<1> QED BY <1>5, <1>6

\* One turn: the heap has a page more, or it has failed, or it was large enough.
LEMMA GrowSound ==
  ASSUME NEW h, NEW D, NEW c, HeapAt(h, D, c), NEW target \in Nat,
         target <= MaxHeap \/ target = PageUnits, NEW g, g = Grow(h, target)
  PROVE  /\ Spared(g.mem, h.mem, D)
         /\ \/ HeapAt(g, D, c) /\ (~g.ok \/ g.end >= target)
            \/ HeapAt(g, D, c + 1)
<1>1. /\ h = [mem |-> h.mem, end |-> h.end, ok |-> h.ok] /\ h.ok \in BOOLEAN
      /\ c \in 0..MaxHeap /\ h.end = c * PageUnits /\ Good(h.mem, D) /\ Backs(h.mem, D, c)
      /\ Pages(h.end, c)
  BY DEF HeapAt, Pages
<1>2. CASE h.end >= target \/ ~h.ok
  <2>1. g = h
    <3>1. h.end \in Int /\ target \in Int
      BY <1>1, VirtMemAssumption
    <3> QED BY <1>2, <3>1 DEF Grow
  <2> QED BY <1>2, <2>1 DEF Spared
<1>3. CASE h.end < target /\ h.ok /\ NoPage(h.mem)
  <2>1. h.end \in Int /\ target \in Int
    BY <1>1, VirtMemAssumption
  <2>2. ~(h.end >= target \/ ~h.ok)
    BY <1>3, <2>1
  <2>3. g = [h EXCEPT !.ok = FALSE]
    BY <1>3, <2>2 DEF Grow
  <2>4. g = [mem |-> h.mem, end |-> h.end, ok |-> FALSE]
    BY <1>1, <2>3
  <2>5. g.mem = h.mem /\ g.end = h.end /\ g.ok = FALSE
    BY <2>4
  <2> QED BY <1>1, <2>4, <2>5 DEF Spared, HeapAt
<1>4. CASE h.end < target /\ h.ok /\ ~NoPage(h.mem)
  <2>1. h.end \in Int /\ target \in Int
    BY <1>1, VirtMemAssumption
  <2>2. ~(h.end >= target \/ ~h.ok)
    BY <1>4, <2>1
  <2> DEFINE m == AllocPage(h.mem, HeapStart + h.end \div PageUnits)
  <2>3. g = [h EXCEPT !.mem = m, !.end = @ + PageUnits]
    BY <1>4, <2>2 DEF Grow
  <2>4. /\ c \in HeapPages /\ c + 1 \in 0..MaxHeap
        /\ h.end \div PageUnits = c /\ h.end + PageUnits = (c + 1) * PageUnits
    BY <1>1, <1>4, NextOfHeap
  <2>5. m = AllocPage(h.mem, HeapStart + c)
    BY <2>4
  <2> HIDE DEF m
  <2>6. /\ Good(m, D) /\ Backs(m, D, c + 1)
        /\ m.usable = h.mem.usable /\ ClearBits(m) \subseteq ClearBits(h.mem)
        /\ LostIn(m, D) \subseteq LostIn(h.mem, D) \/ NoPage(m)
    BY <1>1, <1>4, <2>4, <2>5, BacksGrow
  <2>7. g = [mem |-> m, end |-> h.end + PageUnits, ok |-> h.ok]
    BY <1>1, <2>3
  <2>8. g.mem = m /\ g.end = h.end + PageUnits /\ g.ok = h.ok
    BY <2>7
  <2>9. Pages(g.end, c + 1)
    <3> DEFINE d == c + 1
    <3>1. d - 1 = c
      BY <1>1
    <3>2. d \in 0..MaxHeap /\ g.end = d * PageUnits /\ d - 1 \in HeapPages
      BY <2>4, <2>8, <3>1
    <3> HIDE DEF d
    <3>3. Pages(g.end, d)
      BY <3>2 DEF Pages
    <3> QED BY <3>3 DEF d
  <2> QED BY <1>1, <2>4, <2>6, <2>7, <2>8, <2>9 DEF Spared, HeapAt
<1>5. h.end < target \/ h.end >= target
  BY <1>1, VirtMemAssumption
<1> QED BY <1>2, <1>3, <1>4, <1>5

Turned(f, e, target, n) ==
  f = [k \in 0..n |-> IF k = 0 THEN e ELSE Grow(f[k - 1], target)]

\* There are always so many turns.
LEMMA TurnsGoOn ==
  ASSUME NEW e, NEW target, NEW N \in Nat
  PROVE  \E f : Turned(f, e, target, N)
<1> DEFINE Not == {n \in 0..N : ~\E f : Turned(f, e, target, n)}
<1>1. Not = {}
  <2> SUFFICES ASSUME Not # {} PROVE FALSE
    OBVIOUS
  <2> DEFINE m == Min(Not)
  <2>0. Not \subseteq Nat
    OBVIOUS
  <2> HIDE DEF Not
  <2>1. m \in Not /\ \A k \in Not : m <= k
    BY <2>0, MinIsLeast
  <2> HIDE DEF m
  <2> USE DEF Not
  <2>2. m # 0
    <3> DEFINE f == [k \in 0..0 |-> e]
    <3>1. f = [k \in 0..0 |-> IF k = 0 THEN e ELSE Grow(f[k - 1], target)]
      OBVIOUS
    <3> HIDE DEF f
    <3>2. Turned(f, e, target, 0)
      BY <3>1 DEF Turned
    <3> QED BY <2>1, <3>2
  <2>3. m \in Nat /\ m - 1 \in 0..N /\ ~(m <= m - 1) /\ m \in 1..N
    BY <2>1, <2>2
  <2>4. m - 1 \notin Not
    BY <2>1, <2>3
  <2>5. PICK g : Turned(g, e, target, m - 1)
    BY <2>3, <2>4
  <2> DEFINE f == [k \in 0..m |-> IF k = m THEN Grow(g[m - 1], target) ELSE g[k]]
  <2>6. ASSUME NEW k \in 0..m PROVE f[k] = IF k = 0 THEN e ELSE Grow(f[k - 1], target)
    <3>1. CASE k = m
      <4>1. f[k] = Grow(g[m - 1], target) /\ f[k - 1] = g[m - 1] /\ k # 0
        BY <3>1, <2>3
      <4> QED BY <4>1
    <3>2. CASE k # m
      <4>1. k \in 0..m - 1 /\ f[k] = g[k] /\ (k # 0 => k - 1 \in 0..m /\ k - 1 # m)
        BY <3>2, <2>3
      <4>2. g[k] = IF k = 0 THEN e ELSE Grow(g[k - 1], target)
        BY <4>1, <2>5 DEF Turned
      <4>3. k # 0 => f[k - 1] = g[k - 1]
        BY <4>1
      <4> HIDE DEF f
      <4> QED BY <4>1, <4>2, <4>3
    <3> QED BY <3>1, <3>2
  <2>7. f = [k \in 0..m |-> f[k]]
    OBVIOUS
  <2> HIDE DEF f
  <2>8. Turned(f, e, target, m)
    BY <2>6, <2>7 DEF Turned
  <2> QED BY <2>1, <2>8
<1> QED BY <1>1

\* What the loop comes to in n turns.
LEMMA TurnsSound ==
  ASSUME NEW e, NEW D, NEW c, HeapAt(e, D, c), NEW target \in Nat,
         target <= MaxHeap \/ target = PageUnits, NEW n \in Nat, NEW f, Turned(f, e, target, n)
  PROVE  /\ Spared(f[n].mem, e.mem, D)
         /\ \E d \in Nat : /\ HeapAt(f[n], D, d) /\ c <= d
                           /\ ~f[n].ok \/ f[n].end >= target \/ d >= c + n
<1> DEFINE Sound(k, d) ==
             /\ Spared(f[k].mem, e.mem, D) /\ HeapAt(f[k], D, d) /\ c <= d
             /\ ~f[k].ok \/ f[k].end >= target \/ d >= c + k
           Not == {k \in 0..n : ~\E d \in Nat : Sound(k, d)}
<1>0. c \in Nat
  BY VirtMemAssumption DEF HeapAt, Pages
<1>1. Not = {}
  <2> SUFFICES ASSUME Not # {} PROVE FALSE
    OBVIOUS
  <2> DEFINE m == Min(Not)
  <2>0. Not \subseteq Nat
    OBVIOUS
  <2> HIDE DEF Not
  <2>1. m \in Not /\ \A k \in Not : m <= k
    BY <2>0, MinIsLeast
  <2> HIDE DEF m
  <2>2. m \in 0..n /\ ~\E d \in Nat : Sound(m, d)
    BY <2>1 DEF Not
  <2>3. m # 0
    <3>1. f[0] = e
      BY DEF Turned
    <3>2. Sound(0, c)
      BY <3>1, <1>0 DEF Spared
    <3> QED BY <2>2, <3>2, <1>0
  <2>4. m - 1 \in 0..n /\ ~(m <= m - 1) /\ m \in 1..n
    BY <2>2, <2>3
  <2>5. m - 1 \notin Not
    BY <2>1, <2>4
  <2>6. PICK d \in Nat : Sound(m - 1, d)
    BY <2>4, <2>5 DEF Not
  <2> DEFINE h == f[m - 1]
             g == f[m]
  <2>7. g = Grow(h, target)
    BY <2>4 DEF Turned
  <2> HIDE DEF h, g
  <2>8. /\ Spared(h.mem, e.mem, D) /\ HeapAt(h, D, d) /\ c <= d
        /\ ~h.ok \/ h.end >= target \/ d >= c + (m - 1)
    BY <2>6 DEF h
  <2>9. /\ Spared(g.mem, h.mem, D)
        /\ \/ HeapAt(g, D, d) /\ (~g.ok \/ g.end >= target)
           \/ HeapAt(g, D, d + 1)
    BY <2>7, <2>8, GrowSound
  <2>10. Spared(g.mem, e.mem, D)
    BY <2>8, <2>9, SparedAgain
  <2>11. CASE HeapAt(g, D, d) /\ (~g.ok \/ g.end >= target)
    <3>1. Sound(m, d)
      BY <2>8, <2>10, <2>11 DEF g
    <3> QED BY <3>1, <2>2
  <2>12. CASE HeapAt(g, D, d + 1)
    <3>1. ~g.ok \/ g.end >= target \/ d + 1 >= c + m
      <4>1. CASE d >= c + (m - 1)
        BY <4>1, <1>0, <2>4
      <4>2. CASE ~h.ok \/ h.end >= target
        <5>1. h.end \in Int /\ target \in Int
          BY <2>8, VirtMemAssumption DEF HeapAt, Pages
        <5>2. g = h
          BY <4>2, <2>7, <5>1 DEF Grow
        <5> QED BY <4>2, <5>2
      <4> QED BY <4>1, <4>2, <2>8
    <3>2. c <= d + 1 /\ d + 1 \in Nat
      BY <1>0, <2>8
    <3>3. Sound(m, d + 1)
      BY <2>10, <2>12, <3>1, <3>2 DEF g
    <3> QED BY <3>2, <3>3, <2>2
  <2> QED BY <2>9, <2>11, <2>12
<1>2. n \in 0..n
  OBVIOUS
<1>3. PICK d \in Nat : Sound(n, d)
  BY <1>1, <1>2
<1> QED BY <1>3

LEMMA GrownSound ==
  ASSUME NEW e, e = [mem |-> Memory, end |-> heap_end, ok |-> TRUE],
         NEW c, HeapAt(e, direct, c), NEW target \in Nat,
         target <= MaxHeap \/ target = PageUnits, NEW n \in Nat, NEW h, h = Grown(target, n)
  PROVE  /\ Spared(h.mem, Memory, direct)
         /\ \E d \in Nat : /\ HeapAt(h, direct, d) /\ c <= d
                           /\ ~h.ok \/ h.end >= target \/ d >= c + n
<1> DEFINE g == CHOOSE f : Turned(f, e, target, n)
<1>1. h = g[n]
  BY DEF Grown, Turned
<1>2. Turned(g, e, target, n)
  BY TurnsGoOn
<1> HIDE DEF g
<1>3. e.mem = Memory
  OBVIOUS
<1>4. /\ Spared(g[n].mem, e.mem, direct)
      /\ \E d \in Nat : /\ HeapAt(g[n], direct, d) /\ c <= d
                        /\ ~g[n].ok \/ g[n].end >= target \/ d >= c + n
  BY <1>2, TurnsSound
<1> QED BY <1>1, <1>3, <1>4----------------------------------------------------------------------------
(* What the calls keep                                                     *)

\* A memory in order under a heap that ends at `end`.
Held(m, D, end) ==
  /\ Good(m, D)
  /\ \E c \in Nat : Pages(end, c) /\ Backs(m, D, c)

\* No frame is lost by the call, or memory is full.
Safely(n, E, m, D) ==
  /\ n.usable = m.usable
  /\ LostIn(n, E) \subseteq LostIn(m, D) \/ NoPage(n)

\* The pages of the heap are led to a device or to where they were.
Spares(U, T) ==
  \A v \in Nat : \/ Leaf(U, v) \in Devices
                 \/ Leaf(U, v) = Leaf(T, v)
                 \/ \A k \in HeapPages : Indices(v) # Indices(HeapStart + k)

LEMMA HeldStill ==
  ASSUME NEW m, NEW D, NEW end, Held(m, D, end), NEW n, NEW E, Good(n, E),
         LostIn(m, D) \subseteq LostIn(n, E), Spares(n.table, m.table)
  PROVE  Held(n, E, end)
<1>1. PICK c \in Nat : Pages(end, c) /\ Backs(m, D, c)
  BY DEF Held
<1>2. HeapStart \in Nat /\ 0 \notin Devices /\ HeapPages \subseteq Nat
  BY VirtMemAssumption DEF Devices, HeapPages
<1>3. ASSUME NEW k \in HeapPages
      PROVE  Leaf(n.table, HeapStart + k) \in Devices
             \/ Leaf(n.table, HeapStart + k) = Leaf(m.table, HeapStart + k)
  <2>1. HeapStart + k \in Nat
    BY <1>2
  <2> QED BY <2>1 DEF Spares
<1>4. Ahead(n.table, c)
  BY <1>1, <1>3, AheadStill DEF Backs
<1>5. ASSUME NEW k \in 0..c - 1 PROVE k \in HeapPages
  <2>1. c - 1 \in HeapPages /\ (k = c - 1 \/ k \in 0..c - 1 - 1)
    BY <1>1, <1>5 DEF Pages
  <2> QED BY <2>1, HeapPagesBelow
<1>6. \A k \in 0..c - 1 : Leaf(n.table, HeapStart + k) = 0 => Leaf(m.table, HeapStart + k) = 0
  BY <1>2, <1>3, <1>5
<1>7. Good(m, D)
  BY DEF Held
<1>8. Backs(n, E, c)
  BY <1>1, <1>4, <1>6, <1>7, BacksStill
<1> QED BY <1>1, <1>8 DEF Held

LEMMA HeldWalk ==
  ASSUME NEW m, NEW D, NEW end, Held(m, D, end), NEW v \in Nat, NEW n, n = PageTable(m, v)
  PROVE  Held(n, D, end) /\ Safely(n, D, m, D)
<1>1. Good(m, D)
  BY DEF Held
<1>2. Good(n, D) /\ Grew(n, m)
  BY <1>1, PageTableSound
<1>3. LostIn(n, D) = LostIn(m, D)
  BY <1>1, <1>2 DEF Grew, LostIn
<1>4. Spares(n.table, m.table)
  BY <1>2 DEF Grew, Keeps, Spares
<1>5. Held(n, D, end)
  BY <1>2, <1>3, <1>4, HeldStill
<1> QED BY <1>2, <1>3, <1>5 DEF Safely, Grew

\* Mapping a page to a device.
LEMMA HeldDevice ==
  ASSUME NEW m, NEW D, NEW end, Held(m, D, end), NEW v \in Nat, NEW p \in Devices,
         NEW n, n = VmmMap(m, v, p)
  PROVE  Held(n, D, end) /\ n.usable = m.usable
<1>1. Good(m, D)
  BY DEF Held
<1>2. p \notin m.owned
  <2>1. Devices \cap FramesIn(m.usable) = {} /\ m.owned \subseteq FramesIn(m.usable)
    BY <1>1 DEF Good, Tree, Allots
  <2> QED BY <2>1
<1>3. Good(n, D) /\ Mapped(n, m, v, p)
  BY <1>1, <1>2, VmmMapSound
<1>4. LostIn(m, D) \subseteq LostIn(n, D)
  BY <1>2, <1>3 DEF Mapped, Grew, LostIn
<1>5. Spares(n.table, m.table)
  BY <1>3 DEF Mapped, Grew, Keeps, Redirects, Spares
<1>6. Held(n, D, end)
  BY <1>3, <1>4, <1>5, HeldStill
<1> QED BY <1>3, <1>6 DEF Mapped

LEMMA HeldTake ==
  ASSUME NEW m, NEW D, NEW end, Held(m, D, end), ~NoPage(m), NEW n, n = PmmAllocPage(m),
         NEW E, E = D \cup {NextPage(m)}
  PROVE  Held(n, E, end) /\ Safely(n, E, m, D)
<1> DEFINE p == NextPage(m)
<1>1. Good(m, D)
  BY DEF Held
<1>2. /\ Good(n, E) /\ n.usable = m.usable /\ n.table = m.table /\ n.owned = m.owned \cup {p}
      /\ p \notin m.owned
  BY <1>1, PageTaken
<1> HIDE DEF p
<1>3. LostIn(n, E) = LostIn(m, D)
  BY <1>2 DEF LostIn, p
<1>4. Spares(n.table, m.table)
  BY <1>2 DEF Spares
<1>5. Held(n, E, end)
  BY <1>2, <1>3, <1>4, HeldStill
<1> QED BY <1>2, <1>3, <1>5 DEF Safely

\* A page in direct use is linked nowhere.
LEMMA DirectUnlinked ==
  ASSUME NEW m, NEW D, Good(m, D), NEW f \in FramesIn(m.usable), f \notin m.owned \ D
  PROVE  Unlinked(m.table, f)
<1> DEFINE T == m.table
           H == m.owned \ D
           F == FramesIn(m.usable)
<1>1. Tree(T, F, H)
  BY DEF Good
<1> HIDE DEF T, H, F
<1>2. f \in F /\ f \notin H
  BY DEF F, H
<1>3. ASSUME NEW t \in InUse(T), NEW i \in Index, T[t][i] = f PROVE FALSE
  <2>1. f # 0 /\ f \notin Devices
    BY <1>1, <1>2 DEF Tree
  <2>2. CASE t \in First(T)
    BY <1>1, <1>2, <1>3, <2>1, <2>2 DEF Tree
  <2>3. CASE t \notin First(T)
    <3>1. f \in Third(T) \cup Second(T) \cup First(T)
      BY <1>3, <2>1, <2>3, UnderIs DEF InUse, Third, Second, First
    <3> QED BY <1>1, <1>2, <3>1 DEF Tree
  <2> QED BY <2>2, <2>3
<1> QED BY <1>3 DEF Unlinked, T

LEMMA HeldGive ==
  ASSUME NEW m, NEW D, NEW end, Held(m, D, end), NEW f \in D, NEW n, n = PmmFreePage(m, f),
         NEW E, E = D \ {f}
  PROVE  Held(n, E, end) /\ Safely(n, E, m, D)
<1>1. Good(m, D)
  BY DEF Held
<1>2. f \in m.owned /\ Unlinked(m.table, f)
  <2>1. D \subseteq m.owned /\ m.owned \subseteq FramesIn(m.usable)
    BY <1>1 DEF Good, Allots
  <2> QED BY <1>1, <2>1, DirectUnlinked
<1>3. Good(n, E) /\ n.usable = m.usable /\ n.table = m.table /\ n.owned = m.owned \ {f}
  BY <1>1, <1>2, PageGiven
<1>4. LostIn(n, E) = LostIn(m, D)
  BY <1>3 DEF LostIn
<1>5. Spares(n.table, m.table)
  BY <1>3 DEF Spares
<1>6. Held(n, E, end)
  BY <1>3, <1>4, <1>5, HeldStill
<1> QED BY <1>3, <1>4, <1>6 DEF Safely

\* vmm_alloc_page and vmm_free_page, of pages that are not the heap's.
LEMMA HeldAlloc ==
  ASSUME NEW m, NEW D, NEW end, Held(m, D, end), ~NoPage(m), NEW v \in OtherPages,
         Translate(m, v) = 0, NEW n, n = AllocPage(m, v)
  PROVE  Held(n, D, end) /\ Safely(n, D, m, D)
<1> DEFINE p == NextPage(m)
<1>0. v \in Nat /\ \A k \in HeapPages : Indices(v) # Indices(HeapStart + k)
  BY VirtMemAssumption, HeapAssumption
<1>1. Good(m, D) /\ Leaf(m.table, v) = 0
  BY TranslateIsLeaf DEF Held
<1>2. Good(n, D) /\ Allocated(n, m, D, v, p)
  BY <1>0, <1>1, AllocPageSound, AllocLoses
<1> HIDE DEF p
<1>3. Spares(n.table, m.table)
  BY <1>0, <1>2 DEF Allocated, Redirects, Spares
<1>4. LostIn(m, D) \subseteq LostIn(n, D)
  BY <1>2 DEF Allocated
<1>5. LostIn(n, D) \subseteq LostIn(m, D) \/ NoPage(n)
  <2>1. 0 \notin LostIn(n, D)
    <3>1. 0 \notin FramesIn(n.usable) /\ n.owned \subseteq FramesIn(n.usable)
      BY <1>2 DEF Good, Tree, Allots
    <3> QED BY <3>1 DEF LostIn
  <2> QED BY <2>1, <1>1, <1>2 DEF Allocated
<1>6. Held(n, D, end)
  BY <1>2, <1>3, <1>4, HeldStill
<1> QED BY <1>2, <1>5, <1>6 DEF Safely, Allocated

LEMMA HeldFree ==
  ASSUME NEW m, NEW D, NEW end, Held(m, D, end), NEW v \in OtherPages,
         Translate(m, v) # 0, NEW n, n = FreePage(m, v)
  PROVE  Held(n, D, end) /\ Safely(n, D, m, D)
<1> DEFINE q == Translate(m, v)
<1>0. v \in Nat /\ \A k \in HeapPages : Indices(v) # Indices(HeapStart + k)
  BY VirtMemAssumption, HeapAssumption
<1>1. Good(m, D) /\ q = Leaf(m.table, v)
  BY TranslateIsLeaf DEF Held
<1>2. /\ Good(n, D) /\ n.usable = m.usable /\ n.owned = m.owned \ {q}
      /\ Redirects(n.table, m.table, v, 0)
      /\ \A f \in n.owned : Unlinked(n.table, f) <=> Unlinked(m.table, f)
  BY <1>0, <1>1, FreePageSound
<1>3. ~Unlinked(m.table, q)
  <2>1. Tree(m.table, FramesIn(m.usable), m.owned \ D)
    BY <1>1 DEF Good
  <2>2. ToFirst(m.table, v) # 0 /\ q = m.table[ToFirst(m.table, v)][Indices(v)[4]]
    BY <1>1 DEF Leaf, Step
  <2>3. ToFirst(m.table, v) \in InUse(m.table) /\ Indices(v)[4] \in Index
    BY <1>0, <2>1, <2>2, WalkLeads, IndicesAre DEF InUse
  <2> QED BY <2>2, <2>3 DEF Unlinked
<1> HIDE DEF q
<1>4. LostIn(n, D) = LostIn(m, D)
  BY <1>2, <1>3 DEF LostIn
<1>5. Spares(n.table, m.table)
  BY <1>0, <1>2 DEF Redirects, Spares
<1>6. Held(n, D, end)
  BY <1>2, <1>4, <1>5, HeldStill
<1> QED BY <1>2, <1>4, <1>6 DEF Safely----------------------------------------------------------------------------
(* The invariant                                                           *)

MemInv ==
  /\ memmap \in Maps /\ usable = UsableTable(Regions(memmap))
  /\ Held(Memory, direct, heap_end)
  /\ heap_current \in 0..heap_end
  /\ boot \in {"map", "heap", "nvme", "done", "halted"}
  /\ boot \in {"map", "heap"} => heap_end = 0

LEMMA HeldAnywhere ==
  ASSUME NEW n, NEW E, NEW e, Held(n, E, e), NEW a,
         NEW m, m = Mem(n.usable, n.table, n.bits, n.owned, a)
  PROVE  /\ Held(m, E, e) /\ m.usable = n.usable
         /\ LostIn(m, E) = LostIn(n, E) /\ ClearBits(m) = ClearBits(n)
<1>1. Good(n, E)
  BY DEF Held
<1>2. Good(m, E)
  BY <1>1, GoodAnywhere
<1>3. m.usable = n.usable /\ m.table = n.table /\ m.bits = n.bits /\ m.owned = n.owned
  BY MemParts
<1>4. LostIn(m, E) = LostIn(n, E)
  BY <1>3 DEF LostIn
<1>5. Spares(m.table, n.table)
  BY <1>3 DEF Spares
<1>6. Held(m, E, e)
  BY <1>2, <1>4, <1>5, HeldStill
<1> QED BY <1>3, <1>4, <1>6 DEF ClearBits

\* The state a call leaves.
LEMMA Settles ==
  ASSUME NEW n, NEW E, NEW e, Held(n, E, e), n.usable = usable, Becomes(n), UNCHANGED usable,
         direct' = E, heap_end' = e
  PROVE  /\ Held(Memory', direct', heap_end')
         /\ LostIn(Memory', direct') = LostIn(n, E) /\ ClearBits(Memory') = ClearBits(n)
<1>1. n.usable = usable' /\ n.table = table' /\ n.bits = bits' /\ n.owned = owned'
  BY DEF Becomes
<1>2. Memory' = Mem(n.usable, n.table, n.bits, n.owned, Root)
  BY <1>1 DEF Memory, Mem
<1> QED BY <1>2, HeldAnywhere

\* Arithmetic of pages and units.
LEMMA PagesCount ==
  ASSUME NEW e, NEW f, NEW c, NEW d, Pages(e, c), Pages(f, d), c <= d
  PROVE  /\ e \in Nat /\ f \in Nat /\ e <= f
         /\ \A k \in Nat : d >= c + k => f >= e + k
<1>1. PageUnits \in Nat \ {0} /\ c \in Nat /\ d \in Nat /\ e = c * PageUnits /\ f = d * PageUnits
  BY VirtMemAssumption DEF Pages
<1>2. ASSUME NEW x \in Nat PROVE x * PageUnits \in Nat /\ x <= x * PageUnits
  <2>1. x * (PageUnits - 1) \in Nat /\ x * PageUnits = x + x * (PageUnits - 1)
    BY <1>1
  <2> DEFINE y == x * (PageUnits - 1)
  <2>2. y \in Nat /\ x * PageUnits = x + y
    BY <2>1
  <2> HIDE DEF y
  <2>3. x + y \in Nat /\ x <= x + y
    BY <2>2
  <2> QED BY <2>2, <2>3
<1>3. f = e + (d - c) * PageUnits
  BY <1>1
<1>4. d - c \in Nat
  BY <1>1
<1> DEFINE z == (d - c) * PageUnits
<1>5. z \in Nat /\ d - c <= z /\ f = e + z
  BY <1>2, <1>3, <1>4
<1>6. e \in Nat /\ f \in Nat
  BY <1>1, <1>2
<1> HIDE DEF z
<1>7. ASSUME NEW k \in Nat, d >= c + k PROVE f >= e + k
  BY <1>1, <1>5, <1>6, <1>7
<1> QED BY <1>5, <1>6, <1>7

\* The heap as kmalloc's loop finds it.
LEMMA HeapFound ==
  ASSUME NEW m, NEW D, NEW end, Held(m, D, end),
         NEW e, e = [mem |-> m, end |-> end, ok |-> TRUE]
  PROVE  \E c \in Nat : HeapAt(e, D, c)
<1>1. PICK c \in Nat : Pages(end, c) /\ Backs(m, D, c)
  BY DEF Held
<1>2. e.mem = m /\ e.end = end /\ e.ok = TRUE /\ Good(m, D)
  BY DEF Held
<1>3. HeapAt(e, D, c)
  BY <1>1, <1>2 DEF HeapAt
<1> QED BY <1>3

\* The heap as the loop leaves it.
LEMMA LoopSound ==
  ASSUME Held(Memory, direct, heap_end), NEW target \in Nat,
         target <= MaxHeap \/ target = PageUnits, NEW n \in Nat, NEW h, h = Grown(target, n)
  PROVE  /\ Held(h.mem, direct, h.end) /\ Safely(h.mem, direct, Memory, direct)
         /\ heap_end \in Nat /\ h.end \in Nat /\ heap_end <= h.end
         /\ target <= heap_end + n /\ h.ok => target <= h.end
<1> DEFINE e == [mem |-> Memory, end |-> heap_end, ok |-> TRUE]
<1>1. PICK c \in Nat : HeapAt(e, direct, c)
  BY HeapFound
<1>2. /\ Spared(h.mem, Memory, direct)
      /\ \E d \in Nat : /\ HeapAt(h, direct, d) /\ c <= d
                        /\ ~h.ok \/ h.end >= target \/ d >= c + n
  BY <1>1, GrownSound
<1>3. PICK d \in Nat : HeapAt(h, direct, d) /\ c <= d /\ (~h.ok \/ h.end >= target \/ d >= c + n)
  BY <1>2
<1>4. Pages(heap_end, c)
  <2>1. e.end = heap_end OBVIOUS
  <2> HIDE DEF e
  <2> QED BY <1>1, <2>1 DEF HeapAt
<1>5. Pages(h.end, d) /\ Good(h.mem, direct) /\ Backs(h.mem, direct, d)
  BY <1>3 DEF HeapAt
<1>6. /\ heap_end \in Nat /\ h.end \in Nat /\ heap_end <= h.end
      /\ d >= c + n => h.end >= heap_end + n
  BY <1>3, <1>4, <1>5, PagesCount
<1>7. target <= heap_end + n /\ h.ok => target <= h.end
  BY <1>3, <1>6
<1>8. Held(h.mem, direct, h.end)
  BY <1>5 DEF Held
<1> QED BY <1>2, <1>6, <1>7, <1>8 DEF Spared, Safely
----------------------------------------------------------------------------
(* The steps                                                               *)

\* A step keeps the memory in order, and loses a frame only as LostOnlyWhenFull says.
Kept ==
  /\ Held(Memory', direct', heap_end')
  /\ \/ LostIn(Memory', direct') \subseteq LostIn(Memory, direct)
     \/ ClearBits(Memory') = {}
     \/ boot' # boot

\* A call that does its work safely.
LEMMA SafelyKept ==
  ASSUME NEW n, NEW E, NEW e, Held(n, E, e), Safely(n, E, Memory, direct), Becomes(n),
         UNCHANGED usable, direct' = E, heap_end' = e
  PROVE  Kept
<1>1. n.usable = usable
  BY DEF Safely, Memory
<1>2. /\ Held(Memory', direct', heap_end')
      /\ LostIn(Memory', direct') = LostIn(n, E) /\ ClearBits(Memory') = ClearBits(n)
  BY <1>1, Settles
<1> QED BY <1>2 DEF Kept, Safely, NoPage

LEMMA KmallocKept ==
  ASSUME MemInv, NEW n \in Nat, n <= MaxBlock, Kmalloc(n)
  PROVE  Kept /\ heap_current' \in 0..heap_end' /\ boot' \notin {"map", "heap"}
<1> DEFINE h == Grown(heap_current + n, MaxBlock)
<1>1. /\ Held(Memory, direct, heap_end) /\ heap_current \in 0..heap_end
      /\ heap_current + n <= MaxHeap /\ Becomes(h.mem) /\ heap_end' = h.end
      /\ heap_current' = IF h.ok THEN heap_current + n ELSE heap_current
      /\ usable' = usable /\ direct' = direct /\ boot' = boot /\ boot \in {"nvme", "done"}
  BY DEF MemInv, Kmalloc, mapVars
<1>2. heap_current \in Nat /\ heap_current + n \in Nat /\ MaxBlock \in Nat
  BY <1>1, VirtMemAssumption
<1>3. /\ Held(h.mem, direct, h.end) /\ Safely(h.mem, direct, Memory, direct)
      /\ heap_end \in Nat /\ h.end \in Nat /\ heap_end <= h.end
      /\ heap_current + n <= heap_end + MaxBlock /\ h.ok => heap_current + n <= h.end
  BY <1>1, <1>2, LoopSound
<1> HIDE DEF h
<1>4. Kept
  BY <1>1, <1>3, SafelyKept
<1>5. heap_current' \in 0..heap_end'
  BY <1>1, <1>2, <1>3
<1> QED BY <1>1, <1>4, <1>5

LEMMA MapLapicKept ==
  ASSUME MemInv, MapLapic
  PROVE  Kept
<1> DEFINE n == VmmMap(Memory, LapicPage, Lapic)
<1>1. Becomes(n) /\ usable' = usable /\ direct' = direct /\ heap_end' = heap_end /\ boot' # boot
  BY DEF MapLapic, mapVars, heapVars
<1>2. Held(Memory, direct, heap_end) /\ LapicPage \in Nat /\ Lapic \in Devices
  BY VirtMemAssumption DEF MemInv, Devices
<1>3. Held(n, direct, heap_end) /\ n.usable = Memory.usable
  BY <1>2, HeldDevice
<1>4. Memory.usable = usable
  BY DEF Memory
<1> HIDE DEF n
<1>5. Held(Memory', direct', heap_end')
  BY <1>1, <1>3, <1>4, Settles
<1> QED BY <1>1, <1>5 DEF Kept

LEMMA NvmeMapKept ==
  ASSUME MemInv, NvmeMap
  PROVE  Kept
<1> DEFINE l == VmmMap(Memory, HeapStart, Bar)
           n == VmmMapRange(Memory, HeapStart, Bar)
<1>1. /\ Becomes(n) \/ UNCHANGED <<table, pmmVars>>
      /\ usable' = usable /\ direct' = direct /\ heap_end' = heap_end /\ boot' # boot
  BY DEF NvmeMap, mapVars, heapVars
<1>2. /\ Held(Memory, direct, heap_end) /\ HeapStart \in Nat /\ HeapStart + 1 \in Nat
      /\ Bar \in Devices /\ Bar + 1 \in Devices
  BY VirtMemAssumption DEF MemInv, Devices
<1>3. Held(l, direct, heap_end) /\ l.usable = Memory.usable
  BY <1>2, HeldDevice
<1>4. n = VmmMap(l, HeapStart + 1, Bar + 1)
  BY DEF VmmMapRange
<1> HIDE DEF l, n
<1>5. Held(n, direct, heap_end) /\ n.usable = l.usable
  BY <1>2, <1>3, <1>4, HeldDevice
<1>6. Memory.usable = usable
  BY DEF Memory
<1>7. CASE Becomes(n)
  <2>1. Held(Memory', direct', heap_end')
    BY <1>1, <1>3, <1>5, <1>6, <1>7, Settles
  <2> QED BY <1>1, <2>1 DEF Kept
<1>8. CASE UNCHANGED <<table, pmmVars>>
  <2>1. Memory' = Memory
    BY <1>1, <1>8 DEF Memory, pmmVars
  <2> QED BY <1>1, <1>2, <2>1 DEF Kept
<1> QED BY <1>1, <1>7, <1>8

LEMMA HeapInitKept ==
  ASSUME MemInv, HeapInit
  PROVE  Kept /\ heap_current' \in 0..heap_end'
<1> DEFINE h == Grown(PageUnits, 1)
<1>1. /\ Held(Memory, direct, heap_end) /\ heap_current \in 0..heap_end
      /\ Becomes(h.mem) /\ heap_end' = h.end /\ heap_current' = heap_current
      /\ usable' = usable /\ direct' = direct
  BY DEF MemInv, HeapInit, mapVars
<1>2. PageUnits \in Nat /\ 1 \in Nat
  BY VirtMemAssumption
<1>3. /\ Held(h.mem, direct, h.end) /\ Safely(h.mem, direct, Memory, direct)
      /\ heap_end \in Nat /\ h.end \in Nat /\ heap_end <= h.end
  BY <1>1, <1>2, LoopSound
<1> HIDE DEF h
<1>4. Kept
  BY <1>1, <1>3, SafelyKept
<1> QED BY <1>1, <1>3, <1>4
LEMMA TakePageKept ==
  ASSUME MemInv, TakePage
  PROVE  Kept
<1> DEFINE n == PmmAllocPage(Memory)
           E == direct \cup {NextPage(Memory)}
<1>1. /\ Held(Memory, direct, heap_end) /\ ~NoPage(Memory)
      /\ Becomes(n) /\ usable' = usable /\ direct' = E /\ heap_end' = heap_end
  BY DEF MemInv, TakePage, mapVars, heapVars
<1>2. Held(n, E, heap_end) /\ Safely(n, E, Memory, direct)
  BY <1>1, HeldTake
<1> HIDE DEF n, E
<1> QED BY <1>1, <1>2, SafelyKept

LEMMA GivePageKept ==
  ASSUME MemInv, NEW f \in direct, GivePage(f)
  PROVE  Kept
<1> DEFINE n == PmmFreePage(Memory, f)
           E == direct \ {f}
<1>1. /\ Held(Memory, direct, heap_end)
      /\ Becomes(n) /\ usable' = usable /\ direct' = E /\ heap_end' = heap_end
  BY DEF MemInv, GivePage, mapVars, heapVars
<1>2. Held(n, E, heap_end) /\ Safely(n, E, Memory, direct)
  BY <1>1, HeldGive
<1> HIDE DEF n, E
<1> QED BY <1>1, <1>2, SafelyKept

LEMMA VmmAllocPageKept ==
  ASSUME MemInv, NEW v \in OtherPages, VmmAllocPage(v)
  PROVE  Kept
<1> DEFINE n == AllocPage(Memory, v)
<1>1. /\ Held(Memory, direct, heap_end) /\ ~NoPage(Memory) /\ Translate(Memory, v) = 0
      /\ Becomes(n) /\ usable' = usable /\ direct' = direct /\ heap_end' = heap_end
  BY DEF MemInv, VmmAllocPage, mapVars, heapVars
<1>2. Held(n, direct, heap_end) /\ Safely(n, direct, Memory, direct)
  BY <1>1, HeldAlloc
<1> HIDE DEF n
<1> QED BY <1>1, <1>2, SafelyKept

LEMMA VmmFreePageKept ==
  ASSUME MemInv, NEW v \in OtherPages, VmmFreePage(v)
  PROVE  Kept
<1> DEFINE n == FreePage(Memory, v)
<1>1. /\ Held(Memory, direct, heap_end) /\ Translate(Memory, v) # 0
      /\ Becomes(n) /\ usable' = usable /\ direct' = direct /\ heap_end' = heap_end
  BY DEF MemInv, VmmFreePage, mapVars, heapVars
<1>2. Held(n, direct, heap_end) /\ Safely(n, direct, Memory, direct)
  BY <1>1, HeldFree
<1> HIDE DEF n
<1> QED BY <1>1, <1>2, SafelyKept

LEMMA VmmIsMappedKept ==
  ASSUME MemInv, NEW v \in OtherPages, VmmIsMapped(v)
  PROVE  Kept
<1> DEFINE n == PageTable(Memory, v)
<1>1. /\ Held(Memory, direct, heap_end) /\ v \in Nat
      /\ Becomes(n) /\ usable' = usable /\ direct' = direct /\ heap_end' = heap_end
  BY VirtMemAssumption DEF MemInv, VmmIsMapped, mapVars, heapVars
<1>2. Held(n, direct, heap_end) /\ Safely(n, direct, Memory, direct)
  BY <1>1, HeldWalk
<1> HIDE DEF n
<1> QED BY <1>1, <1>2, SafelyKept

LEMMA StillKept ==
  ASSUME MemInv, UNCHANGED vars
  PROVE  Kept
<1>1. /\ usable' = usable /\ table' = table /\ bits' = bits /\ owned' = owned
      /\ direct' = direct /\ heap_end' = heap_end
  BY DEF vars, mapVars, pmmVars, heapVars
<1>2. Memory' = Memory
  BY <1>1 DEF Memory
<1> QED BY <1>1, <1>2 DEF MemInv, Kept

LEMMA StepKeeps ==
  ASSUME MemInv, [Next]_vars
  PROVE  MemInv' /\ Kept
<1>0. /\ memmap \in Maps /\ usable = UsableTable(Regions(memmap))
      /\ heap_current \in 0..heap_end /\ boot \in {"map", "heap", "nvme", "done", "halted"}
      /\ boot \in {"map", "heap"} => heap_end = 0
  BY DEF MemInv
<1> DEFINE Rest == /\ memmap' = memmap /\ usable' = usable
                   /\ heap_current' \in 0..heap_end'
                   /\ boot' \in {"map", "heap", "nvme", "done", "halted"}
                   /\ boot' \in {"map", "heap"} => heap_end' = 0
<1>1. SUFFICES Kept /\ Rest
  <2>1. memmap' \in Maps /\ usable' = UsableTable(Regions(memmap'))
    BY <1>0, <1>1
  <2> QED BY <2>1, <1>1 DEF MemInv, Kept
<1>2. CASE MapLapic
  <2>1. Rest BY <1>0, <1>2 DEF MapLapic, mapVars, heapVars
  <2> QED BY <2>1, <1>2, MapLapicKept
<1>3. CASE HeapInit
  <2>1. boot' = "nvme" /\ memmap' = memmap /\ usable' = usable
    BY <1>3 DEF HeapInit, mapVars
  <2> QED BY <2>1, <1>3, HeapInitKept
<1>4. CASE NvmeMap
  <2>1. Rest BY <1>0, <1>4 DEF NvmeMap, mapVars, heapVars
  <2> QED BY <2>1, <1>4, NvmeMapKept
<1>5. CASE TakePage
  <2>1. Rest BY <1>0, <1>5 DEF TakePage, mapVars, heapVars
  <2> QED BY <2>1, <1>5, TakePageKept
<1>6. ASSUME NEW f \in direct, GivePage(f) PROVE Kept /\ Rest
  <2>1. Rest BY <1>0, <1>6 DEF GivePage, mapVars, heapVars
  <2> QED BY <2>1, <1>6, GivePageKept
<1>7. ASSUME NEW v \in OtherPages, VmmAllocPage(v) PROVE Kept /\ Rest
  <2>1. Rest BY <1>0, <1>7 DEF VmmAllocPage, mapVars, heapVars
  <2> QED BY <2>1, <1>7, VmmAllocPageKept
<1>8. ASSUME NEW v \in OtherPages, VmmFreePage(v) PROVE Kept /\ Rest
  <2>1. Rest BY <1>0, <1>8 DEF VmmFreePage, mapVars, heapVars
  <2> QED BY <2>1, <1>8, VmmFreePageKept
<1>9. ASSUME NEW v \in OtherPages, VmmIsMapped(v) PROVE Kept /\ Rest
  <2>1. Rest BY <1>0, <1>9 DEF VmmIsMapped, mapVars, heapVars
  <2> QED BY <2>1, <1>9, VmmIsMappedKept
<1>10. ASSUME NEW n \in Nat, n <= MaxBlock, Kmalloc(n) PROVE Kept /\ Rest
  <2>1. memmap' = memmap /\ usable' = usable /\ boot' = boot
    BY <1>10 DEF Kmalloc, mapVars
  <2> QED BY <2>1, <1>0, <1>10, KmallocKept
<1>11. CASE UNCHANGED vars
  <2>1. Rest BY <1>0, <1>11 DEF vars, mapVars, heapVars
  <2> QED BY <2>1, <1>11, StillKept
<1> HIDE DEF Rest
<1>12. CASE \E n \in 1..MaxBlock : Kmalloc(n) \/ Krealloc(n)
  <2>1. PICK n \in 1..MaxBlock : Kmalloc(n)
    BY <1>12 DEF Krealloc
  <2>2. n \in Nat /\ n <= MaxBlock
    BY VirtMemAssumption
  <2> QED BY <2>1, <2>2, <1>10
<1>13. CASE \E count, n \in 1..MaxBlock : count * n <= MaxBlock /\ Kcalloc(count, n)
  <2>1. PICK count, n \in 1..MaxBlock : count * n <= MaxBlock /\ Kmalloc(count * n)
    BY <1>13 DEF Kcalloc
  <2>2. count * n \in Nat
    BY VirtMemAssumption
  <2> QED BY <2>1, <2>2, <1>10
<1>14. CASE Halted
  BY <1>11, <1>14 DEF Halted
<1> QED BY <1>2, <1>3, <1>4, <1>5, <1>6, <1>7, <1>8, <1>9, <1>11, <1>12, <1>13, <1>14 DEF Next----------------------------------------------------------------------------
(* The state kmain comes to                                                *)

\* Without a usable page there is no bit, and no bitmap.
LEMMA NoPagesNoBits ==
  ASSUME NEW u, Regular(u), NonEmpty(u) = {}
  PROVE  Reserved(u) = {}
<1>1. u \in Seq(Region) /\ Len(u) \in Nat /\ DOMAIN u = 1..Len(u)
  BY DEF Regular
<1>2. FramesIn(u) = {}
  <2>1. ASSUME NEW i \in 1..Len(u) PROVE FramesOf(u[i]) = {}
    <3>1. u[i] \in Region
      BY <1>1
    <3>2. u[i].base \in Nat /\ u[i].pages \in Nat /\ ~(u[i].pages > 0)
      BY <1>1, <3>1 DEF NonEmpty, Region
    <3> QED BY <3>2 DEF FramesOf
  <2> QED BY <1>1, <2>1 DEF FramesIn
<1>3. PageCount(u) \in Nat /\ Reserved(u) \subseteq 0..PageCount(u) - 1
  BY BitmapFitsBits
<1>4. 0..PageCount(u) - 1 = {}
  BY <1>2, <1>3, BitsAreFrames
<1> QED BY <1>3, <1>4

\* The devices and the loader's table are not in usable memory.
LEMMA DevicesApart ==
  ASSUME NEW m \in Maps, NEW F, F = FramesIn(UsableTable(Regions(m)))
  PROVE  Root \notin F /\ Devices \cap F = {} /\ F \subseteq Nat \ {0}
<1>1. F = UNION {FramesOf(m[i]) : i \in {i \in DOMAIN m : m[i].type = "usable"}}
  BY TableSound
<1>2. \A i \in DOMAIN m : m[i].type = "usable" => {Root, Lapic, Bar, Bar + 1} \cap FramesOf(m[i]) = {}
  BY VirtMemAssumption
<1>3. {Root, Lapic, Bar, Bar + 1} \cap F = {}
  BY <1>1, <1>2
<1>4. F \subseteq Nat \ {0}
  BY TableSound, BitsAreFrames
<1> QED BY <1>3, <1>4 DEF Devices

\* A pml4 without entries is a tree, whatever the other frames hold.
LEMMA EmptyTree ==
  ASSUME NEW F, Root \notin F, Devices \cap F = {}, F \subseteq Nat \ {0},
         NEW T, T = [f \in F \cup {Root} |-> IF f = Root THEN EmptyTable ELSE Dirty]
  PROVE  Tree(T, F, {}) /\ \A v \in Nat : Leaf(T, v) = 0
<1>1. Root \in Nat \ {0} /\ EmptyTable \in [Index -> Nat] /\ Dirty \in [Index -> Nat]
  BY VirtMemAssumption DEF EmptyTable, Dirty
<1>2. T \in [F \cup {Root} -> [Index -> Nat]]
  BY <1>1
<1>3. \A i \in Index : T[Root][i] = 0
  BY DEF EmptyTable
<1>4. Third(T) = {} /\ Second(T) = {} /\ First(T) = {}
  <2>1. Under(T, {Root}) = {} BY <1>3 DEF Under
  <2>2. Under(T, {}) = {} BY DEF Under
  <2> QED BY <2>1, <2>2 DEF Third, Second, First
<1>5. InUse(T) = {Root}
  BY <1>4 DEF InUse
<1>6. Tree(T, F, {})
  BY <1>2, <1>3, <1>4, <1>5 DEF Tree
<1>7. ASSUME NEW v \in Nat PROVE Leaf(T, v) = 0
  <2>1. ToThird(T, v) = 0
    BY <1>3, IndicesAre DEF ToThird, Step
  <2> QED BY <2>1 DEF ToSecond, ToFirst, Leaf, Step
<1> QED BY <1>6, <1>7

LEMMA InitHeld ==
  ASSUME Init
  PROVE  MemInv
<1> DEFINE F == FramesIn(usable)
<1>1. /\ memmap \in Maps /\ usable = UsableTable(Regions(memmap))
      /\ bits = IF NonEmpty(usable) = {} THEN {} ELSE Reserved(usable)
      /\ owned = {} /\ direct = {} /\ heap_current = 0 /\ heap_end = 0
      /\ table = [f \in UsableFrames \cup {Root} |-> IF f = Root THEN EmptyTable ELSE Dirty]
      /\ boot = IF NonEmpty(usable) = {} THEN "halted" ELSE "map"
  BY DEF Init, PmmInit
<1>2. UsableFrames = F /\ Regular(usable)
  BY <1>1, TableSound DEF UsableFrames
<1>3. Root \notin F /\ Devices \cap F = {} /\ F \subseteq Nat \ {0}
  BY <1>1, DevicesApart
<1>4. Tree(table, F, {}) /\ \A v \in Nat : Leaf(table, v) = 0
  BY <1>1, <1>2, <1>3, EmptyTree
<1>5. bits = Reserved(usable)
  BY <1>1, <1>2, NoPagesNoBits
<1>6. Allots(usable, bits, owned)
  BY <1>1, <1>2, <1>5 DEF Allots
<1> DEFINE m == Memory
<1>7. /\ m = Mem(m.usable, m.table, m.bits, m.owned, m.at) /\ m.usable = usable
      /\ m.table = table /\ m.bits = bits /\ m.owned = owned
  BY DEF Memory, Mem
<1> HIDE DEF m, F
<1>8. Good(m, {})
  <2>1. owned \ {} = {} BY <1>1
  <2> QED BY <1>1, <1>4, <1>6, <1>7, <2>1 DEF Good, F
<1>9. Backs(m, {}, 0)
  <2>1. Ahead(table, 0)
    <3>1. \A k \in HeapPages : HeapStart + k \in Nat
      BY VirtMemAssumption DEF HeapPages
    <3> QED BY <1>4, <3>1 DEF Ahead
  <2>2. Unbacked(table, 0) = {}
    <3>1. 0..0 - 1 = {} OBVIOUS
    <3> QED BY <3>1 DEF Unbacked
  <2>3. Cardinality(Unbacked(table, 0)) = 0
    BY <2>2, FS_EmptySet
  <2>4. Cardinality(LostIn(m, {})) \in Nat
    BY <1>8, HeapFinite
  <2> QED BY <1>7, <2>1, <2>3, <2>4 DEF Backs
<1>10. Pages(0, 0)
  BY VirtMemAssumption DEF Pages
<1>11. Held(m, direct, heap_end)
  BY <1>1, <1>8, <1>9, <1>10 DEF Held
<1> QED BY <1>1, <1>11 DEF MemInv, m

\* Memory is in order in every state: the bits are the bitmap's and those of the
\* frames owned, the page tables form a tree, and the heap is backed.
THEOREM MemoryInOrder == Spec => []MemInv
<1>1. Init => MemInv
  BY InitHeld
<1>2. MemInv /\ [Next]_vars => MemInv'
  BY StepKeeps
<1> QED BY <1>1, <1>2, PTL DEF Spec
----------------------------------------------------------------------------
(* What follows from it                                                    *)

LEMMA BitsMatch == MemInv => BitsMatchOwners
<1> SUFFICES ASSUME MemInv PROVE BitsMatchOwners
  OBVIOUS
<1>1. /\ memmap \in Maps /\ usable = UsableTable(Regions(memmap)) /\ Held(Memory, direct, heap_end)
  BY DEF MemInv
<1>2. Allots(usable, bits, owned)
  BY <1>1 DEF Held, Good, Memory
<1>3. /\ Cardinality(bits) = BitmapPages(usable) + Cardinality(owned)
      /\ Cardinality(bits) + Cardinality((0..PageCount(usable) - 1) \ bits) = PageCount(usable)
  BY <1>2, BitsCounted
<1>4. PageCount(usable) = MemoryAmount(Regions(memmap), "usable")
  BY <1>1, TableSound
<1> DEFINE m == [usable |-> usable, bits |-> bits]
<1>5. FreePages(m) = Cardinality((0..PageCount(usable) - 1) \ bits)
  BY DEF FreePages, ClearBits
<1> HIDE DEF m
<1>6. Total([k \in DOMAIN MemoryTypes |-> MemoryAmount(Regions(memmap), MemoryTypes[k])],
            Len(MemoryTypes)) = MemoryTotal(Regions(memmap))
  BY <1>1, TypesAddUp
<1>7. bits = Reserved(usable) \cup {IndexOf(usable, f) : f \in owned}
  BY <1>2 DEF Allots
<1>8. Cardinality(bits) + FreePages(m) = MemoryAmount(Regions(memmap), "usable")
  BY <1>3, <1>4, <1>5
<1> QED BY <1>3, <1>6, <1>7, <1>8 DEF BitsMatchOwners, m

\* The bitmap's bits are accounted for, and what memory_print and pmm_print
\* report adds up, for every map that holds no frame twice.
THEOREM BitsAccounted == Spec => []BitsMatchOwners
BY MemoryInOrder, BitsMatch, PTL

LEMMA InUsableMemory == MemInv /\ (\A m \in Maps : RoomForBitmap(UsableTable(Regions(m)))) => BitmapSafe
<1> SUFFICES ASSUME MemInv, \A m \in Maps : RoomForBitmap(UsableTable(Regions(m)))
             PROVE  BitmapSafe
  OBVIOUS
<1>1. memmap \in Maps /\ usable = UsableTable(Regions(memmap)) /\ Held(Memory, direct, heap_end)
  BY DEF MemInv
<1>2. Allots(usable, bits, owned)
  BY <1>1 DEF Held, Good, Memory
<1>3. FramesIn(usable) = UsableFrames
  BY <1>1, TableSound DEF UsableFrames
<1>4. ASSUME NEW f \in BitmapFrames
      PROVE  f \in FramesIn(usable) /\ IndexOf(usable, f) \in Reserved(usable)
  <2>1. NonEmpty(usable) # {}
    BY <1>4 DEF BitmapFrames
  <2>2. f \in usable[Min(NonEmpty(usable))].base..usable[Min(NonEmpty(usable))].base + BitmapPages(usable) - 1
    BY <1>4, <2>1 DEF BitmapFrames
  <2> QED BY <1>1, <1>2, <2>1, <2>2, BitmapStands DEF Allots
<1>5. owned \subseteq FramesIn(usable) /\ \A f \in owned : IndexOf(usable, f) \notin Reserved(usable)
  BY <1>2 DEF Allots
<1> QED BY <1>3, <1>4, <1>5 DEF BitmapSafe

\* Where the first region has room for the bitmap, which pmm_init does not look
\* at, the bitmap lies in usable memory and is never handed out.
THEOREM BitmapStaysSafe ==
  (\A m \in Maps : RoomForBitmap(UsableTable(Regions(m)))) => (Spec => []BitmapSafe)
<1>1. CASE \A m \in Maps : RoomForBitmap(UsableTable(Regions(m)))
  <2>1. MemInv => BitmapSafe
    BY <1>1, InUsableMemory
  <2> QED BY <2>1, MemoryInOrder, PTL
<1> QED BY <1>1
LEMMA TablesAre == Tables = InUse(table)
BY DEF Tables, Level3, Level2, Level1, Below, InUse, Third, Second, First, Under

LEMMA NoEntries ==
  ASSUME NEW f
  PROVE  EntriesTo(f) = {} <=> Unlinked(table, f)
<1>1. EntriesTo(f) = {e \in InUse(table) \X Index : table[e[1]][e[2]] = f}
  BY TablesAre DEF EntriesTo
<1>2. ASSUME Unlinked(table, f), NEW e \in EntriesTo(f) PROVE FALSE
  <2>1. e[1] \in InUse(table) /\ e[2] \in Index /\ table[e[1]][e[2]] = f
    BY <1>1, <1>2
  <2> QED BY <1>2, <2>1 DEF Unlinked
<1>3. ASSUME EntriesTo(f) = {}, NEW t \in InUse(table), NEW i \in Index, table[t][i] = f PROVE FALSE
  <2> DEFINE e == <<t, i>>
  <2>1. e \in InUse(table) \X Index /\ e[1] = t /\ e[2] = i
    OBVIOUS
  <2> HIDE DEF e
  <2>2. e \in EntriesTo(f)
    BY <1>1, <1>3, <2>1
  <2> QED BY <1>3, <2>2
<1> QED BY <1>2, <1>3 DEF Unlinked

LEMMA LostIs == Lost = LostIn(Memory, direct)
<1>1. Memory.owned = owned /\ Memory.table = table
  BY DEF Memory
<1>2. ASSUME NEW f PROVE f \in Lost <=> f \in LostIn(Memory, direct)
  BY <1>1, NoEntries DEF Lost, LostIn
<1> QED BY <1>2

\* A frame is lost only when memory has run out under vmm_map, or when nvme_init
\* maps the controller's registers over the heap.
THEOREM FramesAreNotLost == Spec => LostOnlyWhenFull
<1>1. MemInv /\ [Next]_vars =>
        [Lost' \subseteq Lost \/ ClearBits(Memory)' = {} \/ boot' # boot]_vars
  <2> SUFFICES ASSUME MemInv, [Next]_vars
               PROVE  Lost' \subseteq Lost \/ ClearBits(Memory)' = {} \/ boot' # boot
    OBVIOUS
  <2>1. Kept
    BY StepKeeps
  <2>2. Lost = LostIn(Memory, direct)
    BY LostIs
  <2>3. Lost' = LostIn(Memory, direct)'
    <3>1. (Lost = LostIn(Memory, direct))'
      BY LostIs, PTL
    <3> QED BY <3>1
  <2>4. LostIn(Memory, direct)' = LostIn(Memory', direct') /\ ClearBits(Memory)' = ClearBits(Memory')
    OBVIOUS
  <2> QED BY <2>1, <2>2, <2>3, <2>4 DEF Kept
<1> QED BY <1>1, MemoryInOrder, PTL DEF Spec, LostOnlyWhenFull

LEMMA BackedByLost == MemInv => HeapBacked
<1> SUFFICES ASSUME MemInv PROVE HeapBacked
  OBVIOUS
<1>1. PICK c \in Nat : Pages(heap_end, c) /\ Backs(Memory, direct, c)
  BY DEF MemInv, Held
<1>2. heap_end \div PageUnits = c
  BY <1>1, VirtMemAssumption DEF Pages
<1>3. Cardinality(Unbacked(table, c)) <= Cardinality(Lost)
  BY <1>1, LostIs DEF Backs, Memory
<1>4. \A v : Translate(Memory, v) = Leaf(table, v)
  BY TranslateIsLeaf DEF Memory
<1>5. {k \in 0..c - 1 : Translate(Memory, HeapStart + k) = 0} = Unbacked(table, c)
  BY <1>4 DEF Unbacked
<1> QED BY <1>2, <1>3, <1>5 DEF HeapBacked

\* The pages below heap_end are mapped, but for as many as there are lost frames.
THEOREM HeapIsBacked == Spec => []HeapBacked
BY MemoryInOrder, BackedByLost, PTL

LEMMA OneUseOfFrames == MemInv => OneUse
<1> SUFFICES ASSUME MemInv PROVE OneUse
  OBVIOUS
<1>1. /\ memmap \in Maps /\ usable = UsableTable(Regions(memmap)) /\ Held(Memory, direct, heap_end)
      /\ heap_current \in 0..heap_end /\ boot \in {"map", "heap", "nvme", "done", "halted"}
  BY DEF MemInv
<1>2. /\ Allots(usable, bits, owned) /\ direct \subseteq owned
      /\ Tree(table, FramesIn(usable), owned \ direct)
  BY <1>1 DEF Held, Good, Memory
<1>3. UsableFrames = FramesIn(usable)
  BY <1>1, TableSound DEF UsableFrames
<1> DEFINE F == FramesIn(usable)
           H == owned \ direct
<1>4. /\ table \in [F \cup {Root} -> [Index -> Nat]] /\ owned \subseteq F
  BY <1>2 DEF Tree, Allots
<1>5. TypeOK
  <2>1. bits \subseteq 0..PageCount(usable) - 1
    BY <1>2, BitsAreBits
  <2>2. owned \subseteq DOMAIN table /\ \A f \in DOMAIN table : table[f] \in [Index -> Nat]
    BY <1>4
  <2>3. heap_end \in {k * PageUnits : k \in 0..MaxHeap}
    BY <1>1 DEF Held, Pages
  <2> QED BY <1>1, <1>2, <2>1, <2>2, <2>3 DEF TypeOK
<1>6. InUse(table) \subseteq H \cup {Root}
  BY <1>2, LevelsApart
<1>7. Tables \subseteq owned \cup {Root}
  BY <1>6, TablesAre
<1>8. ASSUME NEW f \in F PROVE Cardinality(EntriesTo(f)) <= IF f \in H THEN 1 ELSE 0
  <2>1. CASE EntriesTo(f) = {}
    <3>1. Cardinality(EntriesTo(f)) = 0
      BY <2>1, FS_EmptySet
    <3> QED BY <3>1
  <2>2. CASE EntriesTo(f) # {}
    <3>1. f \in H
      <4>1. ~Unlinked(table, f)
        BY <2>2, NoEntries
      <4>2. Memory.table = table /\ Memory.usable = usable /\ Memory.owned = owned
        BY DEF Memory
      <4>3. Good(Memory, direct)
        BY <1>1 DEF Held
      <4> QED BY <1>8, <4>1, <4>2, <4>3, DirectUnlinked
    <3>2. PICK e : e \in EntriesTo(f)
      BY <2>2
    <3>3. ASSUME NEW d \in EntriesTo(f) PROVE d = e
      <4>1. EntriesTo(f) = {x \in InUse(table) \X Index : table[x[1]][x[2]] = f}
        BY TablesAre DEF EntriesTo
      <4>2. /\ d \in InUse(table) \X Index /\ e \in InUse(table) \X Index
            /\ table[d[1]][d[2]] = f /\ table[e[1]][e[2]] = f
        BY <3>2, <3>3, <4>1
      <4>3. /\ d[1] \in InUse(table) /\ d[2] \in Index /\ e[1] \in InUse(table) /\ e[2] \in Index
            /\ d = <<d[1], d[2]>> /\ e = <<e[1], e[2]>>
        BY <4>2
      <4>4. d[1] = e[1] /\ d[2] = e[2]
        BY <1>2, <1>8, <4>2, <4>3 DEF Tree
      <4> QED BY <4>3, <4>4
    <3>4. EntriesTo(f) = {e}
      BY <3>2, <3>3
    <3>5. Cardinality(EntriesTo(f)) = 1
      BY <3>4, FS_Singleton
    <3> QED BY <3>1, <3>5
  <2> QED BY <2>1, <2>2
<1> QED BY <1>3, <1>5, <1>7, <1>8 DEF OneUse

\* No frame has two uses: the page tables form a tree over the frames owned, no
\* page shares its frame with another page or a table, and none with a caller of
\* pmm_alloc_page.
THEOREM FramesHaveOneUse == Spec => []OneUse
BY MemoryInOrder, OneUseOfFrames, PTL
=============================================================================
