----------------------------- MODULE ListProofs -----------------------------
(***************************************************************************)
(* Facts about linked lists of tasks, as sequences: what pushing in front, *)
(* appending, taking the first off and unlinking make of a list.  The run  *)
(* list, the wait lists and the queue's use them.                          *)
(***************************************************************************)
EXTENDS Integers, SequencesExt, SequenceTheorems, WellFoundedInduction, TLAPS

\* A list that links each of its members once.
LinkedOnce(list) == \A i, j \in 1..Len(list) : list[i] = list[j] => i = j

\* A set of numbers that is not empty has a least element.
LEMMA MinIsLeast ==
  ASSUME NEW S, S \subseteq Nat, S # {}
  PROVE  Min(S) \in S /\ \A k \in S : Min(S) <= k
<1>1. PICK m \in S : \A k \in S : ~(<<k, m>> \in OpToRel(<, Nat))
  BY WFMin, NatLessThanWellFounded, Zenon
<1>2. \A k \in S : ~(k < m)
  BY <1>1, Zenon DEF OpToRel
<1>3. \A k \in S : m <= k
  BY <1>2
<1> QED
  BY <1>3 DEF Min

\* N turns from e, turn i by the function step[i], all in T.
Turns(f, e, N, step) == f[0] = e /\ \A i \in 1..N : f[i] = step[i][f[i - 1]]

Closed(step, N, T) == \A x \in T, i \in 1..N : step[i][x] \in T

\* What is computed turn by turn is a function.
LEMMA Iterates ==
  ASSUME NEW T, NEW e \in T, NEW N \in Nat, NEW step, Closed(step, N, T)
  PROVE  \E f \in [0..N -> T] : Turns(f, e, N, step)
<1> USE DEF Turns, Closed
<1> DEFINE Up(f, n) == f \in [0..n -> T] /\ f[0] = e /\ \A i \in 1..n : f[i] = step[i][f[i - 1]]
           Not == {n \in 0..N : ~\E f : Up(f, n)}
<1>1. Not = {}
  <2> SUFFICES ASSUME Not # {} PROVE FALSE
    OBVIOUS
  <2> DEFINE m == Min(Not)
  <2>0. Not \subseteq Nat
    OBVIOUS
  <2> HIDE DEF Not
  <2>1. m \in Not /\ \A k \in Not : m <= k
    BY <2>0, MinIsLeast
  <2> HIDE DEF m
  <2> USE DEF Not
  <2>2. m # 0
    <3>1. Up([i \in 0..0 |-> e], 0) OBVIOUS
    <3> QED BY <2>1, <3>1
  <2>3. m \in Nat /\ m - 1 \in 0..N /\ ~(m <= m - 1)
    BY <2>1, <2>2
  <2>4. m - 1 \notin Not
    BY <2>1, <2>3
  <2>5. PICK g : Up(g, m - 1)
    BY <2>3, <2>4
  <2> DEFINE f == [i \in 0..m |-> IF i = m THEN step[m][g[m - 1]] ELSE g[i]]
  <2>6. g[m - 1] \in T /\ m \in 1..N
    BY <2>1, <2>2, <2>3, <2>5
  <2>7. f \in [0..m -> T] /\ f[0] = e
    BY <2>3, <2>2, <2>5, <2>6
  <2>8. ASSUME NEW i \in 1..m PROVE f[i] = step[i][f[i - 1]]
    <3>1. CASE i = m
      <4>1. f[i - 1] = g[m - 1] /\ f[i] = step[m][g[m - 1]]
        BY <3>1, <2>3, <2>6
      <4> QED BY <4>1, <3>1
    <3>2. CASE i # m
      <4>1. i \in 1..m - 1 /\ f[i] = g[i] /\ f[i - 1] = g[i - 1]
        BY <3>2, <2>3, <2>6
      <4> QED BY <4>1, <2>5
    <3> QED BY <3>1, <3>2
  <2>9. Up(f, m)
    BY <2>7, <2>8
  <2> QED BY <2>1, <2>9
<1>2. PICK f : Up(f, N)
  BY <1>1
<1> QED BY <1>2

\* What is left of a list when one position is taken out.
LEMMA RemoveAtShifts ==
  ASSUME NEW T, NEW list \in Seq(T), NEW p \in 1..Len(list)
  PROVE  /\ RemoveAt(list, p) \in Seq(T)
         /\ Len(RemoveAt(list, p)) = Len(list) - 1
         /\ \A i \in 1..Len(list) - 1 :
              RemoveAt(list, p)[i] = IF i < p THEN list[i] ELSE list[i + 1]
<1> DEFINE a == SubSeq(list, 1, p - 1)
           b == SubSeq(list, p + 1, Len(list))
<1>0. Len(list) \in Nat /\ p \in Nat
  BY LenProperties
<1>1. a \in Seq(T) /\ Len(a) = p - 1 /\ \A i \in 1..p - 1 : a[i] = list[i]
  BY SubSeqProperties
<1>2. /\ b \in Seq(T)
      /\ Len(b) = Len(list) - p
      /\ \A i \in 1..Len(list) - p : b[i] = list[p + i]
  BY SubSeqProperties
<1> HIDE DEF a, b
<1> DEFINE c == a \o b
<1>3. /\ c \in Seq(T)
      /\ Len(c) = Len(a) + Len(b)
      /\ \A i \in 1..Len(a) + Len(b) : c[i] = IF i <= Len(a) THEN a[i] ELSE b[i - Len(a)]
  BY <1>1, <1>2, ConcatProperties
<1> HIDE DEF c
<1>4. ASSUME NEW i \in 1..Len(list) - 1
      PROVE  c[i] = IF i < p THEN list[i] ELSE list[i + 1]
  <2>0. i \in Nat
    BY <1>0
  <2>1. CASE i < p
    <3>1. i \in 1..Len(a) + Len(b) /\ i <= Len(a) /\ i \in 1..p - 1
      BY <2>0, <2>1, <1>0, <1>1, <1>2
    <3>2. c[i] = a[i]
      BY <3>1, <1>3
    <3> QED BY <3>1, <3>2, <2>1, <1>1
  <2>2. CASE i >= p
    <3>1. i - (p - 1) \in 1..Len(list) - p /\ p + (i - (p - 1)) = i + 1
      BY <2>0, <2>2, <1>0
    <3>2. i \in 1..Len(a) + Len(b) /\ ~(i <= Len(a)) /\ Len(a) = p - 1
      BY <2>0, <2>2, <1>0, <1>1, <1>2
    <3>3. c[i] = b[i - (p - 1)]
      BY <3>2, <1>3
    <3> QED BY <3>1, <3>3, <2>0, <2>2, <1>0, <1>2
  <2> QED BY <2>0, <2>1, <2>2, <1>0
<1> QED
  <2>1. RemoveAt(list, p) = c
    BY DEF RemoveAt, a, b, c
  <2>2. Len(c) = Len(list) - 1
    BY <1>0, <1>1, <1>2, <1>3
  <2> QED BY <2>1, <2>2, <1>3, <1>4

\* Appending what is not in a list keeps it linked once.
LEMMA AppendLinks ==
  ASSUME NEW T, NEW list \in Seq(T), NEW t \in T, t \notin ToSet(list), LinkedOnce(list)
  PROVE  /\ Append(list, t) \in Seq(T)
         /\ ToSet(Append(list, t)) = ToSet(list) \cup {t}
         /\ LinkedOnce(Append(list, t))
<1> DEFINE long == Append(list, t)
<1>1. /\ long \in Seq(T)
      /\ Len(long) = Len(list) + 1
      /\ \A i \in 1..Len(list) : long[i] = list[i]
      /\ long[Len(list) + 1] = t
  OBVIOUS
<1> HIDE DEF long
<1>2. LinkedOnce(long)
  BY <1>1 DEF LinkedOnce, ToSet
<1>3. ToSet(long) = ToSet(list) \cup {t}
  BY <1>1 DEF ToSet
<1> QED BY <1>1, <1>2, <1>3 DEF long

\* Pushing one in front of a list adds it to the list.
LEMMA PushLinks ==
  ASSUME NEW T, NEW list \in Seq(T), NEW t \in T
  PROVE  /\ <<t>> \o list \in Seq(T)
         /\ Len(<<t>> \o list) = Len(list) + 1
         /\ (<<t>> \o list)[1] = t
         /\ \A i \in 2..Len(list) + 1 : (<<t>> \o list)[i] = list[i - 1]
         /\ ToSet(<<t>> \o list) = ToSet(list) \cup {t}
         /\ LinkedOnce(list) /\ t \notin ToSet(list) => LinkedOnce(<<t>> \o list)
<1> DEFINE new == <<t>> \o list
<1>0. Len(list) \in Nat
  BY LenProperties
<1>1. /\ new \in Seq(T)
      /\ Len(new) = Len(list) + 1
      /\ new[1] = t
      /\ \A i \in 2..Len(list) + 1 : new[i] = list[i - 1]
  BY <1>0
<1> HIDE DEF new
<1>2. ASSUME NEW x \in ToSet(list) PROVE x \in ToSet(new)
  <2>1. PICK i \in 1..Len(list) : list[i] = x
    BY DEF ToSet
  <2>2. i + 1 \in 2..Len(list) + 1 /\ i + 1 \in 1..Len(new) /\ i + 1 - 1 = i
    BY <1>0, <1>1
  <2>3. new[i + 1] = x
    BY <1>1, <2>1, <2>2
  <2> QED BY <1>1, <2>2, <2>3 DEF ToSet
<1>3. t \in ToSet(new)
  BY <1>0, <1>1 DEF ToSet
<1>4. ASSUME NEW x \in ToSet(new), x # t PROVE x \in ToSet(list)
  <2>1. PICK i \in 1..Len(new) : new[i] = x
    BY <1>1 DEF ToSet
  <2>2. i \in 2..Len(list) + 1 /\ i - 1 \in 1..Len(list)
    BY <1>0, <1>1, <1>4, <2>1
  <2> QED BY <1>1, <2>1, <2>2 DEF ToSet
<1>5. ToSet(new) = ToSet(list) \cup {t}
  BY <1>2, <1>3, <1>4
<1>6. ASSUME LinkedOnce(list), t \notin ToSet(list), NEW i \in 1..Len(new), NEW j \in 1..Len(new),
             new[i] = new[j]
      PROVE  i = j
  <2>1. ASSUME NEW k \in 1..Len(new), k # 1
        PROVE  k - 1 \in 1..Len(list) /\ new[k] = list[k - 1] /\ new[k] # t
    <3>1. k \in 2..Len(list) + 1 /\ k - 1 \in 1..Len(list)
      BY <1>0, <1>1, <2>1
    <3> QED BY <1>1, <1>6, <3>1 DEF ToSet
  <2>2. i \in Int /\ j \in Int /\ (i = 1 <=> j = 1)
    BY <1>0, <1>1, <1>6, <2>1
  <2>3. CASE i # 1 /\ j # 1
    <3>1. i - 1 = j - 1
      BY <1>6, <2>1, <2>3 DEF LinkedOnce
    <3> QED BY <2>2, <3>1
  <2> QED BY <2>2, <2>3
<1>7. LinkedOnce(list) /\ t \notin ToSet(list) => LinkedOnce(new)
  BY <1>6 DEF LinkedOnce
<1> QED BY <1>1, <1>5, <1>7 DEF new

\* The first of a list without repetition is in it once.
LEMMA HeadLeaves ==
  ASSUME NEW T, NEW list \in Seq(T), list # <<>>, LinkedOnce(list)
  PROVE  /\ Head(list) = list[1]
         /\ Head(list) \in ToSet(list)
         /\ Tail(list) \in Seq(T)
         /\ Len(Tail(list)) = Len(list) - 1
         /\ \A i \in 1..Len(list) - 1 : Tail(list)[i] = list[i + 1]
         /\ ToSet(Tail(list)) = ToSet(list) \ {Head(list)}
         /\ LinkedOnce(Tail(list))
<1> DEFINE rest == Tail(list)
<1>1. /\ Len(list) \in Nat \ {0}
      /\ Head(list) = list[1]
      /\ rest \in Seq(T)
      /\ Len(rest) = Len(list) - 1
      /\ \A i \in 1..Len(list) - 1 : rest[i] = list[i + 1]
  <2>1. /\ Head(list) = list[1] /\ Len(list) \in Nat \ {0}
        /\ rest \in Seq(T) /\ Len(rest) = Len(list) - 1
    BY HeadTailProperties, EmptySeq, LenProperties
  <2>2. \A i \in 1..Len(list) - 1 : rest[i] = list[i + 1]
    OBVIOUS
  <2> QED BY <2>1, <2>2
<1> HIDE DEF rest
<1>2. list[1] \in ToSet(list)
  BY <1>1 DEF ToSet
<1>3. ASSUME NEW x \in ToSet(rest) PROVE x \in ToSet(list) \ {list[1]}
  <2>1. PICK i \in 1..Len(list) - 1 : list[i + 1] = x
    BY <1>1 DEF ToSet
  <2>2. i + 1 \in 1..Len(list) /\ i + 1 # 1 /\ 1 \in 1..Len(list)
    BY <1>1
  <2> QED BY <2>1, <2>2 DEF ToSet, LinkedOnce
<1>4. ASSUME NEW x \in ToSet(list), x # list[1] PROVE x \in ToSet(rest)
  <2>1. PICK i \in 1..Len(list) : list[i] = x
    BY DEF ToSet
  <2>2. i - 1 \in 1..Len(rest) /\ rest[i - 1] = x
    BY <1>1, <1>4, <2>1
  <2> QED BY <1>1, <2>2 DEF ToSet
<1>5. ToSet(rest) = ToSet(list) \ {list[1]}
  BY <1>2, <1>3, <1>4
<1>6. ASSUME NEW i \in 1..Len(rest), NEW j \in 1..Len(rest), rest[i] = rest[j]
      PROVE  i = j
  <2>1. i + 1 \in 1..Len(list) /\ j + 1 \in 1..Len(list) /\ list[i + 1] = list[j + 1]
    BY <1>1, <1>6
  <2> QED BY <1>1, <2>1 DEF LinkedOnce
<1> QED BY <1>1, <1>2, <1>5, <1>6 DEF rest, LinkedOnce
=============================================================================
