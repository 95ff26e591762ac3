----------------------------- MODULE RamFsProofs -----------------------------
(***************************************************************************)
(* Proofs about the file system, for every number of blocks and every set  *)
(* of names and contents, of callers that move nodes where they may go.    *)
(*                                                                         *)
(* What a node reaches is the least set that holds it and is closed under  *)
(* the lists of children (BelowIs).  An operation is shown to keep the     *)
(* tree from what it does to the lists alone: the blocks in use stay       *)
(* closed (TreeAgain), and what is no longer reached through an old list  *)
(* was in the part cut out (Reaches).                                      *)
(***************************************************************************)
EXTENDS RamFs, ListProofs, FiniteSetTheorems

\* The facts are about the contents of the blocks, before a step or after.
Kinds == {"none", "file", "dir"}

Entry == [type     : Kinds,
          name     : Names \cup {NULL},
          parent   : Nodes \cup {NULL},
          children : Seq(Nodes),
          data     : Contents \cup {NULL},
          size     : {0, 1}]

Blocked == [Nodes -> Entry]

Kids(nd, y) == ToSet(nd[y].children)

Live(nd) == {x \in Nodes : nd[x] # Blank}

Shut(nd, T) == \A y \in T : Kids(nd, y) \subseteq T

Below(nd, x) ==
  LET below[k \in 0..Cardinality(Nodes)] ==
        IF k = 0 THEN {x}
        ELSE below[k - 1] \cup UNION {ToSet(nd[y].children) : y \in below[k - 1]}
  IN  below[Cardinality(Nodes)]

LEMMA SubtreeIsBelow ==
  /\ \A x : Subtree(x) = Below(node, x)
  /\ \A x : Subtree(x)' = Below(node', x)
  /\ live = Live(node) /\ live' = Live(node')
BY DEF Subtree, Below, live, Live

----------------------------------------------------------------------------
(* What is below a node                                                    *)

LEMMA KidsAreNodes ==
  ASSUME NEW nd \in Blocked, NEW y \in Nodes
  PROVE  Kids(nd, y) \subseteq Nodes
<1>1. nd[y].children \in Seq(Nodes)
  BY DEF Blocked, Entry
<1> QED BY <1>1 DEF Kids, ToSet

\* The recursive function of Subtree, with what is reached in so many steps.
LEMMA BelowInSteps ==
  ASSUME NEW nd \in Blocked, NEW x \in Nodes
  PROVE  \E f \in [0..Cardinality(Nodes) -> SUBSET Nodes] :
           /\ f[0] = {x} /\ Below(nd, x) = f[Cardinality(Nodes)]
           /\ \A k \in 1..Cardinality(Nodes) :
                f[k] = f[k - 1] \cup UNION {Kids(nd, y) : y \in f[k - 1]}
<1> DEFINE N == Cardinality(Nodes)
           next(S) == S \cup UNION {Kids(nd, y) : y \in S}
           step == [i \in 1..N |-> [S \in SUBSET Nodes |-> next(S)]]
<1>1. N \in Nat
  BY RamFsAssumption, FS_CardinalityType
<1>2. ASSUME NEW S \in SUBSET Nodes PROVE next(S) \in SUBSET Nodes
  <2>1. \A y \in S : Kids(nd, y) \subseteq Nodes
    BY KidsAreNodes
  <2> QED BY <2>1
<1> HIDE DEF N, next
<1>3. Closed(step, N, SUBSET Nodes)
  BY <1>2 DEF Closed
<1>4. {x} \in SUBSET Nodes
  OBVIOUS
<1> HIDE DEF step
<1>5. PICK f \in [0..N -> SUBSET Nodes] : Turns(f, {x}, N, step)
  BY <1>1, <1>3, <1>4, Iterates
<1>6. f[0] = {x} /\ \A k \in 1..N : f[k] = next(f[k - 1])
  <2>1. f[0] = {x} /\ \A k \in 1..N : f[k] = step[k][f[k - 1]]
    BY <1>5 DEF Turns
  <2>2. \A k \in 1..N : f[k - 1] \in SUBSET Nodes
    BY <1>1
  <2> QED BY <2>1, <2>2 DEF step
<1>7. f = [k \in 0..N |-> IF k = 0 THEN {x} ELSE next(f[k - 1])]
  <2>1. \A k \in 0..N : k # 0 => k \in 1..N
    BY <1>1
  <2> QED BY <1>6, <2>1
<1> DEFINE g == CHOOSE h : h = [k \in 0..N |-> IF k = 0 THEN {x} ELSE next(h[k - 1])]
<1>8. g = [k \in 0..N |-> IF k = 0 THEN {x} ELSE next(g[k - 1])]
  BY <1>7
<1>9. Below(nd, x) = g[N]
  BY DEF Below, N, next, Kids
<1> HIDE DEF g
<1>10. \A k \in 0..N : g[k] = f[k]
  <2> DEFINE Bad == {k \in 0..N : g[k] # f[k]}
             m == Min(Bad)
  <2> SUFFICES ASSUME Bad # {} PROVE FALSE
    OBVIOUS
  <2>1. Bad \subseteq Nat
    OBVIOUS
  <2> HIDE DEF Bad
  <2>2. m \in Bad /\ \A k \in Bad : m <= k
    BY <2>1, MinIsLeast
  <2> HIDE DEF m
  <2>3. m \in 0..N /\ g[m] # f[m]
    BY <2>2 DEF Bad
  <2>4. m # 0
    BY <1>1, <1>7, <1>8, <2>3
  <2>5. m - 1 \in 0..N /\ ~(m <= m - 1)
    BY <1>1, <2>3, <2>4
  <2>6. g[m - 1] = f[m - 1]
    BY <2>2, <2>5 DEF Bad
  <2> QED BY <1>7, <1>8, <2>3, <2>4, <2>6
<1>11. N \in 0..N
  BY <1>1
<1> QED BY <1>6, <1>9, <1>10, <1>11 DEF N, next

\* It is the least closed set with the node in it: as many steps as there are
\* blocks are enough, for each that adds nothing is the last.
LEMMA BelowIs ==
  ASSUME NEW nd \in Blocked, NEW x \in Nodes
  PROVE  /\ x \in Below(nd, x) /\ Below(nd, x) \subseteq Nodes
         /\ Shut(nd, Below(nd, x))
         /\ \A T \in SUBSET Nodes : x \in T /\ Shut(nd, T) => Below(nd, x) \subseteq T
<1> DEFINE N == Cardinality(Nodes)
<1>1. N \in Nat /\ 0 \in 0..N /\ N \in 0..N
  BY RamFsAssumption, FS_CardinalityType
<1> HIDE DEF N
<1>2. PICK f \in [0..N -> SUBSET Nodes] :
        /\ f[0] = {x} /\ Below(nd, x) = f[N]
        /\ \A k \in 1..N : f[k] = f[k - 1] \cup UNION {Kids(nd, y) : y \in f[k - 1]}
  BY BelowInSteps DEF N
<1>3. \A k \in 1..N : k - 1 \in 0..N /\ k \in 0..N /\ ~(k <= k - 1)
  BY <1>1
<1>4. \A k \in 0..N : k # 0 => k \in 1..N
  BY <1>1
<1>5. \A k \in 1..N : f[k - 1] \subseteq f[k] /\ \A y \in f[k - 1] : Kids(nd, y) \subseteq f[k]
  BY <1>2
<1>6. ASSUME NEW T \in SUBSET Nodes, NEW j \in 0..N, f[j] \subseteq T, Shut(nd, T)
      PROVE  \A k \in j..N : f[k] \subseteq T
  <2> DEFINE Bad == {k \in j..N : ~(f[k] \subseteq T)}
             m == Min(Bad)
  <2> SUFFICES ASSUME Bad # {} PROVE FALSE
    OBVIOUS
  <2>1. Bad \subseteq Nat
    BY <1>1
  <2> HIDE DEF Bad
  <2>2. m \in Bad /\ \A k \in Bad : m <= k
    BY <2>1, MinIsLeast
  <2> HIDE DEF m
  <2>3. m \in j..N /\ ~(f[m] \subseteq T)
    BY <2>2 DEF Bad
  <2>4. m # j
    BY <1>6, <2>3
  <2>5. m \in 1..N /\ m - 1 \in j..N /\ ~(m <= m - 1)
    BY <1>1, <2>3, <2>4
  <2>6. f[m - 1] \subseteq T
    BY <2>2, <2>5 DEF Bad
  <2>7. f[m] = f[m - 1] \cup UNION {Kids(nd, y) : y \in f[m - 1]}
    BY <1>2, <2>5
  <2> QED BY <1>6, <2>3, <2>6, <2>7 DEF Shut
<1>7. ASSUME NEW k \in 0..N PROVE f[k] \subseteq f[N]
  <2> DEFINE Bad == {i \in 0..N : ~(f[N - i] \subseteq f[N])}
             m == Min(Bad)
  <2>1. Bad = {}
    <3> SUFFICES ASSUME Bad # {} PROVE FALSE
      OBVIOUS
    <3>1. Bad \subseteq Nat
      OBVIOUS
    <3> HIDE DEF Bad
    <3>2. m \in Bad /\ \A i \in Bad : m <= i
      BY <3>1, MinIsLeast
    <3> HIDE DEF m
    <3>3. m \in 0..N /\ ~(f[N - m] \subseteq f[N])
      BY <3>2 DEF Bad
    <3>4. m # 0
      BY <1>1, <3>3
    <3> DEFINE next == N - m + 1
    <3>5. /\ m - 1 \in 0..N /\ ~(m <= m - 1) /\ N - (m - 1) = next
          /\ next \in 1..N /\ next - 1 = N - m
      BY <1>1, <3>3, <3>4
    <3> HIDE DEF next
    <3>6. f[next] \subseteq f[N]
      BY <3>2, <3>5 DEF Bad
    <3>7. f[next - 1] \subseteq f[next]
      BY <1>5, <3>5
    <3> QED BY <3>3, <3>5, <3>6, <3>7
  <2>2. N - k \in 0..N /\ N - (N - k) = k
    BY <1>1
  <2> QED BY <2>1, <2>2
<1>8. Shut(nd, f[N])
  <2> SUFFICES ASSUME ~Shut(nd, f[N]) PROVE FALSE
    OBVIOUS
  \* Then each step adds something,
  <2>1. ASSUME NEW k \in 1..N PROVE f[k] # f[k - 1]
    <3> SUFFICES ASSUME f[k] = f[k - 1] PROVE FALSE
      OBVIOUS
    <3>1. Shut(nd, f[k - 1])
      BY <1>5 DEF Shut
    <3>2. f[k - 1] \in SUBSET Nodes /\ k - 1 \in 0..N /\ N \in k - 1..N
      BY <1>1, <1>3
    <3>3. f[N] \subseteq f[k - 1]
      BY <1>6, <3>1, <3>2
    <3>4. f[N] = f[k - 1]
      BY <1>7, <3>2, <3>3
    <3> QED BY <3>1, <3>4
  \* and there are too few blocks for that.
  <2> DEFINE Bad == {k \in 0..N : ~(IsFiniteSet(f[k]) /\ Cardinality(f[k]) >= k + 1)}
             m == Min(Bad)
  <2>2. Bad = {}
    <3> SUFFICES ASSUME Bad # {} PROVE FALSE
      OBVIOUS
    <3>1. Bad \subseteq Nat
      OBVIOUS
    <3> HIDE DEF Bad
    <3>2. m \in Bad /\ \A i \in Bad : m <= i
      BY <3>1, MinIsLeast
    <3> HIDE DEF m
    <3>3. m \in 0..N /\ ~(IsFiniteSet(f[m]) /\ Cardinality(f[m]) >= m + 1)
      BY <3>2 DEF Bad
    <3>4. IsFiniteSet(f[m]) /\ Cardinality(f[m]) \in Nat
      <4>1. f[m] \in SUBSET Nodes BY <3>3
      <4> QED BY <4>1, RamFsAssumption, FS_Subset, FS_CardinalityType
    <3>5. m # 0
      <4> SUFFICES ASSUME m = 0 PROVE FALSE
        OBVIOUS
      <4>1. IsFiniteSet({x}) /\ Cardinality({x}) = 1
        BY FS_Singleton
      <4>2. f[m] = {x}
        BY <1>2
      <4> QED BY <3>3, <4>1, <4>2
    <3>6. m \in 1..N /\ m - 1 \in 0..N /\ m - 1 \notin Bad
      BY <1>3, <1>4, <3>2, <3>3, <3>5
    <3>7. IsFiniteSet(f[m - 1]) /\ Cardinality(f[m - 1]) >= m
      <4>1. m - 1 + 1 = m
        BY <3>3
      <4> QED BY <3>6, <4>1 DEF Bad
    <3>8. f[m - 1] \subseteq f[m] /\ f[m] # f[m - 1]
      BY <1>5, <2>1, <3>6
    <3>9. /\ Cardinality(f[m - 1]) <= Cardinality(f[m])
          /\ Cardinality(f[m]) # Cardinality(f[m - 1])
          /\ Cardinality(f[m - 1]) \in Nat
      BY <3>4, <3>7, <3>8, FS_Subset, FS_CardinalityType
    <3> QED BY <3>3, <3>4, <3>7, <3>9
  <2>3. Cardinality(f[N]) >= N + 1 /\ f[N] \in SUBSET Nodes
    BY <1>1, <2>2
  <2>4. Cardinality(f[N]) <= N /\ Cardinality(f[N]) \in Nat
    BY <2>3, RamFsAssumption, FS_Subset, FS_CardinalityType DEF N
  <2> QED BY <1>1, <2>3, <2>4
<1>9. x \in f[N] /\ f[N] \subseteq Nodes
  BY <1>1, <1>2, <1>7
<1>10. ASSUME NEW T \in SUBSET Nodes, x \in T, Shut(nd, T) PROVE f[N] \subseteq T
  <2>1. f[0] \subseteq T /\ N \in 0..N
    BY <1>1, <1>2, <1>10
  <2> QED BY <1>1, <1>6, <1>10, <2>1
<1> QED BY <1>2, <1>8, <1>9, <1>10
----------------------------------------------------------------------------
(* Lists                                                                   *)

\* What ramfs_remove leaves of a list, and ramfs_copy of a directory's.
LEMMA KeptIs ==
  ASSUME NEW T, NEW list \in Seq(T), LinkedOnce(list), NEW S
  PROVE  /\ Kept(list, S) \in Seq(T)
         /\ ToSet(Kept(list, S)) = ToSet(list) \cap S
         /\ LinkedOnce(Kept(list, S))
<1> DEFINE N == Len(list)
           next(s, i) == IF list[i] \in S THEN Append(s, list[i]) ELSE s
           step == [i \in 1..N |-> [s \in Seq(T) |-> next(s, i)]]
<1>1. N \in Nat
  OBVIOUS
<1>2. \A i \in 1..N : list[i] \in T
  OBVIOUS
<1> HIDE DEF N
<1>3. ASSUME NEW s \in Seq(T), NEW i \in 1..N PROVE next(s, i) \in Seq(T)
  BY <1>2
<1> HIDE DEF next
<1>4. Closed(step, N, Seq(T))
  BY <1>3 DEF Closed
<1>5. <<>> \in Seq(T)
  OBVIOUS
<1> HIDE DEF step
<1>6. PICK f \in [0..N -> Seq(T)] : Turns(f, <<>>, N, step)
  BY <1>1, <1>4, <1>5, Iterates
<1>7. f[0] = <<>> /\ \A k \in 1..N : f[k] = next(f[k - 1], k) /\ f[k - 1] \in Seq(T)
  <2>1. f[0] = <<>> /\ \A k \in 1..N : f[k] = step[k][f[k - 1]]
    BY <1>6 DEF Turns
  <2>2. \A k \in 1..N : f[k - 1] \in Seq(T)
    BY <1>1
  <2> QED BY <2>1, <2>2 DEF step
<1>8. f = [k \in 0..N |-> IF k = 0 THEN <<>> ELSE next(f[k - 1], k)]
  <2>1. \A k \in 0..N : k # 0 => k \in 1..N
    BY <1>1
  <2> QED BY <1>7, <2>1
<1> DEFINE g == CHOOSE h : h = [k \in 0..N |-> IF k = 0 THEN <<>> ELSE next(h[k - 1], k)]
<1>9. g = [k \in 0..N |-> IF k = 0 THEN <<>> ELSE next(g[k - 1], k)]
  BY <1>8
<1>10. Kept(list, S) = g[N]
  BY DEF Kept, N, next
<1> HIDE DEF g
<1> DEFINE Done(k) ==
             /\ g[k] = f[k]
             /\ ToSet(f[k]) = {list[j] : j \in 1..k} \cap S
             /\ LinkedOnce(f[k])
           Bad == {k \in 0..N : ~Done(k)}
           m == Min(Bad)
<1>11. Bad = {}
  <2> SUFFICES ASSUME Bad # {} PROVE FALSE
    OBVIOUS
  <2>1. Bad \subseteq Nat
    OBVIOUS
  <2> HIDE DEF Bad
  <2>2. m \in Bad /\ \A k \in Bad : m <= k
    BY <2>1, MinIsLeast
  <2> HIDE DEF m
  <2>3. m \in 0..N /\ ~Done(m)
    BY <2>2 DEF Bad
  <2>4. m # 0
    <3> SUFFICES ASSUME m = 0 PROVE FALSE
      OBVIOUS
    <3>1. g[0] = <<>> /\ f[0] = <<>>
      BY <1>1, <1>7, <1>9
    <3>2. ToSet(<<>>) = {} /\ LinkedOnce(<<>>)
      BY DEF ToSet, LinkedOnce
    <3>3. {list[j] : j \in 1..0} = {}
      OBVIOUS
    <3> QED BY <2>3, <3>1, <3>2, <3>3
  <2>5. m \in 1..N /\ m - 1 \in 0..N /\ ~(m <= m - 1)
    BY <1>1, <2>3, <2>4
  <2>6. Done(m - 1)
    BY <2>2, <2>5 DEF Bad
  <2>7. g[m] = f[m]
    BY <1>7, <1>9, <2>3, <2>4, <2>5, <2>6
  <2>8. {list[j] : j \in 1..m} = {list[j] : j \in 1..m - 1} \cup {list[m]}
    <3>1. \A j : j \in 1..m <=> j \in 1..m - 1 \/ j = m
      BY <2>5
    <3> QED BY <3>1
  <2>9. list[m] \notin {list[j] : j \in 1..m - 1}
    <3>1. \A j \in 1..m - 1 : j \in 1..N /\ j # m
      BY <1>1, <2>5
    <3> QED BY <2>5, <3>1 DEF LinkedOnce, N
  <2>10. ToSet(f[m]) = {list[j] : j \in 1..m} \cap S /\ LinkedOnce(f[m])
    <3>1. CASE list[m] \in S
      <4>1. f[m] = Append(f[m - 1], list[m]) /\ f[m - 1] \in Seq(T) /\ list[m] \in T
        BY <1>2, <1>7, <2>5, <3>1 DEF next
      <4>2. list[m] \notin ToSet(f[m - 1])
        BY <2>6, <2>9
      <4>3. ToSet(f[m]) = ToSet(f[m - 1]) \cup {list[m]} /\ LinkedOnce(f[m])
        BY <2>6, <4>1, <4>2, AppendLinks
      <4> QED BY <2>6, <2>8, <3>1, <4>3
    <3>2. CASE list[m] \notin S
      <4>1. f[m] = f[m - 1]
        BY <1>7, <2>5, <3>2 DEF next
      <4> QED BY <2>6, <2>8, <3>2, <4>1
    <3> QED BY <3>1, <3>2
  <2> QED BY <2>3, <2>7, <2>10
<1>12. Done(N) /\ f[N] \in Seq(T)
  <2>1. N \in 0..N
    BY <1>1
  <2> HIDE DEF Done
  <2> QED BY <1>11, <2>1
<1>13. ToSet(list) = {list[j] : j \in 1..N}
  BY DEF ToSet, N
<1> QED BY <1>10, <1>12, <1>13

LEMMA UnlinkedIs ==
  ASSUME NEW T, NEW list \in Seq(T), LinkedOnce(list), NEW x
  PROVE  /\ Unlinked(list, x) \in Seq(T)
         /\ ToSet(Unlinked(list, x)) = ToSet(list) \ {x}
         /\ LinkedOnce(Unlinked(list, x))
<1>1. ToSet(list) \cap (ToSet(list) \ {x}) = ToSet(list) \ {x}
  OBVIOUS
<1> QED BY <1>1, KeptIs DEF Unlinked

LEMMA EmptyList == \A T : \A list \in Seq(T) : list = <<>> <=> ToSet(list) = {}
<1> SUFFICES ASSUME NEW T, NEW list \in Seq(T) PROVE list = <<>> <=> ToSet(list) = {}
  OBVIOUS
<1>1. ToSet(<<>>) = {}
  BY DEF ToSet
<1>2. ASSUME list # <<>> PROVE list[1] \in ToSet(list)
  BY <1>2 DEF ToSet
<1> QED BY <1>1, <1>2

LEMMA OnceIsInjective == \A T : \A list \in Seq(T) : IsInjective(list) <=> LinkedOnce(list)
BY DEF IsInjective, LinkedOnce
----------------------------------------------------------------------------
(* The tree                                                                *)

Tree(nd) ==
  /\ nd \in Blocked
  /\ \A x \in Nodes : nd[x].type = "none" => nd[x] = Blank
  /\ nd[Root].type = "dir" /\ nd[Root].parent = NULL
  /\ \A x \in Nodes : /\ \A y \in Kids(nd, x) : nd[y].parent = x
                      /\ LinkedOnce(nd[x].children)
  /\ Below(nd, Root) = Live(nd)

LEMMA BlankIs ==
  /\ Blank.type = "none" /\ Blank.name = NULL /\ Blank.parent = NULL
  /\ Blank.children = <<>> /\ Blank.data = NULL /\ Blank.size = 0
  /\ Blank \in Entry /\ ToSet(Blank.children) = {} /\ LinkedOnce(Blank.children)
<1>1. Blank = [type |-> "none", name |-> NULL, parent |-> NULL,
               children |-> <<>>, data |-> NULL, size |-> 0]
  BY DEF Blank
<1>2. <<>> \in Seq(Nodes) /\ ToSet(<<>>) = {} /\ LinkedOnce(<<>>)
  BY DEF ToSet, LinkedOnce
<1> QED BY <1>1, <1>2 DEF Entry, Kinds

\* A block is in use when it has a type; what is linked is in use, and every block
\* in use but for the root is linked, in the list of its parent.
LEMMA TreeFacts ==
  ASSUME NEW nd, Tree(nd)
  PROVE  /\ Root \in Live(nd) /\ Live(nd) \subseteq Nodes
         /\ \A y \in Nodes : y \in Live(nd) <=> nd[y].type # "none"
         /\ \A y \in Nodes : Kids(nd, y) \subseteq Live(nd) \ {Root}
         /\ \A y \in Nodes \ Live(nd) : nd[y] = Blank /\ Kids(nd, y) = {}
         /\ \A y \in Live(nd) \ {Root} :
              nd[y].parent \in Live(nd) /\ y \in Kids(nd, nd[y].parent)
<1>0. nd \in Blocked /\ Root \in Nodes /\ NULL \notin Nodes
  BY RamFsAssumption DEF Tree
<1>1. \A y \in Nodes : y \in Live(nd) <=> nd[y].type # "none"
  BY BlankIs DEF Live, Tree
<1>2. Root \in Live(nd) /\ Live(nd) \subseteq Nodes
  BY <1>0, <1>1 DEF Live, Tree
<1>3. \A y \in Nodes \ Live(nd) : nd[y] = Blank /\ Kids(nd, y) = {}
  BY BlankIs DEF Live, Kids
<1>4. Shut(nd, Live(nd))
  BY <1>0, BelowIs DEF Tree
<1>5. ASSUME NEW y \in Nodes, NEW z \in Kids(nd, y) PROVE z \in Live(nd) /\ z # Root
  <2>1. y \in Live(nd)
    BY <1>3, <1>5
  <2>2. z \in Live(nd)
    BY <1>4, <1>5, <2>1 DEF Shut
  <2>3. nd[z].parent = y
    BY <1>5 DEF Tree
  <2> QED BY <1>0, <2>2, <2>3 DEF Tree
<1>6. ASSUME NEW y \in Live(nd), y # Root
      PROVE  nd[y].parent \in Live(nd) /\ y \in Kids(nd, nd[y].parent)
  <2> DEFINE T == {Root} \cup UNION {Kids(nd, z) : z \in Live(nd)}
  <2>1. T \in SUBSET Nodes /\ T \subseteq Live(nd)
    BY <1>2, <1>5
  <2>2. Shut(nd, T)
    BY <2>1 DEF Shut
  <2>3. Root \in T
    OBVIOUS
  <2> HIDE DEF T
  <2>4. Live(nd) \subseteq T
    BY <1>0, <2>1, <2>2, <2>3, BelowIs DEF Tree
  <2>5. PICK z \in Live(nd) : y \in Kids(nd, z)
    BY <1>6, <2>4 DEF T
  <2>6. nd[y].parent = z
    BY <1>2, <2>5 DEF Tree
  <2> QED BY <2>5, <2>6
<1> QED BY <1>1, <1>2, <1>3, <1>5, <1>6

\* What is below x is in use and is linked from above by x alone; x is not below
\* itself, that is, its parent is not.
LEMMA PartFacts ==
  ASSUME NEW nd, Tree(nd), NEW x \in Live(nd)
  PROVE  /\ x \in Below(nd, x) /\ Below(nd, x) \subseteq Live(nd) /\ Shut(nd, Below(nd, x))
         /\ \A z \in Below(nd, x) : z # x => nd[z].parent \in Below(nd, x) /\ z # Root
         /\ nd[x].parent \notin Below(nd, x)
         /\ x # Root => Root \notin Below(nd, x)
<1> DEFINE D == Below(nd, x)
<1>0. nd \in Blocked /\ Root \in Nodes /\ NULL \notin Nodes /\ x \in Nodes /\ x \in Live(nd)
  BY TreeFacts, RamFsAssumption DEF Tree
<1>1. /\ x \in D /\ D \subseteq Nodes /\ Shut(nd, D)
      /\ \A T \in SUBSET Nodes : x \in T /\ Shut(nd, T) => D \subseteq T
  BY <1>0, BelowIs
<1> HIDE DEF D
<1>2. D \subseteq Live(nd)
  <2>1. Shut(nd, Live(nd)) /\ Live(nd) \in SUBSET Nodes
    BY <1>0, TreeFacts DEF Shut
  <2> QED BY <1>0, <1>1, <2>1
<1>3. ASSUME NEW z \in D, z # x PROVE nd[z].parent \in D /\ z # Root
  <2> DEFINE T == {x} \cup UNION {Kids(nd, y) : y \in D}
  <2>1. T \in SUBSET Nodes /\ T \subseteq D
    BY <1>1 DEF Shut
  <2>2. Shut(nd, T) /\ x \in T
    BY <2>1 DEF Shut
  <2> HIDE DEF T
  <2>3. D \subseteq T
    BY <1>1, <2>1, <2>2
  <2>4. PICK y \in D : z \in Kids(nd, y)
    BY <1>3, <2>3 DEF T
  <2>5. nd[z].parent = y /\ z # Root
    BY <1>1, <2>4, TreeFacts DEF Tree
  <2> QED BY <2>4, <2>5
<1>4. x # Root => Root \notin D
  BY <1>3
<1>5. nd[x].parent \notin D
  <2>1. CASE x = Root
    BY <1>0, <1>1, <2>1 DEF Tree
  <2>2. CASE x # Root
    <3> SUFFICES ASSUME nd[x].parent \in D PROVE FALSE
      OBVIOUS
    <3> DEFINE T == Live(nd) \ D
    <3>1. T \in SUBSET Nodes /\ Root \in T
      BY <1>4, <2>2, TreeFacts
    <3>2. ASSUME NEW y \in T, NEW z \in Kids(nd, y) PROVE z \in T
      <4>1. y \in Nodes /\ z \in Live(nd) /\ nd[z].parent = y /\ y \notin D
        BY <3>1, <3>2, TreeFacts DEF Tree
      <4>2. z \notin D
        BY <1>3, <4>1
      <4> QED BY <4>1, <4>2
    <3>3. Shut(nd, T)
      BY <3>2 DEF Shut
    <3> HIDE DEF T
    <3>4. Below(nd, Root) \subseteq T
      BY <1>0, <3>1, <3>3, BelowIs
    <3>5. x \in T
      BY <1>0, <3>4 DEF Tree
    <3> QED BY <1>1, <3>5 DEF T
  <2> QED BY <2>1, <2>2
<1> QED BY <1>1, <1>2, <1>3, <1>4, <1>5 DEF D

\* However the lists change, what was in use and was not cut out with its part D is
\* still reached, as long as the lists outside D lose only nodes of D.
LEMMA Reaches ==
  ASSUME NEW nd, Tree(nd), NEW after \in Blocked, NEW D \in SUBSET Nodes, Shut(nd, D),
         \A y \in Live(nd) \ D : Kids(nd, y) \subseteq Kids(after, y) \cup D
  PROVE  Live(nd) \subseteq Below(after, Root) \cup D
<1> DEFINE T == Below(after, Root) \cup D
<1>1. nd \in Blocked /\ Root \in Nodes
  BY RamFsAssumption DEF Tree
<1>2. /\ Root \in Below(after, Root) /\ Below(after, Root) \subseteq Nodes
      /\ Shut(after, Below(after, Root))
  BY <1>1, BelowIs
<1>3. T \in SUBSET Nodes /\ Root \in T
  BY <1>2
<1>4. ASSUME NEW y \in T PROVE Kids(nd, y) \subseteq T
  <2>1. CASE y \in D
    BY <2>1 DEF Shut
  <2>2. CASE y \notin D /\ y \in Live(nd)
    <3>1. Kids(after, y) \subseteq Below(after, Root)
      BY <1>2, <1>4, <2>2 DEF Shut
    <3> QED BY <2>2, <3>1
  <2>3. CASE y \notin Live(nd)
    BY <1>3, <1>4, <2>3, TreeFacts
  <2> QED BY <2>1, <2>2, <2>3
<1>5. Shut(nd, T)
  BY <1>4 DEF Shut
<1> HIDE DEF T
<1>6. Live(nd) \subseteq T
  BY <1>1, <1>3, <1>5, BelowIs DEF Tree
<1> QED BY <1>6 DEF T

\* What is left to show of a step.
LEMMA TreeAgain ==
  ASSUME NEW after \in Blocked,
         \A x \in Nodes : after[x].type = "none" => after[x] = Blank,
         after[Root].type = "dir", after[Root].parent = NULL,
         \A x \in Nodes : /\ \A y \in Kids(after, x) : after[y].parent = x
                          /\ LinkedOnce(after[x].children),
         \A x \in Live(after) : Kids(after, x) \subseteq Live(after),
         Live(after) \subseteq Below(after, Root)
  PROVE  Tree(after)
<1>1. Root \in Nodes
  BY RamFsAssumption
<1>2. Shut(after, Live(after)) /\ Live(after) \in SUBSET Nodes
  BY DEF Shut, Live
<1>3. Root \in Live(after)
  BY <1>1, BlankIs DEF Live
<1>4. Below(after, Root) \subseteq Live(after)
  BY <1>1, <1>2, <1>3, BelowIs
<1> QED BY <1>4 DEF Tree
----------------------------------------------------------------------------
(* What the operations do to the tree, and to the names in it              *)

Paths(nd) ==
  \A x \in Live(nd) :
    /\ Kids(nd, x) # {} => nd[x].type = "dir"
    /\ \A y, z \in Kids(nd, x) : nd[y].name # NULL /\ nd[y].name = nd[z].name => y = z

\* A node's name or data changes.
LEMMA RelabelKeeps ==
  ASSUME NEW nd, Tree(nd), NEW x \in Live(nd), NEW after \in Blocked,
         \A y \in Nodes : y # x => after[y] = nd[y],
         after[x].type = nd[x].type, after[x].parent = nd[x].parent,
         after[x].children = nd[x].children
  PROVE  /\ Tree(after) /\ Live(after) = Live(nd)
         /\ \A y \in Nodes : Kids(after, y) = Kids(nd, y) /\ after[y].type = nd[y].type
<1>0. nd \in Blocked /\ Root \in Nodes /\ x \in Nodes
  BY TreeFacts, RamFsAssumption DEF Tree
<1>1. \A y \in Nodes : /\ Kids(after, y) = Kids(nd, y) /\ after[y].type = nd[y].type
                       /\ after[y].parent = nd[y].parent /\ after[y].children = nd[y].children
  BY <1>0 DEF Kids
<1>2. nd[x].type # "none"
  BY <1>0, TreeFacts
<1>3. Live(after) = Live(nd)
  <2>1. after[x] # Blank /\ x \in Live(nd)
    BY <1>0, <1>1, <1>2, BlankIs
  <2> QED BY <1>0, <2>1 DEF Live
<1>4. Live(nd) \subseteq Below(after, Root) \cup {}
  <2>1. Shut(nd, {}) /\ {} \in SUBSET Nodes
    BY DEF Shut
  <2>2. \A y \in Live(nd) \ {} : Kids(nd, y) \subseteq Kids(after, y) \cup {}
    BY <1>1, TreeFacts
  <2> HIDE DEF Tree
  <2> QED BY <2>1, <2>2, Reaches
<1>5. \A y \in Nodes : after[y].type = "none" => after[y] = Blank
  BY <1>0, <1>1, <1>2 DEF Tree
<1>6. after[Root].type = "dir" /\ after[Root].parent = NULL
  BY <1>0, <1>1 DEF Tree
<1>7. ASSUME NEW y \in Nodes
      PROVE  (\A z \in Kids(after, y) : after[z].parent = y) /\ LinkedOnce(after[y].children)
  <2>1. Kids(nd, y) \subseteq Nodes
    BY <1>0, KidsAreNodes
  <2> QED BY <1>1, <2>1 DEF Tree
<1>8. \A y \in Live(after) : Kids(after, y) \subseteq Live(after)
  BY <1>1, <1>3, TreeFacts
<1> QED BY <1>1, <1>3, <1>4, <1>5, <1>6, <1>7, <1>8, TreeAgain

\* ramfs_create and ramfs_mkdir: a new node at the end of a directory's list.
LEMMA CreateKeeps ==
  ASSUME NEW nd, Tree(nd), Paths(nd), NEW dir \in Live(nd), NEW x \in Nodes \ Live(nd),
         nd[dir].type = "dir", NEW after \in Blocked,
         \A y \in Nodes : y # x /\ y # dir => after[y] = nd[y],
         after[x].type \in {"file", "dir"}, after[x].parent = dir, after[x].children = <<>>,
         after[dir].type = nd[dir].type, after[dir].parent = nd[dir].parent,
         after[dir].name = nd[dir].name,
         after[dir].children = Append(nd[dir].children, x),
         \A y \in Kids(nd, dir) : after[x].name # NULL => nd[y].name # after[x].name
  PROVE  Tree(after) /\ Live(after) = Live(nd) \cup {x} /\ Paths(after)
<1>0. nd \in Blocked /\ Root \in Nodes /\ dir \in Nodes /\ x \in Nodes /\ x # dir /\ x # Root
  BY TreeFacts, RamFsAssumption DEF Tree
<1>1. /\ nd[dir].children \in Seq(Nodes) /\ LinkedOnce(nd[dir].children)
      /\ x \notin ToSet(nd[dir].children)
  BY <1>0, TreeFacts DEF Tree, Blocked, Entry, Kids
<1>2. /\ Kids(after, dir) = Kids(nd, dir) \cup {x} /\ LinkedOnce(after[dir].children)
      /\ Kids(after, x) = {} /\ LinkedOnce(after[x].children)
      /\ \A y \in Nodes : y # x /\ y # dir => Kids(after, y) = Kids(nd, y)
  <2>1. ToSet(Append(nd[dir].children, x)) = ToSet(nd[dir].children) \cup {x}
        /\ LinkedOnce(Append(nd[dir].children, x))
    BY <1>0, <1>1, AppendLinks
  <2>2. ToSet(<<>>) = {} /\ LinkedOnce(<<>>)
    BY DEF ToSet, LinkedOnce
  <2> QED BY <2>1, <2>2 DEF Kids
<1>3. nd[dir].type # "none" /\ nd[dir].type \in {"file", "dir"}
  BY <1>0, TreeFacts
<1>4. Live(after) = Live(nd) \cup {x}
  <2>1. after[x] # Blank /\ after[dir] # Blank /\ dir \in Live(nd)
    BY <1>0, <1>3, BlankIs
  <2> QED BY <1>0, <2>1 DEF Live
<1>5. Live(after) \subseteq Below(after, Root)
  <2>1. Shut(nd, {}) /\ {} \in SUBSET Nodes
    BY DEF Shut
  <2>2. \A y \in Live(nd) \ {} : Kids(nd, y) \subseteq Kids(after, y) \cup {}
    BY <1>2, TreeFacts
  <2>3. Live(nd) \subseteq Below(after, Root) \cup {}
    BY <2>1, <2>2, Reaches
  <2>4. Shut(after, Below(after, Root)) /\ dir \in Below(after, Root)
    BY <1>0, <2>3, BelowIs
  <2>5. x \in Below(after, Root)
    BY <1>2, <2>4 DEF Shut
  <2> QED BY <1>4, <2>3, <2>5
<1>6. \A y \in Nodes : after[y].type = "none" => after[y] = Blank
  BY <1>0, <1>3 DEF Tree
<1>7. after[Root].type = "dir" /\ after[Root].parent = NULL
  BY <1>0 DEF Tree
<1>8. ASSUME NEW y \in Nodes
      PROVE  (\A z \in Kids(after, y) : after[z].parent = y) /\ LinkedOnce(after[y].children)
  <2>1. \A z \in Nodes : z # x => after[z].parent = nd[z].parent
    BY <1>0
  <2>2. \A z \in Kids(nd, y) : z \in Nodes /\ z # x /\ nd[z].parent = y
    BY <1>0, TreeFacts DEF Tree
  <2>3. CASE y = x
    BY <1>2, <2>3
  <2>4. CASE y = dir
    BY <1>2, <2>1, <2>2, <2>4
  <2>5. CASE y # x /\ y # dir
    BY <1>2, <2>1, <2>2, <2>5 DEF Tree
  <2> QED BY <2>3, <2>4, <2>5
<1>9. \A y \in Live(after) : Kids(after, y) \subseteq Live(after)
  BY <1>0, <1>2, <1>4, TreeFacts
<1>10. Paths(after)
  <2> SUFFICES ASSUME NEW y \in Live(after)
               PROVE  /\ Kids(after, y) # {} => after[y].type = "dir"
                      /\ \A z, w \in Kids(after, y) :
                           after[z].name # NULL /\ after[z].name = after[w].name => z = w
    BY DEF Paths
  <2>1. \A z \in Nodes : z # x => after[z].name = nd[z].name
    BY <1>0
  <2>2. \A z \in Kids(nd, y) : z \in Nodes /\ z # x
    BY <1>0, <1>4, TreeFacts
  <2>3. CASE y = x
    BY <1>2, <2>3
  <2>4. CASE y = dir
    <3>1. after[y].type = "dir" /\ Kids(after, y) = Kids(nd, y) \cup {x}
      BY <1>2, <2>4
    <3>2. \A z, w \in Kids(nd, y) : nd[z].name # NULL /\ nd[z].name = nd[w].name => z = w
      BY <2>4 DEF Paths
    <3>3. \A z \in Kids(nd, y) : after[z].name # NULL => after[z].name # after[x].name
      BY <2>1, <2>2, <2>4
    <3> QED BY <2>1, <2>2, <3>1, <3>2, <3>3
  <2>5. CASE y # x /\ y # dir
    <3>1. y \in Live(nd) /\ Kids(after, y) = Kids(nd, y) /\ after[y] = nd[y]
      BY <1>0, <1>2, <1>4, <2>5, TreeFacts
    <3> QED BY <2>1, <2>2, <3>1 DEF Paths
  <2> QED BY <2>3, <2>4, <2>5
<1> QED BY <1>4, <1>5, <1>6, <1>7, <1>8, <1>9, <1>10, TreeAgain

\* ramfs_remove and ramfs_delete: x is off its parent's list and all below it is free.
LEMMA CutKeeps ==
  ASSUME NEW nd, Tree(nd), Paths(nd), NEW x \in Live(nd), x # Root, NEW after \in Blocked,
         \A y \in Below(nd, x) : after[y] = Blank,
         \A y \in Nodes : y \notin Below(nd, x) /\ y # nd[x].parent => after[y] = nd[y],
         after[nd[x].parent] = [nd[nd[x].parent] EXCEPT !.children = Unlinked(@, x)]
  PROVE  /\ Tree(after) /\ Live(after) = Live(nd) \ Below(nd, x) /\ Paths(after)
         /\ \A y \in Live(after) : /\ after[y].name = nd[y].name /\ after[y].size = nd[y].size
                                   /\ after[y].data = nd[y].data
<1> DEFINE D == Below(nd, x)
           p == nd[x].parent
<1>0. /\ nd \in Blocked /\ Root \in Nodes /\ p \in Live(nd) /\ p \in Nodes /\ x \in Kids(nd, p)
      /\ x \in D /\ D \subseteq Live(nd) /\ D \subseteq Nodes /\ Shut(nd, D) /\ p \notin D
      /\ Root \notin D /\ \A z \in D : z # x => nd[z].parent \in D
  BY TreeFacts, PartFacts, RamFsAssumption DEF Tree
<1>1. /\ \A y \in D : after[y] = Blank
      /\ \A y \in Nodes : y \notin D /\ y # p => after[y] = nd[y]
      /\ after[p] = [nd[p] EXCEPT !.children = Unlinked(@, x)]
  OBVIOUS
<1> HIDE DEF D, p
<1>2. nd[p] \in Entry /\ nd[p].children \in Seq(Nodes) /\ LinkedOnce(nd[p].children)
  BY <1>0 DEF Tree, Blocked, Entry
<1>3. /\ Unlinked(nd[p].children, x) \in Seq(Nodes)
      /\ ToSet(Unlinked(nd[p].children, x)) = ToSet(nd[p].children) \ {x}
      /\ LinkedOnce(Unlinked(nd[p].children, x))
  BY <1>2, UnlinkedIs
<1>4. /\ after[p].children = Unlinked(nd[p].children, x) /\ after[p].type = nd[p].type
      /\ after[p].parent = nd[p].parent /\ after[p].name = nd[p].name
      /\ after[p].data = nd[p].data /\ after[p].size = nd[p].size
  BY <1>1, <1>2 DEF Entry
<1>5. /\ \A y \in Nodes \ D : /\ after[y].type = nd[y].type /\ after[y].parent = nd[y].parent
                              /\ after[y].name = nd[y].name /\ after[y].data = nd[y].data
                              /\ after[y].size = nd[y].size
      /\ \A y \in Nodes : LinkedOnce(after[y].children)
  <2>1. \A y \in Nodes : LinkedOnce(nd[y].children)
    BY DEF Tree
  <2> QED BY <1>0, <1>1, <1>3, <1>4, <2>1, BlankIs
<1>6. ASSUME NEW y \in Nodes PROVE Kids(after, y) = IF y \in D THEN {} ELSE Kids(nd, y) \ D
  <2>1. CASE y \in D
    BY <1>1, <2>1, BlankIs DEF Kids
  <2>2. ASSUME NEW z \in Kids(nd, y), z \in D, y \notin D PROVE y = p /\ z = x
    <3>1. nd[z].parent = y
      BY <2>2 DEF Tree
    <3> QED BY <1>0, <2>2, <3>1 DEF p
  <2>3. CASE y = p
    <3>1. Kids(after, p) = Kids(nd, p) \ {x}
      BY <1>3, <1>4 DEF Kids
    <3> QED BY <1>0, <2>2, <2>3, <3>1
  <2>4. CASE y \notin D /\ y # p
    <3>1. Kids(after, y) = Kids(nd, y)
      BY <1>1, <2>4 DEF Kids
    <3> QED BY <2>2, <2>4, <3>1
  <2> QED BY <2>1, <2>3, <2>4, <1>0
<1>7. \A y \in Nodes : y \in Live(nd) <=> nd[y].type # "none"
  BY TreeFacts
<1>8. \A y \in Nodes : after[y].type = "none" => after[y] = Blank
  <2>1. nd[p].type # "none"
    BY <1>0, <1>7
  <2> QED BY <1>1, <1>4, <2>1 DEF Tree
<1>9. Live(after) = Live(nd) \ D
  <2>1. \A y \in Nodes : y \in Live(after) <=> after[y].type # "none"
    BY <1>8, BlankIs DEF Live
  <2>2. Live(after) \subseteq Nodes /\ Live(nd) \subseteq Nodes
    BY DEF Live
  <2> QED BY <1>1, <1>5, <1>7, <2>1, <2>2, BlankIs
<1>10. Live(after) \subseteq Below(after, Root)
  <2>1. \A y \in Live(nd) \ D : Kids(nd, y) \subseteq Kids(after, y) \cup D
    BY <1>6, TreeFacts
  <2>2. Live(nd) \subseteq Below(after, Root) \cup D
    BY <1>0, <2>1, Reaches
  <2> QED BY <1>9, <2>2
<1>11. after[Root].type = "dir" /\ after[Root].parent = NULL
  BY <1>0, <1>5 DEF Tree
<1>12. ASSUME NEW y \in Nodes, NEW z \in Kids(after, y) PROVE after[z].parent = y
  <2>1. z \in Kids(nd, y) /\ z \notin D /\ z \in Nodes
    BY <1>0, <1>6, <1>12, KidsAreNodes
  <2> QED BY <1>5, <2>1 DEF Tree
<1>13. \A y \in Live(after) : Kids(after, y) \subseteq Live(after)
  BY <1>6, <1>9, TreeFacts
<1>14. Paths(after)
  <2> SUFFICES ASSUME NEW y \in Live(after)
               PROVE  /\ Kids(after, y) # {} => after[y].type = "dir"
                      /\ \A z, w \in Kids(after, y) :
                           after[z].name # NULL /\ after[z].name = after[w].name => z = w
    BY DEF Paths
  <2>1. y \in Live(nd) /\ y \notin D /\ y \in Nodes
    BY <1>9, TreeFacts
  <2>2. Kids(after, y) = Kids(nd, y) \ D /\ after[y].type = nd[y].type
    BY <1>5, <1>6, <2>1
  <2>3. \A z \in Kids(after, y) : z \in Kids(nd, y) /\ after[z].name = nd[z].name
    BY <1>0, <1>5, <2>1, <2>2, KidsAreNodes
  <2> QED BY <2>1, <2>2, <2>3 DEF Paths
<1>15. Tree(after)
  BY <1>5, <1>8, <1>10, <1>11, <1>12, <1>13, TreeAgain
<1>16. \A y \in Live(after) : /\ after[y].name = nd[y].name /\ after[y].size = nd[y].size
                              /\ after[y].data = nd[y].data
  BY <1>5, <1>9, TreeFacts
<1> QED BY <1>9, <1>14, <1>15, <1>16 DEF D

\* ramfs_delete of the root: nothing but the root is left.
LEMMA ClearKeeps ==
  ASSUME NEW nd, Tree(nd), NEW after \in Blocked,
         \A y \in Nodes : y # Root => after[y] = Blank,
         after[Root] = [nd[Root] EXCEPT !.children = <<>>]
  PROVE  /\ Tree(after) /\ Live(after) = {Root} /\ Paths(after)
         /\ after[Root].name = nd[Root].name /\ after[Root].size = nd[Root].size
         /\ after[Root].data = nd[Root].data
<1>0. nd \in Blocked /\ Root \in Nodes /\ nd[Root] \in Entry
  BY RamFsAssumption DEF Tree, Blocked
<1>1. /\ after[Root].children = <<>> /\ after[Root].type = nd[Root].type
      /\ after[Root].parent = nd[Root].parent /\ after[Root].name = nd[Root].name
      /\ after[Root].data = nd[Root].data /\ after[Root].size = nd[Root].size
  BY <1>0 DEF Entry
<1>2. nd[Root].type = "dir" /\ nd[Root].parent = NULL
  BY DEF Tree
<1>3. \A y \in Nodes : after[y].children = <<>>
  BY <1>1, BlankIs
<1>4. \A y \in Nodes : Kids(after, y) = {} /\ LinkedOnce(after[y].children)
  BY <1>3 DEF Kids, ToSet, LinkedOnce
<1>5. Live(after) = {Root}
  BY <1>0, <1>1, <1>2, BlankIs DEF Live
<1>6. \A y \in Nodes : after[y].type = "none" => after[y] = Blank
  BY <1>1, <1>2
<1>7. Live(after) \subseteq Below(after, Root)
  BY <1>0, <1>5, BelowIs
<1>8. Paths(after)
  BY <1>0, <1>4, <1>5 DEF Paths
<1>9. \A y \in Nodes : (\A z \in Kids(after, y) : after[z].parent = y) /\ LinkedOnce(after[y].children)
  BY <1>4
<1>10. \A y \in Live(after) : Kids(after, y) \subseteq Live(after)
  BY <1>0, <1>4, <1>5
<1>11. after[Root].type = "dir" /\ after[Root].parent = NULL
  BY <1>1, <1>2
<1>12. Tree(after)
  BY <1>6, <1>7, <1>9, <1>10, <1>11, TreeAgain
<1> QED BY <1>1, <1>5, <1>8, <1>12

\* ramfs_move, to where a node may go.
LEMMA MoveKeeps ==
  ASSUME NEW nd, Tree(nd), Paths(nd), NEW x \in Live(nd), x # Root, NEW dir \in Live(nd),
         nd[dir].type = "dir", dir \notin Below(nd, x),
         \A y \in Kids(nd, dir) : y # x => nd[y].name # nd[x].name,
         NEW after \in Blocked,
         \A y \in Nodes : /\ after[y].type = nd[y].type /\ after[y].name = nd[y].name
                          /\ after[y].data = nd[y].data /\ after[y].size = nd[y].size
                          /\ after[y].parent = IF y = x THEN dir ELSE nd[y].parent,
         \A y \in Nodes : y # dir /\ y # nd[x].parent => after[y].children = nd[y].children,
         nd[x].parent # dir =>
           after[nd[x].parent].children = Unlinked(nd[nd[x].parent].children, x),
         after[dir].children =
           Append(IF nd[x].parent = dir THEN Unlinked(nd[dir].children, x) ELSE nd[dir].children, x)
  PROVE  Tree(after) /\ Live(after) = Live(nd) /\ Paths(after)
<1> DEFINE D == Below(nd, x)
           p == nd[x].parent
<1>0. /\ nd \in Blocked /\ Root \in Nodes /\ p \in Live(nd) /\ p \in Nodes /\ x \in Kids(nd, p)
      /\ x \in D /\ D \subseteq Live(nd) /\ D \subseteq Nodes /\ Shut(nd, D) /\ p \notin D
      /\ x \in Nodes /\ dir \in Nodes /\ dir \notin D
  BY TreeFacts, PartFacts, RamFsAssumption DEF Tree
<1>1. /\ \A y \in Nodes : y # dir /\ y # p => after[y].children = nd[y].children
      /\ p # dir => after[p].children = Unlinked(nd[p].children, x)
      /\ after[dir].children = Append(IF p = dir THEN Unlinked(nd[dir].children, x)
                                      ELSE nd[dir].children, x)
  OBVIOUS
<1> HIDE DEF D, p
<1>2. ASSUME NEW y \in Nodes
      PROVE  /\ nd[y].children \in Seq(Nodes) /\ LinkedOnce(nd[y].children)
             /\ Unlinked(nd[y].children, x) \in Seq(Nodes)
             /\ ToSet(Unlinked(nd[y].children, x)) = Kids(nd, y) \ {x}
             /\ LinkedOnce(Unlinked(nd[y].children, x))
  <2>1. nd[y].children \in Seq(Nodes) /\ LinkedOnce(nd[y].children)
    BY <1>0 DEF Tree, Blocked, Entry
  <2> QED BY <2>1, UnlinkedIs DEF Kids
<1>3. ASSUME NEW y \in Nodes, y # p PROVE x \notin Kids(nd, y)
  BY <1>3 DEF Tree, p
<1>4. ASSUME NEW y \in Nodes
      PROVE  /\ Kids(after, y) = IF y = dir THEN Kids(nd, y) \cup {x} ELSE Kids(nd, y) \ {x}
             /\ LinkedOnce(after[y].children)
  <2>1. CASE y = dir
    <3> DEFINE base == IF p = dir THEN Unlinked(nd[dir].children, x) ELSE nd[dir].children
    <3>1. /\ base \in Seq(Nodes) /\ LinkedOnce(base) /\ x \notin ToSet(base)
          /\ ToSet(base) \cup {x} = Kids(nd, dir) \cup {x}
      <4>1. CASE p = dir
        BY <1>0, <1>2, <4>1
      <4>2. CASE p # dir
        BY <1>0, <1>2, <1>3, <4>2 DEF Kids
      <4> QED BY <4>1, <4>2
    <3>2. after[dir].children = Append(base, x)
      BY <1>1
    <3> HIDE DEF base
    <3>3. ToSet(Append(base, x)) = ToSet(base) \cup {x} /\ LinkedOnce(Append(base, x))
      BY <1>0, <3>1, AppendLinks
    <3> QED BY <2>1, <3>1, <3>2, <3>3 DEF Kids
  <2>2. CASE y # dir /\ y = p
    BY <1>0, <1>1, <1>2, <2>2 DEF Kids
  <2>3. CASE y # dir /\ y # p
    BY <1>1, <1>2, <1>3, <2>3 DEF Kids
  <2> QED BY <2>1, <2>2, <2>3
<1>5. /\ \A y \in Nodes : y \in Live(nd) <=> nd[y].type # "none"
      /\ Live(nd) \subseteq Nodes /\ Live(after) \subseteq Nodes
  BY TreeFacts DEF Live
<1>6. \A y \in Nodes : after[y].type = "none" => after[y] = Blank
  <2> SUFFICES ASSUME NEW y \in Nodes, after[y].type = "none" PROVE after[y] = Blank
    OBVIOUS
  <2>1. y \notin Live(nd) /\ y # x /\ y # dir /\ y # p /\ nd[y] = Blank
    BY <1>0, <1>5, TreeFacts
  <2>2. /\ after[y].type = Blank.type /\ after[y].name = Blank.name
        /\ after[y].data = Blank.data /\ after[y].size = Blank.size
        /\ after[y].parent = Blank.parent /\ after[y].children = Blank.children
    BY <1>1, <2>1
  <2>3. after[y] \in Entry /\ Blank \in Entry
    BY BlankIs DEF Blocked
  <2> QED BY <2>2, <2>3 DEF Entry
<1>7. Live(after) = Live(nd)
  <2>1. \A y \in Nodes : y \in Live(after) <=> after[y].type # "none"
    BY <1>6, BlankIs DEF Live
  <2>2. \A y \in Nodes : y \in Live(after) <=> y \in Live(nd)
    BY <1>1, <1>5, <2>1
  <2> QED BY <1>5, <2>2
<1>8. Live(after) \subseteq Below(after, Root)
  <2> DEFINE S == Below(after, Root)
  <2>1. \A y \in Live(nd) \ D : Kids(nd, y) \subseteq Kids(after, y) \cup D
    BY <1>0, <1>4, <1>5
  <2>2. Live(nd) \subseteq S \cup D
    BY <1>0, <2>1, Reaches
  <2>3. Shut(after, S) /\ S \subseteq Nodes
    BY <1>0, BelowIs
  <2> HIDE DEF S
  <2>4. x \in S
    <3>1. dir \in S
      BY <1>0, <2>2
    <3> QED BY <1>0, <1>4, <2>3, <3>1 DEF Shut
  <2> DEFINE T == S \cap D
  <2>5. ASSUME NEW y \in T, NEW z \in Kids(nd, y) PROVE z \in T
    <3>1. z \in D /\ y \in Nodes
      BY <1>0, <2>5 DEF Shut
    <3>2. z = x \/ z \in Kids(after, y)
      BY <1>4, <2>5, <3>1
    <3> QED BY <2>3, <2>4, <2>5, <3>1, <3>2 DEF Shut
  <2>6. x \in T /\ Shut(nd, T) /\ T \in SUBSET Nodes
    BY <1>0, <2>3, <2>4, <2>5 DEF Shut
  <2> HIDE DEF T
  <2>7. D \subseteq T
    BY <1>0, <2>6, BelowIs DEF D
  <2> QED BY <1>7, <2>2, <2>7 DEF T, S
<1>9. after[Root].type = "dir" /\ after[Root].parent = NULL
  BY <1>0 DEF Tree
<1>10. ASSUME NEW y \in Nodes, NEW z \in Kids(after, y) PROVE after[z].parent = y
  <2>1. CASE z = x
    BY <1>0, <1>4, <1>10, <2>1
  <2>2. CASE z # x
    <3>1. z \in Kids(nd, y) /\ z \in Nodes
      BY <1>0, <1>4, <1>10, <2>2, KidsAreNodes
    <3> QED BY <2>2, <3>1 DEF Tree
  <2> QED BY <2>1, <2>2
<1>11. \A y \in Live(after) : Kids(after, y) \subseteq Live(after)
  BY <1>4, <1>5, <1>7, TreeFacts
<1>12. Paths(after)
  <2> SUFFICES ASSUME NEW y \in Live(after)
               PROVE  /\ Kids(after, y) # {} => after[y].type = "dir"
                      /\ \A z, w \in Kids(after, y) :
                           after[z].name # NULL /\ after[z].name = after[w].name => z = w
    BY DEF Paths
  <2>1. y \in Live(nd) /\ y \in Nodes
    BY <1>5, <1>7
  <2>2. \A z \in Kids(after, y) : z \in Nodes /\ after[z].name = nd[z].name
    BY <1>0, <1>4, <2>1, KidsAreNodes
  <2>3. \A z, w \in Kids(nd, y) : nd[z].name # NULL /\ nd[z].name = nd[w].name => z = w
    BY <2>1 DEF Paths
  <2>4. CASE y = dir
    <3>1. Kids(after, y) = Kids(nd, y) \cup {x} /\ after[y].type = "dir"
      BY <1>0, <1>4, <2>1, <2>4
    <3>2. \A z \in Kids(nd, y) : z # x => nd[z].name # nd[x].name
      BY <2>4
    <3> QED BY <2>2, <2>3, <3>1, <3>2
  <2>5. CASE y # dir
    <3>1. Kids(after, y) = Kids(nd, y) \ {x} /\ after[y].type = nd[y].type
      BY <1>0, <1>4, <2>1, <2>5
    <3>2. Kids(nd, y) # {} => nd[y].type = "dir"
      BY <2>1 DEF Paths
    <3> QED BY <2>2, <2>3, <3>1, <3>2
  <2> QED BY <2>4, <2>5
<1>13. Tree(after)
  BY <1>4, <1>6, <1>8, <1>9, <1>10, <1>11, TreeAgain
<1> QED BY <1>7, <1>12, <1>13

\* ramfs_copy of a part of what is below x.
\* What ramfs_copy leaves of the nodes of `part`, each in its block, and of dir.
Copied(nd, after, x, dir, part, block) ==
  /\ part \in SUBSET Below(nd, x) /\ x \in part
  /\ \A y \in part : y # x => nd[y].parent \in part
  /\ block \in [part -> Nodes \ Live(nd)]
  /\ \A y, z \in part : block[y] = block[z] => y = z
  /\ \A z \in Nodes : z # dir /\ ~(\E y \in part : z = block[y]) => after[z] = nd[z]
  /\ after[dir] = [nd[dir] EXCEPT !.children = Append(@, block[x])]
  /\ \A y \in part :
       /\ after[block[y]].type = nd[y].type
       /\ after[block[y]].parent = IF y = x THEN dir ELSE block[nd[y].parent]
       /\ y # x => after[block[y]].name \in {nd[y].name, NULL}
       /\ Kids(after, block[y]) = {block[z] : z \in Kids(nd, y) \cap part}
       /\ LinkedOnce(after[block[y]].children)
  /\ \A y \in Kids(nd, dir) : after[block[x]].name # NULL => nd[y].name # after[block[x]].name

LEMMA CopyKeeps ==
  ASSUME NEW nd, Tree(nd), Paths(nd), NEW x \in Live(nd), NEW dir \in Live(nd),
         nd[dir].type = "dir", dir \notin Below(nd, x), NEW after \in Blocked,
         NEW part, NEW block, Copied(nd, after, x, dir, part, block)
  PROVE  Tree(after) /\ Live(after) = Live(nd) \cup {block[y] : y \in part} /\ Paths(after)
<1> USE DEF Copied
<1> DEFINE D == Below(nd, x)
           New == {block[y] : y \in part}
<1>0. /\ nd \in Blocked /\ Root \in Nodes /\ x \in D /\ D \subseteq Live(nd) /\ D \subseteq Nodes
      /\ Shut(nd, D) /\ \A z \in D : z # x => nd[z].parent \in D
      /\ nd[x].parent \notin D /\ dir \notin D /\ dir \in Nodes /\ x \in Nodes /\ part \subseteq D
  BY TreeFacts, PartFacts, RamFsAssumption DEF Tree
<1>1. /\ New \subseteq Nodes /\ New \cap Live(nd) = {} /\ dir \notin New /\ block[x] \in New
      /\ \A z \in Nodes : z # dir /\ z \notin New => after[z] = nd[z]
  OBVIOUS
<1>2. \A z \in New : \E y \in part : z = block[y]
  OBVIOUS
<1> HIDE DEF D, New
<1>3. nd[dir] \in Entry /\ nd[dir].children \in Seq(Nodes) /\ LinkedOnce(nd[dir].children)
  BY <1>0 DEF Tree, Blocked, Entry
<1>4. /\ after[dir].type = "dir" /\ after[dir].parent = nd[dir].parent
      /\ after[dir].name = nd[dir].name
      /\ after[dir].children = Append(nd[dir].children, block[x])
  BY <1>3 DEF Entry
<1>5. Kids(after, dir) = Kids(nd, dir) \cup {block[x]} /\ LinkedOnce(after[dir].children)
  <2>1. block[x] \in Nodes /\ block[x] \notin ToSet(nd[dir].children)
    BY <1>0, <1>1, TreeFacts DEF Kids
  <2>2. /\ ToSet(Append(nd[dir].children, block[x])) = ToSet(nd[dir].children) \cup {block[x]}
        /\ LinkedOnce(Append(nd[dir].children, block[x]))
    BY <1>3, <2>1, AppendLinks
  <2> QED BY <1>4, <2>2 DEF Kids
<1>6. /\ \A z \in Nodes : z \notin New /\ z # dir => Kids(after, z) = Kids(nd, z)
      /\ \A z \in Nodes : z \notin New => /\ after[z].type = nd[z].type
                                          /\ after[z].parent = nd[z].parent
                                          /\ after[z].name = nd[z].name
  BY <1>1, <1>4 DEF Kids
<1>7. \A y \in Nodes : y \in Live(nd) <=> nd[y].type # "none"
  BY TreeFacts
<1>8. \A y \in part : block[y] \in New /\ after[block[y]].type # "none"
  <2>1. \A y \in part : nd[y].type # "none"
    BY <1>0, <1>7
  <2> QED BY <2>1 DEF New
<1>9. \A z \in Nodes : after[z].type = "none" => after[z] = Blank
  <2> SUFFICES ASSUME NEW z \in Nodes, after[z].type = "none" PROVE after[z] = Blank
    OBVIOUS
  <2>1. z # dir
    BY <1>4
  <2>2. z \notin New
    BY <1>2, <1>8
  <2> QED BY <1>1, <2>1, <2>2 DEF Tree
<1>10. Live(after) = Live(nd) \cup New
  <2>1. \A y \in Nodes : y \in Live(after) <=> after[y].type # "none"
    BY <1>9, BlankIs DEF Live
  <2>2. Live(after) \subseteq Nodes /\ Live(nd) \subseteq Nodes
    BY DEF Live
  <2>3. \A z \in Nodes : after[z].type # "none" <=> nd[z].type # "none" \/ z \in New
    BY <1>2, <1>6, <1>8
  <2> QED BY <1>1, <1>7, <2>1, <2>2, <2>3
<1>11. \A y \in Live(nd) : Kids(nd, y) \subseteq Kids(after, y) /\ y \in Nodes /\ y \notin New
  BY <1>1, <1>5, <1>6, TreeFacts
<1>12. Live(after) \subseteq Below(after, Root)
  <2> DEFINE S == Below(after, Root)
  <2>1. Shut(nd, {}) /\ {} \in SUBSET Nodes
    BY DEF Shut
  <2>2. \A y \in Live(nd) \ {} : Kids(nd, y) \subseteq Kids(after, y) \cup {}
    BY <1>11
  <2>3. Live(nd) \subseteq S \cup {}
    BY <2>1, <2>2, Reaches
  <2>4. Shut(after, S) /\ S \subseteq Nodes
    BY <1>0, BelowIs
  <2> HIDE DEF S
  <2> DEFINE T == {y \in D : y \in part => block[y] \in S}
  <2>5. block[x] \in S
    BY <1>5, <2>3, <2>4 DEF Shut
  <2>6. ASSUME NEW y \in T, NEW z \in Kids(nd, y) PROVE z \in T
    <3>1. y \in D /\ z \in D /\ y \in Nodes /\ nd[z].parent = y /\ z # x
      BY <1>0, <2>6 DEF Shut, Tree
    <3>2. ASSUME z \in part PROVE block[z] \in S
      <4>1. y \in part /\ block[y] \in S
        BY <2>6, <3>1, <3>2
      <4>2. block[z] \in Kids(after, block[y])
        BY <2>6, <3>2, <4>1
      <4> QED BY <2>4, <4>1, <4>2 DEF Shut
    <3> QED BY <3>1, <3>2
  <2>7. x \in T /\ Shut(nd, T) /\ T \in SUBSET Nodes
    BY <1>0, <2>5, <2>6 DEF Shut
  <2> HIDE DEF T
  <2>8. D \subseteq T
    BY <1>0, <2>7, BelowIs DEF D
  <2>9. \A y \in part : block[y] \in S
    BY <1>0, <2>8 DEF T
  <2> QED BY <1>2, <1>10, <2>3, <2>9 DEF S
<1>13. after[Root].type = "dir" /\ after[Root].parent = NULL
  <2>1. Root \in Live(nd)
    BY TreeFacts
  <2> QED BY <1>6, <1>11, <2>1 DEF Tree
<1>14. ASSUME NEW y \in Nodes
       PROVE  (\A z \in Kids(after, y) : after[z].parent = y) /\ LinkedOnce(after[y].children)
  <2>1. \A z \in Kids(nd, y) : z \in Live(nd) /\ nd[z].parent = y
    BY TreeFacts DEF Tree
  <2>2. \A z \in Kids(nd, y) : after[z].parent = y
    BY <1>6, <1>11, <2>1
  <2>3. CASE y = dir
    <3>1. after[block[x]].parent = dir
      OBVIOUS
    <3> QED BY <1>5, <2>2, <2>3, <3>1
  <2>4. CASE y \in New
    <3>1. PICK w \in part : y = block[w]
      BY <1>2, <2>4
    <3>2. ASSUME NEW z \in Kids(nd, w), z \in part PROVE after[block[z]].parent = y
      <4>1. nd[z].parent = w /\ z # x
        BY <1>0, <3>2 DEF Tree
      <4> QED BY <3>1, <3>2, <4>1
    <3> QED BY <3>1, <3>2
  <2>5. CASE y # dir /\ y \notin New
    <3>1. Kids(after, y) = Kids(nd, y) /\ after[y] = nd[y]
      BY <1>1, <1>6, <2>5
    <3> QED BY <2>2, <3>1 DEF Tree
  <2> QED BY <2>3, <2>4, <2>5
<1>15. ASSUME NEW y \in Live(after) PROVE Kids(after, y) \subseteq Live(after)
  <2>1. CASE y \in New
    <3>1. PICK w \in part : y = block[w]
      BY <1>2, <2>1
    <3> QED BY <1>8, <1>10, <3>1
  <2>2. CASE y \notin New
    <3>1. y \in Live(nd) /\ y \in Nodes
      BY <1>10, <1>11, <2>2
    <3> QED BY <1>1, <1>5, <1>6, <1>10, <2>2, <3>1, TreeFacts
  <2> QED BY <2>1, <2>2
<1>16. Paths(after)
  <2> SUFFICES ASSUME NEW y \in Live(after)
               PROVE  /\ Kids(after, y) # {} => after[y].type = "dir"
                      /\ \A z, w \in Kids(after, y) :
                           after[z].name # NULL /\ after[z].name = after[w].name => z = w
    BY DEF Paths
  <2>1. ASSUME NEW u \in Live(nd)
        PROVE  /\ Kids(nd, u) # {} => nd[u].type = "dir"
               /\ \A z, w \in Kids(nd, u) : nd[z].name # NULL /\ nd[z].name = nd[w].name => z = w
               /\ \A z \in Kids(nd, u) : after[z].name = nd[z].name
    <3>1. \A z \in Kids(nd, u) : z \in Live(nd)
      BY <1>11, TreeFacts
    <3> QED BY <1>6, <1>11, <3>1 DEF Paths
  <2>2. CASE y = dir
    <3>1. \A z \in Kids(nd, y) :
            after[block[x]].name # NULL => after[z].name # after[block[x]].name
      BY <2>1, <2>2
    <3>2. ASSUME NEW z \in Kids(nd, y), NEW w \in Kids(nd, y),
                 after[z].name # NULL, after[z].name = after[w].name
          PROVE  z = w
      BY <2>1, <2>2, <3>2
    <3>3. Kids(after, y) = Kids(nd, y) \cup {block[x]} /\ after[y].type = "dir"
      BY <1>4, <1>5, <2>2
    <3> HIDE DEF Kids
    <3> QED BY <3>1, <3>2, <3>3
  <2>3. CASE y \in New
    <3>1. PICK u \in part : y = block[u]
      BY <1>2, <2>3
    <3>2. u \in Live(nd) /\ u \in D
      BY <1>0
    <3>3. Kids(after, y) = {block[z] : z \in Kids(nd, u) \cap part} /\ after[y].type = nd[u].type
      BY <3>1
    <3>4. ASSUME NEW z \in Kids(nd, u) \cap part PROVE after[block[z]].name \in {nd[z].name, NULL}
      <4>1. nd[z].parent = u /\ z # x
        BY <1>0, <3>2, <3>4 DEF Tree
      <4> QED BY <3>4, <4>1
    <3>5. ASSUME NEW z \in Kids(nd, u) \cap part, NEW w \in Kids(nd, u) \cap part,
                 after[block[z]].name # NULL, after[block[z]].name = after[block[w]].name
          PROVE  block[z] = block[w]
      <4>1. nd[z].name # NULL /\ nd[z].name = nd[w].name
        BY <3>4, <3>5
      <4>2. z = w
        BY <2>1, <3>2, <3>5, <4>1
      <4> QED BY <4>2
    <3>6. Kids(after, y) # {} => after[y].type = "dir"
      BY <2>1, <3>2, <3>3
    <3> QED BY <3>3, <3>5, <3>6
  <2>4. CASE y # dir /\ y \notin New
    <3>1. y \in Live(nd) /\ Kids(after, y) = Kids(nd, y) /\ after[y].type = nd[y].type
      BY <1>6, <1>10, <1>11, <2>4
    <3> QED BY <2>1, <3>1
  <2> QED BY <2>2, <2>3, <2>4
<1>17. Tree(after)
  BY <1>9, <1>12, <1>13, <1>14, <1>15, TreeAgain
<1> QED BY <1>10, <1>16, <1>17 DEF New
----------------------------------------------------------------------------
(* The inductive invariant                                                 *)

\* Nothing that a call follows is missing.
Whole(nd) ==
  \A y \in Live(nd) : nd[y].name # NULL /\ (nd[y].size > 0 => nd[y].data # NULL)

FsInv ==
  /\ Tree(node) /\ Paths(node)
  /\ marks \in 0..MaxMarks /\ fault \in BOOLEAN
  /\ marks = 0 => ~fault /\ Whole(node)

LEMMA NamesAre ==
  /\ NULL \notin Names /\ NewNames \subseteq Names
  /\ [stem |-> "/", copies |-> 0] \in Names
  /\ \A m \in Names : CopyName(m).copies <= MaxCopies => CopyName(m) \in Names
<1>1. MaxCopies \in Nat /\ NULL \notin Names
  BY RamFsAssumption
<1>2. 0 \in 0..MaxCopies
  BY <1>1
<1>3. NewNames \subseteq Names
  BY <1>2 DEF NewNames, Names
<1>4. [stem |-> "/", copies |-> 0] \in Names
  BY <1>2 DEF Names
<1> DEFINE stems == Stems \cup {"/"}
<1>5. Names = [stem : stems, copies : 0..MaxCopies]
  BY DEF Names
<1> HIDE DEF stems
<1>6. ASSUME NEW m \in Names, CopyName(m).copies <= MaxCopies PROVE CopyName(m) \in Names
  BY <1>1, <1>5, <1>6 DEF CopyName
<1> QED BY <1>1, <1>3, <1>4, <1>6

LEMMA FsStart == Init => FsInv
<1> SUFFICES ASSUME Init PROVE FsInv
  OBVIOUS
<1> DEFINE name == [stem |-> "/", copies |-> 0]
           root == [Blank EXCEPT !.type = "dir", !.name = name]
<1>0. Root \in Nodes /\ MaxMarks \in Nat /\ name \in Names /\ name # NULL
  BY RamFsAssumption, NamesAre
<1>1. node = [x \in Nodes |-> IF x = Root THEN root ELSE Blank] /\ marks = 0 /\ fault = FALSE
  BY DEF Init
<1> HIDE DEF name
<1>2. root \in Entry
  BY <1>0, BlankIs DEF Entry, Kinds
<1>3. /\ root.type = "dir" /\ root.name = name /\ root.parent = NULL /\ root.children = <<>>
      /\ root.size = 0
  BY <1>0, BlankIs DEF Entry
<1> HIDE DEF root
<1>4. node \in Blocked
  BY <1>1, <1>2, BlankIs DEF Blocked
<1>5. \A y \in Nodes : node[y].children = <<>>
  BY <1>1, <1>3, BlankIs
<1>6. \A y \in Nodes : Kids(node, y) = {} /\ LinkedOnce(node[y].children)
  BY <1>5 DEF Kids, ToSet, LinkedOnce
<1>7. Live(node) = {Root}
  BY <1>0, <1>1, <1>3, BlankIs DEF Live
<1>8. Live(node) \subseteq Below(node, Root)
  BY <1>0, <1>4, <1>7, BelowIs
<1>9. /\ \A y \in Nodes : node[y].type = "none" => node[y] = Blank
      /\ node[Root].type = "dir" /\ node[Root].parent = NULL
  BY <1>0, <1>1, <1>3
<1>10. \A y \in Live(node) : Kids(node, y) \subseteq Live(node)
  BY <1>0, <1>6, <1>7
<1>11. Tree(node)
  BY <1>4, <1>6, <1>8, <1>9, <1>10, TreeAgain
<1>12. Paths(node) /\ Whole(node)
  BY <1>0, <1>1, <1>3, <1>6, <1>7 DEF Paths, Whole
<1>13. marks \in 0..MaxMarks /\ fault = FALSE
  BY <1>0, <1>1
<1> QED BY <1>1, <1>11, <1>12, <1>13 DEF FsInv

LEMMA EndsKeeps ==
  ASSUME FsInv, NEW n \in Nat, Ends(n), Tree(node'), Paths(node'),
         marks = 0 /\ n = 0 => Whole(node')
  PROVE  FsInv'
<1>1. /\ marks \in 0..MaxMarks /\ marks' = marks + n /\ marks' <= MaxMarks /\ fault' = fault
      /\ MaxMarks \in Nat
  BY RamFsAssumption DEF FsInv, Ends
<1>2. marks' \in 0..MaxMarks /\ (marks' = 0 => marks = 0 /\ n = 0)
  BY <1>1
<1> QED BY <1>1, <1>2 DEF FsInv

LEMMA FaultKeeps == FsInv /\ Fault /\ marks # 0 => FsInv'
BY DEF FsInv, Fault

\* No search comes to a node without a name while there is no mark.
LEMMA SearchFinds ==
  ASSUME FsInv, marks = 0, NEW dir \in Live(node), NEW n
  PROVE  ~FindFaults(dir, n)
<1>1. node[dir].children \in Seq(Nodes) /\ dir \in Nodes
  BY TreeFacts DEF FsInv, Tree, Blocked, Entry
<1>2. \A i \in DOMAIN node[dir].children : node[dir].children[i] \in Kids(node, dir)
  BY <1>1 DEF Kids, ToSet
<1>3. \A y \in Kids(node, dir) : node[y].name # NULL
  BY <1>1, TreeFacts DEF FsInv, Whole
<1> QED BY <1>2, <1>3 DEF FindFaults

LEMMA MarkIs == \A failed \in BOOLEAN : Mark(failed) \in Nat /\ (Mark(failed) = 0 <=> ~failed)
BY DEF Mark
----------------------------------------------------------------------------
(* The calls                                                               *)

LEMMA CreateStep ==
  ASSUME FsInv, NEW dir \in Live(node), NEW n \in NewNames, NEW ty \in {"file", "dir"},
         Create(dir, n, ty)
  PROVE  FsInv'
<1>1. CASE FindFaults(dir, n) /\ Fault
  BY <1>1, SearchFinds, FaultKeeps
<1>2. CASE /\ ~FindFaults(dir, n) /\ ~Taken(dir, n)
           /\ \E x \in Nodes \ live, name \in Strdup(n) :
                /\ node' = [node EXCEPT
                     ![x] = [Blank EXCEPT !.type = ty, !.name = name, !.parent = dir],
                     ![dir].children = Append(@, x)]
                /\ Ends(Mark(name = NULL))
  <2>1. PICK x \in Nodes \ Live(node), name \in Strdup(n) :
          /\ node' = [node EXCEPT
               ![x] = [Blank EXCEPT !.type = ty, !.name = name, !.parent = dir],
               ![dir].children = Append(@, x)]
          /\ Ends(Mark(name = NULL))
    BY <1>2, SubtreeIsBelow
  <2> DEFINE new == [Blank EXCEPT !.type = ty, !.name = name, !.parent = dir]
             old == [node[dir] EXCEPT !.children = Append(@, x)]
  <2>2. /\ node \in Blocked /\ Tree(node) /\ Paths(node) /\ dir \in Nodes /\ x # dir
        /\ node[dir] \in Entry /\ node[dir].type = "dir"
    BY TreeFacts DEF FsInv, Tree, Blocked, Create
  <2>3. name \in Names \cup {NULL} /\ (name # NULL => name = n)
    BY NamesAre DEF Strdup
  <2>4. /\ new \in Entry /\ new.type = ty /\ new.name = name /\ new.parent = dir
        /\ new.children = <<>> /\ new.size = 0
    BY <2>2, <2>3, BlankIs DEF Entry, Kinds
  <2>5. /\ old \in Entry /\ old.type = node[dir].type /\ old.parent = node[dir].parent
        /\ old.name = node[dir].name /\ old.children = Append(node[dir].children, x)
        /\ old.size = node[dir].size /\ old.data = node[dir].data
    <3>1. x \in Nodes /\ node[dir].children \in Seq(Nodes)
      BY <2>2 DEF Entry
    <3> DEFINE longer == Append(node[dir].children, x)
    <3>2. longer \in Seq(Nodes)
      BY <3>1
    <3>3. old = [node[dir] EXCEPT !.children = longer]
      BY <2>2 DEF Entry
    <3> HIDE DEF longer, old
    <3>4. /\ old \in Entry /\ old.type = node[dir].type /\ old.parent = node[dir].parent
          /\ old.name = node[dir].name /\ old.children = longer
          /\ old.size = node[dir].size /\ old.data = node[dir].data
      BY <2>2, <3>2, <3>3 DEF Entry
    <3> QED BY <3>4 DEF longer
  <2>6. /\ node' = [y \in Nodes |-> IF y = dir THEN old ELSE IF y = x THEN new ELSE node[y]]
        /\ Ends(Mark(name = NULL))
    BY <2>1, <2>2 DEF Blocked
  <2> HIDE DEF new, old
  <2>7. /\ node' \in Blocked /\ node'[x] = new /\ node'[dir] = old
        /\ \A y \in Nodes : y # x /\ y # dir => node'[y] = node[y]
    BY <2>2, <2>4, <2>5, <2>6 DEF Blocked
  <2>8. \A y \in Kids(node, dir) : name # NULL => node[y].name # name
    BY <1>2, <2>3 DEF Taken, Kids
  <2> DEFINE after == node'
  <2>9. /\ after \in Blocked /\ after[x] = new /\ after[dir] = old
        /\ \A y \in Nodes : y # x /\ y # dir => after[y] = node[y]
    BY <2>7
  <2> HIDE DEF after
  <2>10. Tree(after) /\ Live(after) = Live(node) \cup {x} /\ Paths(after)
    BY <2>2, <2>4, <2>5, <2>8, <2>9, CreateKeeps
  <2>11. ASSUME marks = 0, Mark(name = NULL) = 0 PROVE Whole(after)
    <3>1. name # NULL
      BY <2>11, MarkIs
    <3>2. \A y \in Live(node) : y \in Nodes /\ node[y].name # NULL /\ (node[y].size > 0 => node[y].data # NULL)
      BY <2>2, <2>11, TreeFacts DEF FsInv, Whole
    <3>3. ~(0 > 0)
      OBVIOUS
    <3>4. after[x].name # NULL /\ ~(after[x].size > 0)
      BY <2>4, <2>9, <3>1, <3>3
    <3>5. \A y \in Live(node) : after[y].name # NULL /\ (after[y].size > 0 => after[y].data # NULL)
      BY <2>5, <2>9, <3>2
    <3> QED BY <2>10, <3>4, <3>5 DEF Whole
  <2>12. Mark(name = NULL) \in Nat
    BY MarkIs
  <2> QED BY <2>6, <2>10, <2>11, <2>12, EndsKeeps DEF after
<1> QED BY <1>1, <1>2 DEF Create

\* What a change of a node's name, data or size is.
LEMMA Relabelled ==
  ASSUME FsInv, NEW x \in Live(node), NEW e \in Entry,
         e.type = node[x].type, e.parent = node[x].parent, e.children = node[x].children,
         node' = [node EXCEPT ![x] = e]
  PROVE  /\ Tree(node') /\ Live(node') = Live(node) /\ node'[x] = e
         /\ \A y \in Nodes : /\ Kids(node', y) = Kids(node, y)
                             /\ y # x => node'[y] = node[y]
                             /\ node'[y].type = node[y].type
<1> DEFINE after == node'
<1>1. node \in Blocked /\ Tree(node) /\ x \in Nodes
  BY TreeFacts DEF FsInv, Tree
<1>2. after \in Blocked /\ after[x] = e /\ \A y \in Nodes : y # x => after[y] = node[y]
  BY <1>1 DEF Blocked
<1> HIDE DEF after
<1>3. /\ Tree(after) /\ Live(after) = Live(node)
      /\ \A y \in Nodes : Kids(after, y) = Kids(node, y) /\ after[y].type = node[y].type
  BY <1>1, <1>2, RelabelKeeps
<1> QED BY <1>2, <1>3 DEF after

\* A file's contents change, and nothing else.
LEMMA ContentsStep ==
  ASSUME FsInv, NEW x \in Live(node), NEW e \in Entry,
         e.type = node[x].type, e.parent = node[x].parent,
         e.children = node[x].children, e.name = node[x].name,
         node' = [node EXCEPT ![x] = e], NEW n \in Nat, Ends(n),
         marks = 0 /\ n = 0 => (e.size > 0 => e.data # NULL)
  PROVE  FsInv'
<1>1. node \in Blocked /\ Tree(node) /\ x \in Nodes
  BY TreeFacts DEF FsInv, Tree, Blocked
<1>2. /\ Tree(node') /\ Live(node') = Live(node) /\ node'[x] = e
      /\ \A y \in Nodes : /\ Kids(node', y) = Kids(node, y)
                          /\ y # x => node'[y] = node[y]
                          /\ node'[y].type = node[y].type
  BY <1>1, Relabelled
<1>3. \A y \in Nodes : node'[y].name = node[y].name
  BY <1>2
<1>4. Paths(node')
  <2>1. \A y \in Live(node) : y \in Nodes /\ Kids(node, y) \subseteq Nodes
    BY <1>1, TreeFacts, KidsAreNodes
  <2>2. Paths(node)
    BY DEF FsInv
  <2>3. \A y \in Live(node) : /\ Kids(node', y) = Kids(node, y)
                              /\ node'[y].type = node[y].type
                              /\ \A z \in Kids(node, y) : node'[z].name = node[z].name
    BY <1>2, <1>3, <2>1
  <2>4. \A y \in Live(node) : Kids(node', y) # {} => node'[y].type = "dir"
    BY <2>2, <2>3, Zenon DEF Paths
  <2>5. \A y \in Live(node) : \A z, w \in Kids(node', y) :
          node'[z].name # NULL /\ node'[z].name = node'[w].name => z = w
    <3> TAKE y \in Live(node)
    <3> TAKE z, w \in Kids(node', y)
    <3>1. z \in Kids(node, y) /\ w \in Kids(node, y)
      BY <2>3
    <3>2. node'[z].name = node[z].name /\ node'[w].name = node[w].name
      BY <2>3, <3>1
    <3>3. node[z].name # NULL /\ node[z].name = node[w].name => z = w
      BY <2>2, <3>1, Zenon DEF Paths
    <3> QED BY <3>2, <3>3
  <2> QED BY <1>2, <2>4, <2>5, Zenon DEF Paths
<1>5. ASSUME marks = 0, n = 0 PROVE Whole(node')
  <2>1. \A y \in Live(node) : y \in Nodes /\ node[y].name # NULL /\ (node[y].size > 0 => node[y].data # NULL)
    BY <1>1, <1>5, TreeFacts DEF FsInv, Whole
  <2> QED BY <1>2, <1>3, <1>5, <2>1 DEF Whole
<1> QED BY <1>2, <1>4, <1>5, EndsKeeps

\* A file loses its bytes and keeps its size.
LEMMA DropsStep ==
  ASSUME FsInv, NEW x \in Live(node), Drops(x)
  PROVE  FsInv'
<1>1. node \in Blocked /\ x \in Nodes /\ node[x] \in Entry
  BY TreeFacts DEF FsInv, Tree, Blocked
<1> DEFINE e == [node[x] EXCEPT !.data = NULL]
<1>2. /\ e \in Entry /\ e.type = node[x].type /\ e.parent = node[x].parent
      /\ e.children = node[x].children /\ e.name = node[x].name /\ e.size = node[x].size
  BY <1>1 DEF Entry
<1>3. node' = [node EXCEPT ![x] = e] /\ Ends(Mark(node[x].size > 0))
  BY <1>1 DEF Drops, Blocked
<1> HIDE DEF e
<1>4. Mark(node[x].size > 0) \in Nat /\ (Mark(node[x].size > 0) = 0 => ~(node[x].size > 0))
  BY DEF Mark
<1> QED BY <1>2, <1>3, <1>4, ContentsStep

LEMMA WriteStep ==
  ASSUME FsInv, NEW x \in Live(node), NEW v \in Contents, Write(x, v)
  PROVE  FsInv'
<1>1. node \in Blocked /\ x \in Nodes /\ node[x] \in Entry /\ v # NULL
  BY TreeFacts, RamFsAssumption DEF FsInv, Tree, Blocked
<1>2. CASE node' = [node EXCEPT ![x].data = v, ![x].size = 1] /\ Ends(0)
  <2> DEFINE e == [node[x] EXCEPT !.data = v, !.size = 1]
  <2>1. /\ e \in Entry /\ e.type = node[x].type /\ e.parent = node[x].parent
        /\ e.children = node[x].children /\ e.name = node[x].name /\ e.data = v
    BY <1>1 DEF Entry
  <2>2. node' = [node EXCEPT ![x] = e]
    BY <1>1, <1>2 DEF Blocked
  <2> HIDE DEF e
  <2> QED BY <1>1, <1>2, <2>1, <2>2, ContentsStep
<1>3. CASE Drops(x)
  BY <1>3, DropsStep
<1> QED BY <1>2, <1>3 DEF Write

LEMMA RenameStep ==
  ASSUME FsInv, NEW x \in Live(node), NEW n \in NewNames, Rename(x, n)
  PROVE  FsInv'
<1> DEFINE dir == node[x].parent
<1>1. /\ node \in Blocked /\ Tree(node) /\ Paths(node) /\ x \in Nodes /\ node[x] \in Entry /\ x # Root
      /\ dir \in Live(node)
  BY TreeFacts DEF FsInv, Tree, Blocked, Rename
<1>2. CASE FindFaults(dir, n) /\ Fault
  BY <1>1, <1>2, SearchFinds, FaultKeeps
<1>3. CASE /\ ~FindFaults(dir, n) /\ ~Taken(dir, n)
           /\ \E name \in Strdup(n) :
                /\ node' = [node EXCEPT ![x].name = name]
                /\ Ends(Mark(name = NULL))
  <2>1. PICK name \in Strdup(n) :
          /\ node' = [node EXCEPT ![x].name = name]
          /\ Ends(Mark(name = NULL))
    BY <1>3
  <2> DEFINE e == [node[x] EXCEPT !.name = name]
  <2>2. name \in Names \cup {NULL} /\ (name # NULL => name = n)
    BY NamesAre DEF Strdup
  <2>3. /\ e \in Entry /\ e.type = node[x].type /\ e.parent = node[x].parent
        /\ e.children = node[x].children /\ e.name = name /\ e.size = node[x].size
        /\ e.data = node[x].data
    BY <1>1, <2>2 DEF Entry
  <2>4. node' = [node EXCEPT ![x] = e]
    BY <1>1, <2>1 DEF Blocked
  <2> HIDE DEF e
  <2>5. /\ Tree(node') /\ Live(node') = Live(node) /\ node'[x] = e
        /\ \A y \in Nodes : /\ Kids(node', y) = Kids(node, y)
                            /\ y # x => node'[y] = node[y]
                            /\ node'[y].type = node[y].type
    BY <2>3, <2>4, Relabelled
  <2>6. \A y \in Kids(node, dir) : name # NULL => node[y].name # name
    BY <1>3, <2>2 DEF Taken, Kids
  <2>7. Paths(node')
    <3> SUFFICES ASSUME NEW y \in Live(node')
                 PROVE  /\ Kids(node', y) # {} => node'[y].type = "dir"
                        /\ \A z, w \in Kids(node', y) :
                             node'[z].name # NULL /\ node'[z].name = node'[w].name => z = w
      BY DEF Paths
    <3>1. /\ y \in Live(node) /\ y \in Nodes /\ Kids(node', y) = Kids(node, y)
          /\ node'[y].type = node[y].type
      BY <1>1, <2>5, TreeFacts
    <3>2. \A z \in Kids(node, y) : z \in Nodes /\ node[z].parent = y
      BY <1>1, <3>1, KidsAreNodes DEF Tree
    <3>3. \A z, w \in Kids(node, y) : node[z].name # NULL /\ node[z].name = node[w].name => z = w
      BY <1>1, <3>1 DEF Paths
    <3>4. Kids(node, y) # {} => node[y].type = "dir"
      BY <1>1, <3>1 DEF Paths
    <3>5. ASSUME NEW z \in Kids(node, y), NEW w \in Kids(node, y),
                 node'[z].name # NULL, node'[z].name = node'[w].name
          PROVE  z = w
      <4>1. CASE z # x /\ w # x
        BY <2>5, <3>2, <3>3, <3>5, <4>1
      <4>2. CASE z = x /\ w # x
        <5>1. y = dir /\ node'[w] = node[w] /\ node'[z].name = name
          BY <2>3, <2>5, <3>2, <4>2
        <5> QED BY <2>6, <3>5, <5>1
      <4>3. CASE z # x /\ w = x
        <5>1. y = dir /\ node'[z] = node[z] /\ node'[w].name = name
          BY <2>3, <2>5, <3>2, <4>3
        <5> QED BY <2>6, <3>5, <5>1
      <4> QED BY <4>1, <4>2, <4>3
    <3> QED BY <3>1, <3>4, <3>5
  <2>8. ASSUME marks = 0, Mark(name = NULL) = 0 PROVE Whole(node')
    <3>1. \A y \in Live(node) : y \in Nodes /\ node[y].name # NULL /\ (node[y].size > 0 => node[y].data # NULL)
      BY <1>1, <2>8, TreeFacts DEF FsInv, Whole
    <3>2. name # NULL
      BY <2>8, MarkIs
    <3> QED BY <2>3, <2>5, <3>1, <3>2 DEF Whole
  <2>9. Mark(name = NULL) \in Nat /\ Ends(Mark(name = NULL))
    BY <2>1, MarkIs
  <2> QED BY <2>5, <2>7, <2>8, <2>9, EndsKeeps
<1> QED BY <1>2, <1>3 DEF Rename

\* What unlinking a node leaves of its parent.
LEMMA UnlinkIs ==
  ASSUME FsInv, NEW x \in Live(node), x # Root
  PROVE  /\ node[x].parent \in Live(node) /\ node[x].parent # x /\ Unlink(x) \in Blocked
         /\ Unlink(x)[node[x].parent] = [node[node[x].parent] EXCEPT !.children = Unlinked(@, x)]
         /\ \A y \in Nodes : y # node[x].parent => Unlink(x)[y] = node[y]
<1> DEFINE dir == node[x].parent
           old == [node[dir] EXCEPT !.children = Unlinked(@, x)]
<1>1. Tree(node) /\ node \in Blocked /\ dir \in Live(node) /\ dir \in Nodes /\ node[dir] \in Entry
  BY TreeFacts DEF FsInv, Tree, Blocked
<1>2. dir # x
  BY <1>1, PartFacts
<1>3. Unlink(x) = [node EXCEPT ![dir] = old]
  BY <1>1 DEF Unlink, Blocked
<1>4. old \in Entry
  <2>1. node[dir].children \in Seq(Nodes) /\ LinkedOnce(node[dir].children)
    BY <1>1 DEF Entry, Tree
  <2>2. Unlinked(node[dir].children, x) \in Seq(Nodes)
    BY <2>1, UnlinkedIs
  <2> DEFINE less == Unlinked(node[dir].children, x)
  <2>3. old = [node[dir] EXCEPT !.children = less] /\ less \in Seq(Nodes)
    BY <1>1, <2>2 DEF Entry
  <2> HIDE DEF less
  <2> QED BY <1>1, <2>3 DEF Entry
<1> HIDE DEF old
<1>5. /\ Unlink(x) \in Blocked /\ Unlink(x)[dir] = old
      /\ \A y \in Nodes : y # dir => Unlink(x)[y] = node[y]
  BY <1>1, <1>3, <1>4 DEF Blocked
<1> QED BY <1>1, <1>2, <1>5 DEF old

\* What ramfs_remove and ramfs_delete of a node other than the root do.
LEMMA CutStep ==
  ASSUME FsInv, NEW x \in Live(node), x # Root, Ends(0), node' \in Blocked,
         \A y \in Below(node, x) : node'[y] = Blank,
         \A y \in Nodes : y \notin Below(node, x) => node'[y] = Unlink(x)[y]
  PROVE  FsInv'
<1> DEFINE after == node'
           dir == node[x].parent
<1>1. Tree(node) /\ Paths(node) /\ dir \in Nodes /\ dir \notin Below(node, x)
  BY UnlinkIs, PartFacts, TreeFacts DEF FsInv
<1>2. /\ after \in Blocked /\ \A y \in Below(node, x) : after[y] = Blank
      /\ \A y \in Nodes : y \notin Below(node, x) /\ y # dir => after[y] = node[y]
      /\ after[dir] = [node[dir] EXCEPT !.children = Unlinked(@, x)]
  BY <1>1, UnlinkIs
<1> HIDE DEF after
<1>3. /\ Tree(after) /\ Live(after) = Live(node) \ Below(node, x) /\ Paths(after)
      /\ \A y \in Live(after) : /\ after[y].name = node[y].name /\ after[y].size = node[y].size
                                /\ after[y].data = node[y].data
  BY <1>1, <1>2, CutKeeps
<1>4. marks = 0 => Whole(after)
  BY <1>3 DEF FsInv, Whole
<1> QED BY <1>3, <1>4, EndsKeeps DEF after

LEMMA RemoveStep ==
  ASSUME FsInv, NEW x \in Live(node), RemoveNode(x)
  PROVE  FsInv'
<1>1. /\ x # Root /\ node[x].children = <<>> /\ Ends(0)
      /\ node' = [Unlink(x) EXCEPT ![x] = Blank]
  BY DEF RemoveNode
<1>2. node \in Blocked /\ x \in Nodes /\ Tree(node)
  BY TreeFacts DEF FsInv, Tree
<1>3. Below(node, x) = {x}
  <2>1. Kids(node, x) = {}
    BY <1>1 DEF Kids, ToSet
  <2>2. Shut(node, {x})
    BY <2>1 DEF Shut
  <2> QED BY <1>2, <2>2, BelowIs
<1>4. Unlink(x) \in Blocked
  BY <1>1, UnlinkIs
<1>5. /\ node' \in Blocked /\ node'[x] = Blank
      /\ \A y \in Nodes : y # x => node'[y] = Unlink(x)[y]
  BY <1>1, <1>2, <1>4, BlankIs DEF Blocked
<1> QED BY <1>1, <1>3, <1>5, CutStep

LEMMA DeleteStep ==
  ASSUME FsInv, NEW x \in Live(node), Delete(x)
  PROVE  FsInv'
<1>1. /\ node' = [y \in Nodes |->
                    IF y \in Below(node, x) \ {Root} THEN Blank
                    ELSE IF x = Root /\ y = Root THEN [node[Root] EXCEPT !.children = <<>>]
                    ELSE Unlink(x)[y]]
      /\ Ends(0)
  BY SubtreeIsBelow DEF Delete
<1>2. node \in Blocked /\ x \in Nodes /\ Root \in Nodes /\ Tree(node) /\ Live(node) \subseteq Nodes
  BY TreeFacts DEF FsInv, Tree
<1>3. CASE x # Root
  <2>1. Root \notin Below(node, x) /\ Below(node, x) \subseteq Nodes
    BY <1>2, <1>3, PartFacts, BelowIs
  <2>2. Unlink(x) \in Blocked
    BY <1>3, UnlinkIs
  <2>3. /\ \A y \in Below(node, x) : node'[y] = Blank
        /\ \A y \in Nodes : y \notin Below(node, x) => node'[y] = Unlink(x)[y]
    BY <1>1, <1>3, <2>1
  <2>4. node' \in Blocked
    <3>1. node' = [y \in Nodes |-> IF y \in Below(node, x) THEN Blank ELSE Unlink(x)[y]]
      BY <1>1, <1>3, <2>1
    <3> QED BY <2>2, <3>1, BlankIs DEF Blocked
  <2> QED BY <1>1, <1>3, <2>3, <2>4, CutStep
<1>4. CASE x = Root
  <2> DEFINE after == node'
             bare == [node[Root] EXCEPT !.children = <<>>]
  <2>1. Live(node) \subseteq Below(node, Root)
    <3>1. Live(node) \subseteq Below(node, Root) \cup {}
      BY <1>2, Reaches DEF Shut
    <3> QED BY <3>1
  <2>2. \A y \in Nodes \ Live(node) : node[y] = Blank
    BY <1>2, TreeFacts
  <2>3. bare \in Entry
    <3>1. node[Root] \in Entry /\ <<>> \in Seq(Nodes)
      BY <1>2 DEF Blocked
    <3> DEFINE none == <<>>
    <3>2. bare = [node[Root] EXCEPT !.children = none] /\ none \in Seq(Nodes)
      BY <3>1
    <3> HIDE DEF none
    <3> QED BY <3>1, <3>2 DEF Entry
  <2> HIDE DEF bare
  <2>4. after = [y \in Nodes |-> IF y = Root THEN bare ELSE Blank]
    <3>1. \A y \in Nodes : y # Root =>
            (IF y \in Below(node, x) \ {Root} THEN Blank
             ELSE IF x = Root /\ y = Root THEN bare ELSE Unlink(x)[y]) = Blank
      <4>1. Unlink(x) = node
        BY <1>4 DEF Unlink
      <4> QED BY <1>4, <2>1, <2>2, <4>1
    <3> QED BY <1>1, <1>4, <3>1 DEF bare
  <2>5. after \in Blocked /\ after[Root] = bare /\ \A y \in Nodes : y # Root => after[y] = Blank
    BY <1>2, <2>3, <2>4, BlankIs DEF Blocked
  <2> HIDE DEF after
  <2>6. /\ Tree(after) /\ Live(after) = {Root} /\ Paths(after)
        /\ after[Root].name = node[Root].name /\ after[Root].size = node[Root].size
        /\ after[Root].data = node[Root].data
    BY <1>2, <2>5, ClearKeeps DEF bare
  <2>7. marks = 0 => Whole(after)
    <3>1. Root \in Live(node)
      BY <1>2, TreeFacts
    <3> QED BY <2>6, <3>1 DEF FsInv, Whole
  <2> QED BY <1>1, <2>6, <2>7, EndsKeeps DEF after
<1> QED BY <1>3, <1>4

LEMMA ReadStep ==
  ASSUME FsInv, NEW x \in Live(node), Read(x)
  PROVE  FsInv'
<1>1. marks # 0
  BY DEF Read, ReadFaults, FsInv, Whole
<1> QED BY <1>1, FaultKeeps DEF Read

LEMMA MoveStep ==
  ASSUME FsInv, Careful, NEW x \in Live(node), NEW dir \in Live(node), Move(x, dir)
  PROVE  FsInv'
<1> DEFINE from == node[x].parent
           off == Unlink(x)
           after == node'
<1>1. /\ x # Root /\ x # dir /\ Ends(0)
      /\ node' = [off EXCEPT ![dir].children = Append(@, x), ![x].parent = dir]
  BY DEF Move
<1>2. /\ node[dir].type = "dir" /\ dir \notin Below(node, x)
      /\ \A y \in Kids(node, dir) : y # x => node[y].name # node[x].name
  BY SubtreeIsBelow DEF Move, CarefulMove, Kids
<1>3. /\ node \in Blocked /\ x \in Nodes /\ dir \in Nodes /\ from \in Nodes /\ from # x
      /\ Tree(node) /\ Paths(node) /\ off \in Blocked
      /\ off[from] = [node[from] EXCEPT !.children = Unlinked(@, x)]
      /\ \A y \in Nodes : y # from => off[y] = node[y]
  BY <1>1, TreeFacts, UnlinkIs DEF FsInv, Tree
<1> HIDE DEF off
<1>4. \A y \in Nodes : /\ off[y] \in Entry /\ node[y] \in Entry
                       /\ off[y].type = node[y].type /\ off[y].name = node[y].name
                       /\ off[y].data = node[y].data /\ off[y].size = node[y].size
                       /\ off[y].parent = node[y].parent
                       /\ y # from => off[y].children = node[y].children
  <2>1. node[from] \in Entry
    BY <1>3 DEF Blocked
  <2>2. /\ off[from].type = node[from].type /\ off[from].name = node[from].name
        /\ off[from].data = node[from].data /\ off[from].size = node[from].size
        /\ off[from].parent = node[from].parent
    BY <1>3, <2>1 DEF Entry
  <2> QED BY <1>3, <2>2 DEF Blocked
<1>5. off[from].children = Unlinked(node[from].children, x)
  BY <1>3, <1>4 DEF Entry
<1> DEFINE longer == Append(off[dir].children, x)
           new == [off[dir] EXCEPT !.children = longer]
           moved == [off[x] EXCEPT !.parent = dir]
<1>6. longer \in Seq(Nodes)
  <2>1. off[dir].children \in Seq(Nodes)
    BY <1>3, <1>4 DEF Entry
  <2> QED BY <1>3, <2>1
<1>7. node' = [y \in Nodes |-> IF y = dir THEN new ELSE IF y = x THEN moved ELSE off[y]]
  BY <1>1, <1>3 DEF Blocked
<1> HIDE DEF longer
<1>8. /\ new \in Entry /\ new.type = off[dir].type /\ new.name = off[dir].name
      /\ new.data = off[dir].data /\ new.size = off[dir].size /\ new.parent = off[dir].parent
      /\ new.children = longer
  <2>1. off[dir] \in Entry
    BY <1>3, <1>4
  <2> QED BY <1>6, <2>1 DEF Entry
<1>9. /\ moved \in Entry /\ moved.type = off[x].type /\ moved.name = off[x].name
      /\ moved.data = off[x].data /\ moved.size = off[x].size /\ moved.parent = dir
      /\ moved.children = off[x].children
  <2>1. off[x] \in Entry
    BY <1>3, <1>4
  <2> QED BY <1>3, <2>1 DEF Entry
<1> HIDE DEF new, moved
<1>10. /\ after \in Blocked /\ after[dir] = new /\ after[x] = moved
       /\ \A y \in Nodes : y # dir /\ y # x => after[y] = off[y]
  <2>1. \A y \in Nodes : (IF y = dir THEN new ELSE IF y = x THEN moved ELSE off[y]) \in Entry
    BY <1>4, <1>8, <1>9
  <2>2. after = [y \in Nodes |-> IF y = dir THEN new ELSE IF y = x THEN moved ELSE off[y]]
    BY <1>7
  <2> HIDE DEF after
  <2> QED BY <1>1, <1>3, <2>1, <2>2 DEF Blocked
<1> HIDE DEF after
<1>11. \A y \in Nodes : /\ after[y].type = node[y].type /\ after[y].name = node[y].name
                        /\ after[y].data = node[y].data /\ after[y].size = node[y].size
                        /\ after[y].parent = IF y = x THEN dir ELSE node[y].parent
                        /\ y # dir => after[y].children = off[y].children
  BY <1>1, <1>4, <1>8, <1>9, <1>10
<1>12. \A y \in Nodes : y # dir /\ y # from => after[y].children = node[y].children
  BY <1>4, <1>11
<1>13. from # dir => after[from].children = Unlinked(node[from].children, x)
  BY <1>3, <1>5, <1>11
<1>14. after[dir].children =
         Append(IF from = dir THEN Unlinked(node[dir].children, x) ELSE node[dir].children, x)
  BY <1>3, <1>4, <1>5, <1>8, <1>10 DEF longer
<1>15. Tree(after) /\ Live(after) = Live(node) /\ Paths(after)
  BY <1>1, <1>2, <1>3, <1>10, <1>11, <1>12, <1>13, <1>14, MoveKeeps
<1>16. marks = 0 => Whole(after)
  <2>1. Live(node) \subseteq Nodes
    BY <1>3, TreeFacts
  <2> QED BY <1>11, <1>15, <2>1 DEF FsInv, Whole
<1> QED BY <1>1, <1>15, <1>16, EndsKeeps DEF after
----------------------------------------------------------------------------
(* ramfs_copy                                                              *)

\* There are blocks enough for what gets copied.
LEMMA BlocksAre ==
  ASSUME NEW part \in SUBSET Nodes, Cardinality(part) <= Cardinality(Nodes \ live)
  PROVE  /\ Blocks(part) \in [part -> Nodes \ live]
         /\ \A x, y \in part : Blocks(part)[x] = Blocks(part)[y] => x = y
<1> DEFINE free == Nodes \ live
           p == Cardinality(part)
           q == Cardinality(free)
<1>1. IsFiniteSet(part) /\ IsFiniteSet(free)
  <2>1. free \in SUBSET Nodes
    OBVIOUS
  <2> QED BY <2>1, RamFsAssumption, FS_Subset
<1> HIDE DEF free
<1>2. /\ p \in Nat /\ q \in Nat /\ ExistsBijection(1..p, part) /\ ExistsBijection(1..q, free)
  BY <1>1, FS_CardinalityType
<1>3. p <= q
  BY DEF free
<1> HIDE DEF p, q
<1>4. PICK f : f \in [1..p -> part] /\ \A y \in part : \E i \in 1..p : f[i] = y
  BY <1>2 DEF ExistsBijection, Bijection, Surjection
<1>5. PICK g : g \in [1..q -> free] /\ \A i, j \in 1..q : g[i] = g[j] => i = j
  BY <1>2 DEF ExistsBijection, Bijection, Injection, IsInjective
<1> DEFINE at(y) == CHOOSE i \in 1..p : f[i] = y
           h == [y \in part |-> g[at(y)]]
<1>6. \A y \in part : at(y) \in 1..p /\ f[at(y)] = y
  BY <1>4
<1>7. 1..p \subseteq 1..q
  BY <1>2, <1>3
<1> HIDE DEF at
<1>8. h \in [part -> free] /\ \A x, y \in part : h[x] = h[y] => x = y
  BY <1>5, <1>6, <1>7
<1> HIDE DEF h
<1>9. \E k \in [part -> free] : \A x, y \in part : k[x] = k[y] => x = y
  BY <1>8
<1>10. Blocks(part) = CHOOSE k \in [part -> free] : \A x, y \in part : k[x] = k[y] => x = y
  BY DEF Blocks, free
<1> QED BY <1>9, <1>10 DEF free

\* What c is as the copy of y in a part of the nodes below x.
IsCopy(c, y, block, x, dir, n, part, unnamed) ==
  /\ c \in Entry /\ c.type = node[y].type
  /\ c.parent = IF y = x THEN dir ELSE block[node[y].parent]
  /\ c.name \in {IF y = x THEN n ELSE node[y].name, NULL}
  /\ y \notin unnamed => c.name = IF y = x THEN n ELSE node[y].name
  /\ ToSet(c.children) = {block[z] : z \in Kids(node, y) \cap part}
  /\ LinkedOnce(c.children)
  /\ c.size = node[y].size /\ (c.size > 0 => c.data = node[y].data)

LEMMA CopyOfIs ==
  ASSUME FsInv, NEW x \in Live(node), NEW dir \in Live(node), NEW n \in Names,
         NEW part \in SUBSET Below(node, x), NEW unnamed \in SUBSET part,
         \A y \in part : y # x => node[y].parent \in part,
         NEW block \in [part -> Nodes \ Live(node)],
         \A y, z \in part : block[y] = block[z] => y = z,
         NEW y \in part
  PROVE  IsCopy(CopyOf(y, block, x, dir, n, unnamed), y, block, x, dir, n, part, unnamed)
<1> DEFINE kept == Kept(node[y].children, part)
           copied == [i \in 1..Len(kept) |-> block[kept[i]]]
           name == CASE y \in unnamed -> NULL [] y = x /\ y \notin unnamed -> n
                     [] OTHER -> node[y].name
           parent == IF y = x THEN dir ELSE block[node[y].parent]
           data == IF node[y].size = 0 THEN NULL ELSE node[y].data
           made == [type |-> node[y].type, name |-> name, parent |-> parent,
                    children |-> copied, data |-> data, size |-> node[y].size]
<1>1. /\ node[y] \in Entry /\ dir \in Nodes /\ LinkedOnce(node[y].children)
      /\ node[y].children \in Seq(Nodes)
  <2>1. Tree(node) /\ y \in Live(node) /\ Live(node) \subseteq Nodes
    BY PartFacts, TreeFacts DEF FsInv
  <2> QED BY <2>1 DEF Tree, Blocked, Entry
<1>2. /\ kept \in Seq(Nodes) /\ ToSet(kept) = Kids(node, y) \cap part /\ LinkedOnce(kept)
  BY <1>1, KeptIs DEF Kids
<1>3. CopyOf(y, block, x, dir, n, unnamed) = made
  <2>1. DOMAIN block = part
    OBVIOUS
  <2> QED BY <2>1 DEF CopyOf, CopyData
<1> HIDE DEF kept
<1>4. \A i \in 1..Len(kept) : kept[i] \in part
  BY <1>2 DEF ToSet
<1>5. copied \in Seq(Nodes) /\ LinkedOnce(copied)
  <2>1. Len(kept) \in Nat /\ \A i \in 1..Len(kept) : block[kept[i]] \in Nodes
    BY <1>2, <1>4
  <2>2. \A i, j \in 1..Len(kept) : kept[i] = kept[j] => i = j
    BY <1>2 DEF LinkedOnce
  <2>3. copied \in Seq(Nodes)
    BY <2>1
  <2>4. DOMAIN copied = 1..Len(kept) /\ \A i \in 1..Len(kept) : copied[i] = block[kept[i]]
    OBVIOUS
  <2> HIDE DEF copied
  <2>5. LinkedOnce(copied)
    BY <1>4, <2>2, <2>4 DEF LinkedOnce
  <2> QED BY <2>3, <2>5
<1>6. ToSet(copied) = {block[z] : z \in Kids(node, y) \cap part}
  <2>1. ToSet(copied) = {block[kept[i]] : i \in 1..Len(kept)}
    BY DEF ToSet
  <2>2. {kept[i] : i \in 1..Len(kept)} = Kids(node, y) \cap part
    BY <1>2 DEF ToSet
  <2> QED BY <2>1, <2>2
<1> HIDE DEF copied
<1>7. parent \in Nodes
  BY <1>1
<1>8. /\ name \in Names \cup {NULL} /\ name \in {IF y = x THEN n ELSE node[y].name, NULL}
      /\ y \notin unnamed => name = IF y = x THEN n ELSE node[y].name
  BY <1>1 DEF Entry
<1>9. data \in Contents \cup {NULL} /\ (node[y].size > 0 => data = node[y].data)
  BY <1>1 DEF Entry
<1> HIDE DEF parent, name, data
<1>10. /\ made \in Entry /\ made.type = node[y].type /\ made.parent = parent
       /\ made.name = name /\ made.children = copied /\ made.data = data
       /\ made.size = node[y].size
  BY <1>1, <1>5, <1>7, <1>8, <1>9 DEF Entry
<1> HIDE DEF made
<1> QED BY <1>3, <1>5, <1>6, <1>8, <1>9, <1>10 DEF parent, IsCopy

LEMMA CopyPartStep ==
  ASSUME FsInv, NEW x \in Live(node), NEW dir \in Live(node), NEW n \in Names,
         node[dir].type = "dir", dir \notin Below(node, x), ~Taken(dir, n),
         NEW part \in Copiable(x), NEW unnamed \in SUBSET part,
         CopyPart(x, dir, n, part, unnamed)
  PROVE  FsInv'
<1> DEFINE lost == Cardinality(unnamed)
<1>1. /\ node \in Blocked /\ Tree(node) /\ Paths(node) /\ x \in Nodes /\ dir \in Nodes
      /\ node[dir] \in Entry
  BY TreeFacts DEF FsInv, Tree, Blocked
<1>2. /\ part \in SUBSET Below(node, x) /\ x \in part
      /\ \A y \in part : y # x => node[y].parent \in part
  BY SubtreeIsBelow DEF Copiable
<1>3. Below(node, x) \subseteq Live(node) /\ Live(node) \subseteq Nodes
  BY <1>1, PartFacts, TreeFacts
<1>4. lost \in Nat /\ (lost = 0 => unnamed = {})
  <2>1. unnamed \in SUBSET Nodes
    BY <1>2, <1>3
  <2>2. IsFiniteSet(unnamed)
    BY <2>1, RamFsAssumption, FS_Subset
  <2> QED BY <2>2, FS_CardinalityType, FS_EmptySet
<1>5. /\ Cardinality(part) <= Cardinality(Nodes \ live)
      /\ marks + lost <= MaxMarks /\ marks' = marks + lost
  BY DEF CopyPart
<1> HIDE DEF lost
<1>6. /\ marks \in 0..MaxMarks /\ MaxMarks \in Nat /\ fault \in BOOLEAN
      /\ marks = 0 => ~fault /\ Whole(node)
  BY RamFsAssumption DEF FsInv
<1>7. marks' \in 0..MaxMarks /\ (marks' = 0 => marks = 0 /\ unnamed = {})
  BY <1>4, <1>5, <1>6
<1>8. CASE CopyFaults(x, part, unnamed)
  <2>1. fault' = TRUE /\ node' = node
    BY <1>8 DEF CopyPart
  <2>2. ASSUME marks = 0, unnamed = {} PROVE FALSE
    <3>1. \A y \in Live(node) : node[y].name # NULL /\ ~ReadFaults(y)
      BY <1>6, <2>2 DEF Whole, ReadFaults
    <3> QED BY <1>2, <1>3, <1>8, <2>2, <3>1, SubtreeIsBelow DEF CopyFaults
  <2> QED BY <1>1, <1>7, <2>1, <2>2 DEF FsInv
<1>9. CASE ~CopyFaults(x, part, unnamed)
  <2> DEFINE block == Blocks(part)
             copy(y) == CopyOf(y, block, x, dir, n, unnamed)
             old == [node[dir] EXCEPT !.children = Append(@, block[x])]
             after == node'
  <2>1. /\ node' = [z \in Nodes |->
                      IF \E y \in part : z = block[y] THEN [y \in part |-> copy(y)][CHOOSE y \in part : z = block[y]]
                      ELSE IF z = dir THEN [node[z] EXCEPT !.children = Append(@, block[x])]
                      ELSE node[z]]
        /\ fault' = fault
    BY <1>9 DEF CopyPart
  <2>2. /\ block \in [part -> Nodes \ Live(node)]
        /\ \A y, z \in part : block[y] = block[z] => y = z
    BY <1>2, <1>3, <1>5, BlocksAre, SubtreeIsBelow
  <2> HIDE DEF block
  <2>3. \A y \in part :
          /\ copy(y) \in Entry /\ copy(y).type = node[y].type
          /\ copy(y).parent = IF y = x THEN dir ELSE block[node[y].parent]
          /\ copy(y).name \in {IF y = x THEN n ELSE node[y].name, NULL}
          /\ y \notin unnamed => copy(y).name = IF y = x THEN n ELSE node[y].name
          /\ ToSet(copy(y).children) = {block[z] : z \in Kids(node, y) \cap part}
          /\ LinkedOnce(copy(y).children)
          /\ copy(y).size = node[y].size /\ (copy(y).size > 0 => copy(y).data = node[y].data)
    <3> SUFFICES ASSUME NEW y \in part
                 PROVE  /\ copy(y) \in Entry /\ copy(y).type = node[y].type
                        /\ copy(y).parent = IF y = x THEN dir ELSE block[node[y].parent]
                        /\ copy(y).name \in {IF y = x THEN n ELSE node[y].name, NULL}
                        /\ y \notin unnamed => copy(y).name = IF y = x THEN n ELSE node[y].name
                        /\ ToSet(copy(y).children) = {block[z] : z \in Kids(node, y) \cap part}
                        /\ LinkedOnce(copy(y).children)
                        /\ copy(y).size = node[y].size
                        /\ copy(y).size > 0 => copy(y).data = node[y].data
      OBVIOUS
    <3> HIDE DEF copy
    <3>1. IsCopy(copy(y), y, block, x, dir, n, part, unnamed)
      BY <1>2, <2>2, CopyOfIs DEF copy
    <3> QED BY <3>1 DEF IsCopy
  <2> HIDE DEF copy
  <2>4. /\ old \in Entry /\ old.name = node[dir].name /\ old.size = node[dir].size
        /\ old.data = node[dir].data
    <3>1. block[x] \in Nodes /\ node[dir].children \in Seq(Nodes)
      BY <1>1, <1>2, <2>2 DEF Entry
    <3> DEFINE longer == Append(node[dir].children, block[x])
    <3>2. old = [node[dir] EXCEPT !.children = longer] /\ longer \in Seq(Nodes)
      BY <1>1, <3>1 DEF Entry
    <3> HIDE DEF longer, old
    <3> QED BY <1>1, <3>2 DEF Entry
  <2>5. \A y \in part : (CHOOSE u \in part : block[y] = block[u]) = y
    BY <2>2
  <2>6. \A y \in part : block[y] # dir /\ block[y] \in Nodes
    BY <2>2
  <2>7. /\ \A y \in part : after[block[y]] = copy(y)
        /\ after[dir] = old
        /\ \A z \in Nodes : z # dir /\ ~(\E y \in part : z = block[y]) => after[z] = node[z]
    <3>1. ASSUME NEW y \in part PROVE after[block[y]] = copy(y)
      <4>1. \E u \in part : block[y] = block[u]
        OBVIOUS
      <4>2. after[block[y]] = [u \in part |-> copy(u)][CHOOSE u \in part : block[y] = block[u]]
        BY <2>1, <2>6, <4>1
      <4> QED BY <2>5, <4>2
    <3>2. after[dir] = old
      BY <1>1, <2>1, <2>6
    <3>3. \A z \in Nodes : z # dir /\ ~(\E y \in part : z = block[y]) => after[z] = node[z]
      BY <2>1
    <3> QED BY <3>1, <3>2, <3>3
  <2>8. after \in Blocked
    <3>1. DOMAIN after = Nodes /\ after = [z \in DOMAIN after |-> after[z]]
      BY <2>1
    <3> HIDE DEF after, old
    <3>2. \A z \in Nodes : after[z] \in Entry
      BY <1>1, <2>3, <2>4, <2>7 DEF Blocked
    <3> QED BY <3>1, <3>2 DEF Blocked
  <2> HIDE DEF after
  <2>9. \A y \in Kids(node, dir) : after[block[x]].name # NULL => node[y].name # after[block[x]].name
    <3>1. after[block[x]].name \in {n, NULL}
      BY <1>2, <2>3, <2>7
    <3> QED BY <3>1 DEF Taken, Kids
  <2>10. \A y \in part :
           /\ after[block[y]].type = node[y].type
           /\ after[block[y]].parent = IF y = x THEN dir ELSE block[node[y].parent]
           /\ y # x => after[block[y]].name \in {node[y].name, NULL}
           /\ Kids(after, block[y]) = {block[z] : z \in Kids(node, y) \cap part}
           /\ LinkedOnce(after[block[y]].children)
    BY <2>3, <2>7 DEF Kids
  <2>11. Tree(after) /\ Live(after) = Live(node) \cup {block[y] : y \in part} /\ Paths(after)
    <3>1. Copied(node, after, x, dir, part, block)
      BY <1>2, <2>2, <2>7, <2>9, <2>10 DEF Copied, old
    <3> QED BY <1>1, <2>8, <3>1, CopyKeeps
  <2> HIDE DEF old
  <2>12. ASSUME marks = 0, unnamed = {} PROVE Whole(after)
    <3>1. \A y \in Live(node) : node[y].name # NULL /\ (node[y].size > 0 => node[y].data # NULL)
      BY <1>6, <2>12 DEF Whole
    <3>2. n # NULL
      BY NamesAre
    <3>3. ASSUME NEW y \in part
          PROVE  /\ after[block[y]].name # NULL
                 /\ after[block[y]].size > 0 => after[block[y]].data # NULL
      <4>1. y \in Live(node) /\ y \notin unnamed
        BY <1>2, <1>3, <2>12
      <4> QED BY <2>3, <2>7, <3>1, <3>2, <4>1
    <3>4. ASSUME NEW y \in Live(node)
          PROVE  after[y].name # NULL /\ (after[y].size > 0 => after[y].data # NULL)
      <4>1. after[y] = node[y] \/ y = dir
        BY <1>3, <2>2, <2>7
      <4> QED BY <2>4, <2>7, <3>1, <4>1
    <3> QED BY <2>11, <3>3, <3>4 DEF Whole
  <2> QED BY <1>6, <1>7, <2>1, <2>11, <2>12 DEF FsInv, after
<1> QED BY <1>8, <1>9

LEMMA CopyStep ==
  ASSUME FsInv, NEW x \in Live(node), NEW dir \in Live(node), Copy(x, dir)
  PROVE  FsInv'
<1> DEFINE own == node[x].name
           n == IF Taken(dir, own) THEN CopyName(own) ELSE own
<1>1. CASE own = NULL \/ FindFaults(dir, own)
  <2>1. marks # 0
    BY <1>1, SearchFinds DEF FsInv, Whole
  <2> QED BY <1>1, <2>1, FaultKeeps DEF Copy
<1>2. CASE ~(own = NULL \/ FindFaults(dir, own))
  <2>1. /\ node[dir].type = "dir" /\ n.copies <= MaxCopies
        /\ \/ FindFaults(dir, n) /\ Fault
           \/ /\ ~FindFaults(dir, n) /\ ~Taken(dir, n)
              /\ \E part \in Copiable(x) : \E unnamed \in SUBSET part :
                   CopyPart(x, dir, n, part, unnamed)
    BY <1>2 DEF Copy
  <2>2. dir \notin Below(node, x)
    BY SubtreeIsBelow DEF Copy
  <2>3. own \in Names
    <3>1. node[x] \in Entry
      BY TreeFacts DEF FsInv, Tree, Blocked
    <3> QED BY <1>2, <3>1 DEF Entry
  <2>4. n \in Names
    BY <2>1, <2>3, NamesAre
  <2> HIDE DEF n
  <2>5. CASE FindFaults(dir, n) /\ Fault
    BY <2>5, SearchFinds, FaultKeeps
  <2>6. ASSUME NEW part \in Copiable(x), NEW unnamed \in SUBSET part, ~Taken(dir, n),
               CopyPart(x, dir, n, part, unnamed)
        PROVE  FsInv'
    BY <2>1, <2>2, <2>4, <2>6, CopyPartStep
  <2> QED BY <2>1, <2>5, <2>6
<1> QED BY <1>1, <1>2
----------------------------------------------------------------------------
(* The theorems                                                            *)

LEMMA FsStep ==
  ASSUME FsInv, Careful, [Next]_vars
  PROVE  FsInv'
<1>1. live = Live(node)
  BY SubtreeIsBelow
<1>2. ASSUME NEW dir \in live, NEW n \in NewNames, NEW ty \in {"file", "dir"}, Create(dir, n, ty)
      PROVE  FsInv'
  BY <1>1, <1>2, CreateStep
<1>3. ASSUME NEW x \in live, NEW dir \in live, Move(x, dir) PROVE FsInv'
  BY <1>1, <1>3, MoveStep
<1>4. ASSUME NEW x \in live, NEW dir \in live, Copy(x, dir) PROVE FsInv'
  BY <1>1, <1>4, CopyStep
<1>5. ASSUME NEW x \in live, NEW n \in NewNames, Rename(x, n) PROVE FsInv'
  BY <1>1, <1>5, RenameStep
<1>6. ASSUME NEW x \in live, NEW v \in Contents, Write(x, v) PROVE FsInv'
  BY <1>1, <1>6, WriteStep
<1>7. ASSUME NEW x \in live, RemoveNode(x) PROVE FsInv'
  BY <1>1, <1>7, RemoveStep
<1>8. ASSUME NEW x \in live, Delete(x) PROVE FsInv'
  BY <1>1, <1>8, DeleteStep
<1>9. ASSUME NEW x \in live, Read(x) PROVE FsInv'
  BY <1>1, <1>9, ReadStep
<1>10. ASSUME NEW x \in live, WriteNothing(x) PROVE FsInv'
  BY <1>1, <1>10, DropsStep DEF WriteNothing
<1>11. CASE UNCHANGED vars
  BY <1>11 DEF FsInv, vars
<1> QED BY <1>2, <1>3, <1>4, <1>5, <1>6, <1>7, <1>8, <1>9, <1>10, <1>11 DEF Next

LEMMA FsIsInv == ASSUME Careful PROVE Spec => []FsInv
<1>1. FsInv /\ [Next]_vars => FsInv'
  BY FsStep
<1> QED BY <1>1, FsStart, PTL DEF Spec

\* The live nodes are a tree below the root, each linked once and from the node
\* it names as its parent, whatever ramfs_remove, ramfs_delete, ramfs_move and
\* ramfs_copy have unlinked, freed, relinked and copied (ramfs.c:94, :198, :264).
THEOREM TreeIsSound == ASSUME Careful PROVE Spec => []TreeSound
<1>1. FsInv => TreeSound
  <2> SUFFICES ASSUME FsInv PROVE TreeSound
    OBVIOUS
  <2>1. Tree(node) /\ node \in Blocked
    BY DEF FsInv, Tree
  <2>2. TypeOK
    BY <2>1 DEF FsInv, TypeOK, Blocked, Entry, Kinds
  <2>3. Subtree(Root) = live
    <3>1. Below(node, Root) \subseteq Live(node) /\ Root \in Live(node)
      BY <2>1, PartFacts, TreeFacts
    <3>2. Live(node) \subseteq Below(node, Root) \cup {}
      BY <2>1, Reaches DEF Shut
    <3> QED BY <3>1, <3>2, SubtreeIsBelow
  <2>4. ASSUME NEW x \in live
        PROVE  /\ \A y \in ToSet(node[x].children) : node[y].parent = x
               /\ IsInjective(node[x].children)
    <3>1. x \in Nodes /\ node[x].children \in Seq(Nodes)
      BY <2>1 DEF live, Blocked, Entry
    <3> QED BY <2>1, <3>1, OnceIsInjective DEF Tree, Kids
  <2> QED BY <2>2, <2>3, <2>4 DEF TreeSound
<1> QED BY <1>1, FsIsInv, PTL

\* No two children of a directory have one name, and a file has no children:
\* a path leads to one node, after renames, moves and copies too.
THEOREM PathsAreUnique == ASSUME Careful PROVE Spec => []PathsUnique
<1>1. FsInv => PathsUnique
  <2> SUFFICES ASSUME FsInv, NEW x \in live
               PROVE  /\ node[x].children # <<>> => node[x].type = "dir"
                      /\ \A y, z \in ToSet(node[x].children) :
                           node[y].name # NULL /\ node[y].name = node[z].name => y = z
    BY DEF PathsUnique
  <2>1. Tree(node) /\ Paths(node) /\ x \in Live(node) /\ x \in Nodes
    BY DEF FsInv, live, Live
  <2>2. node[x].children \in Seq(Nodes)
    BY <2>1 DEF Tree, Blocked, Entry
  <2> QED BY <2>1, <2>2, EmptyList DEF Paths, Kids
<1> QED BY <1>1, FsIsInv, PTL

\* A call follows a NULL pointer only after one has been left in a node, by a failed
\* kmalloc that nobody checked in time or by a write of no bytes (ramfs.c:56, :156,
\* :177): a copy that a full memory cuts short, with ramfs_copy's silent skips,
\* leaves nothing that a later call stumbles over.
THEOREM FaultsHaveMarks == ASSUME Careful PROVE Spec => []FaultsAreMarked
<1>1. FsInv => FaultsAreMarked
  BY RamFsAssumption DEF FsInv, FaultsAreMarked
<1> QED BY <1>1, FsIsInv, PTL
=============================================================================
