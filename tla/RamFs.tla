------------------------------- MODULE RamFs -------------------------------
(***************************************************************************)
(* The in-memory file system: filesystem/ramfs/ramfs.c, which vfs.h makes  *)
(* the kernel's vfs_ operations by renaming.  A directory's children are   *)
(* the list from its `children` along `next`.                              *)
(*                                                                         *)
(* Calls run one at a time.  kmalloc may fail in any call, and returns     *)
(* NULL when asked for nothing (heap.c:24): where the code does not look,  *)
(* a node is left without a name or a file without data, and a later call  *)
(* that follows the NULL pointer stops the kernel.  kfree recycles         *)
(* nothing, so a block of Nodes stands for a new address each time it is   *)
(* used.  A file's contents are one value of size 1, or nothing.           *)
(***************************************************************************)
EXTENDS Integers, Sequences, FiniteSets, SequencesExt

CONSTANTS
  Nodes,       \* ramfs_node_t blocks
  Root,        \* the one ramfs_init makes
  Stems,       \* names given to create and rename
  MaxCopies,   \* bound: how many times "_copy" is appended to a name
  MaxMarks,    \* bound: how many NULL pointers are left in nodes
  Contents,    \* what can be written to a file
  NULL,
  Careful      \* callers keep to CarefulMove

Names == [stem : Stems \cup {"/"}, copies : 0..MaxCopies]

ASSUME RamFsAssumption ==
  /\ Root \in Nodes /\ IsFiniteSet(Nodes)
  /\ NULL \notin Nodes \cup Contents \cup Names
  /\ {MaxCopies, MaxMarks} \subseteq Nat
  /\ Careful \in BOOLEAN

VARIABLES
  node,     \* the contents of each block: a ramfs_node_t, or Blank
  marks,    \* how many NULL pointers calls have left where later ones follow them
  fault     \* a call has followed a NULL pointer

vars == <<node, marks, fault>>

Blank == [type |-> "none", name |-> NULL, parent |-> NULL,
          children |-> <<>>, data |-> NULL, size |-> 0]

live == {x \in Nodes : node[x] # Blank}

CopyName(n) == [n EXCEPT !.copies = @ + 1]

----------------------------------------------------------------------------
(* Bad... as in Scheduler                                                  *)

BadTaken(dir, n) == FALSE

\* ramfs_find finds a child of that name.
Taken(dir, n) == \E x \in ToSet(node[dir].children) : node[x].name = n

\* strcmp comes to a node without a name before ramfs_find has found one.
FindFaults(dir, n) ==
  LET list == node[dir].children
  IN  \E i \in DOMAIN list : /\ node[list[i]].name = NULL
                             /\ \A j \in 1..i - 1 : node[list[j]].name # n

Fault == fault' = TRUE /\ UNCHANGED <<node, marks>>

\* A call that ends well, or at least ends, having left so many marks.
Ends(n) ==
  /\ marks + n <= MaxMarks
  /\ marks' = marks + n
  /\ UNCHANGED fault

\* What strdup returns.
Strdup(n) == {n, NULL}

Mark(failed) == IF failed THEN 1 ELSE 0

\* The members of a list that are in S.
Kept(list, S) ==
  LET upto[i \in 0..Len(list)] ==
        IF i = 0 THEN <<>>
        ELSE IF list[i] \in S THEN Append(upto[i - 1], list[i]) ELSE upto[i - 1]
  IN  upto[Len(list)]

\* ramfs_remove's and ramfs_move's search of the parent's list.
Unlinked(list, x) == Kept(list, ToSet(list) \ {x})

\* The blocks once x is off its parent's list.
Unlink(x) ==
  IF x = Root THEN node
  ELSE [node EXCEPT ![node[x].parent].children = Unlinked(@, x)]

\* x and all that is below it.
Subtree(x) ==
  LET below[k \in 0..Cardinality(Nodes)] ==
        IF k = 0 THEN {x}
        ELSE below[k - 1] \cup UNION {ToSet(node[y].children) : y \in below[k - 1]}
  IN  below[Cardinality(Nodes)]

\* ramfs_create, ramfs_mkdir
Create(dir, n, ty) ==
  /\ node[dir].type = "dir"
  /\ \/ FindFaults(dir, n) /\ Fault
     \/ /\ ~FindFaults(dir, n) /\ ~Taken(dir, n)
        /\ \E x \in Nodes \ live, name \in Strdup(n) :
             /\ node' = [node EXCEPT
                  ![x] = [Blank EXCEPT !.type = ty, !.name = name, !.parent = dir],
                  ![dir].children = Append(@, x)]
             /\ Ends(Mark(name = NULL))

\* ramfs_remove
RemoveNode(x) ==
  /\ x # Root
  /\ node[x].children = <<>>
  /\ node' = [Unlink(x) EXCEPT ![x] = Blank]
  /\ Ends(0)

BadDelete(x) ==
  /\ x # Root
  /\ node' = [Unlink(x) EXCEPT ![x] = Blank]
  /\ Ends(0)

\* ramfs_delete; of the root, it deletes all but the root.
Delete(x) ==
  /\ node' = [y \in Nodes |->
                IF y \in Subtree(x) \ {Root} THEN Blank
                ELSE IF x = Root /\ y = Root THEN [node[Root] EXCEPT !.children = <<>>]
                ELSE Unlink(x)[y]]
  /\ Ends(0)

\* ramfs_write when kmalloc returns NULL: what was there is dropped already, but
\* the size is kept.
Drops(x) ==
  /\ node' = [node EXCEPT ![x].data = NULL]
  /\ Ends(Mark(node[x].size > 0))

\* ramfs_write of v; memory may be short.
Write(x, v) ==
  /\ node[x].type = "file"
  /\ \/ node' = [node EXCEPT ![x].data = v, ![x].size = 1] /\ Ends(0)
     \/ Drops(x)

\* ramfs_write of no bytes, to which kmalloc's answer is NULL in any case.
WriteNothing(x) ==
  /\ node[x].type = "file"
  /\ Drops(x)

\* There is nothing where ramfs_read and ramfs_copy copy from.
ReadFaults(x) == node[x].type = "file" /\ node[x].size > 0 /\ node[x].data = NULL

Read(x) == ReadFaults(x) /\ Fault

\* ramfs_rename, of a node other than the root, whose name no call looks at.
Rename(x, n) ==
  /\ x # Root
  /\ LET dir == node[x].parent
     IN  \/ FindFaults(dir, n) /\ Fault
         \/ /\ ~FindFaults(dir, n) /\ ~Taken(dir, n)
            /\ \E name \in Strdup(n) :
                 /\ node' = [node EXCEPT ![x].name = name]
                 /\ Ends(Mark(name = NULL))

\* What ramfs_move asks of its caller besides what it checks: that the new
\* parent is a directory, not below x, and has no other child of x's name.
CarefulMove(x, dir) ==
  /\ node[dir].type = "dir"
  /\ dir \notin Subtree(x)
  /\ \A y \in ToSet(node[dir].children) \ {x} : node[y].name # node[x].name

\* ramfs_move
Move(x, dir) ==
  /\ x \notin {Root, dir}
  /\ node[x].children # <<>> => Head(node[x].children) # dir
  /\ Careful => CarefulMove(x, dir)
  /\ node' = [Unlink(x) EXCEPT ![dir].children = Append(@, x), ![x].parent = dir]
  /\ Ends(0)

----------------------------------------------------------------------------
(* ramfs_copy.  A child whose copy fails is left out, silently.            *)

\* The parts of x's subtree that may get copied.
Copiable(x) ==
  {part \in SUBSET Subtree(x) :
     /\ x \in part
     /\ \A y \in part \ {x} : node[y].parent \in part}

\* One way of giving each node of a part a block of its own.
Blocks(part) ==
  CHOOSE f \in [part -> Nodes \ live] : \A x, y \in part : f[x] = f[y] => x = y

BadCopyData(y) == NULL

CopyData(y) == IF node[y].size = 0 THEN NULL ELSE node[y].data

\* The copy of y, a node below x; x goes into dir under the name n.  strdup has
\* failed for the nodes of `unnamed`.
CopyOf(y, block, x, dir, n, unnamed) ==
  LET kept == Kept(node[y].children, DOMAIN block)
  IN  [type     |-> node[y].type,
       name     |-> CASE y \in unnamed -> NULL [] y = x /\ y \notin unnamed -> n
                      [] OTHER -> node[y].name,
       parent   |-> IF y = x THEN dir ELSE block[node[y].parent],
       children |-> [i \in 1..Len(kept) |-> block[kept[i]]],
       data     |-> CopyData(y),
       size     |-> node[y].size]

\* The copy of a part comes to a node without a name, to a file without its data,
\* or, in a search, to a copy without a name.
CopyFaults(x, part, unnamed) ==
  \/ \E y \in Subtree(x) \ {x} : node[y].parent \in part /\ node[y].name = NULL
  \/ \E y \in part : ReadFaults(y)
  \/ \E y \in unnamed \ {x} : y # Last(node[node[y].parent].children)

CopyPart(x, dir, n, part, unnamed) ==
  /\ Cardinality(part) <= Cardinality(Nodes \ live)
  /\ marks + Cardinality(unnamed) <= MaxMarks
  /\ marks' = marks + Cardinality(unnamed)
  /\ IF CopyFaults(x, part, unnamed) THEN fault' = TRUE /\ UNCHANGED node
     ELSE LET block == Blocks(part)
              made  == [y \in part |-> CopyOf(y, block, x, dir, n, unnamed)]
          IN  /\ node' = [z \in Nodes |->
                            IF \E y \in part : z = block[y] THEN made[CHOOSE y \in part : z = block[y]]
                            ELSE IF z = dir THEN [node[z] EXCEPT !.children = Append(@, block[x])]
                            ELSE node[z]]
              /\ UNCHANGED fault

\* A copy inside what is copied does not come to an end: callers keep from it.
Copy(x, dir) ==
  /\ dir \notin Subtree(x)
  /\ IF node[x].name = NULL \/ FindFaults(dir, node[x].name) THEN Fault
     ELSE LET n == IF Taken(dir, node[x].name) THEN CopyName(node[x].name) ELSE node[x].name
          IN  /\ node[dir].type = "dir"
              /\ n.copies <= MaxCopies
              /\ \/ FindFaults(dir, n) /\ Fault
                 \/ /\ ~FindFaults(dir, n) /\ ~Taken(dir, n)
                    /\ \E part \in Copiable(x) : \E unnamed \in SUBSET part :
                         CopyPart(x, dir, n, part, unnamed)

----------------------------------------------------------------------------
\* ramfs_init
Init ==
  /\ node = [x \in Nodes |->
               IF x = Root
               THEN [Blank EXCEPT !.type = "dir", !.name = [stem |-> "/", copies |-> 0]]
               ELSE Blank]
  /\ marks = 0
  /\ fault = FALSE

NewNames == [stem : Stems, copies : {0}]

Next ==
  /\ ~fault
  /\ \/ \E dir \in live, n \in NewNames, ty \in {"file", "dir"} : Create(dir, n, ty)
     \/ \E x \in live, dir \in live : Move(x, dir) \/ Copy(x, dir)
     \/ \E x \in live, n \in NewNames : Rename(x, n)
     \/ \E x \in live, v \in Contents : Write(x, v)
     \/ \E x \in live : WriteNothing(x) \/ RemoveNode(x) \/ Delete(x) \/ Read(x)

Spec == Init /\ [][Next]_vars

----------------------------------------------------------------------------
(* Properties                                                              *)

TypeOK ==
  /\ node \in [Nodes -> [type     : {"none", "file", "dir"},
                         name     : Names \cup {NULL},
                         parent   : Nodes \cup {NULL},
                         children : Seq(Nodes),
                         data     : Contents \cup {NULL},
                         size     : {0, 1}]]
  /\ marks \in 0..MaxMarks
  /\ fault \in BOOLEAN

\* The live nodes form a tree below the root: each is linked once, in the list
\* of the node it names as its parent, and none is cut off or freed while it
\* is linked (ramfs.c:94, :198 and :272); and the state is well-formed.
TreeSound ==
  /\ TypeOK
  /\ Subtree(Root) = live
  /\ \A x \in live :
       /\ \A y \in ToSet(node[x].children) : node[y].parent = x
       /\ IsInjective(node[x].children)

\* A path leads to one node: no two children of a directory have one name, and
\* a file has none (ramfs.c:49, :50), after renames, moves and copies too.
PathsUnique ==
  \A x \in live :
    /\ node[x].children # <<>> => node[x].type = "dir"
    /\ \A y, z \in ToSet(node[x].children) :
         node[y].name # NULL /\ node[y].name = node[z].name => y = z

\* A call follows a NULL pointer only where one has been left in a node in one of
\* two ways: a kmalloc failed whose result nobody checked in time (ramfs.c:56, :158,
\* :177), or ramfs_write was given no bytes, which drops a file's bytes and keeps
\* its size with memory in plenty (ramfs.c:156).  After any other calls every node
\* has a name and every file of some size its bytes, copies that a full memory has
\* cut short included.
FaultsAreMarked == fault => marks > 0
=============================================================================
