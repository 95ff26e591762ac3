------------------------------ MODULE VirtMem ------------------------------
(***************************************************************************)
(* Virtual memory and the kernel heap over the physical allocator:         *)
(* memory/vmm.c, memory/heap.c, and the mappings and pages kmain and       *)
(* nvme_init ask for.                                                      *)
(*                                                                         *)
(* Virtual addresses are counted in pages.  An entry of a page table is    *)
(* the frame it points to, or 0 when it is not present; flags are left     *)
(* out, and so are the loader's own mappings, which are of other           *)
(* addresses.  Every call runs to its end: kmain and the tasks are the     *)
(* only callers and are not interrupted in one by another.                 *)
(***************************************************************************)
EXTENDS PhysMem

CONSTANTS
  Root,          \* the frame of the pml4, the loader's
  Lapic, Bar,    \* the device frames: the local APIC's, and the NVMe's two
  Entries,       \* entries in a page table
  HeapStart,     \* the page of KERNEL_HEAP_START
  LapicPage,     \* where kmain maps the local APIC
  OtherPages,    \* pages given to vmm_alloc_page and vmm_free_page directly
  PageUnits,     \* 16-byte units in a page
  MaxHeap,       \* bound: units of heap asked for
  MaxBlock,      \* bound: units asked for at a time
  MaxDirect      \* bound: pages taken from pmm_alloc_page directly

ASSUME VirtMemAssumption ==
  /\ Root \in Nat \ {0}
  /\ {Lapic, Bar} \subseteq Nat \ {0}
  /\ \A m \in Maps : \A i \in DOMAIN m :
       m[i].type = "usable" => {Root, Lapic, Bar, Bar + 1} \cap FramesOf(m[i]) = {}
  /\ {Entries, PageUnits, MaxHeap} \subseteq Nat \ {0}
  /\ {HeapStart, LapicPage, MaxBlock, MaxDirect} \subseteq Nat
  /\ OtherPages \subseteq Nat

VARIABLES
  table,         \* the contents of the frames that are page tables
  direct,        \* the owned frames that pmm_alloc_page's other callers have
  heap_current,  \* in units from KERNEL_HEAP_START
  heap_end,
  boot           \* how far kmain is

heapVars == <<heap_current, heap_end>>
vars == <<mapVars, pmmVars, table, direct, heapVars, boot>>

----------------------------------------------------------------------------
(* vmm.c.  The walks work on a record of the memory, in which `at` is the  *)
(* table reached so far, 0 when there is none.                             *)

Memory ==
  [usable |-> usable, table |-> table, bits |-> bits, owned |-> owned, at |-> Root]

Index == 0..Entries - 1

\* pml4_index, pdpt_index, pd_index and pt_index of page v.
Indices(v) ==
  LET gib == v \div (Entries * Entries)  \* the gigabyte, with 512 entries to a table
  IN  <<(gib \div Entries) % Entries, gib % Entries, (v \div Entries) % Entries, v % Entries>>

\* The pages the heap may come to have, from HeapStart on.
HeapPages == {k \in 0..MaxHeap : k = 0 \/ k * PageUnits < MaxHeap}

\* Addresses have 48 bits, all of which the indices are made of, and the other
\* pages are not the heap's.
ASSUME HeapAssumption ==
  /\ \A j, k \in HeapPages : Indices(HeapStart + j) = Indices(HeapStart + k) => j = k
  /\ \A v \in OtherPages : \A k \in HeapPages : Indices(v) # Indices(HeapStart + k)

EmptyTable == [i \in Index |-> 0]

\* What a frame holds that nobody has cleared: anything, say entries that would
\* make a table of the pml4.
Dirty == [i \in Index |-> Root]

\* ensure_table: the table entry i leads to, made if need be.
EnsureTable(m, i) ==
  CASE m.at = 0 -> m
    [] m.at # 0 /\ m.table[m.at][i] # 0 -> [m EXCEPT !.at = m.table[m.at][i]]
    [] m.at # 0 /\ m.table[m.at][i] = 0 /\ NoPage(m) -> [m EXCEPT !.at = 0]
    [] OTHER -> LET f == NextPage(m) IN
         [PmmAllocPage(m) EXCEPT !.table[f] = EmptyTable, !.table[m.at][i] = f, !.at = f]

\* The walk vmm_map, vmm_unmap and vmm_is_mapped have in common.
PageTable(m, v) ==
  EnsureTable(EnsureTable(EnsureTable([m EXCEPT !.at = Root],
    Indices(v)[1]), Indices(v)[2]), Indices(v)[3])

\* vmm_map, and with phys = 0 vmm_unmap; neither says whether it worked.
VmmMap(m, v, phys) ==
  LET p == PageTable(m, v)
  IN  IF p.at = 0 THEN p ELSE [p EXCEPT !.table[p.at][Indices(v)[4]] = phys]

\* vmm_map_range, of the two pages from v on.
VmmMapRange(m, v, phys) == VmmMap(VmmMap(m, v, phys), v + 1, phys + 1)

\* next_table, and the entry vmm_translate ends at.
Entry(m, t, i) == IF t = 0 THEN 0 ELSE m.table[t][i]

\* vmm_translate
Translate(m, v) ==
  Entry(m, Entry(m, Entry(m, Entry(m, Root, Indices(v)[1]), Indices(v)[2]),
    Indices(v)[3]), Indices(v)[4])

BadAllocPage(m, v) == VmmMap(m, v, NextPage(m))

\* vmm_alloc_page, when there is a page.
AllocPage(m, v) == VmmMap(PmmAllocPage(m), v, NextPage(m))

BadFreePage(m, v) == VmmMap(m, v, 0)

\* vmm_free_page, of a page that is mapped.
FreePage(m, v) == PmmFreePage(VmmMap(m, v, 0), Translate(m, v))

Becomes(m) == table' = m.table /\ bits' = m.bits /\ owned' = m.owned

----------------------------------------------------------------------------
(* heap.c                                                                  *)

BadGrow(h, target) ==
  CASE h.end >= target -> h
    [] h.end < target /\ NoPage(h.mem) -> [h EXCEPT !.end = @ + PageUnits]
    [] OTHER -> [h EXCEPT !.mem = AllocPage(@, HeapStart + h.end \div PageUnits),
                          !.end = @ + PageUnits]

\* One turn of kmalloc's loop, which grows the heap to reach `target`.
Grow(h, target) ==
  CASE h.end >= target \/ ~h.ok -> h
    [] h.end < target /\ h.ok /\ NoPage(h.mem) -> [h EXCEPT !.ok = FALSE]
    [] OTHER -> [h EXCEPT !.mem = AllocPage(@, HeapStart + h.end \div PageUnits),
                          !.end = @ + PageUnits]

\* The heap after n turns.
Grown(target, n) ==
  LET h[k \in 0..n] ==
        IF k = 0 THEN [mem |-> Memory, end |-> heap_end, ok |-> TRUE]
        ELSE Grow(h[k - 1], target)
  IN  h[n]

\* kmalloc, of n units; kfree does nothing, so nothing is ever given back.
Kmalloc(n) ==
  /\ boot \in {"nvme", "done"}
  /\ heap_current + n <= MaxHeap
  /\ LET h == Grown(heap_current + n, MaxBlock)
     IN  /\ Becomes(h.mem)
         /\ heap_end' = h.end
         /\ heap_current' = IF h.ok THEN heap_current + n ELSE heap_current
  /\ UNCHANGED <<mapVars, direct, boot>>

\* krealloc, which copies nothing and leaves the block it is given as it is.
Krealloc(n) == Kmalloc(n)

\* kcalloc, of so many elements that the product does not overflow.
Kcalloc(count, n) == Kmalloc(count * n)

----------------------------------------------------------------------------
(* kmain and the other callers                                             *)

\* main.c:154
MapLapic ==
  /\ boot = "map"
  /\ boot' = "heap"
  /\ Becomes(VmmMap(Memory, LapicPage, Lapic))
  /\ UNCHANGED <<mapVars, direct, heapVars>>

HeapInit ==
  /\ boot = "heap"
  /\ boot' = "nvme"
  /\ LET h == Grown(PageUnits, 1) IN Becomes(h.mem) /\ heap_end' = h.end
  /\ UNCHANGED <<mapVars, direct, heap_current>>

\* nvme_init maps the two pages of its registers at the address the heap starts
\* at; without an NVMe controller kmain goes on.
NvmeMap ==
  /\ boot = "nvme"
  /\ boot' = "done"
  /\ \/ Becomes(VmmMapRange(Memory, HeapStart, Bar))
     \/ UNCHANGED <<table, pmmVars>>
  /\ UNCHANGED <<mapVars, direct, heapVars>>

\* A caller of pmm_alloc_page, as nvme_init is for its rings, gets a page.
TakePage ==
  /\ boot \in {"nvme", "done"}
  /\ Cardinality(direct) < MaxDirect
  /\ ~NoPage(Memory)
  /\ Becomes(PmmAllocPage(Memory))
  /\ direct' = direct \cup {NextPage(Memory)}
  /\ UNCHANGED <<mapVars, heapVars, boot>>

\* It gives the page back.
GivePage(f) ==
  /\ f \in direct
  /\ Becomes(PmmFreePage(Memory, f))
  /\ direct' = direct \ {f}
  /\ UNCHANGED <<mapVars, heapVars, boot>>

\* vmm_alloc_page of a page that is not mapped.
VmmAllocPage(v) ==
  /\ boot \in {"nvme", "done"}
  /\ Translate(Memory, v) = 0
  /\ ~NoPage(Memory)
  /\ Becomes(AllocPage(Memory, v))
  /\ UNCHANGED <<mapVars, direct, heapVars, boot>>

\* vmm_free_page
VmmFreePage(v) ==
  /\ Translate(Memory, v) # 0
  /\ Becomes(FreePage(Memory, v))
  /\ UNCHANGED <<mapVars, direct, heapVars, boot>>

\* vmm_is_mapped, which makes the tables it looks for.
VmmIsMapped(v) ==
  /\ boot \in {"nvme", "done"}
  /\ Becomes(PageTable(Memory, v))
  /\ UNCHANGED <<mapVars, direct, heapVars, boot>>

\* pmm_init found no usable page.
Halted == boot = "halted" /\ UNCHANGED vars

\* kmain up to vmm_init.
Init ==
  /\ PmmInit
  /\ table = [f \in UsableFrames \cup {Root} |-> IF f = Root THEN EmptyTable ELSE Dirty]
  /\ direct = {}
  /\ heap_current = 0
  /\ heap_end = 0
  /\ boot = IF NonEmpty(usable) = {} THEN "halted" ELSE "map"

Next ==
  \/ MapLapic \/ HeapInit \/ NvmeMap \/ Halted
  \/ \E n \in 1..MaxBlock : Kmalloc(n) \/ Krealloc(n)
  \/ \E count, n \in 1..MaxBlock : count * n <= MaxBlock /\ Kcalloc(count, n)
  \/ TakePage \/ \E f \in direct : GivePage(f)
  \/ \E v \in OtherPages : VmmAllocPage(v) \/ VmmFreePage(v) \/ VmmIsMapped(v)

Spec == Init /\ [][Next]_vars

----------------------------------------------------------------------------
(* Properties                                                              *)

Below(tables) == {table[t][i] : t \in tables, i \in Index} \ {0}

Level3 == Below({Root})
Level2 == Below(Level3)
Level1 == Below(Level2)
Tables == {Root} \cup Level3 \cup Level2 \cup Level1

TypeOK ==
  /\ memmap \in Maps
  /\ bits \subseteq 0..PageCount(usable) - 1
  /\ direct \subseteq owned
  /\ owned \subseteq DOMAIN table
  /\ \A f \in DOMAIN table : table[f] \in [Index -> Nat]
  /\ heap_current \in 0..heap_end
  /\ heap_end \in {k * PageUnits : k \in 0..MaxHeap}
  /\ boot \in {"map", "heap", "nvme", "done", "halted"}

\* The entries, of the tables in use, that lead to frame f.
EntriesTo(f) == {e \in Tables \X Index : table[e[1]][e[2]] = f}

\* The tables form a tree and no frame is two things: a frame that is free, the
\* bitmap's or in direct use is nowhere in it, and any other is in one place, so
\* that no page shares its frame with another page or with a page table; and the
\* state is well-formed.
OneUse ==
  /\ TypeOK
  /\ Tables \subseteq owned \cup {Root}
  /\ \A f \in UsableFrames :
       Cardinality(EntriesTo(f)) <= IF f \in owned \ direct THEN 1 ELSE 0

\* The frames in nobody's hands: owned, but neither in the tree nor in direct use.
Lost == {f \in owned \ direct : EntriesTo(f) = {}}

\* A frame is lost only when memory has run out under vmm_map, which has no way
\* to say so (vmm.c:281), or when nvme_init maps over the heap.
LostOnlyWhenFull ==
  [][Lost' \subseteq Lost \/ ClearBits(Memory)' = {} \/ boot' # boot]_vars

\* Each page below heap_end is mapped, but for those whose frame was lost to a
\* vmm_map that failed (vmm.c:281, heap.c:29).
HeapBacked ==
  Cardinality({k \in 0..(heap_end \div PageUnits) - 1 :
                 Translate(Memory, HeapStart + k) = 0}) <= Cardinality(Lost)

\* A page of the heap keeps its frame, and with it its contents.
HeapKeepsFrames ==
  [][\A k \in 0..(heap_end \div PageUnits) - 1 :
       LET v == HeapStart + k
       IN  Translate(Memory, v) # 0 => Translate(Memory, v)' = Translate(Memory, v)]_vars
=============================================================================
