------------------------------ MODULE PhysMem ------------------------------
(***************************************************************************)
(* The physical page allocator: memory/pmm.c over the memory map that      *)
(* kmain takes from the boot loader (memory/memory.c).  Physical memory is *)
(* counted in frames of PAGE_SIZE bytes.  The bitmap has one bit per       *)
(* usable frame, in the order of the regions; it lies in physical memory   *)
(* itself, from the start of the first usable region that is not empty.    *)
(*                                                                         *)
(* Calls of the allocator are steps inside other calls (VirtMem), so they  *)
(* are operators on a record with the allocator's state among its fields:  *)
(* the table of regions, the bits, the frames owned.                       *)
(***************************************************************************)
EXTENDS Integers, Sequences, FiniteSets, FiniteSetsExt

CONSTANTS
  Maps,         \* the boot loader's memory maps: sequences of entries
  BitsPerFrame  \* bits of the bitmap that one frame holds: 8 * PAGE_SIZE

\* What kmain tells apart in a map; any other type is "unknown" to it.
LimineTypes == {"usable", "reserved", "acpi_reclaimable", "acpi_nvs", "bad",
                "bootloader_reclaimable", "executable", "framebuffer"}

\* The boot loader hands over whole frames, no frame twice, and not frame 0,
\* whose address the allocator's callers take for failure.
ASSUME PhysMemAssumption ==
  /\ BitsPerFrame \in Nat \ {0}
  /\ \A m \in Maps :
       /\ m \in Seq([base : Nat \ {0}, pages : Nat, type : STRING])
       /\ \A i, j \in 1..Len(m) :
            i < j => \/ m[i].base + m[i].pages <= m[j].base
                     \/ m[j].base + m[j].pages <= m[i].base

VARIABLES
  memmap,   \* the boot loader's map
  usable,   \* the table of usable regions
  bits,     \* the indices of the bits that are set
  owned     \* the frames handed out and not freed

mapVars == <<memmap, usable>>
pmmVars == <<bits, owned>>

----------------------------------------------------------------------------
(* The table and the bitmap; Bad... as in Scheduler                        *)

\* The types of memory_type_t.
MemoryTypes == <<"usable", "reserved", "acpi_reclaimable", "acpi_nvs", "bad",
                 "bootloader_reclaimable", "executable", "framebuffer", "unknown">>

\* kmain's conversion of a type.
MemoryType(type) == IF type \in LimineTypes THEN type ELSE "unknown"

\* What kmain gives to memory_init, for memory_region to look up.
Regions(m) == [i \in DOMAIN m |-> [m[i] EXCEPT !.type = MemoryType(@)]]

\* What a loop over an array adds up in n turns.
Total(amount, n) ==
  LET sum[i \in 0..n] == IF i = 0 THEN 0 ELSE sum[i - 1] + amount[i]
  IN  sum[n]

\* pmm_init's table.
UsableTable(regions) ==
  LET found[i \in 0..Len(regions)] ==
        IF i = 0 THEN <<>>
        ELSE IF regions[i].type = "usable" THEN Append(found[i - 1], regions[i])
        ELSE found[i - 1]
  IN  found[Len(regions)]

\* The pages of the first i regions of a table.
PagesOf(table, i) == Total([k \in DOMAIN table |-> table[k].pages], i)

PageCount(table) == PagesOf(table, Len(table))

\* memory_amount, in pages
MemoryAmount(regions, type) ==
  Total([i \in DOMAIN regions |-> IF regions[i].type = type THEN regions[i].pages ELSE 0],
        Len(regions))

\* memory_total
MemoryTotal(regions) == PageCount(regions)

\* Frames the bitmap takes.
BitmapPages(table) == (PageCount(table) + BitsPerFrame - 1) \div BitsPerFrame

FramesOf(r) == r.base..r.base + r.pages - 1

NonEmpty(table) == {i \in DOMAIN table : table[i].pages > 0}

\* Where the bitmap lies, whatever is there.
BitmapFrames ==
  IF NonEmpty(usable) = {} THEN {}
  ELSE LET start == usable[Min(NonEmpty(usable))].base
       IN  start..start + BitmapPages(usable) - 1

\* The frame that bit b stands for (pmm_alloc_page's inner loop).
FrameOf(table, b) ==
  LET i == CHOOSE i \in DOMAIN table :
             PagesOf(table, i - 1) <= b /\ b < PagesOf(table, i)
  IN  table[i].base + (b - PagesOf(table, i - 1))

\* The frames of a table of regions.
FramesIn(table) == UNION {FramesOf(table[i]) : i \in DOMAIN table}

\* A search for the region that starts again at bit 0 in each of them.
BadIndexOf(table, f) ==
  LET i == CHOOSE i \in DOMAIN table : f \in FramesOf(table[i])
  IN  f - table[i].base

\* The bit that stands for frame f (pmm_free_page's loop).
IndexOf(table, f) ==
  LET i == CHOOSE i \in DOMAIN table : f \in FramesOf(table[i])
  IN  PagesOf(table, i - 1) + (f - table[i].base)

\* An initialisation that forgets the frames of the bitmap.
BadReserved(table) == {}

\* The bits pmm_init sets for the bitmap: as many as it has frames, from 0 on.
Reserved(table) == 0..BitmapPages(table) - 1

----------------------------------------------------------------------------
(* The calls, on a record m with the fields usable, bits and owned         *)

\* memory_init and pmm_init, which halts if it places no bitmap.
PmmInit ==
  /\ memmap \in Maps
  /\ usable = UsableTable(Regions(memmap))
  /\ bits = IF NonEmpty(usable) = {} THEN {} ELSE Reserved(usable)
  /\ owned = {}

ClearBits(m) == (0..PageCount(m.usable) - 1) \ m.bits

\* What pmm_print counts.
FreePages(m) == Cardinality(ClearBits(m))

\* pmm_alloc_page returns NULL.
NoPage(m) == ClearBits(m) = {}

\* What it returns otherwise: the page of the first bit that is clear.
NextPage(m) == FrameOf(m.usable, Min(ClearBits(m)))

PmmAllocPage(m) ==
  [m EXCEPT !.bits = @ \cup {Min(ClearBits(m))}, !.owned = @ \cup {NextPage(m)}]

\* pmm_free_page, by the owner of the page; another address is an invalid free.
PmmFreePage(m, f) ==
  IF f \in FramesIn(m.usable)
  THEN [m EXCEPT !.bits = @ \ {IndexOf(m.usable, f)}, !.owned = @ \ {f}]
  ELSE m

----------------------------------------------------------------------------
(* Properties                                                              *)

\* The frames the boot loader says are usable.
UsableFrames == UNION {FramesOf(memmap[i]) : i \in {i \in DOMAIN memmap : memmap[i].type = "usable"}}

\* A set bit is the bitmap's or that of one page somebody owns, and the other
\* way round: no page is lost to the allocator and none is free while owned.  What
\* memory_print and pmm_print report adds up.
BitsMatchOwners ==
  NonEmpty(usable) # {} =>
    /\ bits = Reserved(usable) \cup {IndexOf(usable, f) : f \in owned}
    /\ Cardinality(bits) = BitmapPages(usable) + Cardinality(owned)
    /\ Cardinality(bits) + FreePages([usable |-> usable, bits |-> bits])
         = MemoryAmount(Regions(memmap), "usable")
    /\ Total([k \in DOMAIN MemoryTypes |-> MemoryAmount(Regions(memmap), MemoryTypes[k])],
             Len(MemoryTypes))
         = MemoryTotal(Regions(memmap))

\* Whatever is handed out and the bitmap are in usable memory, and apart.  The
\* code puts the bitmap in the first region that is not empty, whether or not it
\* fits (pmm.c:56), and counts on its frames being those of the first bits.
BitmapSafe ==
  /\ owned \cup BitmapFrames \subseteq UsableFrames
  /\ owned \cap BitmapFrames = {}
=============================================================================
