\* Page allocator, page tables and heap, with and without an NVMe controller.
SPECIFICATION Spec
CONSTANTS
  Maps <- RoomyMaps
  BitsPerFrame = 6
  Root = 100
  Lapic = 200
  Bar = 300
  Entries = 2
  HeapStart = 8
  LapicPage = 0
  OtherPages = {1, 12}
  PageUnits = 2
  MaxHeap = 6
  MaxBlock = 3
  MaxDirect = 2
INVARIANTS
  BitsMatchOwners
  BitmapSafe
  OneUse
  HeapBacked
PROPERTIES
  LostOnlyWhenFull
