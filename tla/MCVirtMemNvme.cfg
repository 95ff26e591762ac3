\* nvme_init maps the registers where the heap starts.
SPECIFICATION Spec
CONSTANTS
  Maps <- RoomyMaps
  BitsPerFrame = 6
  Root = 100
  Lapic = 200
  Bar = 300
  Entries = 2
  HeapStart = 8
  LapicPage = 0
  OtherPages = {1, 12}
  PageUnits = 2
  MaxHeap = 6
  MaxBlock = 3
  MaxDirect = 2
PROPERTIES
  HeapKeepsFrames
