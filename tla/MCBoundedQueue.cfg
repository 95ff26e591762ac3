\* Two producers and two consumers share two slots (no symmetry: some of the
\* properties are temporal).
SPECIFICATION FairQueueSpec
CONSTANTS
  p1 = p1
  p2 = p2
  c1 = c1
  c2 = c2
  x1 = x1
  x2 = x2
  NULL = NULL
  Producers = {p1, p2}
  Consumers = {c1, c2}
  Items = {x1, x2}
  Capacity = 2
INVARIANTS
  OneInRing
  SlotsAccounted
PROPERTIES
  ImplementsFifo
  StoredIsTaken
