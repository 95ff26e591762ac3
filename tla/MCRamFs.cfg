\* Callers that move nodes where they may go.
SPECIFICATION Spec
CONSTANTS
  Root = root
  n1 = n1
  n2 = n2
  n3 = n3
  n4 = n4
  Nodes = {root, n1, n2, n3, n4}
  Stems = {"a", "b"}
  MaxCopies = 1
  MaxMarks = 1
  Contents = {"x"}
  NULL = NULL
  Careful = TRUE
SYMMETRY BlockSymmetry
INVARIANTS
  TreeSound
  PathsUnique
  FaultsAreMarked
CHECK_DEADLOCK FALSE
