\* Two servers; a call throws, a server dies and comes back.
CONSTANTS
  Nodes = {n1, n2}
  NoOne = NoOne
  NoRow = NoRow
  TOTAL_SLOT_COUNT = 6
  HeartTimeout = 2
  MaxThrows = 1
  MaxCrashes = 1
  MayRestart = TRUE
SPECIFICATION Spec
SYMMETRY Symmetry
INVARIANTS
  TypeOK
  NeverLeftStopped
  NeverYounger
  OneRowEach
PROPERTIES
  PartitionKept
