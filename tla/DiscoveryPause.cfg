\* Do the other servers pause while one rewrites the slots?
CONSTANTS
  Nodes = {n1, n2}
  NoOne = NoOne
  NoRow = NoRow
  TOTAL_SLOT_COUNT = 6
  HeartTimeout = 1
  MaxThrows = 0
  MaxCrashes = 0
  MayRestart = FALSE
SPECIFICATION Spec
SYMMETRY Symmetry
INVARIANTS
  PeersPause
