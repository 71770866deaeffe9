\* Two servers that can beat in time, of which one may die and stay dead.
CONSTANTS
  Nodes = {n1, n2}
  NoOne = NoOne
  NoRow = NoRow
  TOTAL_SLOT_COUNT = 4
  HeartTimeout = 2
  MaxThrows = 0
  MaxCrashes = 1
  MayRestart = FALSE
SPECIFICATION FairSpec
PROPERTIES
  StoppedResumes
  DeadForgotten
  Converges
