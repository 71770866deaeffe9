\* Three servers, an expiry of two time units read one unit apart at most.
CONSTANTS
  Nodes = {n1, n2, n3}
  NoRow = NoRow
  Expiry = 2
  Skew = 1
  MaxVersion = 2
  MaxCuts = 2
SPECIFICATION FairSpec
INVARIANTS
  TypeOK
  HoldsUnlessTaken
  MutexUnlessTaken
PROPERTIES
  TakenOnlyWhenExpiredOrReborn
  OrphanRecovered
  ImplementsLease
