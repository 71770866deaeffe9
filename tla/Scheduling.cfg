\* A task whose period no load interval divides.
CONSTANTS
  Period = 5
  LoadInterval = 3
  Lookahead = 3
  MaxFiring = 3
  MaxDisturbances = 4
SPECIFICATION FairSpec
INVARIANTS
  TypeOK
  EveryOccurrence
  NoDuplicate
  LeftoverOnce
PROPERTIES
  NeverForgotten
