\* Up to four rows over a slot count that four does not divide.
CONSTANTS
  TOTAL_SLOT_COUNT = 11
  MaxServers = 4
  MaxChanges = 3
SPECIFICATION Spec
INVARIANTS
  TypeOK
  WholeIffPartition
PROPERTIES
  ReslotRepairs
  EventuallyPartition
CHECK_DEADLOCK FALSE
