\* Two servers with an executor each, two faults, from the first start.
CONSTANTS
  s1 = s1
  s2 = s2
  w1 = w1
  w2 = w2
  Servers = {s1, s2}
  Workers = {w1, w2}
  Home <- HomeOfEach
  NoList = NoList
  MaxFaults = 2
SPECIFICATION FairRegistrySpec
CHECK_DEADLOCK FALSE
INVARIANTS
  RegistryTypeOK
  RetainedIsCurrent
PROPERTY
  ListsSpread
