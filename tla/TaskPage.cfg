\* At most two tasks, pages of one or two.
CONSTANTS
  NoKey = NoKey
  NoData = NoData
  Refused = Refused
  Starts <- FirstTasks
  MaxTasks = 2
  Sizes = {1, 2}
  InitialSize = 1
  MaxClicks = 3
  MaxFaults = 1
SPECIFICATION FairPageSpec
CHECK_DEADLOCK FALSE
INVARIANTS
  PageTypeOK
  OneStepShown
  SwitchAgrees
PROPERTY
  ListCatchesUp
