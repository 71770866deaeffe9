\* Two servers with an executor each, two rows, one fault; a task that is for one executor.
CONSTANTS
  s1 = s1
  s2 = s2
  w1 = w1
  w2 = w2
  Servers = {s1, s2}
  Workers = {w1, w2}
  Home <- HomeOfEach
  NoList = NoList
  Nobody = Nobody
  Job = Job
  Calls = {c1}
  Mode = "alone"
  Outcomes <- OutcomesOfEach
  MaxLogs = 2
  MaxFaults = 1
SPECIFICATION ConnectedSpec
CHECK_DEADLOCK FALSE
INVARIANT
  TaskIdIsTheTask
