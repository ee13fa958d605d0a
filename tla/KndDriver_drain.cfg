SPECIFICATION PromptSpec
CONSTANTS
  p1 = p1
  p2 = p2
  c1 = c1
  c2 = c2
  NoProc = NoProc
  Procs <- MCProcs
  Cpus <- MCCpus
  LastCallout = 3
  FlowCallouts <- MCFlowCallouts
  StreamCallouts <- MCStreamCallouts
  MaxTries = 3
  MaxLoads = 2
INVARIANTS PoolOutlivesCallouts
CHECK_DEADLOCK FALSE
