SPECIFICATION ProducingSpec
CONSTANTS
  c1 = c1
  c2 = c2
  NoCpu = NoCpu
  Cpus <- MCCpus
  DataSize = 32
  Align = 2
  HdrSize = 6
  Requests <- MCRequests
  Garbage <- MCGarbage
  MaxCalls = 3
  MaxCrashes = 1
  MaxScribbles = 0
INVARIANTS TypeOK InboxFaithful EveryCallCounted RingInv
PROPERTIES UnreadUntouched ImplementsQueue PollingDrains CallsReturn
