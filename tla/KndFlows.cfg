SPECIFICATION Spec
CONSTANTS
  f1 = f1
  f2 = f2
  c1 = c1
  c2 = c2
  p1 = p1
  Flows <- MCFlows
  Cpus <- MCCpus
  Clients <- MCClients
  RingCap = 2
  CopyMax = 3
  MaxChunk = 2
  PacketCap = 2
  PayloadCaps <- MCPayloadCaps
  Lengths <- MCLengths
  Wrap = 8
  MaxIndications = 1
  MaxSwitches = 2
  MaxClears = 1
SYMMETRY MCSymmetry
VIEW MCView
INVARIANTS TypeOK LifeInOrder ActiveFlowsCounts UnmarkedIsComplete WireFaithful ListsAgree TotalsWhileOpen
CHECK_DEADLOCK FALSE
