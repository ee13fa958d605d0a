SPECIFICATION HostileSpec
CONSTANTS
  c1 = c1
  c2 = c2
  NoCpu = NoCpu
  Cpus <- MCOneCpu
  DataSize = 16
  Align = 2
  HdrSize = 6
  Requests <- MCRequestsTiny
  Garbage <- MCGarbage
  MaxCalls = 3
  MaxCrashes = 0
  MaxScribbles = 1
INVARIANTS StoresInBounds SafeInv
