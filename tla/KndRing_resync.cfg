SPECIFICATION CorruptSpec
CONSTANTS
  c1 = c1
  c2 = c2
  NoCpu = NoCpu
  Cpus <- MCOneCpu
  DataSize = 16
  Align = 2
  HdrSize = 6
  Requests <- MCRequestsTiny
  Garbage <- MCGarbage
  MaxCalls = 2
  MaxCrashes = 0
  MaxScribbles = 1
PROPERTIES CorruptionRecovers
