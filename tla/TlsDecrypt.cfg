SPECIFICATION Spec
CONSTANTS
  Flows <- MCFlows
  HoledDirs <- MCHoledDirs
  HoleLengths <- MCHoleLengths
  HdrLen = 2
  Payload <- MCPayload
  JunkLengths <- MCJunkLengths
INVARIANTS TypeOK OnlyWhatWasSent DecryptedUpToLoss
CHECK_DEADLOCK FALSE
