SPECIFICATION Spec
CONSTANTS
  Messages <- MCMessages
  MaxSent = 3
  HoleLengths <- MCHoleLengths
  kMaxMessages = 2
  kMaxBody = 2
INVARIANTS TypeOK InBounds MessagesFound PartialIsPrefix
PROPERTIES ParseEnds
CHECK_DEADLOCK FALSE
