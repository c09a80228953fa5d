CONSTANTS
  MaxLines = 4
  Mishap = {"slow", "death"}
SPECIFICATION FairSpec
CHECK_DEADLOCK FALSE
INVARIANTS
  HandshakeFirst
PROPERTIES
  ImplementsServer
  EveryRequestAnswered
