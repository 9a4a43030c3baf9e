SPECIFICATION FairSpec
CONSTANTS
  Tries = 3
  TokenOf <- RandomTokens
  Json = 4
  Garbage = 5
  Garbled = {"ping"}
INVARIANTS
  PingIsTimed
  HandshakeFirst
  RejectNeedsTimeout
PROPERTIES
  ImplementsRetry
  Terminates
