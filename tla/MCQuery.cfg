SPECIFICATION FairSpec
CONSTANTS
  Tries = 2
  Challenges <- MCChallenges
  Ports <- MCPorts
  MaxDups = 1
  MaxNoise = 1
INVARIANTS
  ChallengeWasIssued
  SocketPerTry
  RejectNeedsCopyOrReuse
PROPERTIES
  ImplementsRetry
  Terminates
