SPECIFICATION FairSpec
CONSTANTS
  Tries = 3
  Ports <- MCPorts
  MaxDups = 1
INVARIANTS
  AnswerIsFresh
  SocketsBounded
  InterruptIsObeyed
PROPERTIES
  ImplementsRetry
  Terminates
