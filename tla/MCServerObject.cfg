SPECIFICATION ObjectSpec
CONSTANTS
  Hosts <- MCHosts
  Ports <- MCPorts
  NoPort <- MCNoPort
  DefaultPort = 5
  MaxPort = 9
  Tasks = {t1, t2}
  IPs <- MCIPs
  AnswersOf <- MCAnswersOf
  None = "none"
  MaxLookups = 3
INVARIANTS
  DefaultNeedsNoRecord
  QueryFollowsPort
  TargetIsGiven
PROPERTIES
  QuietIsForever
