SPECIFICATION Spec
CONSTANTS
  Expected <- MCExpected
  Unexpected <- MCUnexpected
  Timeout = "TimeoutError"
INVARIANTS
  JsonIsTruthful
  WarningIsEarned
  ExitCodeIsHonest
