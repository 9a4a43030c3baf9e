SPECIFICATION Spec
CONSTANTS
  Tries = 3
  Errors <- MCErrors
INVARIANTS
  OutcomeIsEarned
  NoOrphan
PROPERTIES
  CancelEndsRetry
  AllEnd
