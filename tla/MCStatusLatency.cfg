SPECIFICATION Spec
CONSTANTS
  Tries = 3
  TokenOf <- RandomTokens
  Json = 4
  Garbage = 5
  Garbled = {"ping"}
INVARIANT
  LatencyIsRoundTrip
