SPECIFICATION Spec
CONSTANTS
  PayloadBits = 2
  IntBits = 3
  LongBits = 5
  MaxChars = 1
  MaxBytes = 2
  Lead = {6, 7}
  Cont = {4, 5}
  ShortSize = 2
  StandardLong = 2
  NativeLong = 3
  Numbers <- MCNumbers
  Fixed <- MCFixed
  Strings <- MCStrings
  Noise <- MCNoise
  MaxData = 6
  MaxFrames = 2
INVARIANTS
  TypeOK
  RoundTrip
  NumbersExact
  RefusalInStep
