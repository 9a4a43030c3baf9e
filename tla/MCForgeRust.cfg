SPECIFICATION Spec
CONSTANTS
  ByteBits = 3
  CharBits = 5
  Contents <- MCContents
INVARIANT
  RustDecodesFormat
