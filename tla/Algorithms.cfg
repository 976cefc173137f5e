SPECIFICATION ASpec
CONSTANTS
  Group = 2
  Bits = 5
  Base = 3
  MaxLen = 4
  MaxByte = 3
  MaxKeyLen = 2
  TypeBase = 3
  MaxSeq = 2
  HashBits = 4
  Rotate = 3
  ByteBits = 4
  MinBits = 5
  MaxK = 2
  MaxKeys = 3
  Users <- MCUsers
  Policies = {0, 5}
  Decades = 1
  LastLimit = 1000
  MaxData = 40
  Samples <- MCSamples
  MaxSamples = 2
  BlockSize = 3
  Garbage = Garbage
  MaxCalls = 3
  MaxAppend = 5
  StackBuffer = 6
  MaxHeader = 3
  MaxMessage = 9
INVARIANTS
  NumbersRoundTrip DecoderStaysInside SeparatorSeparates LookupSeesSnapshot NoFalseNegatives
  ChecksumExact HistogramExact ReadIsSlice LineIsWhole
