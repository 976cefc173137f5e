SPECIFICATION RSpec
CONSTANTS
  BufferSize = 2
  MaxBytes = 4
  MaxFiles = 1
  NoFile = NoFile
  ReadSize = 2
  OffMax = 5
INVARIANT SkipStopsAtEnd
CHECK_DEADLOCK FALSE
