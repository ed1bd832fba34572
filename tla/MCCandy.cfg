SPECIFICATION FairSpec
CONSTANTS
  Lines = 3
  Payers = {a, u}
  Authority = a
  ChunkSize = 2
  SliceSize = 2
  MaxLate = 1
INVARIANTS
  CountIsLinesWritten
  MintsInOrder
  UploadMends
PROPERTIES
  UploadEnds
