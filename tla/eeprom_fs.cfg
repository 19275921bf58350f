SPECIFICATION Spec
CONSTANTS
  Names = {1, 2}
  ENTRIES = 3
  SECTOR_COUNT = 3
  SECTORSIZE = 2
  Links = 1
  Chunk = 3
  MaxSize = 5
  MaxOps = 4
  MaxFailures = 1
INVARIANTS Consistent ReadBack DirectoryTrue
