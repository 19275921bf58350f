SPECIFICATION Spec
CONSTANTS
  Bus = "IEC"
  BufferCount = 3
  SAs = {0, 2}
  Names = {f, g}
  Partitions = {p}
  ChainSizes = {2}
SYMMETRY Symmetric
VIEW Followed
INVARIANTS TypeOK ActiveBuffersExact BamPointersExact PoolTidy
PROPERTY CloseReleases
