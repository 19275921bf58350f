SPECIFICATION Spec
CONSTANTS
  Bus = "IEEE"
  BufferCount = 3
  SAs = {2, 3}
  Names = {f}
  Partitions = {p}
  ChainSizes = {2}
SYMMETRY Symmetric
INVARIANTS OneActiveBuffer PoolInvariant
PROPERTY ReplaceKeepsFile
