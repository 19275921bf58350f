SPECIFICATION Spec
CONSTANTS
  Formats <- MCFormats
  Names = {a, b}
  Handles = {1, 2}
  MaxOps = 3
  MaxFailures = 1
  MaxIo = 8
SYMMETRY Symmetry
CHECK_DEADLOCK FALSE
INVARIANTS Consistent CacheTrue FilesReadable
