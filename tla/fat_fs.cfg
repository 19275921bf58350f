SPECIFICATION Spec
CONSTANTS
  Formats <- MCFormats
  Long = {2, 3}
  MaxOps = 3
  AfterFailure = 1
  MaxIo = 8
CHECK_DEADLOCK FALSE
INVARIANTS Consistent WindowSound FilesRight
