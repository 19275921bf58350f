SPECIFICATION Spec
CONSTANTS
  W = 5
  Cap = 4
  Chars = {5, 7}
  Lengths = {2}
  Far = 4
  Offsets = {2, 6}
INVARIANT RecordsRight
PROPERTIES ImplementsSequential RecordIsolated
