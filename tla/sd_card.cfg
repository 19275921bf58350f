SPECIFICATION Spec
CONSTANTS
  MAX_CARDS = 2
  Sectors = 3
  Scale = 2
  Retries = 2
  Stock <- Slots
  MaxOps = 3
  MaxNoise = 2
  MaxSwaps = 2
  Polls = 1
INVARIANT DriverSound
PROPERTIES OnlyWritten Ends
