SPECIFICATION Spec
CONSTANTS
  Devices = {8, 9}
  Bits = 2
  CmdSize = 2
  FileSize = 2
  Setups <- BothSetups
INVARIANTS BusAgreed DataIntact
PROPERTY Ends
