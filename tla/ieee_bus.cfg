SPECIFICATION FairSpec
CONSTANTS
  CmdSize = 1
  MaxSent = 2
  Settings <- Boards
INVARIANTS FlagsCover BusReleased RolesSound BytesExact
PROPERTY NothingHangs
