SPECIFICATION Spec
CONSTANTS
    W = 8
    FileLoaders <- MCFileLoaders
    Files <- MCFiles
    MaxFails = 1
    MaxRequests = 2
    Savers <- MCSavers
    Contents <- MCContents
    MaxWriteFails = 2
    SectorLoaders <- MCSectorLoaders
    Link <- MCLink
    NumBuffers = 2
    MaxSectorFails = 1
    MaxCommands = 2
    Programs <- MCPrograms
    NONE = "none"
    MaxBlocks = 6
    MaxExec = 3
    Routines <- MCRoutines
\* A loader may wait for ever for a computer that has gone away.
CHECK_DEADLOCK FALSE
INVARIANTS LoadsRight SavesRight SectorsRight RightHandler LinesRight
PROPERTY LoadersEnd
