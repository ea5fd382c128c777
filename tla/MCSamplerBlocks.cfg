CONSTANTS
    BlockNumber = 7
    SlotLimit = 16
    Oracles <- MCLinearOracle
    Lengths = {300}
    Types = {1}
    FilePools <- MCNoFiles
    FillerPools <- MCNoFiles
    MinerStates <- MCNoFiles
    FileBlocks = 1
    Exhausted = Exhausted
    Overflow = Overflow
    NoMinerId = NoMinerId

SPECIFICATION Spec

INVARIANTS
    BlockListNamesDrawnBlocks
