CONSTANTS
    BlockNumber = 7
    SlotLimit = 6
    Oracles <- MCOracles
    Lengths = {0, 1, 3, 8, 15, 22}
    Types = {1, 2}
    FilePools <- MCFilePools
    FillerPools <- MCFillerPools
    MinerStates <- MCMinerStates
    FileBlocks = 3
    Exhausted = Exhausted
    Overflow = Overflow
    NoMinerId = NoMinerId

SPECIFICATION Spec

INVARIANTS
    NumberListMatchesReference
    SampledFilesActiveAndDistinct
