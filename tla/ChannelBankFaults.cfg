SPECIFICATION FairSpec
CONSTANTS
    None = None
    Data <- MCData
    FrameSize <- MCFrameSize
    ChannelIDs = {"c", "d"}
    L1Data <- SomeBlocks
    Corrupt = {"x"}
    ChannelTimeout = 1
    MaxChannelBankSize = 4
    MaxL1 = 4
    MaxResets = 1
    FetchFails = TRUE
INVARIANTS BankAccounted IngestedInOrder InclusionAgrees
PROPERTIES DrainsL1
CHECK_DEADLOCK FALSE
