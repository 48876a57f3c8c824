SPECIFICATION SpecBoth
CONSTANTS
    None = None
    Data <- MCData
    FrameSize <- MCFrameSize
    ChannelIDs = {"c", "d", "e"}
    L1Data <- MCL1Data
    Chains <- MCChains
    Corrupt = {}
    ChannelTimeout = 2
    MaxChannelBankSize = 9
    MaxL1 = 6
    MaxResets = 1
    FetchFails = FALSE
INVARIANTS SameOutputsUnlessSplit Assembled
CHECK_DEADLOCK FALSE
