SPECIFICATION FairSpec
CONSTANTS
    None = None
    EpochOf <- MCEpochOf
    SizeOf <- MCSizeOf
    SeqWindowSize = 10
    ChannelTimeout = 2
    MaxChannelDuration = 2
    SubSafetyMargin = 1
    InputThreshold = 3
    MaxRLPBytesPerChannel = 3
    MaxFrames = 2
    MaxPendingTransactions = 2
    LateInclusion = FALSE
    MaxL1 = 2
    MaxL2 = 2
    MaxFailures = 1
    MaxReorgs = 0
    MaxStarts = 2
INVARIANT Resumes
PROPERTY Stops
CHECK_DEADLOCK FALSE
