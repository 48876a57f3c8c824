SPECIFICATION Spec
CONSTANTS
    None = None
    EpochOf <- MCEpochOf
    SizeOf <- MCSizeOf
    SeqWindowSize = 10
    ChannelTimeout = 2
    MaxChannelDuration = 2
    SubSafetyMargin = 1
    InputThreshold = 3
    MaxRLPBytesPerChannel = 3
    MaxFrames = 2
    MaxPendingTransactions = 2
    LateInclusion = FALSE
    MaxL1 = 4
    MaxL2 = 2
    MaxFailures = 2
    MaxReorgs = 1
    MaxStarts = 1
INVARIANTS FramesAccounted NothingLost OneChain DrainCompletes
CHECK_DEADLOCK FALSE
