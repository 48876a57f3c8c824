SPECIFICATION DriverSpec
CONSTANTS
    NoBlock = "none"
    L1Genesis = "A0"
    L2Genesis = "g"
    L1Blocks <- MCL1Blocks
    L1Number <- MCL1Number
    L1Parent <- L1ParentDef
    L1Chain <- MCL1Chain
    L2Blocks <- MCL2Blocks
    L2Number <- MCL2Number
    L2Parent <- L2ParentDef
    L2Chain <- MCL2Chain
    L2Origin <- MCL2Origin
    DerivedAt <- MCDerivedAt
    DepositOnly = {"c1"}
    Sequenced = {"a1"}
    SeqWindow = 1
    MaxReorgSeqWindows = 5
    ChannelTimeout = 1
    FinalityLookback = 2
    FinalityDelay = 1
    Invalid = {}
    Faults = {"rpc"}
    Gossip = {"a1"}
    Signalled = {}
    MaxReorgs = 1
    SequencerEnabled = TRUE
    SequencerMaxSafeLag = 1
    MaxFailures = 1
    MaxResets = 1
    MaxNodeRestarts = 0
    MaxEngineRestarts = 0
INVARIANTS
    SequencerArmed
    IdleIsDone
PROPERTIES
    CatchesUp
CHECK_DEADLOCK FALSE
