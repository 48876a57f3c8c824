SPECIFICATION Spec
CONSTANTS
    NoBlock = "none"
    L1Genesis = "A0"
    L2Genesis = "g"
    L1Blocks <- MCL1Blocks
    L1Number <- MCL1Number
    L1Parent <- L1ParentDef
    L1Chain <- MCL1Chain
    L2Blocks <- MCL2Blocks
    L2Number <- MCL2Number
    L2Parent <- L2ParentDef
    L2Chain <- MCL2Chain
    L2Origin <- MCL2Origin
    DerivedAt <- MCDerivedAt
    DepositOnly = {"b2", "c1"}
    Sequenced = {"a1", "a2", "a3", "a4"}
    SeqWindow = 1
    MaxReorgSeqWindows = 5
    ChannelTimeout = 1
    FinalityLookback = 2
    FinalityDelay = 1
    Invalid = {"i1"}
    Faults = {}
    Gossip = {}
    Signalled = {"A2"}
    MaxReorgs = 1
    MaxNodeRestarts = 1
    MaxEngineRestarts = 1
INVARIANTS
    HeadsOnOneChain
PROPERTIES
    ResetSafeDerivable
CHECK_DEADLOCK FALSE
