SPECIFICATION Spec
CONSTANTS
    NoBlock = "none"
    L1Genesis = "A0"
    L2Genesis = "g"
    L1Blocks <- MCL1Blocks
    L1Number <- MCL1Number
    L1Parent <- L1ParentDef
    L1Chain <- MCL1Chain
    L2Blocks <- MCL2Blocks
    L2Number <- MCL2Number
    L2Parent <- L2ParentDef
    L2Chain <- MCL2Chain
    L2Origin <- MCL2Origin
    DerivedAt <- MCDerivedAt
    DepositOnly = {"b2", "c1"}
    Sequenced = {"a1", "a2"}
    SeqWindow = 1
    MaxReorgSeqWindows = 5
    ChannelTimeout = 1
    FinalityLookback = 3
    FinalityDelay = 1
    Invalid = {"i1"}
    Faults = {"rpc", "refused"}
    Gossip = {"x1"}
    Signalled = {"A2"}
    MaxReorgs = 1
    MaxNodeRestarts = 0
    MaxEngineRestarts = 0
INVARIANTS
    HeadsOnOneChain
    SafeDerivable
    FinalizedReproducible
CHECK_DEADLOCK FALSE
