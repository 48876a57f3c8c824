SPECIFICATION FairSpec
CONSTANTS
    None = None
    Chains <- MCChains
    L1Time <- MCL1Time
    BlockTime = 2
    SeqWindowSize = 2
    MaxSequencerDrift = 2
    ChannelTimeout = 2
    MaxL1 = 5
    ResetOrigins = {0, 1, 2}
    MaxResets = 1
INVARIANTS ResetsExplained ChainRules EagerIsNonEager SequencedAccepted
PROPERTIES FillsWindow
CHECK_DEADLOCK FALSE
