SPECIFICATION Spec
CONSTANTS
    None = None
    Wrong = Wrong
    a = a
    b = b
    d = d
    Withdrawals <- MCWithdrawals
    Messages <- MCMessages
    MessageOf <- MCMessageOf
    Value <- MCValue
    RefusedSets <- MCRefusedSets
    SentAt <- MCSentAt
    Roots <- MCRoots
    RootOf <- MCRootOf
    Contents <- MCContents
    SubmissionInterval = 2
    L2BlockTime = 1
    FinalizationPeriodSeconds = 1
    StartingBlockNumber = 0
    StartingTimestamp = 0
    HashWindow = 2
    MaxLag = 1
    MaxFaults = 1
    MaxTime = 7
    MaxBlock = 4
INVARIANTS FinalizedWereSent FinalizedIsGrounded RelayedOnce Solvent NothingStuck SendersMatchCalls
    OutputsInOrder SearchFindsFirst
PROPERTY FinalOutputsStay
CHECK_DEADLOCK FALSE
