SPECIFICATION Spec
CONSTANTS
    None = None
    s1 = s1
    s2 = s2
    Sends <- MCSends
    MaxPrice <- MCMaxPrice
    NumConfirmations = 2
    SafeAbortNonceTooLowCount = 1
    ReorgDepth = 1
    MaxReorgs = 1
INVARIANTS
    BumpsReplace
    NonceNotTaken
PROPERTIES
    ImplementsSender
    SendEnds
CHECK_DEADLOCK FALSE
