SPECIFICATION Spec
CONSTANTS
    Store = {1, 2}
    Known = {1, 2}
    SyncCapability = 1
    Negotiations <- MCNegotiations
    Requests <- MCRequests
    MaxTargets = 2
    MaxEntries = 3
    MaxTip = 1
INVARIANTS
    NegotiatedMutual
    TransfersFromPreflight
    ErrorTransfersNothing
    EveryTargetAnswered
    CacheCoversMoves
