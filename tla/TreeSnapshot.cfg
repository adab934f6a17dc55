SPECIFICATION Spec
CONSTANTS
    Trees <- MCTrees
    HostileBlobs = {3}
    OutLimit = 2
    ErrLimit = 1
    MaxBytes = 4
    PipeCapacity = 1
    MaxTroubles = 2
    PromptExit = TRUE
INVARIANTS
    SnapshotComplete
    HostileOnlyByData
    NothingLeftBehind
    AnswerTrue
PROPERTIES
    Returns
