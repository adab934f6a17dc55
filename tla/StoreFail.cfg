SPECIFICATION FairSpec
CONSTANTS
    Batch <- MCBatch
    Record <- MCRecord
    Entity <- MCEntity
    Member <- MCMember
    Home <- MCHome
    Key <- MCKey
    Request <- MCRequest
    Builtin <- MCBuiltin
    Genesis <- MCGenesis
    Parents <- MCParents
    Modes = {"strict"}
    Faults = {"fail"}
    MaxFaults = 3
    None = None
INVARIANTS OldOrComplete JournalsRecoverable
PROPERTIES ImplementsAtomicJournal RecoveryCompletes
