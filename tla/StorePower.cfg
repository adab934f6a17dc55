SPECIFICATION Spec
CONSTANTS
    Batch <- MCBatch
    Record <- MCRecord
    Entity <- MCEntity
    Member <- MCMember
    Home <- MCHome
    Key <- MCKey
    Request <- MCRequest
    Builtin <- MCBuiltin
    Genesis <- MCGenesis
    Parents <- MCParents
    Modes = {"strict"}
    Faults = {"power"}
    MaxFaults = 3
    None = None
INVARIANTS JournalsRecoverable ObservedDurable
PROPERTIES ImplementsAtomicJournal
