SPECIFICATION Spec
CONSTANTS
    Batch <- MCBatch
    Record <- MCRecord
    Entity <- MCEntity
    Member <- MCMember
    Home <- MCHome
    Key <- MCKey
    Request <- MCRequest
    Builtin <- MCBuiltin
    Genesis <- MCGenesis
    Parents <- MCParents
    Modes = {"strict", "legacy"}
    Faults = {"fail"}
    MaxFaults = 2
    None = None
INVARIANTS SnapshotFresh
PROPERTIES PublishedImmutable
