SPECIFICATION Spec
CONSTANTS
    Replica = {1, 2}
    Own <- MCOwn
    Peer = {}
    Clash <- MCClash
    CrashAt <- MCCrashAnywhere
    MaxCrashes = 1
    MaxOps = 2
    Serial = FALSE
    RemoteFaults = {"rollback", "delete"}
INVARIANTS NoClashAdmitted
PROPERTIES AcceptedNeverLost
CHECK_DEADLOCK FALSE
