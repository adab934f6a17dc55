SPECIFICATION Spec
CONSTANTS
    Replica = {1}
    Own <- MCOneOwn
    Peer = {3}
    Clash <- MCNoClash
    CrashAt = {"publish"}
    MaxCrashes = 1
    MaxOps = 2
    Serial = FALSE
    RemoteFaults = {}
INVARIANTS VisibleOldOrCandidate
CHECK_DEADLOCK FALSE
