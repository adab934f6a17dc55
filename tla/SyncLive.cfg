SPECIFICATION FairSpec
CONSTANTS
    Replica = {1, 2}
    Own <- MCOwn
    Peer = {}
    Clash <- MCNoClash
    CrashAt <- MCCrashSafe
    MaxCrashes = 2
    MaxOps = 5
    Serial = TRUE
    RemoteFaults = {}
PROPERTIES Converges
CHECK_DEADLOCK FALSE
