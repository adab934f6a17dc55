SPECIFICATION Spec
CONSTANTS
    Replica = {1, 2}
    Own <- MCOwn
    Peer = {3, 4}
    Clash <- MCNoClash
    CrashAt <- MCCrashAnywhere
    MaxCrashes = 2
    MaxOps = 4
    Serial = FALSE
    RemoteFaults = {}
CONSTRAINT MCInstance
INVARIANTS PublicationOrder PhaseNotAhead AcceptedIsPushedOrOwed
PROPERTIES RemoteNeverLoses
CHECK_DEADLOCK FALSE
