CONSTANTS
    u1 = u1
    u2 = u2
    Units = {u1}
    MaxPlugs = 1
    MaxFiles = 1
    Reconnect = 2
    UserOps = {"activate", "file", "start", "stop", "release", "exit"}
SPECIFICATION FairSpec
CHECK_DEADLOCK FALSE
INVARIANTS
    TypeOK
    InUseIsLive
    HandlesDistinct
    NoInstanceLost
    ExitLeavesNothing
PROPERTIES
    StopReturns
    ExitReturns
    DetachEndsCapture
    DetachProcessed
