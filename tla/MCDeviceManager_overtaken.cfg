CONSTANTS
    u1 = u1
    u2 = u2
    Units = {u1, u2}
    MaxPlugs = 2
    MaxFiles = 0
    Reconnect = 2
    UserOps = {}
SPECIFICATION FairSpec
CHECK_DEADLOCK FALSE
PROPERTY DetachProcessed
