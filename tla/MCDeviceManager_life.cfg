CONSTANTS
    u1 = u1
    u2 = u2
    Units = {u1}
    MaxPlugs = 2
    MaxFiles = 0
    Reconnect = 1
    UserOps = {"activate", "start", "stop", "power", "exit"}
SPECIFICATION Spec
CHECK_DEADLOCK FALSE
INVARIANTS
    InUseIsLive
    CaptureKeepsDevice
    DelayIsForActive
PROPERTY OnlyReopenStrays
