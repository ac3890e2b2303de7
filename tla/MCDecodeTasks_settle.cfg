CONSTANTS
    t1 = t1
    t2 = t2
    Traces = {t1, t2}
    NoTrace = NoTrace
    Mode = "STREAM"
    UserOps = {"add", "reset", "capture"}
    EndStatus = {"ok", "error"}
    MaxTasks = 1
SPECIFICATION FairSpec
CHECK_DEADLOCK FALSE
INVARIANT QuietWipe
PROPERTIES
    OrderlyClearReturns
    DecodeSettles
