CONSTANTS
    t1 = t1
    t2 = t2
    Traces = {t1}
    NoTrace = NoTrace
    Mode = "STREAM"
    UserOps = {"add", "capture"}
    EndStatus = {"ok", "error"}
    MaxTasks = 1
SPECIFICATION FairSpec
CHECK_DEADLOCK FALSE
PROPERTY ClearReturns
