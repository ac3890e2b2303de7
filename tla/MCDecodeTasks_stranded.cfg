CONSTANTS
    t1 = t1
    t2 = t2
    Traces = {t1, t2}
    NoTrace = NoTrace
    Mode = "BUFFER"
    UserOps = {"add", "capture"}
    EndStatus = {"ok"}
    MaxTasks = 1
SPECIFICATION FairSpec
PROPERTY EveryTaskStarts
