CONSTANTS
    t1 = t1
    t2 = t2
    Traces = {t1, t2}
    NoTrace = NoTrace
    Mode = "DSO"
    UserOps = {"add", "reset", "clearAll"}
    EndStatus = {"ok"}
    MaxTasks = 2
SPECIFICATION Spec
SYMMETRY TraceSymmetry
CHECK_DEADLOCK FALSE
INVARIANTS
    NoUseAfterFree
    QueuedOnce
