CONSTANTS
    t1 = t1
    t2 = t2
    Traces = {t1, t2}
    NoTrace = NoTrace
    Mode = "DSO"
    UserOps = {"add", "remove"}
    EndStatus = {"ok"}
    MaxTasks = 1
SPECIFICATION Spec
SYMMETRY TraceSymmetry
CHECK_DEADLOCK FALSE
INVARIANT NoUseAfterFree
