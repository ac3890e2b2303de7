CONSTANTS
    t1 = t1
    t2 = t2
    Traces = {t1, t2}
    NoTrace = NoTrace
    Mode = "DSO"
    UserOps = {"add", "remove", "reset", "clearAll", "capture", "refresh"}
    EndStatus = {"ok", "error"}
    MaxTasks = 1
SPECIFICATION Spec
SYMMETRY TraceSymmetry
CHECK_DEADLOCK FALSE
INVARIANTS
    TypeOK
    FlagMatchesThread
    DecodeRunsAlone
    QuietWipe
    SamplesThere
