CONSTANTS
    NumSamples = 3
    MaxSkip = 1
    CondLists <- MCFewConds
    Starts = {1}
    MaxAgain = 1
SPECIFICATION Spec
INVARIANTS
    NextSampleReturned
