CONSTANTS
    NumSamples = 3
    MaxSkip = 2
    CondLists <- MCCondLists
    Starts = {0, 1}
    MaxAgain = 1
SPECIFICATION FairSpec
INVARIANTS
    TypeOK
    BufferHeld
    OkMeansConsumed
    EndWhileAwaiting
    NoLostWakeup
PROPERTIES
    ChunksInvisible
    SendReturns
    TerminateReturns
