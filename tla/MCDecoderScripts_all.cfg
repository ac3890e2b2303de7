SPECIFICATION Spec
CONSTANTS
    MaxCalls <- MCMaxCalls
    Slaves <- MCSlaves
    FilterOptions <- MCFilterOptions
    EepChip <- MCEepChip
    EdidDescriptors <- MCEdidDescriptors
    EdidExtensionBlock <- MCEdidExtensionBlock
    Runs <- MCRuns
    Bytes <- MCBytes
INVARIANTS
    TypeOK
    SpansOfThePast
    ShownInSpan
    DrawnApart
    FreshAtRest
PROPERTIES
    StartsInOrder
CHECK_DEADLOCK FALSE
