CONSTANTS
    Texts <- TailedTexts
    Soft = {}
    RowFaults = FALSE
    CommitBusy = TRUE
    MaxCalls = 3
    MaxRuns = 6
SPECIFICATION FairSpec
INVARIANT TypeOK
INVARIANT EffectsInOrder
INVARIANT FailedExecUndone
PROPERTY ImplementsAtomicExec
PROPERTY Returns
\* The user may stop calling (and MaxCalls bounds the calls).
CHECK_DEADLOCK FALSE
