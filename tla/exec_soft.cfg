CONSTANTS
    Texts <- TailedTexts
    Soft = {"constraint", "rollback"}
    RowFaults = TRUE
    CommitBusy = TRUE
    MaxCalls = 2
    MaxRuns = 4
SPECIFICATION Spec
INVARIANT SqlErrorUndone
\* The user may stop calling (and MaxCalls bounds the calls).
CHECK_DEADLOCK FALSE
