CONSTANTS
    Texts <- UntailedTexts
    Soft = {}
    RowFaults = FALSE
    CommitBusy = FALSE
    MaxCalls = 1
    MaxRuns = 4
SPECIFICATION FairSpec
PROPERTY Returns
\* The user may stop calling (and MaxCalls bounds the calls).
CHECK_DEADLOCK FALSE
