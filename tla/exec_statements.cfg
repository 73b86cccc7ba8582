CONSTANTS
    Texts <- AnyTexts
    Soft = {"constraint", "rollback"}
    RowFaults = TRUE
    CommitBusy = TRUE
    MaxCalls = 3
    MaxRuns = 4
SPECIFICATION Spec
INVARIANT CacheLive
INVARIANT CurrentLive
INVARIANT NoStrayTransaction
INVARIANT KnownDoubleFinalize
PROPERTY UserTransactionKept
\* The user may stop calling (and MaxCalls bounds the calls).
CHECK_DEADLOCK FALSE
