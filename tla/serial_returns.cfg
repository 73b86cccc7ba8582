CONSTANTS
    Proc = {p1, p2}
    Nobody = Nobody
    MaxTries = 2
    Overlap = TRUE
    Inserts = TRUE
    UserTxns = TRUE
    MaxCalls = 2
SPECIFICATION FairSpec
INVARIANT TypeOK
INVARIANT GivenCovered
PROPERTY NextReturns
\* MaxCalls bounds the numbers asked for.
CHECK_DEADLOCK FALSE
