CONSTANTS
    Proc = {p1, p2}
    Nobody = Nobody
    MaxTries = 2
    Overlap = FALSE
    Inserts = FALSE
    UserTxns = TRUE
    MaxCalls = 3
SPECIFICATION Spec
SYMMETRY ProcSymmetry
INVARIANT UniqueSerial
INVARIANT LockExclusive
\* MaxCalls bounds the numbers asked for.
CHECK_DEADLOCK FALSE
