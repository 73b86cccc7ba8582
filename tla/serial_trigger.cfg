CONSTANTS
    Proc = {p1, p2}
    Nobody = Nobody
    MaxTries = 2
    Overlap = FALSE
    Inserts = TRUE
    UserTxns = FALSE
    MaxCalls = 2
SPECIFICATION Spec
SYMMETRY ProcSymmetry
INVARIANT UniqueSerial
\* MaxCalls bounds the numbers asked for.
CHECK_DEADLOCK FALSE
