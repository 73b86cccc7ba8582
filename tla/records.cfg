SPECIFICATION Spec
CONSTANTS
    Root = Root
    clone = clone
    Obj = {Root, clone}
    Ids = {"a"}
    Files <- MCFiles
    Sizes <- MCSizes
    MaxCopies = 2
    MaxPos = 2
CONSTRAINT OneStrays
VIEW View
INVARIANT TypeOK
PROPERTY ImplementsFetch
PROPERTY RecordKept
PROPERTY ImportWhole
\* The user may stop calling.
CHECK_DEADLOCK FALSE
