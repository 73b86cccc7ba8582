SPECIFICATION Spec
CONSTANTS
    o1 = o1
    o2 = o2
    NoObj = NoObj
    Obj = {o1, o2}
    Texts <- MCTexts
    MaxConn = 2
    MaxWork = 2
    Sizes <- MCSizes
SYMMETRY Symmetry
CONSTRAINT OneFamily
VIEW View
INVARIANT TypeOK
INVARIANT CloneTree
 
PROPERTY UserWorkKept
PROPERTY ImplementsFetch
\* The user may have nothing left to do within the bounds.
CHECK_DEADLOCK FALSE
