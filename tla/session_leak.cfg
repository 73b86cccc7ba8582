CONSTANTS
    Obj = {o1, o2}
    NoObj = NoObj
    Text = {t1}
    NoStmt = NoStmt
    Plain = Plain
    Gone = Gone
    MaxConn = 1
SPECIFICATION Spec
SYMMETRY ObjSymmetry
INVARIANT CloseCloses
\* Nothing follows a use of freed memory, and MaxConn bounds the connections.
CHECK_DEADLOCK FALSE
