CONSTANTS
    Obj = {o1, o2, o3}
    NoObj = NoObj
    Text = {t1}
    NoStmt = NoStmt
    Plain = Plain
    Gone = Gone
    MaxConn = 2
SPECIFICATION Spec
SYMMETRY ObjSymmetry
CONSTRAINT InScope
INVARIANT TypeOK
INVARIANT CloneTree
INVARIANT NoDeadConnection
INVARIANT OneOwner
INVARIANT ResultOwned
PROPERTY CloneKeepsParentResult
\* Nothing follows a use of freed memory, and MaxConn bounds the connections.
CHECK_DEADLOCK FALSE
