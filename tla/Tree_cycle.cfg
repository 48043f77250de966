CONSTANTS
    Folders = {f1, f2}
    Root = Root
    Requests = {w1, w2}
    Nothing = Nothing
    MaxRevision = 3
SYMMETRY Symmetry
SPECIFICATION Spec
INVARIANT NoFolderCycle
CHECK_DEADLOCK FALSE
