SPECIFICATION Spec
CONSTANTS
    DirNames <- TwoDirs
    FileNames <- OneFile
    Tmp <- TmpName
    Reqs = {r1, r2}
    Kinds <- AllKinds
    Faults <- PutFails
    NoOverwriteUpload = TRUE
    MaxOps = 2
    MaxFills = 2
    Dir = Dir
    None = None
INVARIANT RemovedTree
CHECK_DEADLOCK FALSE
