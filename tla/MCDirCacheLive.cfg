SPECIFICATION FairSpec
CONSTANTS
    DirNames <- OneDir
    FileNames <- OneFile
    Tmp <- TmpName
    Reqs = {r1, r2}
    Kinds <- AllKinds
    Faults <- AnyFails
    NoOverwriteUpload = TRUE
    MaxOps = 2
    MaxFills = 2
    Dir = Dir
    None = None
INVARIANT TypeOK
PROPERTY Settles
CHECK_DEADLOCK FALSE
