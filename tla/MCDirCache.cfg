SPECIFICATION Spec
CONSTANTS
    DirNames <- TwoDirs
    FileNames <- OneFile
    Tmp <- TmpName
    Reqs = {r1, r2}
    Kinds <- AllKinds
    Faults <- AnyFails
    NoOverwriteUpload = TRUE
    MaxOps = 2
    MaxFills = 2
    Dir = Dir
    None = None
INVARIANT FreshListing
INVARIANT FreshLink
INVARIANT PutAtomic
SYMMETRY ReqSymmetry
CHECK_DEADLOCK FALSE
