----------------------------- MODULE MCDirCache -----------------------------
(* Small instances of DirCache.                                            *)
EXTENDS DirCache, TLC

OneDir == {"d"}
TwoDirs == {"d", "e"}
OneFile == {"f"}

TmpName(f) == f \o "~"

AllKinds == {"mkdir", "remove", "rename", "move", "copy", "put", "puturl"}
PutFails == {"put"}
AnyFails == AllKinds \cup {"get"}
NoFaults == {}

ReqSymmetry == Permutations(Reqs)
=============================================================================
