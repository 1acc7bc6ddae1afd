--------------------------- MODULE MCWebDAVLocks ---------------------------
(* Instances of WebDAVLocks for TLC: the root, a directory with an entry. *)
EXTENDS WebDAVLocks, TLC

CONSTANTS a, b

MCNames == {<<>>, <<a>>, <<a, b>>}
RootBase == <<>>
DeepBase == <<a>>
MCDurations == {infiniteTimeout, 1}

Symmetry == Permutations(Reqs)
=============================================================================
