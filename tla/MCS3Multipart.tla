--------------------------- MODULE MCS3Multipart ---------------------------
(* Instances of S3Multipart for TLC.                                      *)
EXTENDS S3Multipart, TLC

Symmetry == Permutations(Reqs) \cup Permutations(Bodies)
=============================================================================
