----------------------------- MODULE MCSessions -----------------------------
(* Instances of Sessions for TLC: two clients upload different files to    *)
(* one path; the first sends a hash, the second does not.                  *)
EXTENDS Sessions, TLC

CONSTANTS c1, c2, f1, f2, h1

MCFile == (c1 :> f1) @@ (c2 :> f2)
MCHash == (c1 :> h1) @@ (c2 :> NoHash)

Symmetry == Permutations(Reqs)
=============================================================================
