------------------------------ MODULE MCWindow ------------------------------
(* Instances of Window for TLC. *)
EXTENDS Window, TLC

(* Requests are interchangeable, and so are the contents of a chunk. *)
Symmetry == Permutations(Writers) \union Permutations(Bodies)
=============================================================================
