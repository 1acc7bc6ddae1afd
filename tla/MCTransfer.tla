----------------------------- MODULE MCTransfer -----------------------------
(* Instances of Transfer for TLC. *)
EXTENDS Transfer, TLC

(* The files of the directory are interchangeable when the destination     *)
(* starts without any of them. *)
Symmetry == Permutations(Members)
=============================================================================
