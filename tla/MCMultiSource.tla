--------------------------- MODULE MCMultiSource ---------------------------
(* Instances of MultiSource for TLC.                                      *)
EXTENDS MultiSource

MCStarts == {0, 1}
MCLengths == {-1, 5}
=============================================================================
