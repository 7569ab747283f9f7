---------------------------- MODULE MCSplitMode ----------------------------
(* Instances of SplitMode for TLC. *)
EXTENDS SplitMode, TLC

Interchangeable == Permutations(Producers)
=============================================================================
