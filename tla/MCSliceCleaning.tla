-------------------------- MODULE MCSliceCleaning --------------------------
(* Instances of SliceCleaning: two events, one with an attribution. *)
EXTENDS SliceCleaning, TLC
CONSTANTS e1, e2, n1, n2
NodesAlike == Permutations({n1, n2})
=============================================================================
