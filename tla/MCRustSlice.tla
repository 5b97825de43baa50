---------------------------- MODULE MCRustSlice ----------------------------
(* Instances of RustSlice.  Nodes and tasks are interchangeable. *)
EXTENDS RustSlice, TLC
CONSTANTS n1, n2, t1, t2
Symmetry == Permutations(Node) \cup Permutations(Task)
=============================================================================
