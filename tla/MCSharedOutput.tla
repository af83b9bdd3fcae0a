--------------------------- MODULE MCSharedOutput ---------------------------
(* Model-checking definitions for SharedOutput: symmetry of the threads. *)
EXTENDS SharedOutputProps, TLC

Symmetry == Permutations(Threads)
=============================================================================
