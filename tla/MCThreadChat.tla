---------------------------- MODULE MCThreadChat ----------------------------
(* Model-checking definitions for ThreadChat: symmetry of the connections. *)
EXTENDS ThreadChatProps, TLC

Symmetry == Permutations(Conns)
=============================================================================
