---------------------------- MODULE MCEventLoop ----------------------------
(* Model-checking definitions for EventLoop: symmetry of the clients. *)
EXTENDS EventLoopProps, TLC

Symmetry == Permutations(Conns)
=============================================================================
