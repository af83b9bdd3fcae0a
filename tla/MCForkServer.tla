---------------------------- MODULE MCForkServer ----------------------------
(* Model-checking definitions for ForkServer: all programs. *)
EXTENDS ForkServerProps

All == AllPrograms
=============================================================================
