--------------------------- MODULE MCThreadServer ---------------------------
(* Model-checking definitions for ThreadServer: all programs. *)
EXTENDS ThreadServerProps

All == AllPrograms
=============================================================================
