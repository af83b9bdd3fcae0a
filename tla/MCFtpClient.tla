---------------------------- MODULE MCFtpClient ----------------------------
(* Model-checking definitions for FtpClient: both programs. *)
EXTENDS FtpClientProps

Both == AllPrograms
=============================================================================
