--------------------------- MODULE FtpClientProps ---------------------------
(***************************************************************************)
(* What the FTP clients guarantee although they take one recv for one      *)
(* reply, and up to which mishap.                                          *)
(***************************************************************************)
EXTENDS FtpClient

Codes == {150, 220, 226, 229, 230, 331, 421, 426, 530, 550}
Lines == [code : Codes, last : BOOLEAN]
Commands == {"USER", "PASS", "BADPASS", "EPSV", "LIST", "RETR", "STOR", "QUIT"}

TypeOK ==
  /\ program \in Programs
  /\ pc \in {"greet", "user", "userReply", "pass", "passReply", "epsv", "epsvReply", "connect",
             "command", "first", "data", "second", "quit"} \cup Ended
  /\ step \in 1..Len(Transfers) /\ tries \in 0..MaxTries
  /\ buf \in Seq(Lines) /\ inbox \in Seq(Lines) /\ queue \in Seq(Commands)
  /\ data \in {"none", "listening", "open", "eof"} /\ blocks \in 0..FileBlocks
  /\ moved \in 0..FileBlocks
  /\ server \in {"new", "idle", "sending", "storing", "closed"} /\ user \in BOOLEAN
  /\ stored \in Seq(0..FileBlocks) /\ long \in 0..MaxLong /\ refusals \in 0..MaxRefusals
  /\ excuses \subseteq Excuses

-----------------------------------------------------------------------------
\* One recv per reply is enough as long as no reply is cut in two: whenever the
\* client sends a command, every reply to the ones before has been received and the
\* server is waiting for it.
OneAtATime ==
  (excuses \cap {"split", "closed"} = {} /\ pc \in {"user", "pass", "epsv", "command", "quit"}) =>
    inbox = <<>> /\ queue = <<>> /\ server = "idle"

\* Whatever becomes of the replies, a client that goes on to its transfers was let in
\* by the server: a reply taken for that to PASS that begins with 230 is a reply to
\* some PASS.
LoginHonest ==
  pc \in {"epsv", "epsvReply", "connect", "command", "first", "data", "second", "quit", "done"} =>
    user

\* A file is stored, downloaded or listed whole or the server said otherwise: the
\* data connection is read to its end, the file sent to its end, and closed only then.
TransfersWhole ==
  /\ \A k \in DOMAIN stored : stored[k] = FileBlocks
  /\ (pc = "second" /\ excuses \cap {"refused", "closed"} = {}) => moved = FileBlocks

\* When recv returns two replies at once the client will wait for one that it has
\* already; this befalls listings and downloads, whose two replies may both have been
\* sent before the first is read, and never an upload, whose second reply waits for
\* the client's data.
GluedOnlyInDownloads ==
  excuses = {"glued"} => pc \in {"data", "second", "crashed"} /\ Transfer # "STOR"

\* Unless recv returns more or less than a reply, or the server refuses or leaves, the
\* client ends.
Finishes == <>(pc \in Ended \/ excuses # {})
=============================================================================
