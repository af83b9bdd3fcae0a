----------------------------- MODULE FtpClient -----------------------------
(***************************************************************************)
(* The FTP clients of BT9-7-2023: ftp_client.c logs in, lists the          *)
(* directory, uploads a file and lists the directory again; test.c logs    *)
(* in, lists and downloads a file.  They talk to a server over a control   *)
(* connection, one command at a time, and over one data connection per     *)
(* transfer.  Wherever a reply is due they call recv once and take what it *)
(* returns for that reply.                                                 *)
(*                                                                         *)
(* A reply is one line or two, each beginning with its code.  TCP keeps    *)
(* the lines in order and promises nothing else: recv returns one line or  *)
(* more of those sent.  The server is external: it answers as the programs *)
(* expect, or refuses, or closes after a timeout.                          *)
(*                                                                         *)
(* Abstracted: texts, lines that arrive in parts, the contents of files    *)
(* (a file is its number of blocks).                                       *)
(***************************************************************************)
EXTENDS Integers, Sequences

CONSTANTS
  Programs,     \* the programs to run, see AllPrograms
  FileBlocks,   \* the blocks of every file and listing
  MaxTries,     \* bound: attempts to log in; the last one is right
  MaxLong,      \* bound: replies of two lines
  MaxRefusals   \* bound: transfers refused or broken off, and timeouts

AllPrograms == {"ftp_client", "test"}

ASSUME ConstantsAssumption ==
  /\ Programs \subseteq AllPrograms
  /\ {FileBlocks, MaxTries, MaxLong, MaxRefusals} \subseteq Nat

VARIABLES
  program,  \* the program that runs
  pc,       \* where it is; "done", "failed" (return 1) or "crashed" at its end
  step,     \* the transfer it is at
  buf,      \* the lines that the last recv returned
  tries,    \* attempts to log in
  moved,    \* blocks of this transfer that the client has sent or received
  inbox,    \* lines that no recv has returned: [code, last]
  queue,    \* commands that the server has not read
  server,   \* "new", "idle", "sending", "storing" or "closed"
  user,     \* TRUE once the server has accepted the password
  data,     \* the data connection: "none", "listening", "open", or "eof" once the
            \* sender has closed it
  blocks,   \* the blocks in it
  stored,   \* the sizes of the files that the server has stored
  long, refusals,   \* replies of two lines, and refusals, so far
  excuses   \* history: what the network or the server did, see Excuses

clientVars == <<program, pc, step, tries>>
dataVars   == <<data, blocks, moved>>
serverVars == <<server, user, stored, long, refusals>>
vars == <<clientVars, buf, inbox, queue, dataVars, serverVars, excuses>>

Excuses ==
  {"glued",     \* one recv returned lines of two replies
   "split",     \* one recv returned less than a reply
   "refused",   \* a transfer was refused or broken off
   "closed"}    \* the server closed the control connection

Transfers == IF program = "test" THEN <<"LIST", "RETR">> ELSE <<"LIST", "STOR", "LIST">>
Transfer == Transfers[step]
Ended == {"done", "failed", "crashed"}

-----------------------------------------------------------------------------
(* send and recv on the control connection *)

\* A send to a closed connection is lost, or see SigPipe.
Send(from, command, to) ==
  /\ pc = from
  /\ pc' = to
  /\ queue' = IF server = "closed" THEN queue ELSE Append(queue, command)
  /\ UNCHANGED <<program, step, inbox, serverVars, excuses>>

\* What a recv that returned these lines did to the order of replies.
Mishaps(lines) ==
  {x \in {"glued", "split"} :
     \/ x = "glued" /\ \E k \in 2..Len(lines) : lines[k - 1].last
     \/ x = "split" /\ ~lines[Len(lines)].last}

\* At the end of the stream recv returns 0, and buf is empty, or -1, and buf keeps
\* what it held.
Recv(from) ==
  /\ pc = from
  /\ \/ \E k \in 1..Len(inbox) :
          /\ buf' = SubSeq(inbox, 1, k)
          /\ inbox' = SubSeq(inbox, k + 1, Len(inbox))
          /\ excuses' = excuses \cup Mishaps(SubSeq(inbox, 1, k))
     \/ /\ inbox = <<>> /\ server = "closed"
        /\ buf' \in {<<>>, buf}
        /\ UNCHANGED <<inbox, excuses>>
  /\ UNCHANGED <<program, tries, queue, serverVars>>
Goto(l) == pc' = l /\ UNCHANGED <<step, dataVars>>

-----------------------------------------------------------------------------
(* Logging in *)

Greeting == Recv("greet") /\ Goto("user")

SendUser ==
  /\ tries < MaxTries
  /\ Send("user", "USER", "userReply")
  /\ tries' = tries + 1 /\ buf' = <<>>
  /\ UNCHANGED dataVars
UserReply == Recv("userReply") /\ Goto("pass")

SendPass ==
  /\ \E right \in {TRUE, tries = MaxTries} :
       Send("pass", IF right THEN "PASS" ELSE "BADPASS", "passReply")
  /\ buf' = <<>>
  /\ UNCHANGED <<tries, dataVars>>

PositiveLoosely(lines) == lines # <<>> /\ lines[1].code # 530   \* mutant: not a refusal
\* strncmp(buf, "230", 3) == 0 : the start of what recv returned.
Positive(lines) == lines # <<>> /\ lines[1].code = 230
PassReply == Recv("passReply") /\ Goto(IF Positive(buf') THEN "epsv" ELSE "user")

-----------------------------------------------------------------------------
(* A transfer *)

SendEpsv ==
  /\ Send("epsv", "EPSV", "epsvReply")
  /\ UNCHANGED <<tries, buf, dataVars>>
EpsvReply == Recv("epsvReply") /\ Goto("connect")

\* strstr finds the port anywhere in buf; it is in the last line of the reply.
HasPort == \E k \in DOMAIN buf : buf[k].code = 229 /\ buf[k].last
Stay == UNCHANGED <<program, step, tries, buf, inbox, queue, moved, serverVars, excuses>>
Connect ==
  /\ pc = "connect" /\ HasPort /\ data = "listening"
  /\ pc' = "command" /\ data' = "open"
  /\ UNCHANGED blocks /\ Stay

\* The process ends and its connections are closed; what it has sent still arrives.
Exit(l) ==
  /\ pc' = l
  /\ data' = IF data = "open" THEN "eof" ELSE data
  /\ UNCHANGED blocks /\ Stay
ConnectFails == pc = "connect" /\ HasPort /\ data # "listening" /\ Exit("failed")

\* fopen fails, before STOR is sent.
NoFile == pc = "command" /\ Transfer = "STOR" /\ Exit("failed")

\* The reply is awaited before the data is moved.
AfterCommandData == "data"       \* mutant: the data is moved first
AfterCommand == "first"
SendCommand ==
  /\ Send("command", Transfer, AfterCommand)
  /\ buf' = IF Transfer = "LIST" THEN buf ELSE <<>>
  /\ moved' = 0
  /\ UNCHANGED <<tries, data, blocks>>
FirstReply == Recv("first") /\ Goto("data")

\* LIST and RETR: recv on the data connection until its end.
ReadBlock ==
  /\ pc = "data" /\ Transfer # "STOR" /\ blocks > 0
  /\ blocks' = blocks - 1 /\ moved' = moved + 1 /\ buf' = <<>>
  /\ UNCHANGED <<clientVars, inbox, queue, data, serverVars, excuses>>
AtEofOnError == data = "none"    \* mutant: recv returning 0 is no end
AtEof == data \in {"eof", "none"}
ReadEnd ==
  /\ pc = "data" /\ Transfer # "STOR" /\ blocks = 0 /\ AtEof
  /\ pc' = "second" /\ data' = "none"
  /\ UNCHANGED blocks /\ Stay

\* STOR: fread and send until the end of the file.
StoreBlock ==
  /\ pc = "data" /\ Transfer = "STOR" /\ moved < FileBlocks
  /\ blocks' = IF data = "open" THEN blocks + 1 ELSE blocks
  /\ moved' = moved + 1 /\ buf' = <<>>
  /\ UNCHANGED <<clientVars, inbox, queue, data, serverVars, excuses>>
AtEndShort == moved + 1 >= FileBlocks        \* mutant: the last block is dropped
AtEnd == moved = FileBlocks
StoreEnd ==
  /\ pc = "data" /\ Transfer = "STOR" /\ AtEnd
  /\ pc' = "second" /\ data' = IF data = "open" THEN "eof" ELSE "none"
  /\ UNCHANGED blocks /\ Stay

MoreOne == step <= Len(Transfers)        \* mutant: one transfer too many
More == step < Len(Transfers)
SecondReply ==
  /\ Recv("second")
  /\ IF More
     THEN pc' = "epsv" /\ step' = step + 1
     ELSE pc' = "quit" /\ UNCHANGED step
  /\ UNCHANGED dataVars

SendQuit ==
  /\ Send("quit", "QUIT", "done")
  /\ UNCHANGED <<tries, buf, dataVars>>

\* No port in buf: strstr returns NULL, which is dereferenced.  fopen of the download
\* is not checked.
SegFault ==
  /\ \/ pc = "connect" /\ ~HasPort
     \/ pc = "data" /\ Transfer = "RETR" /\ moved = 0
  /\ Exit("crashed")

\* A send to a connection that the server has closed may raise SIGPIPE.
SigPipe ==
  /\ \/ pc \in {"user", "pass", "epsv", "command", "quit"} /\ server = "closed"
     \/ pc = "data" /\ Transfer = "STOR" /\ moved < FileBlocks /\ data # "open"
  /\ Exit("crashed")

-----------------------------------------------------------------------------
(* The server *)

\* A reply, in one line or two.
Reply(code) ==
  /\ \/ inbox' = Append(inbox, [code |-> code, last |-> TRUE])
        /\ UNCHANGED long
     \/ /\ long < MaxLong /\ long' = long + 1
        /\ inbox' = inbox \o <<[code |-> code, last |-> FALSE], [code |-> code, last |-> TRUE]>>
  /\ UNCHANGED <<clientVars, buf, moved>>
ServerGoto(l) == server' = l /\ UNCHANGED <<user, stored>>

Greet ==
  /\ server = "new"
  /\ ServerGoto("idle") /\ Reply(220)
  /\ UNCHANGED <<queue, data, blocks, refusals, excuses>>

\* The server reads a command that it answers at once.
Reads(command) ==
  /\ server = "idle" /\ queue # <<>> /\ Head(queue) = command
  /\ queue' = Tail(queue)
Answers(command, code) ==
  /\ Reads(command) /\ Reply(code) /\ server' = "idle"
  /\ UNCHANGED <<blocks, stored, refusals, excuses>>
ReadsUser == Answers("USER", 331) /\ UNCHANGED <<user, data>>
ReadsPass == Answers("PASS", 230) /\ user' = TRUE /\ UNCHANGED data
ReadsBadPass == Answers("BADPASS", 530) /\ UNCHANGED <<user, data>>
ReadsEpsv ==
  /\ Answers("EPSV", IF user THEN 229 ELSE 530)
  /\ data' = IF user THEN "listening" ELSE data
  /\ UNCHANGED user
ReadsQuit ==
  /\ Reads("QUIT") /\ ServerGoto("closed")
  /\ UNCHANGED <<clientVars, buf, inbox, dataVars, long, refusals, excuses>>

\* It accepts a transfer when the client has connected to its port.
BeginTransfer ==
  /\ \E command \in {"LIST", "RETR", "STOR"} :
       /\ Reads(command) /\ user /\ data \in {"open", "eof"}
       /\ ServerGoto(IF command = "STOR" THEN "storing" ELSE "sending")
  /\ Reply(150)
  /\ UNCHANGED <<data, blocks, refusals, excuses>>

SendsAll ==
  /\ server = "sending"
  /\ blocks' = FileBlocks /\ data' = "eof"
  /\ ServerGoto("idle") /\ Reply(226)
  /\ UNCHANGED <<queue, refusals, excuses>>

Stores ==
  /\ server = "storing" /\ data = "eof"
  /\ server' = "idle" /\ stored' = Append(stored, blocks) /\ UNCHANGED user
  /\ blocks' = 0 /\ data' = "none"
  /\ Reply(226)
  /\ UNCHANGED <<queue, refusals, excuses>>

Refusal(excuse) ==
  /\ refusals < MaxRefusals /\ refusals' = refusals + 1
  /\ excuses' = excuses \cup {excuse}

\* 550: no such file, no permission, no data connection.
Refuses ==
  /\ \E command \in {"LIST", "RETR", "STOR"} : Reads(command)
  /\ ServerGoto("idle") /\ Reply(550) /\ Refusal("refused")
  /\ data' = "none" /\ blocks' = 0

\* 426: a transfer that is broken off.
BreaksOff ==
  /\ server \in {"sending", "storing"}
  /\ \E n \in 0..FileBlocks : n < FileBlocks /\ blocks' = IF server = "sending" THEN n ELSE 0
  /\ data' = IF server = "sending" THEN "eof" ELSE "none"
  /\ ServerGoto("idle") /\ Reply(426) /\ Refusal("refused")
  /\ UNCHANGED queue

\* 421: nothing was heard of the client for too long.
TimesOut ==
  /\ server = "idle" /\ queue = <<>> /\ pc \notin Ended
  /\ ServerGoto("closed") /\ Reply(421) /\ Refusal("closed")
  /\ IF data = "eof" THEN UNCHANGED <<data, blocks>> ELSE data' = "none" /\ blocks' = 0
  /\ UNCHANGED queue

-----------------------------------------------------------------------------
Init ==
  /\ program \in Programs /\ pc = "greet" /\ step = 1 /\ tries = 0
  /\ buf = <<>> /\ inbox = <<>> /\ queue = <<>>
  /\ data = "none" /\ blocks = 0 /\ moved = 0
  /\ server = "new" /\ user = FALSE /\ stored = <<>> /\ long = 0 /\ refusals = 0
  /\ excuses = {}

Client ==
  \/ Greeting \/ SendUser \/ UserReply \/ SendPass \/ PassReply
  \/ SendEpsv \/ EpsvReply \/ Connect \/ ConnectFails \/ NoFile
  \/ SendCommand \/ FirstReply \/ ReadBlock \/ ReadEnd \/ StoreBlock \/ StoreEnd
  \/ SecondReply \/ SendQuit \/ SegFault \/ SigPipe
Server ==
  \/ Greet \/ ReadsUser \/ ReadsPass \/ ReadsBadPass \/ ReadsEpsv \/ ReadsQuit
  \/ BeginTransfer \/ SendsAll \/ Stores
Next == Client \/ Server \/ Refuses \/ BreaksOff \/ TimesOut

Spec == Init /\ [][Next]_vars

\* The client runs whenever it can; the server answers what it reads.
FairSpec == Spec /\ WF_vars(Client) /\ WF_vars(Server)
=============================================================================
