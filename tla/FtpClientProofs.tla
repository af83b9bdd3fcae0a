-------------------------- MODULE FtpClientProofs --------------------------
(***************************************************************************)
(* Theorems about the FTP clients, for files of any size and any number of *)
(* attempts, refusals and replies of two lines.                            *)
(***************************************************************************)
EXTENDS FtpClientProps, TLAPS

LoggingIn == {"greet", "user", "userReply", "pass", "passReply"}
LoginCommands == {"USER", "PASS", "BADPASS"}

\* Who was let in.
NoneSays(lines, code) == \A k \in DOMAIN lines : lines[k].code # code
LetIn ==
  ~user =>
    /\ pc \in LoggingIn \cup {"failed", "crashed"}
    /\ NoneSays(inbox, 230) /\ (pc = "passReply" => buf = <<>>)

Only(command) == Len(queue) = 1 /\ queue[1] = command
\* Between two transfers: what the server has still to do, the first n commands unread.
Settled(n) ==
  \/ /\ data = "none" /\ blocks = 0 /\ server \in {"new", "idle", "closed"}
     /\ \A k \in 1..n : queue[k] \in LoginCommands
  \/ /\ data = "eof" /\ blocks = FileBlocks
     /\ \/ server = "storing" /\ n = 0
        \/ server = "idle" /\ n = 1 /\ queue[1] = "STOR"

\* The port is the last thing that the server has said.
Port(lines, k) == lines[k].code = 229 /\ lines[k].last
PortLast(lines) == \A k \in DOMAIN lines : Port(lines, k) => k = Len(lines)
Left == server = "closed" /\ data = "none" /\ blocks = 0
Asked ==
  \/ /\ Len(queue) > 0 /\ queue[Len(queue)] = "EPSV" /\ Settled(Len(queue) - 1)
     /\ NoneSays(inbox, 229) /\ (pc = "connect" => NoneSays(buf, 229))
  \/ /\ queue = <<>> /\ server = "idle" /\ data = "listening" /\ blocks = 0 /\ PortLast(inbox)
     /\ (pc = "connect" /\ HasPort) => inbox = <<>>
  \/ Left
Connected ==
  \/ queue = <<>> /\ inbox = <<>> /\ server = "idle" /\ data = "open" /\ blocks = 0
  \/ Left /\ NoneSays(inbox, 229)

Excused == excuses \cap {"refused", "closed"} # {}
Receiving ==
  /\ NoneSays(inbox, 229)
  /\ \/ /\ data = "open" /\ blocks = 0 /\ moved = 0
        /\ \/ server = "idle" /\ Only(Transfer)
           \/ server = "sending" /\ queue = <<>>
     \/ /\ data = "eof" /\ server \in {"idle", "closed"} /\ queue = <<>>
        /\ moved + blocks <= FileBlocks /\ (~Excused => moved + blocks = FileBlocks)
     \/ /\ data = "none" /\ server \in {"idle", "closed"} /\ queue = <<>>
        /\ blocks = 0 /\ moved = 0 /\ Excused
Storing ==
  /\ NoneSays(inbox, 229)
  /\ \/ /\ data = "open" /\ blocks = moved
        /\ \/ server = "idle" /\ Only("STOR")
           \/ server = "storing" /\ queue = <<>>
     \/ /\ data = "none" /\ server \in {"idle", "closed"} /\ queue = <<>>
        /\ blocks = 0 /\ Excused

Over ==
  /\ data # "open"
  /\ (server = "storing" /\ data = "eof") => blocks = FileBlocks
  /\ \A k \in DOMAIN queue : (server # "closed" /\ queue[k] = "STOR") =>
       /\ data = "eof" => blocks = FileBlocks
       /\ server \notin {"sending", "storing"}
       /\ \A j \in DOMAIN queue : queue[j] \in {"LIST", "RETR", "STOR"} => j = k

TransferState ==
  /\ (server = "closed" /\ pc \notin Ended) => queue = <<>> /\ "closed" \in excuses
  /\ pc \in LoggingIn => step = 1 /\ data = "none"
  /\ pc \in LoggingIn \cup {"epsv", "quit"} => Settled(Len(queue)) /\ NoneSays(inbox, 229)
  /\ pc \in {"epsvReply", "connect"} => Asked
  /\ pc = "command" => Connected
  /\ (pc \in {"first", "data"} /\ Transfer # "STOR") => Receiving
  /\ (pc \in {"first", "data"} /\ Transfer = "STOR") => Storing
  /\ pc = "second" =>
       /\ Settled(Len(queue)) /\ NoneSays(inbox, 229) /\ (~Excused => moved = FileBlocks)
       /\ \A k \in DOMAIN queue : queue[k] = "STOR"
       /\ Transfer # "STOR" => data = "none" /\ queue = <<>>
  /\ pc \in Ended => Over
  /\ \A k \in DOMAIN stored : stored[k] = FileBlocks

-----------------------------------------------------------------------------
(* One reply at a time *)

Inner(lines) == {k \in 1..(Len(lines) - 1) : lines[k].last}
Whole(lines) == lines # <<>> => lines[Len(lines)].last
One(lines) == Inner(lines) = {} /\ Whole(lines)
Two(lines) == (\A i, j \in Inner(lines) : i = j) /\ Whole(lines)

Quiet == queue = <<>> /\ inbox = <<>> /\ server = "idle"
Due ==
  \/ Len(queue) = 1 /\ inbox = <<>> /\ server = "idle"
  \/ queue = <<>> /\ inbox # <<>> /\ One(inbox) /\ server = "idle"
Replies ==
  excuses \cap {"split", "closed"} = {} =>
    /\ pc = "greet" =>
         /\ queue = <<>>
         /\ (server = "new" /\ inbox = <<>>) \/ (server = "idle" /\ inbox # <<>> /\ One(inbox))
    /\ pc \in {"user", "pass", "epsv", "connect", "command", "quit"} => Quiet
    /\ pc \in {"userReply", "passReply", "epsvReply"} => Due
    /\ pc = "first" =>
         \/ Only(Transfer) /\ inbox = <<>> /\ server = "idle"
         \/ /\ queue = <<>> /\ server = (IF Transfer = "STOR" THEN "storing" ELSE "sending")
            /\ inbox # <<>> /\ One(inbox)
         \/ /\ queue = <<>> /\ server = "idle" /\ inbox # <<>> /\ Two(inbox)
            /\ ~Excused => Transfer # "STOR"
    /\ pc \in {"data", "second"} =>
         /\ queue = <<>> /\ One(inbox)
         /\ \/ inbox = <<>> /\ server = (IF Transfer = "STOR" THEN "storing" ELSE "sending")
            \/ server = "idle"
    /\ excuses = {"glued"} =>
         /\ pc \in {"data", "second", "crashed"} /\ Transfer # "STOR"
         /\ pc # "crashed" => Quiet

IInv == TypeOK /\ LetIn /\ TransferState /\ Replies

-----------------------------------------------------------------------------
(* Operators *)

LEMMA Bounds ==
  /\ FileBlocks \in Nat /\ MaxTries \in Nat /\ MaxLong \in Nat /\ MaxRefusals \in Nat
  /\ Programs \subseteq {"ftp_client", "test"}
BY ConstantsAssumption DEF ConstantsAssumption, AllPrograms

LEMMA TransferIs ==
  ASSUME TypeOK
  PROVE  Transfer \in {"LIST", "RETR", "STOR"}
<1>1. CASE program = "test"
  BY <1>1 DEF TypeOK, Transfer, Transfers
<1>2. CASE program # "test"
  BY <1>2 DEF TypeOK, Transfer, Transfers
<1>3. QED
  BY <1>1, <1>2

LEMMA SameTransfer ==
  ASSUME UNCHANGED <<program, step>>
  PROVE  Transfer' = Transfer /\ Transfers' = Transfers
BY DEF Transfer, Transfers

\* What a recv takes: the first n lines, and an error or the end of the stream for n = 0.
Takes(n) ==
  /\ n \in 0..Len(inbox)
  /\ Len(inbox') = Len(inbox) - n /\ \A k \in 1..Len(inbox') : inbox'[k] = inbox[k + n]
  /\ n = 0 =>
       /\ server = "closed" /\ inbox' = <<>> /\ inbox = <<>>
       /\ buf' \in {<<>>, buf} /\ excuses' = excuses
  /\ n > 0 =>
       /\ Len(buf') = n /\ \A k \in 1..n : buf'[k] = inbox[k]
       /\ {"refused", "closed"} \cap excuses' = {"refused", "closed"} \cap excuses
       /\ excuses \subseteq excuses'
       /\ "split" \in excuses' <=> "split" \in excuses \/ ~inbox[n].last
       /\ "glued" \in excuses' <=> "glued" \in excuses \/ \E k \in 2..n : inbox[k - 1].last

LEMMA RecvTakes ==
  ASSUME TypeOK, NEW l, Recv(l)
  PROVE  /\ buf' \in Seq(Lines) /\ inbox' \in Seq(Lines) /\ excuses' \subseteq Excuses
         /\ \E n \in 0..Len(inbox) : Takes(n)
<1>1. inbox \in Seq(Lines) /\ buf \in Seq(Lines) /\ excuses \subseteq Excuses
  BY DEF TypeOK
<1>2. CASE inbox = <<>> /\ server = "closed" /\ buf' \in {<<>>, buf}
             /\ UNCHANGED <<inbox, excuses>>
  <2>1. Takes(0)
    BY <1>2 DEF Takes
  <2>2. <<>> \in Seq(Lines) /\ 0 \in 0..Len(inbox)
    BY <1>1
  <2>3. QED
    BY <1>1, <1>2, <2>1, <2>2
<1>3. ASSUME NEW n \in 1..Len(inbox), buf' = SubSeq(inbox, 1, n),
             inbox' = SubSeq(inbox, n + 1, Len(inbox)),
             excuses' = excuses \cup Mishaps(SubSeq(inbox, 1, n))
      PROVE  /\ buf' \in Seq(Lines) /\ inbox' \in Seq(Lines) /\ excuses' \subseteq Excuses
             /\ Takes(n)
  <2>1. /\ buf' \in Seq(Lines) /\ Len(buf') = n /\ \A k \in 1..n : buf'[k] = inbox[k]
    BY <1>1, <1>3
  <2>2. /\ inbox' \in Seq(Lines) /\ Len(inbox') = Len(inbox) - n
        /\ \A k \in 1..Len(inbox') : inbox'[k] = inbox[k + n]
    BY <1>1, <1>3
  <2>3. Mishaps(buf') \subseteq {"glued", "split"}
    BY DEF Mishaps
  <2>4. "split" \in Mishaps(buf') <=> ~inbox[n].last
    BY <2>1, <1>3 DEF Mishaps
  <2>5. "glued" \in Mishaps(buf') <=> \E k \in 2..n : inbox[k - 1].last
    BY <2>1, <1>3 DEF Mishaps
  <2>6. excuses' = excuses \cup Mishaps(buf')
    BY <1>3
  <2>7. excuses' \subseteq Excuses
    BY <1>1, <2>3, <2>6 DEF Excuses
  <2>8. /\ {"refused", "closed"} \cap excuses' = {"refused", "closed"} \cap excuses
        /\ excuses \subseteq excuses'
    BY <2>3, <2>6
  <2>9. /\ "split" \in excuses' <=> "split" \in excuses \/ ~inbox[n].last
        /\ "glued" \in excuses' <=> "glued" \in excuses \/ \E k \in 2..n : inbox[k - 1].last
    BY <2>4, <2>5, <2>6
  <2>10. n \in 0..Len(inbox) /\ n > 0
    BY <1>1, <1>3
  <2>11. Takes(n)
    BY <2>1, <2>2, <2>8, <2>9, <2>10 DEF Takes
  <2>12. QED
    BY <2>1, <2>2, <2>7, <2>11
<1>4. QED
  BY <1>2, <1>3 DEF Recv

\* A reply adds one line or two, the last of which ends it.
Adds(code) ==
  /\ Len(inbox') \in {Len(inbox) + 1, Len(inbox) + 2}
  /\ \A k \in 1..Len(inbox) : inbox'[k] = inbox[k]
  /\ \A k \in 1..Len(inbox') :
       k > Len(inbox) => inbox'[k].code = code /\ (inbox'[k].last <=> k = Len(inbox'))

LEMMA OneMore ==
  ASSUME NEW S, NEW s \in Seq(S), NEW a \in S, NEW t, t = Append(s, a)
  PROVE  /\ t \in Seq(S) /\ Len(t) = Len(s) + 1 /\ t[Len(t)] = a
         /\ \A k \in 1..Len(s) : t[k] = s[k]
OBVIOUS

LEMMA TwoMore ==
  ASSUME NEW S, NEW s \in Seq(S), NEW a \in S, NEW b \in S, NEW t, t = s \o <<a, b>>
  PROVE  /\ t \in Seq(S) /\ Len(t) = Len(s) + 2 /\ t[Len(s) + 1] = a /\ t[Len(t)] = b
         /\ \A k \in 1..Len(s) : t[k] = s[k]
<1>1. <<a, b>> \in Seq(S)
  OBVIOUS
<1>2. QED
  BY <1>1

LEMMA ReplyAdds ==
  ASSUME TypeOK, NEW code \in Codes, Reply(code)
  PROVE  inbox' \in Seq(Lines) /\ long' \in 0..MaxLong /\ Adds(code)
<1>1. inbox \in Seq(Lines) /\ long \in 0..MaxLong /\ MaxLong \in Nat
  BY Bounds DEF TypeOK
<1>2. PICK first, last \in Lines :
        /\ first = [code |-> code, last |-> FALSE] /\ last = [code |-> code, last |-> TRUE]
  BY DEF Lines
<1>3. first.code = code /\ ~first.last /\ last.code = code /\ last.last
  BY <1>2
<1>4. CASE inbox' = Append(inbox, last) /\ UNCHANGED long
  <2>1. /\ inbox' \in Seq(Lines) /\ Len(inbox') = Len(inbox) + 1
        /\ inbox'[Len(inbox')] = last /\ \A k \in 1..Len(inbox) : inbox'[k] = inbox[k]
    BY <1>1, <1>4, OneMore
  <2>2. QED
    BY <1>1, <1>3, <1>4, <2>1 DEF Adds
<1>5. CASE long < MaxLong /\ long' = long + 1 /\ inbox' = inbox \o <<first, last>>
  <2>1. /\ inbox' \in Seq(Lines) /\ Len(inbox') = Len(inbox) + 2
        /\ inbox'[Len(inbox) + 1] = first /\ inbox'[Len(inbox')] = last
        /\ \A k \in 1..Len(inbox) : inbox'[k] = inbox[k]
    BY <1>1, <1>5, TwoMore
  <2>2. \A k \in 1..Len(inbox') : k > Len(inbox) => k \in {Len(inbox) + 1, Len(inbox')}
    BY <1>1, <2>1
  <2>3. QED
    BY <1>1, <1>3, <1>5, <2>1, <2>2 DEF Adds
<1>6. QED
  BY <1>2, <1>4, <1>5 DEF Reply

LEMMA NoneTaken ==
  ASSUME TypeOK, NEW code, NEW l, Recv(l), NoneSays(inbox, code)
  PROVE  /\ NoneSays(inbox', code)
         /\ NoneSays(buf', code) \/ (buf' = buf /\ server = "closed")
<1>1. inbox \in Seq(Lines) /\ inbox' \in Seq(Lines) /\ buf' \in Seq(Lines)
  BY RecvTakes DEF TypeOK
<1>2. PICK n \in 0..Len(inbox) : Takes(n)
  BY RecvTakes
<1>3. \A k \in 1..Len(inbox) : inbox[k].code # code
  BY <1>1 DEF NoneSays
<1>4. \A k \in 1..Len(inbox') : inbox'[k].code # code
  <2>1. TAKE k \in 1..Len(inbox')
  <2>2. inbox'[k] = inbox[k + n] /\ k + n \in 1..Len(inbox)
    BY <1>1, <1>2 DEF Takes
  <2>3. QED
    BY <1>3, <2>2
<1>5. n > 0 => \A k \in 1..Len(buf') : buf'[k].code # code
  BY <1>1, <1>2, <1>3 DEF Takes
<1>6. n = 0 => server = "closed" /\ buf' \in {<<>>, buf}
  BY <1>2 DEF Takes
<1>7. QED
  BY <1>1, <1>4, <1>5, <1>6 DEF NoneSays

LEMMA NoneAdded ==
  ASSUME TypeOK, NEW code, NEW other \in Codes, other # code, Reply(other), NoneSays(inbox, code)
  PROVE  NoneSays(inbox', code)
<1>1. inbox \in Seq(Lines) /\ inbox' \in Seq(Lines) /\ Adds(other)
  BY ReplyAdds DEF TypeOK
<1>2. \A k \in 1..Len(inbox') : inbox'[k].code # code
  <2>1. TAKE k \in 1..Len(inbox')
  <2>2. CASE k > Len(inbox)
    BY <1>1, <2>2 DEF Adds
  <2>3. CASE k \in 1..Len(inbox)
    BY <1>1, <2>3 DEF Adds, NoneSays
  <2>4. QED
    BY <1>1, <2>2, <2>3
<1>3. QED
  BY <1>1, <1>2 DEF NoneSays

LEMMA SendIs ==
  ASSUME TypeOK, NEW from, NEW command \in Commands, NEW to, Send(from, command, to)
  PROVE  /\ queue' \in Seq(Commands)
         /\ server = "closed" => queue' = queue
         /\ server # "closed" =>
              /\ Len(queue') = Len(queue) + 1 /\ queue'[Len(queue')] = command
              /\ \A k \in 1..Len(queue) : queue'[k] = queue[k]
<1>1. queue \in Seq(Commands)
  BY DEF TypeOK
<1>2. CASE server = "closed"
  BY <1>1, <1>2 DEF Send
<1>3. CASE server # "closed"
  BY <1>1, <1>3, OneMore DEF Send
<1>4. QED
  BY <1>2, <1>3

LEMMA ReadsIs ==
  ASSUME TypeOK, NEW command, Reads(command)
  PROVE  /\ server = "idle" /\ Len(queue) > 0 /\ queue[1] = command
         /\ queue' \in Seq(Commands) /\ Len(queue') = Len(queue) - 1
         /\ \A k \in 1..Len(queue') : queue'[k] = queue[k + 1]
BY DEF TypeOK, Reads

-----------------------------------------------------------------------------
(* Types *)

LEMMA InitTypes == Init => TypeOK
<1>1. <<>> \in Seq(Lines) /\ <<>> \in Seq(Commands) /\ <<>> \in Seq(0..FileBlocks)
  OBVIOUS
<1>2. Init => step \in 1..Len(Transfers)
  BY DEF Init, Transfers
<1>3. Init => program \in Programs /\ stored = <<>> /\ queue = <<>> /\ buf = <<>> /\ inbox = <<>>
  BY DEF Init
<1>4. Init => stored \in Seq(0..FileBlocks)
  BY <1>1, <1>3
<1>5. Init => blocks \in 0..FileBlocks /\ moved \in 0..FileBlocks /\ tries \in 0..MaxTries
  BY Bounds DEF Init
<1>6. Init => long \in 0..MaxLong /\ refusals \in 0..MaxRefusals
  BY Bounds DEF Init
<1>7. QED
  BY <1>1, <1>2, <1>3, <1>4, <1>5, <1>6 DEF Init, TypeOK

LEMMA ClientTypes ==
  ASSUME TypeOK, TransferState, Client
  PROVE  TypeOK'
<1> USE Bounds
<1>1. ASSUME NEW l, Recv(l), UNCHANGED dataVars,
             \/ pc' \in {"user", "pass", "epsv", "connect", "data", "quit"} /\ UNCHANGED step
             \/ pc' = "epsv" /\ More /\ step' = step + 1
      PROVE  TypeOK'
  <2>1. /\ buf' \in Seq(Lines) /\ inbox' \in Seq(Lines) /\ excuses' \subseteq Excuses
        /\ UNCHANGED <<program, tries, queue, serverVars>>
    BY <1>1, RecvTakes DEF Recv
  <2>2. Transfers' = Transfers /\ Len(Transfers) \in Nat
    BY <2>1 DEF Transfers
  <2>3. step' \in 1..Len(Transfers')
    BY <1>1, <2>2 DEF TypeOK, More
  <2>4. QED
    BY <1>1, <2>1, <2>3 DEF TypeOK, dataVars, serverVars
<1>2. ASSUME NEW l, NEW command \in Commands, NEW to, Send(l, command, to),
             to \in {"userReply", "passReply", "epsvReply", "first", "done"},
             tries' \in 0..MaxTries, buf' \in Seq(Lines), moved' \in 0..FileBlocks,
             UNCHANGED <<data, blocks>>
      PROVE  TypeOK'
  <2>1. /\ queue' \in Seq(Commands) /\ pc' = to
        /\ UNCHANGED <<program, step, inbox, serverVars, excuses>>
    BY <1>2, SendIs DEF Send
  <2>2. Transfers' = Transfers
    BY <2>1 DEF Transfers
  <2>3. QED
    BY <1>2, <2>1, <2>2 DEF TypeOK, serverVars, Ended
<1>3. ASSUME NEW l \in {"command", "second"} \cup Ended, pc' = l,
             data' \in {"none", "open", "eof", data}, UNCHANGED blocks, Stay
      PROVE  TypeOK'
  <2>1. Transfers' = Transfers
    BY <1>3 DEF Stay, Transfers
  <2>2. QED
    BY <1>3, <2>1 DEF TypeOK, Stay, serverVars, Ended
<1>4. ASSUME NEW l \in Ended, Exit(l)
      PROVE  TypeOK'
  BY <1>3, <1>4 DEF Exit
<1> DEFINE Stored == <<clientVars, inbox, queue, data, serverVars, excuses>>
<1>5. ASSUME UNCHANGED Stored, buf' = <<>>, blocks' \in 0..FileBlocks, moved' \in 0..FileBlocks
      PROVE  TypeOK'
  <2>1. Transfers' = Transfers /\ buf' \in Seq(Lines)
    BY <1>5 DEF clientVars, Transfers
  <2>2. QED
    BY <1>5, <2>1 DEF TypeOK, clientVars, serverVars
<1>6. buf \in Seq(Lines) /\ <<>> \in Seq(Lines) /\ tries \in 0..MaxTries /\ moved \in 0..FileBlocks
  BY DEF TypeOK
<1> HIDE DEF Stored
<1>7. CASE Greeting \/ UserReply \/ PassReply \/ EpsvReply \/ FirstReply \/ SecondReply
  BY <1>1, <1>7 DEF Greeting, UserReply, PassReply, EpsvReply, FirstReply, SecondReply, Goto
<1>8. CASE SendUser
  BY <1>2, <1>6, <1>8 DEF SendUser, Commands, dataVars
<1>9. CASE SendPass
  BY <1>2, <1>6, <1>9 DEF SendPass, Commands, dataVars
<1>10. CASE SendEpsv \/ SendQuit
  BY <1>2, <1>6, <1>10 DEF SendEpsv, SendQuit, Commands, dataVars
<1>11. CASE SendCommand
  <2>1. Transfer \in Commands /\ buf' \in Seq(Lines) /\ moved' \in 0..FileBlocks
    BY <1>6, <1>11, TransferIs DEF SendCommand, Commands
  <2>2. QED
    BY <1>2, <1>6, <1>11, <2>1 DEF SendCommand, AfterCommand
<1>12. CASE Connect \/ ReadEnd \/ StoreEnd
  BY <1>3, <1>12 DEF Connect, ReadEnd, StoreEnd
<1>13. CASE ConnectFails \/ NoFile \/ SegFault \/ SigPipe
  BY <1>4, <1>13 DEF ConnectFails, NoFile, SegFault, SigPipe, Ended
<1>14. CASE ReadBlock
  <2>1. Receiving
    BY <1>14 DEF ReadBlock, TransferState
  <2>2. moved \in Nat /\ blocks \in Nat /\ moved + blocks <= FileBlocks /\ blocks > 0
    BY <1>14, <2>1 DEF ReadBlock, Receiving, TypeOK
  <2>3. moved' \in 0..FileBlocks /\ blocks' \in 0..FileBlocks
    BY <1>14, <2>2 DEF ReadBlock
  <2>4. QED
    BY <1>5, <1>14, <2>3 DEF ReadBlock, Stored
<1>15. CASE StoreBlock
  <2>1. Storing
    BY <1>15 DEF StoreBlock, TransferState
  <2>2. moved \in Nat /\ moved < FileBlocks /\ (data = "open" => blocks = moved)
    BY <1>15, <2>1 DEF StoreBlock, Storing, TypeOK
  <2>3. moved' \in 0..FileBlocks /\ blocks' \in 0..FileBlocks
    BY <1>15, <2>2 DEF StoreBlock, TypeOK
  <2>4. QED
    BY <1>5, <1>15, <2>3 DEF StoreBlock, Stored
<1>16. QED
  BY <1>7, <1>8, <1>9, <1>10, <1>11, <1>12, <1>13, <1>14, <1>15 DEF Client

LEMMA ServerTypes ==
  ASSUME TypeOK, Server \/ Refuses \/ BreaksOff \/ TimesOut
  PROVE  TypeOK'
<1> USE Bounds
<1>1. ASSUME NEW code \in Codes, Reply(code), queue' \in Seq(Commands),
             data' \in {"none", "listening", "eof", data}, blocks' \in 0..FileBlocks,
             server' \in {"idle", "sending", "storing", "closed"}, user' \in BOOLEAN,
             stored' \in Seq(0..FileBlocks), refusals' \in 0..MaxRefusals,
             excuses' \subseteq Excuses
      PROVE  TypeOK'
  <2>1. inbox' \in Seq(Lines) /\ long' \in 0..MaxLong /\ UNCHANGED <<clientVars, buf, moved>>
    BY <1>1, ReplyAdds DEF Reply
  <2>2. Transfers' = Transfers
    BY <2>1 DEF clientVars, Transfers
  <2>3. QED
    BY <1>1, <2>1, <2>2 DEF TypeOK, clientVars
<1>2. /\ queue \in Seq(Commands) /\ blocks \in 0..FileBlocks /\ user \in BOOLEAN
      /\ stored \in Seq(0..FileBlocks) /\ refusals \in 0..MaxRefusals /\ excuses \subseteq Excuses
  BY DEF TypeOK
<1>3. ASSUME NEW command, Reads(command) PROVE queue' \in Seq(Commands)
  BY <1>3, ReadsIs
<1>4. ASSUME NEW x \in Excuses, Refusal(x)
      PROVE  refusals' \in 0..MaxRefusals /\ excuses' \subseteq Excuses
  BY <1>2, <1>4 DEF Refusal
<1>5. {220, 331, 230, 530, 229, 150, 226, 550, 426, 421} \subseteq Codes
  BY DEF Codes
<1>6. ASSUME NEW command, NEW code \in Codes, Answers(command, code),
             data' \in {"listening", data}, user' \in {TRUE, user}
      PROVE  TypeOK'
  BY <1>1, <1>2, <1>3, <1>6 DEF Answers
<1>7. CASE Greet
  BY <1>1, <1>2, <1>5, <1>7 DEF Greet, ServerGoto
<1>8. CASE ReadsUser
  BY <1>5, <1>6, <1>8 DEF ReadsUser
<1>9. CASE ReadsPass
  BY <1>5, <1>6, <1>9 DEF ReadsPass
<1>10. CASE ReadsBadPass
  BY <1>5, <1>6, <1>10 DEF ReadsBadPass
<1>11. CASE ReadsEpsv
  <2>1. PICK code \in Codes : code = IF user THEN 229 ELSE 530
    BY <1>5
  <2>2. QED
    BY <1>6, <1>11, <2>1 DEF ReadsEpsv
<1>12. CASE ReadsQuit
  <2>1. queue' \in Seq(Commands) /\ Transfers' = Transfers
    BY <1>3, <1>12 DEF ReadsQuit, clientVars, Transfers
  <2>2. QED
    BY <1>12, <2>1 DEF ReadsQuit, ServerGoto, TypeOK, clientVars, dataVars
<1>13. CASE BeginTransfer
  <2>1. queue' \in Seq(Commands)
    BY <1>3, <1>13 DEF BeginTransfer
  <2>2. QED
    BY <1>1, <1>2, <1>5, <1>13, <2>1 DEF BeginTransfer, ServerGoto
<1>14. CASE SendsAll
  BY <1>1, <1>2, <1>5, <1>14 DEF SendsAll, ServerGoto
<1>15. CASE Stores
  <2>1. stored' \in Seq(0..FileBlocks)
    BY <1>2, <1>15, OneMore DEF Stores
  <2>2. QED
    BY <1>1, <1>2, <1>5, <1>15, <2>1 DEF Stores
<1>16. CASE Refuses
  <2>1. queue' \in Seq(Commands)
    BY <1>3, <1>16 DEF Refuses
  <2>2. refusals' \in 0..MaxRefusals /\ excuses' \subseteq Excuses
    BY <1>4, <1>16 DEF Refuses, Excuses
  <2>3. QED
    BY <1>1, <1>2, <1>5, <1>16, <2>1, <2>2 DEF Refuses, ServerGoto
<1>17. CASE BreaksOff
  <2>1. refusals' \in 0..MaxRefusals /\ excuses' \subseteq Excuses
    BY <1>4, <1>17 DEF BreaksOff, Excuses
  <2>2. blocks' \in 0..FileBlocks /\ data' \in {"none", "eof"}
    BY <1>17 DEF BreaksOff
  <2>3. QED
    BY <1>1, <1>2, <1>5, <1>17, <2>1, <2>2 DEF BreaksOff, ServerGoto
<1>18. CASE TimesOut
  <2>1. refusals' \in 0..MaxRefusals /\ excuses' \subseteq Excuses
    BY <1>4, <1>18 DEF TimesOut, Excuses
  <2>2. blocks' \in 0..FileBlocks /\ data' \in {"none", data}
    BY <1>2, <1>18 DEF TimesOut
  <2>3. QED
    BY <1>1, <1>2, <1>5, <1>18, <2>1, <2>2 DEF TimesOut, ServerGoto
<1>19. QED
  BY <1>7, <1>8, <1>9, <1>10, <1>11, <1>12, <1>13, <1>14, <1>15, <1>16, <1>17, <1>18 DEF Server

-----------------------------------------------------------------------------
(* Who was let in *)

LEMMA InitLetIn == Init => LetIn
BY DEF Init, LetIn, LoggingIn, NoneSays

LEMMA LetInStep ==
  ASSUME TypeOK, LetIn, Next
  PROVE  LetIn'
<1> SUFFICES ASSUME ~user'
             PROVE  /\ pc' \in LoggingIn \cup {"failed", "crashed"}
                    /\ NoneSays(inbox', 230) /\ (pc' = "passReply" => buf' = <<>>)
  BY DEF LetIn
<1>1. ASSUME NEW l, Recv(l)
      PROVE  ~user /\ NoneSays(inbox', 230) /\ (buf = <<>> => NoneSays(buf', 230)) /\ pc = l
  <2>1. ~user /\ pc = l /\ inbox \in Seq(Lines) /\ inbox' \in Seq(Lines) /\ buf' \in Seq(Lines)
    BY <1>1, RecvTakes DEF Recv, serverVars, TypeOK
  <2>2. NoneSays(inbox, 230)
    BY <2>1 DEF LetIn
  <2>3. NoneSays(inbox', 230) /\ (NoneSays(buf', 230) \/ buf' = buf)
    BY <1>1, <2>2, NoneTaken
  <2>4. buf = <<>> => NoneSays(buf', 230)
    BY <2>3 DEF NoneSays
  <2>5. QED
    BY <2>1, <2>3, <2>4
<1>2. CASE Greeting \/ UserReply \/ EpsvReply \/ FirstReply \/ SecondReply
  BY <1>1, <1>2
     DEF LetIn, LoggingIn, Greeting, UserReply, EpsvReply, FirstReply, SecondReply, Goto
<1>3. CASE PassReply
  <2>1. ~user /\ NoneSays(inbox', 230) /\ NoneSays(buf', 230) /\ buf' \in Seq(Lines)
    BY <1>1, <1>3, RecvTakes DEF PassReply, LetIn
  <2>2. ~Positive(buf')
    BY <2>1 DEF Positive, NoneSays
  <2>3. pc' = "user"
    BY <1>3, <2>2 DEF PassReply, Goto
  <2>4. QED
    BY <2>1, <2>3 DEF LoggingIn
<1>4. CASE SendUser \/ SendPass \/ SendEpsv \/ SendCommand \/ SendQuit
  BY <1>4 DEF SendUser, SendPass, SendEpsv, SendCommand, SendQuit, Send, serverVars, LetIn,
              LoggingIn, AfterCommand
<1>5. CASE Connect \/ ConnectFails \/ NoFile \/ ReadEnd \/ StoreEnd \/ SegFault \/ SigPipe
  BY <1>5 DEF Connect, ConnectFails, NoFile, ReadEnd, StoreEnd, SegFault, SigPipe, Exit, Stay,
              serverVars, LetIn, LoggingIn
<1>6. CASE ReadBlock \/ StoreBlock
  BY <1>6 DEF ReadBlock, StoreBlock, clientVars, serverVars, LetIn, LoggingIn
<1>7. ASSUME NEW code \in Codes \ {230}, Reply(code), ~user
      PROVE  /\ pc' \in LoggingIn \cup {"failed", "crashed"}
             /\ NoneSays(inbox', 230) /\ (pc' = "passReply" => buf' = <<>>)
  <2>1. NoneSays(inbox', 230)
    BY <1>7, NoneAdded DEF LetIn
  <2>2. QED
    BY <1>7, <2>1 DEF Reply, LetIn, clientVars
<1>8. {220, 331, 530, 150, 226, 550, 426, 421} \subseteq Codes \ {230}
  BY DEF Codes
<1>9. CASE Greet \/ ReadsUser \/ ReadsBadPass
  BY <1>7, <1>8, <1>9 DEF Greet, ReadsUser, ReadsBadPass, Answers, ServerGoto
<1>10. CASE ReadsPass
  BY <1>10 DEF ReadsPass
<1>11. CASE ReadsEpsv
  <2>1. ~user
    BY <1>11 DEF ReadsEpsv
  <2>2. Reply(530)
    BY <1>11, <2>1 DEF ReadsEpsv, Answers
  <2>3. QED
    BY <1>7, <1>8, <2>1, <2>2
<1>12. CASE ReadsQuit
  BY <1>12 DEF ReadsQuit, ServerGoto, clientVars, LetIn
<1>13. CASE BeginTransfer \/ SendsAll \/ Stores
  BY <1>7, <1>8, <1>13 DEF BeginTransfer, SendsAll, Stores, ServerGoto
<1>14. CASE Refuses \/ BreaksOff \/ TimesOut
  BY <1>7, <1>8, <1>14 DEF Refuses, BreaksOff, TimesOut, ServerGoto
<1>15. QED
  BY <1>2, <1>3, <1>4, <1>5, <1>6, <1>9, <1>10, <1>11, <1>12, <1>13, <1>14
     DEF Next, Client, Server

-----------------------------------------------------------------------------
(* A transfer and the server's part in it *)

LEMMA InitTransferState == Init => TransferState
BY DEF Init, TransferState, LoggingIn, Settled, NoneSays, Ended

LEMMA ExcusedIs ==
  ASSUME excuses \cap {"refused", "closed"} \subseteq excuses'
  PROVE  (Excused => Excused') /\ ("closed" \in excuses => "closed" \in excuses')
BY DEF Excused

\* After a recv.
LEMMA RecvKeeps ==
  ASSUME TypeOK, NEW l, Recv(l), UNCHANGED dataVars
  PROVE  /\ pc = l /\ UNCHANGED <<queue, server, stored, data, blocks, moved>>
         /\ Excused' <=> Excused
         /\ "closed" \in excuses => "closed" \in excuses'
         /\ NoneSays(inbox, 229) => NoneSays(inbox', 229)
<1>1. PICK n \in 0..Len(inbox) : Takes(n)
  BY RecvTakes
<1>2. n \in Nat /\ (n = 0 \/ n > 0)
  BY DEF TypeOK
<1>3. excuses' \cap {"refused", "closed"} = excuses \cap {"refused", "closed"}
  BY <1>1, <1>2 DEF Takes
<1>4. QED
  BY <1>3, NoneTaken DEF Recv, serverVars, dataVars, Excused

LEMMA RecvTransferState ==
  ASSUME TypeOK, TransferState, NEW l, Recv(l), UNCHANGED dataVars,
         \/ l \in {"greet", "userReply"} /\ pc' \in {"user", "pass"} /\ UNCHANGED step
         \/ l = "passReply" /\ pc' \in {"user", "epsv"} /\ UNCHANGED step
         \/ l = "first" /\ pc' = "data" /\ UNCHANGED step
         \/ l = "second" /\ pc' \in {"epsv", "quit"}
  PROVE  TransferState'
<1>1. /\ pc = l /\ UNCHANGED <<queue, server, stored, data, blocks, moved>>
      /\ Excused' <=> Excused
      /\ "closed" \in excuses => "closed" \in excuses'
      /\ NoneSays(inbox, 229) => NoneSays(inbox', 229)
  BY RecvKeeps
<1>2. UNCHANGED step => Transfer' = Transfer
  BY SameTransfer DEF Recv
<1>3. (server' = "closed" /\ pc' \notin Ended) => queue' = <<>> /\ "closed" \in excuses'
  BY <1>1 DEF TransferState, Ended
<1>4. CASE l \in {"greet", "userReply", "passReply", "second"}
  BY <1>1, <1>3, <1>4 DEF TransferState, LoggingIn, Settled, Only, Ended
<1>5. CASE l = "first"
  BY <1>1, <1>2, <1>3, <1>5 DEF TransferState, LoggingIn, Receiving, Storing, Only, Ended
<1>6. QED
  BY <1>4, <1>5

LEMMA EpsvReplyTransferState ==
  ASSUME TypeOK, TransferState, EpsvReply
  PROVE  TransferState'
<1>1. /\ Recv("epsvReply") /\ pc = "epsvReply" /\ pc' = "connect"
      /\ UNCHANGED <<queue, server, stored, data, blocks, moved>>
      /\ "closed" \in excuses => "closed" \in excuses'
  BY RecvKeeps DEF EpsvReply, Goto
<1>2. Asked
  BY <1>1 DEF TransferState
<1>3. ASSUME NoneSays(inbox, 229), server # "closed"
      PROVE  NoneSays(inbox', 229) /\ NoneSays(buf', 229)
  BY <1>1, <1>3, NoneTaken
<1>4. ASSUME PortLast(inbox), server # "closed"
      PROVE  PortLast(inbox') /\ (HasPort' => inbox' = <<>>)
  <2>1. PICK n \in 0..Len(inbox) : Takes(n)
    BY <1>1, RecvTakes
  <2>2. inbox \in Seq(Lines) /\ inbox' \in Seq(Lines) /\ buf' \in Seq(Lines)
    BY <1>1, RecvTakes DEF TypeOK
  <2>3. /\ n \in 1..Len(inbox) /\ Len(buf') = n /\ Len(inbox') = Len(inbox) - n
        /\ \A k \in 1..n : buf'[k] = inbox[k]
        /\ \A k \in 1..Len(inbox') : inbox'[k] = inbox[k + n]
    BY <1>4, <2>1, <2>2 DEF Takes
  <2>4. \A k \in 1..Len(inbox) : Port(inbox, k) => k = Len(inbox)
    BY <1>4, <2>2 DEF PortLast
  <2>5. \A k \in 1..Len(inbox') : Port(inbox', k) => k = Len(inbox')
    <3> SUFFICES ASSUME NEW k \in 1..Len(inbox'), Port(inbox', k) PROVE k = Len(inbox')
      OBVIOUS
    <3>1. k + n \in 1..Len(inbox) /\ inbox'[k] = inbox[k + n]
      BY <2>2, <2>3
    <3>2. Port(inbox, k + n)
      BY <3>1 DEF Port
    <3>3. k + n = Len(inbox)
      BY <2>4, <3>1, <3>2
    <3>4. Len(inbox') = Len(inbox) - n /\ Len(inbox) \in Nat /\ n \in Nat
      BY <2>2, <2>3
    <3>5. QED
      BY <3>3, <3>4
  <2>6. ASSUME HasPort' PROVE inbox' = <<>>
    <3>1. PICK k \in 1..n : buf'[k].code = 229 /\ buf'[k].last
      BY <2>2, <2>3, <2>6 DEF HasPort
    <3>2. k \in 1..Len(inbox) /\ Port(inbox, k)
      BY <2>2, <2>3, <3>1 DEF Port
    <3>3. n = Len(inbox)
      BY <2>2, <2>3, <2>4, <3>1, <3>2
    <3>4. Len(inbox') = 0
      BY <2>2, <2>3, <3>3
    <3>5. QED
      BY <2>2, <3>4
  <2>7. DOMAIN inbox' = 1..Len(inbox')
    BY <2>2
  <2>8. QED
    BY <2>5, <2>6, <2>7 DEF PortLast
<1>5. Asked'
  BY <1>1, <1>2, <1>3, <1>4 DEF Asked, Settled, Left, Only
<1>6. (server' = "closed" /\ pc' \notin Ended) => queue' = <<>> /\ "closed" \in excuses'
  BY <1>1 DEF TransferState, Ended
<1>7. QED
  BY <1>1, <1>5, <1>6 DEF TransferState, LoggingIn, Ended

LEMMA SettledStays ==
  ASSUME TypeOK, NEW n \in Nat, Settled(n), UNCHANGED <<data, blocks, server>>,
         \A k \in 1..n : queue'[k] = queue[k]
  PROVE  Settled(n)'
BY DEF Settled

\* After a send.
LEMMA SendTransferState ==
  ASSUME TypeOK, TransferState, SendUser \/ SendPass \/ SendEpsv \/ SendCommand \/ SendQuit
  PROVE  TransferState'
<1> DEFINE Sent(command) ==
      /\ queue' \in Seq(Commands)
      /\ server = "closed" => queue' = queue
      /\ server # "closed" =>
           /\ Len(queue') = Len(queue) + 1 /\ queue'[Len(queue')] = command
           /\ \A k \in 1..Len(queue) : queue'[k] = queue[k]
<1>1. ASSUME NEW from, NEW command \in Commands, NEW to, Send(from, command, to)
      PROVE  /\ Sent(command) /\ pc = from /\ pc' = to
             /\ UNCHANGED <<step, inbox, server, stored, excuses>> /\ Transfer' = Transfer
             /\ Excused' <=> Excused
  BY <1>1, SendIs, SameTransfer DEF Send, serverVars, Excused
<1>2. queue \in Seq(Commands) /\ Transfer \in {"LIST", "RETR", "STOR"}
  BY TransferIs DEF TypeOK
<1>3. (server = "closed" /\ pc \notin Ended) => queue = <<>> /\ "closed" \in excuses
  BY DEF TransferState
<1>4. CASE SendUser \/ SendPass
  <2>1. PICK command \in LoginCommands :
          /\ Sent(command) /\ pc \in {"user", "pass"} /\ pc' \in {"userReply", "passReply"}
          /\ UNCHANGED <<step, inbox, server, stored, excuses, data, blocks>>
    <3>1. CASE SendUser
      BY <1>1, <3>1 DEF SendUser, LoginCommands, Commands, dataVars
    <3>2. CASE SendPass
      BY <1>1, <3>2 DEF SendPass, LoginCommands, Commands, dataVars
    <3>3. QED
      BY <1>4, <3>1, <3>2
  <2>2. Settled(Len(queue)) /\ NoneSays(inbox, 229) /\ step = 1 /\ data = "none"
    BY <2>1 DEF TransferState, LoggingIn
  <2>3. Settled(Len(queue))'
    BY <1>2, <2>1, <2>2 DEF Settled
  <2>4. QED
    BY <1>3, <2>1, <2>2, <2>3 DEF TransferState, LoggingIn, Ended
<1>5. CASE SendEpsv
  <2>1. /\ Sent("EPSV") /\ pc = "epsv" /\ pc' = "epsvReply"
        /\ UNCHANGED <<step, inbox, server, stored, excuses, data, blocks>>
    BY <1>1, <1>5 DEF SendEpsv, Commands, dataVars
  <2>2. Settled(Len(queue)) /\ NoneSays(inbox, 229)
    BY <2>1 DEF TransferState
  <2>3. ASSUME server = "closed" PROVE Asked'
    <3>1. Left'
      BY <2>1, <2>2, <2>3 DEF Settled, Left
    <3>2. QED
      BY <3>1 DEF Asked
  <2>4. ASSUME server # "closed" PROVE Asked'
    <3>1. Len(queue') > 0 /\ queue'[Len(queue')] = "EPSV" /\ Len(queue') - 1 = Len(queue)
      BY <1>2, <2>1, <2>4
    <3>2. PICK n \in Nat : n = Len(queue)
      BY <1>2
    <3>3. \A k \in 1..n : queue'[k] = queue[k]
      BY <2>1, <2>4, <3>2
    <3>4. Settled(n)'
      BY <2>1, <2>2, <3>2, <3>3, SettledStays
    <3>5. Settled(Len(queue) - 1)'
      BY <3>1, <3>2, <3>4 DEF Settled
    <3>6. QED
      BY <2>1, <2>2, <3>1, <3>5 DEF Asked
  <2>5. Asked'
    BY <2>3, <2>4
  <2>6. QED
    BY <1>3, <2>1, <2>5 DEF TransferState, LoggingIn, Ended
<1>6. CASE SendCommand
  <2>1. /\ Sent(Transfer) /\ pc = "command" /\ pc' = "first" /\ Transfer' = Transfer
        /\ UNCHANGED <<step, inbox, server, stored, excuses, data, blocks>> /\ moved' = 0
    BY <1>1, <1>2, <1>6 DEF SendCommand, AfterCommand, Commands
  <2>2. Connected
    BY <2>1 DEF TransferState
  <2>3. CASE server = "closed"
    <3>1. queue = <<>> /\ Excused /\ Left /\ NoneSays(inbox, 229)
      BY <1>3, <2>1, <2>2, <2>3 DEF Ended, Connected, Left, Excused
    <3>2. QED
      BY <2>1, <3>1 DEF Left, Excused, Receiving, Storing, TransferState, Ended, LoggingIn
  <2>4. CASE server # "closed"
    <3>1. Only(Transfer)' /\ inbox = <<>> /\ server = "idle" /\ data = "open" /\ blocks = 0
      BY <1>2, <2>1, <2>2, <2>4 DEF Connected, Only, Left
    <3>2. NoneSays(inbox, 229)
      BY <3>1 DEF NoneSays
    <3>3. Receiving'
      BY <2>1, <3>1, <3>2 DEF Receiving
    <3>4. Transfer = "STOR" => Storing'
      BY <2>1, <3>1, <3>2 DEF Storing, Only
    <3>5. QED
      BY <2>1, <2>4, <3>3, <3>4 DEF TransferState, Ended, LoggingIn
  <2>5. QED
    BY <2>3, <2>4
<1>7. CASE SendQuit
  <2>1. /\ Sent("QUIT") /\ pc = "quit" /\ pc' = "done"
        /\ UNCHANGED <<step, inbox, server, stored, excuses, data, blocks>>
    BY <1>1, <1>7 DEF SendQuit, Commands, dataVars
  <2>2. Settled(Len(queue))
    BY <2>1 DEF TransferState
  <2>3. ASSUME server = "closed" PROVE Over'
    BY <2>1, <2>2, <2>3 DEF Settled, Over
  <2>4. ASSUME server # "closed" PROVE Over'
    <3>1. ASSUME NEW k \in 1..Len(queue'), queue'[k] \in {"LIST", "RETR", "STOR"}
          PROVE  k = 1 /\ data = "eof" /\ server = "idle" /\ blocks = FileBlocks
      <4>1. k \in 1..Len(queue) /\ queue[k] \in {"LIST", "RETR", "STOR"}
        BY <1>2, <2>1, <2>4, <3>1
      <4>2. QED
        BY <2>2, <4>1 DEF Settled, LoginCommands
    <3>2. data # "open" /\ (server = "storing" => data = "none" \/ blocks = FileBlocks)
      BY <2>2 DEF Settled
    <3>3. DOMAIN queue' = 1..Len(queue')
      BY <2>1
    <3>4. \A k \in DOMAIN queue' : (server # "closed" /\ queue'[k] = "STOR") =>
            /\ data = "eof" => blocks = FileBlocks
            /\ server \notin {"sending", "storing"}
            /\ \A j \in DOMAIN queue' : queue'[j] \in {"LIST", "RETR", "STOR"} => j = k
      BY <3>1, <3>3
    <3>5. data # "open" /\ ((server = "storing" /\ data = "eof") => blocks = FileBlocks)
      BY <3>2
    <3>6. QED
      BY <2>1, <3>4, <3>5 DEF Over
  <2>5. Over'
    BY <2>3, <2>4
  <2>6. QED
    BY <2>1, <2>5 DEF TransferState, Ended, LoggingIn
<1>8. QED
  BY <1>4, <1>5, <1>6, <1>7

\* Moving the data.
LEMMA DataTransferState ==
  ASSUME TypeOK, TransferState, Connect \/ ReadBlock \/ ReadEnd \/ StoreBlock \/ StoreEnd
  PROVE  TransferState'
<1>1. /\ UNCHANGED <<step, inbox, queue, server, stored, excuses>> /\ Transfer' = Transfer
      /\ Excused' <=> Excused
  BY SameTransfer
     DEF Connect, ReadBlock, ReadEnd, StoreBlock, StoreEnd, Stay, clientVars, serverVars, Excused
<1>2. (server = "closed" /\ pc \notin Ended) => queue = <<>> /\ "closed" \in excuses
  BY DEF TransferState
<1>3. moved \in Nat /\ blocks \in Nat /\ FileBlocks \in Nat /\ queue \in Seq(Commands)
  BY Bounds DEF TypeOK
<1>4. CASE Connect
  <2>1. Asked /\ HasPort /\ data = "listening" /\ pc = "connect"
    BY <1>4 DEF Connect, TransferState
  <2>2. ~NoneSays(buf, 229)
    BY <2>1 DEF HasPort, NoneSays
  <2>3. queue = <<>> /\ inbox = <<>> /\ server = "idle" /\ blocks = 0
    BY <2>1, <2>2 DEF Asked, Left
  <2>4. Connected' /\ pc' = "command"
    BY <1>1, <1>4, <2>3 DEF Connect, Connected
  <2>5. QED
    BY <1>1, <2>3, <2>4 DEF TransferState, LoggingIn, Ended
<1>5. CASE ReadBlock
  <2>1. pc = "data" /\ pc' = "data" /\ data' = data /\ Transfer # "STOR" /\ Receiving
    BY <1>5 DEF ReadBlock, TransferState, clientVars
  <2>2. Receiving'
    BY <1>1, <1>3, <1>5, <2>1 DEF ReadBlock, Receiving
  <2>3. QED
    BY <1>1, <1>2, <2>1, <2>2 DEF TransferState, LoggingIn, Ended
<1>6. CASE ReadEnd
  <2>1. /\ pc = "data" /\ pc' = "second" /\ data' = "none" /\ Transfer # "STOR" /\ Receiving
        /\ data \in {"eof", "none"} /\ blocks = 0 /\ UNCHANGED <<blocks, moved>>
    BY <1>6 DEF ReadEnd, AtEof, Stay, TransferState
  <2>2. /\ NoneSays(inbox, 229) /\ server \in {"idle", "closed"} /\ queue = <<>>
        /\ ~Excused => moved = FileBlocks
    BY <1>3, <2>1 DEF Receiving
  <2>3. Settled(Len(queue))'
    BY <1>1, <2>1, <2>2 DEF Settled
  <2>4. QED
    BY <1>1, <1>2, <2>1, <2>2, <2>3 DEF TransferState, LoggingIn, Ended
<1>7. CASE StoreBlock
  <2>1. pc = "data" /\ pc' = "data" /\ data' = data /\ Transfer = "STOR" /\ Storing
    BY <1>7 DEF StoreBlock, TransferState, clientVars
  <2>2. Storing'
    BY <1>1, <1>3, <1>7, <2>1 DEF StoreBlock, Storing, Only
  <2>3. QED
    BY <1>1, <1>2, <2>1, <2>2 DEF TransferState, LoggingIn, Ended
<1>8. CASE StoreEnd
  <2>1. /\ pc = "data" /\ pc' = "second" /\ Transfer = "STOR" /\ Storing
        /\ data' = (IF data = "open" THEN "eof" ELSE "none")
        /\ moved = FileBlocks /\ UNCHANGED <<blocks, moved>>
    BY <1>8 DEF StoreEnd, AtEnd, Stay, TransferState
  <2>2. /\ NoneSays(inbox, 229) /\ \A k \in DOMAIN queue : queue[k] = "STOR"
        /\ Len(queue) \in {0, 1}
    BY <1>3, <2>1 DEF Storing, Only
  <2>3. Settled(Len(queue))'
    BY <1>1, <1>3, <2>1, <2>2 DEF Settled, Storing, Only
  <2>4. QED
    BY <1>1, <1>2, <2>1, <2>2, <2>3 DEF TransferState, LoggingIn, Ended
<1>9. QED
  BY <1>4, <1>5, <1>6, <1>7, <1>8

\* The end of the process.
LEMMA ExitTransferState ==
  ASSUME TypeOK, TransferState, ConnectFails \/ NoFile \/ SegFault \/ SigPipe
  PROVE  TransferState'
<1>1. /\ UNCHANGED <<queue, server, stored, blocks>> /\ pc' \in {"failed", "crashed"}
      /\ data' = (IF data = "open" THEN "eof" ELSE data)
  BY DEF ConnectFails, NoFile, SegFault, SigPipe, Exit, Stay, serverVars
<1>2. queue \in Seq(Commands) /\ blocks \in Nat
  BY DEF TypeOK
<1> DEFINE IsTransfer(k) == queue[k] \in {"LIST", "RETR", "STOR"}
           Fit == /\ (server = "storing" /\ data' = "eof") => blocks = FileBlocks
                  /\ \A k \in DOMAIN queue : (server # "closed" /\ queue[k] = "STOR") =>
                       /\ data' = "eof" => blocks = FileBlocks
                       /\ server \notin {"sending", "storing"}
                       /\ \A j \in DOMAIN queue : IsTransfer(j) => j = k
<1>3. ASSUME pc = "connect" PROVE Fit
  <2>1. Asked
    BY <1>3 DEF TransferState
  <2>2. CASE /\ Len(queue) > 0 /\ queue[Len(queue)] = "EPSV" /\ Settled(Len(queue) - 1)
    <3>1. ASSUME NEW k \in DOMAIN queue, IsTransfer(k)
          PROVE  k = 1 /\ data = "eof" /\ server = "idle" /\ blocks = FileBlocks
      <4>1. k \in 1..(Len(queue) - 1)
        BY <1>2, <2>2, <3>1
      <4>2. QED
        BY <2>2, <3>1, <4>1 DEF Settled, LoginCommands
    <3>2. (server = "storing" /\ data' = "eof") => blocks = FileBlocks
      BY <1>1, <2>2 DEF Settled
    <3>3. QED
      BY <1>1, <3>1, <3>2
  <2>3. CASE queue = <<>> /\ server = "idle"
    BY <2>3
  <2>4. CASE Left
    BY <2>4 DEF Left
  <2>5. QED
    BY <2>1, <2>2, <2>3, <2>4 DEF Asked
<1>4. ASSUME pc = "command" PROVE Fit
  <2>1. Connected
    BY <1>4 DEF TransferState
  <2>2. QED
    BY <2>1 DEF Connected, Left
<1>5. ASSUME pc \in {"user", "pass", "epsv", "command", "quit"} /\ server = "closed" PROVE Fit
  BY <1>5
<1>6. ASSUME pc = "data" /\ Transfer = "STOR" /\ data # "open" PROVE Fit
  <2>1. Storing
    BY <1>6 DEF TransferState
  <2>2. QED
    BY <1>6, <2>1 DEF Storing
<1>7. ASSUME pc = "data" /\ Transfer = "RETR" PROVE Fit
  <2>1. Receiving
    BY <1>7 DEF TransferState
  <2>2. server # "storing" /\ \A k \in DOMAIN queue : queue[k] # "STOR"
    BY <1>2, <1>7, <2>1 DEF Receiving, Only
  <2>3. QED
    BY <2>2
<1>8. Fit
  BY <1>3, <1>4, <1>5, <1>6, <1>7 DEF ConnectFails, NoFile, SegFault, SigPipe
<1>9. Over'
  BY <1>1, <1>8 DEF Over
<1>10. QED
  BY <1>1, <1>9 DEF TransferState, LoggingIn, Ended

\* What no step of the server changes.
ServerFrame ==
  /\ UNCHANGED <<pc, step, program, buf, moved>> /\ Transfer' = Transfer
  /\ Excused => Excused'
  /\ "closed" \in excuses => "closed" \in excuses'

LEMMA ServerKeeps ==
  ASSUME Server \/ Refuses \/ BreaksOff \/ TimesOut
  PROVE  ServerFrame
<1>1. UNCHANGED <<pc, step, program, buf, moved>>
  BY DEF Server, Greet, ReadsUser, ReadsPass, ReadsBadPass, ReadsEpsv, ReadsQuit, BeginTransfer,
         SendsAll, Stores, Refuses, BreaksOff, TimesOut, Answers, Reply, clientVars, dataVars
<1>2. excuses \subseteq excuses'
  BY DEF Server, Greet, ReadsUser, ReadsPass, ReadsBadPass, ReadsEpsv, ReadsQuit, BeginTransfer,
         SendsAll, Stores, Refuses, BreaksOff, TimesOut, Answers, Refusal
<1>3. QED
  BY <1>1, <1>2, SameTransfer DEF ServerFrame, Excused

\* A command is taken from the head of the queue.
LEMMA SettledReads ==
  ASSUME TypeOK, NEW n \in 1..Len(queue), Settled(n), NEW command, Reads(command)
  PROVE  \/ /\ data = "none" /\ blocks = 0 /\ command \in LoginCommands
            /\ \A k \in 1..(n - 1) : queue'[k] \in LoginCommands
         \/ data = "eof" /\ blocks = FileBlocks /\ command = "STOR" /\ n = 1
<1>1. /\ server = "idle" /\ Len(queue) \in Nat /\ queue[1] = command /\ Len(queue') = Len(queue) - 1
      /\ \A k \in 1..Len(queue') : queue'[k] = queue[k + 1]
  <2>1. queue \in Seq(Commands)
    BY DEF TypeOK
  <2>2. QED
    BY <2>1, ReadsIs
<1>2. \A k \in 1..(n - 1) : k + 1 \in 1..n /\ queue'[k] = queue[k + 1]
  BY <1>1
<1>3. QED
  BY <1>1, <1>2 DEF Settled

LEMMA OverReads ==
  ASSUME TypeOK, Over, NEW command, Reads(command), data' # "open",
         data' = "eof" => data = "eof" /\ blocks' = blocks,
         \/ server' \notin {"sending", "storing"}
         \/ command \in {"LIST", "RETR", "STOR"} /\ data' = data
            /\ server' = (IF command = "STOR" THEN "storing" ELSE "sending")
  PROVE  Over'
<1>1. /\ server = "idle" /\ Len(queue) > 0 /\ queue[1] = command
      /\ queue' \in Seq(Commands) /\ Len(queue') = Len(queue) - 1
      /\ \A k \in 1..Len(queue') : queue'[k] = queue[k + 1]
  BY ReadsIs
<1>2. Len(queue) \in Nat /\ DOMAIN queue = 1..Len(queue) /\ DOMAIN queue' = 1..Len(queue')
  BY <1>1 DEF TypeOK
<1>3. \A k \in DOMAIN queue' : k + 1 \in DOMAIN queue /\ k + 1 # 1 /\ queue'[k] = queue[k + 1]
  BY <1>1, <1>2
<1>4. ASSUME NEW k \in DOMAIN queue', server' # "closed", queue'[k] = "STOR"
      PROVE  /\ data' = "eof" => blocks' = FileBlocks
             /\ server' \notin {"sending", "storing"}
             /\ \A j \in DOMAIN queue' : queue'[j] \in {"LIST", "RETR", "STOR"} => j = k
  <2>1. /\ data = "eof" => blocks = FileBlocks
        /\ \A j \in DOMAIN queue : queue[j] \in {"LIST", "RETR", "STOR"} => j = k + 1
    BY <1>1, <1>3, <1>4 DEF Over
  <2>2. command \notin {"LIST", "RETR", "STOR"}
    BY <1>1, <1>2, <1>3, <2>1
  <2>3. ASSUME NEW j \in DOMAIN queue', queue'[j] \in {"LIST", "RETR", "STOR"} PROVE j = k
    <3>1. j + 1 = k + 1
      BY <1>3, <2>1, <2>3
    <3>2. QED
      BY <1>2, <3>1
  <2>4. QED
    BY <2>1, <2>2, <2>3
<1>5. server' = "storing" /\ data' = "eof" => blocks' = FileBlocks
  <2>1. ASSUME server' = "storing", data' = "eof" PROVE blocks' = FileBlocks
    <3>1. queue[1] = "STOR" /\ 1 \in DOMAIN queue /\ data = "eof"
      BY <1>1, <1>2, <2>1
    <3>2. QED
      BY <1>1, <2>1, <3>1 DEF Over
  <2>2. QED
    BY <2>1
<1>6. QED
  BY <1>4, <1>5 DEF Over

LEMMA LoginTransferState ==
  ASSUME TypeOK, TransferState, NEW command \in LoginCommands, NEW code \in Codes,
         Answers(command, code), code # 229, ServerFrame, UNCHANGED data
  PROVE  TransferState'
<1>1. /\ Reads(command) /\ server' = "idle" /\ UNCHANGED <<data, blocks, stored, excuses>>
      /\ NoneSays(inbox, 229) => NoneSays(inbox', 229)
  BY NoneAdded DEF Answers
<1>2. /\ server = "idle" /\ Len(queue) > 0 /\ queue[1] = command
      /\ queue' \in Seq(Commands) /\ Len(queue') = Len(queue) - 1
      /\ \A k \in 1..Len(queue') : queue'[k] = queue[k + 1]
      /\ command \notin {"LIST", "RETR", "STOR", "EPSV"}
  BY <1>1, ReadsIs DEF LoginCommands
<1>3. Len(queue) \in Nat
  BY DEF TypeOK
<1>4. ASSUME NEW n \in 1..Len(queue), Settled(n) PROVE Settled(n - 1)'
  <2>1. data = "none" /\ blocks = 0 /\ \A k \in 1..(n - 1) : queue'[k] \in LoginCommands
    BY <1>1, <1>2, <1>4, SettledReads
  <2>2. QED
    BY <1>1, <2>1 DEF Settled
<1>5. Settled(Len(queue)) => Settled(Len(queue))'
  <2>1. ASSUME Settled(Len(queue)) PROVE Settled(Len(queue))'
    <3>1. PICK n \in 1..Len(queue) : n = Len(queue)
      BY <1>2, <1>3
    <3>2. Settled(n - 1)' /\ Len(queue') = n - 1
      BY <1>2, <1>4, <2>1, <3>1
    <3>3. QED
      BY <3>2 DEF Settled
  <2>2. QED
    BY <2>1
<1>6. Asked => Asked'
  <2>1. ASSUME Len(queue) > 0 /\ queue[Len(queue)] = "EPSV" /\ Settled(Len(queue) - 1)
        PROVE  (Len(queue) > 0 /\ queue[Len(queue)] = "EPSV" /\ Settled(Len(queue) - 1))'
    <3>1. Len(queue) > 1
      <4>1. Len(queue) > 0 /\ queue[Len(queue)] = "EPSV" /\ queue[1] # "EPSV"
        BY <1>2, <2>1
      <4>2. Len(queue) # 1
        BY <4>1
      <4>3. QED
        BY <1>3, <4>1, <4>2
    <3>2. PICK n \in 1..Len(queue) : n = Len(queue) - 1
      <4>1. Len(queue) - 1 \in 1..Len(queue)
        BY <1>3, <3>1
      <4>2. QED
        BY <4>1
    <3>3. Settled(n - 1)' /\ Len(queue') = n
      BY <1>2, <1>4, <2>1, <3>2
    <3>4. Settled(Len(queue) - 1)'
      BY <3>3 DEF Settled
    <3>5. queue'[Len(queue')] = "EPSV" /\ Len(queue') > 0
      BY <1>2, <1>3, <2>1, <3>1
    <3>6. QED
      BY <3>4, <3>5
  <2>2. QED
    BY <1>1, <1>2, <2>1 DEF Asked, Left, ServerFrame
<1>7. pc # "command" /\ ~(pc \in {"first", "data"})
  <2>1. ~Connected
    BY <1>2 DEF Connected, Left
  <2>2. Transfer # "STOR" => ~Receiving
    BY <1>2, TransferIs DEF Receiving, Only
  <2>3. Transfer = "STOR" => ~Storing
    BY <1>2 DEF Storing, Only
  <2>4. QED
    BY <2>1, <2>2, <2>3 DEF TransferState
<1>8. pc # "second"
  BY <1>2, <1>3 DEF TransferState
<1>9. Over => Over'
  BY <1>1, OverReads DEF Over
<1>10. QED
  BY <1>1, <1>5, <1>6, <1>7, <1>8, <1>9 DEF TransferState, ServerFrame, LoggingIn, Ended

\* The commands that wait when a transfer, or EPSV, or QUIT is at their head.
LEMMA TransferIsRead ==
  ASSUME TypeOK, TransferState, NEW command \in {"LIST", "RETR", "STOR", "EPSV", "QUIT"},
         Reads(command)
  PROVE  /\ pc \notin {"command"}
         /\ Settled(Len(queue)) => command = "STOR" /\ data = "eof" /\ Len(queue) = 1
         /\ (pc \in {"epsvReply", "connect"} /\ command = "EPSV") =>
              /\ Len(queue) = 1 /\ data = "none" /\ blocks = 0
              /\ NoneSays(inbox, 229) /\ (pc = "connect" => NoneSays(buf, 229))
         /\ (pc \in {"epsvReply", "connect"} /\ command # "EPSV") =>
              /\ command = "STOR" /\ Len(queue) = 2 /\ queue[2] = "EPSV" /\ data = "eof"
              /\ NoneSays(inbox, 229) /\ (pc = "connect" => NoneSays(buf, 229))
         /\ (pc \in {"first", "data"} /\ Transfer # "STOR") =>
              /\ command = Transfer /\ Len(queue) = 1 /\ data = "open" /\ blocks = 0 /\ moved = 0
         /\ (pc \in {"first", "data"} /\ Transfer = "STOR") =>
              /\ command = "STOR" /\ Len(queue) = 1 /\ data = "open" /\ blocks = moved
         /\ pc = "second" => command = "STOR" /\ data = "eof" /\ Len(queue) = 1
<1>1. /\ server = "idle" /\ Len(queue) \in Nat /\ Len(queue) > 0 /\ queue[1] = command
      /\ queue # <<>>
  <2>1. queue \in Seq(Commands)
    BY DEF TypeOK
  <2>2. QED
    BY <2>1, ReadsIs
<1>2. ASSUME NEW n \in 1..Len(queue), Settled(n)
      PROVE  command = "STOR" /\ data = "eof" /\ n = 1
  BY <1>2, SettledReads DEF LoginCommands
<1>3. Settled(Len(queue)) => command = "STOR" /\ data = "eof" /\ Len(queue) = 1
  <2>1. PICK n \in 1..Len(queue) : n = Len(queue)
    BY <1>1
  <2>2. QED
    BY <1>2, <2>1
<1>4. ASSUME pc \in {"epsvReply", "connect"}
      PROVE  /\ command = "EPSV" =>
                  /\ Len(queue) = 1 /\ data = "none" /\ blocks = 0
                  /\ NoneSays(inbox, 229) /\ (pc = "connect" => NoneSays(buf, 229))
             /\ command # "EPSV" =>
                  /\ command = "STOR" /\ Len(queue) = 2 /\ queue[2] = "EPSV" /\ data = "eof"
                  /\ NoneSays(inbox, 229) /\ (pc = "connect" => NoneSays(buf, 229))
  <2>1. /\ queue[Len(queue)] = "EPSV" /\ Settled(Len(queue) - 1)
        /\ NoneSays(inbox, 229) /\ (pc = "connect" => NoneSays(buf, 229))
    BY <1>1, <1>4 DEF TransferState, Asked, Left
  <2>2. CASE Len(queue) = 1
    <3>1. command = "EPSV"
      BY <1>1, <2>1, <2>2
    <3>2. data = "none" /\ blocks = 0
      BY <1>1, <2>1, <2>2 DEF Settled
    <3>3. QED
      BY <1>4, <2>1, <2>2, <3>1, <3>2
  <2>3. CASE Len(queue) > 1
    <3>1. Len(queue) - 1 \in 1..Len(queue)
      BY <1>1, <2>3
    <3>2. command = "STOR" /\ data = "eof" /\ Len(queue) - 1 = 1
      BY <1>2, <2>1, <3>1
    <3>3. Len(queue) = 2
      BY <1>1, <3>2
    <3>4. QED
      BY <1>4, <2>1, <3>2, <3>3
  <2>4. Len(queue) = 1 \/ Len(queue) > 1
    BY <1>1
  <2>5. QED
    BY <2>2, <2>3, <2>4
<1>5. pc = "command" => FALSE
  BY <1>1 DEF TransferState, Connected, Left
<1>6. (pc \in {"first", "data"} /\ Transfer # "STOR") =>
         /\ command = Transfer /\ Len(queue) = 1 /\ data = "open" /\ blocks = 0 /\ moved = 0
  BY <1>1 DEF TransferState, Receiving, Only
<1>7. (pc \in {"first", "data"} /\ Transfer = "STOR") =>
         /\ command = "STOR" /\ Len(queue) = 1 /\ data = "open" /\ blocks = moved
  BY <1>1 DEF TransferState, Storing, Only
<1>8. pc = "second" => command = "STOR" /\ data = "eof" /\ Len(queue) = 1
  BY <1>1, <1>3 DEF TransferState
<1>9. QED
  BY <1>3, <1>4, <1>5, <1>6, <1>7, <1>8

LEMMA EpsvTransferState ==
  ASSUME TypeOK, LetIn, TransferState, ReadsEpsv, ServerFrame
  PROVE  TransferState'
<1>1. /\ Reads("EPSV") /\ server' = "idle" /\ UNCHANGED <<blocks, stored, excuses>>
      /\ Reply(IF user THEN 229 ELSE 530)
      /\ data' = (IF user THEN "listening" ELSE data)
  BY DEF ReadsEpsv, Answers
<1>2. /\ server = "idle" /\ Len(queue) > 0 /\ queue[1] = "EPSV"
      /\ queue' \in Seq(Commands) /\ Len(queue') = Len(queue) - 1
      /\ \A k \in 1..Len(queue') : queue'[k] = queue[k + 1]
  BY <1>1, ReadsIs
<1>3. /\ pc \in {"epsvReply", "connect"} \cup Ended
      /\ pc \in {"epsvReply", "connect"} =>
           /\ Len(queue) = 1 /\ data = "none" /\ blocks = 0
           /\ NoneSays(inbox, 229) /\ (pc = "connect" => NoneSays(buf, 229))
  BY <1>1, TransferIsRead, TransferIs DEF TypeOK, TransferState, LoggingIn
<1>4. CASE pc \in {"epsvReply", "connect"}
  <2>1. user /\ Reply(229) /\ data' = "listening" /\ 229 \in Codes
    BY <1>1, <1>4 DEF LetIn, LoggingIn, Codes
  <2>2. queue' = <<>>
    BY <1>2, <1>3, <1>4
  <2>3. inbox \in Seq(Lines) /\ inbox' \in Seq(Lines) /\ Adds(229)
    BY <2>1, ReplyAdds DEF TypeOK
  <2>4. \A k \in 1..Len(inbox') : Port(inbox', k) => k = Len(inbox')
    <3>1. ASSUME NEW k \in 1..Len(inbox'), k <= Len(inbox)
          PROVE  ~Port(inbox', k)
      <4>1. inbox'[k] = inbox[k] /\ k \in 1..Len(inbox)
        BY <2>3, <3>1 DEF Adds
      <4>2. inbox[k].code # 229
        BY <1>3, <1>4, <2>3, <4>1 DEF NoneSays
      <4>3. QED
        BY <4>1, <4>2 DEF Port
    <3>2. ASSUME NEW k \in 1..Len(inbox'), k > Len(inbox), Port(inbox', k)
          PROVE  k = Len(inbox')
      BY <2>3, <3>2 DEF Adds, Port
    <3>3. QED
      BY <2>3, <3>1, <3>2
  <2>5. PortLast(inbox')
    BY <2>3, <2>4 DEF PortLast
  <2>6. pc' = "connect" => ~HasPort'
    <3>1. pc' = pc /\ buf' = buf
      BY DEF ServerFrame
    <3>2. QED
      BY <1>3, <3>1 DEF HasPort, NoneSays
  <2>7. Asked'
    BY <1>1, <1>3, <1>4, <2>1, <2>2, <2>5, <2>6 DEF Asked
  <2>8. QED
    BY <1>1, <1>4, <2>7 DEF TransferState, ServerFrame, LoggingIn, Ended
<1>5. CASE pc \in Ended
  <2>1. Over /\ Len(queue) \in Nat
    BY <1>5 DEF TransferState, TypeOK
  <2>2. Over'
    BY <1>1, <2>1, OverReads DEF Over
  <2>3. QED
    BY <1>1, <1>5, <2>2 DEF TransferState, ServerFrame, LoggingIn, Ended
<1>6. QED
  BY <1>3, <1>4, <1>5

\* The server begins a transfer or refuses it.
LEMMA BeginTransferState ==
  ASSUME TypeOK, TransferState, ServerFrame, BeginTransfer \/ Refuses
  PROVE  TransferState'
<1>1. PICK command \in {"LIST", "RETR", "STOR"} :
        /\ Reads(command)
        /\ BeginTransfer =>
             /\ data \in {"open", "eof"}
             /\ server' = (IF command = "STOR" THEN "storing" ELSE "sending")
  BY DEF BeginTransfer, Refuses, ServerGoto
<1>2. /\ server = "idle" /\ Len(queue) > 0 /\ queue[1] = command
      /\ queue' \in Seq(Commands) /\ Len(queue') = Len(queue) - 1
      /\ \A k \in 1..Len(queue') : queue'[k] = queue[k + 1]
  BY <1>1, ReadsIs
<1>3. NoneSays(inbox, 229) => NoneSays(inbox', 229)
  BY NoneAdded DEF BeginTransfer, Refuses, Codes
<1>4. BeginTransfer => UNCHANGED <<data, blocks, stored>>
  BY DEF BeginTransfer, ServerGoto
<1>5. Refuses => /\ data' = "none" /\ blocks' = 0 /\ stored' = stored
                 /\ server' = "idle" /\ Excused'
  BY DEF Refuses, ServerGoto, Refusal, Excused
<1>6. /\ pc \in {"epsvReply", "connect"} =>
           /\ command = "STOR" /\ Len(queue) = 2 /\ queue[2] = "EPSV" /\ data = "eof"
           /\ NoneSays(inbox, 229) /\ (pc = "connect" => NoneSays(buf, 229))
      /\ pc # "command"
      /\ Settled(Len(queue)) => command = "STOR" /\ data = "eof" /\ Len(queue) = 1
      /\ (pc \in {"first", "data"} /\ Transfer # "STOR") =>
           /\ command = Transfer /\ Len(queue) = 1 /\ data = "open" /\ blocks = 0 /\ moved = 0
      /\ (pc \in {"first", "data"} /\ Transfer = "STOR") =>
           /\ command = "STOR" /\ Len(queue) = 1 /\ data = "open" /\ blocks = moved
      /\ pc = "second" => command = "STOR" /\ data = "eof" /\ Len(queue) = 1
  BY <1>1, TransferIsRead
<1>7. queue' \in Seq(Commands) /\ (Len(queue) = 1 => queue' = <<>> /\ Len(queue') = 0)
  BY <1>2
<1>8. ASSUME NEW n \in {Len(queue), Len(queue) - 1}, Settled(n), command = "STOR", data = "eof"
      PROVE  Settled(0)'
  BY <1>1, <1>4, <1>5, <1>8 DEF Settled
<1>9. CASE pc \in LoggingIn \cup {"epsv", "quit", "second"}
  <2>1. Settled(Len(queue)) /\ NoneSays(inbox, 229)
    BY <1>9 DEF TransferState
  <2>2. Settled(0)' /\ queue' = <<>> /\ Len(queue') = 0
    BY <1>6, <1>7, <1>8, <2>1
  <2>3. Settled(Len(queue))'
    BY <2>2 DEF Settled
  <2>4. pc \notin LoggingIn
    BY <1>6, <2>1 DEF TransferState
  <2>5. pc = "second" => Transfer = "STOR"
    BY <1>2 DEF TransferState
  <2>6. QED
    BY <1>1, <1>3, <1>4, <1>5, <1>9, <2>1, <2>2, <2>3, <2>4, <2>5
       DEF TransferState, ServerFrame, LoggingIn, Ended
<1>10. CASE pc \in {"epsvReply", "connect"}
  <2>1. Settled(Len(queue) - 1)
    BY <1>6, <1>10 DEF TransferState, Asked, Left
  <2>2. queue'[1] = "EPSV" /\ Len(queue') = 1
    BY <1>2, <1>6, <1>10
  <2>3. Settled(0)'
    BY <1>6, <1>8, <1>10, <2>1
  <2>4. Settled(Len(queue) - 1)'
    BY <2>2, <2>3 DEF Settled
  <2>5. pc' = pc /\ buf' = buf
    BY DEF ServerFrame
  <2>6. Asked'
    BY <1>3, <1>6, <1>10, <2>2, <2>4, <2>5 DEF Asked, NoneSays
  <2>7. QED
    BY <1>1, <1>4, <1>5, <1>10, <2>5, <2>6 DEF TransferState, LoggingIn, Ended
<1>11. CASE pc \in {"first", "data"}
  <2>1. Transfer # "STOR" => Receiving'
    BY <1>1, <1>3, <1>4, <1>5, <1>6, <1>7, <1>11 DEF TransferState, Receiving, ServerFrame
  <2>2. Transfer = "STOR" => Storing'
    BY <1>1, <1>3, <1>4, <1>5, <1>6, <1>7, <1>11 DEF TransferState, Storing, ServerFrame
  <2>3. QED
    BY <1>1, <1>4, <1>5, <1>11, <2>1, <2>2 DEF TransferState, ServerFrame, LoggingIn, Ended
<1>12. CASE pc \in Ended
  <2>1. Over'
    BY <1>1, <1>4, <1>5, <1>12, OverReads DEF TransferState, Over
  <2>2. QED
    BY <1>4, <1>5, <1>12, <2>1 DEF TransferState, ServerFrame, LoggingIn, Ended
<1>13. QED
  BY <1>6, <1>9, <1>10, <1>11, <1>12 DEF TypeOK, LoggingIn

\* Steps of the server that take no command.
LEMMA ServesTransferState ==
  ASSUME TypeOK, TransferState, ServerFrame, Greet \/ SendsAll \/ Stores \/ BreaksOff
  PROVE  TransferState'
<1>1. queue' = queue /\ server' = "idle" /\ FileBlocks \in Nat /\ blocks \in 0..FileBlocks
  BY Bounds DEF Greet, SendsAll, Stores, BreaksOff, ServerGoto, TypeOK
<1>2. NoneSays(inbox, 229) => NoneSays(inbox', 229)
  BY NoneAdded DEF Greet, SendsAll, Stores, BreaksOff, Codes
<1>3. CASE Greet
  <2>1. server = "new" /\ UNCHANGED <<data, blocks, stored>>
    BY <1>3 DEF Greet, ServerGoto
  <2>2. pc # "command" /\ ~(pc \in {"first", "data"})
    BY <2>1 DEF TransferState, Connected, Left, Receiving, Storing
  <2>3. Asked => Asked'
    BY <1>1, <1>2, <2>1 DEF Asked, Settled, Left, ServerFrame
  <2>4. Over => Over'
    BY <1>1, <2>1 DEF Over
  <2>5. Settled(Len(queue)) => Settled(Len(queue))'
    BY <1>1, <2>1 DEF Settled
  <2>6. QED
    BY <1>1, <1>2, <2>1, <2>2, <2>3, <2>4, <2>5
       DEF TransferState, ServerFrame, LoggingIn, Ended
<1>4. CASE server = "sending" /\ (SendsAll \/ BreaksOff)
  <2>1. /\ data' = "eof" /\ blocks' \in 0..FileBlocks /\ stored' = stored
        /\ SendsAll => blocks' = FileBlocks
        /\ BreaksOff => Excused'
    BY <1>1, <1>4 DEF SendsAll, BreaksOff, ServerGoto, Refusal, Excused
  <2>2. /\ ~Settled(Len(queue)) /\ ~Asked /\ ~Connected
        /\ Transfer = "STOR" => ~Storing
    BY <1>4 DEF Settled, Asked, Connected, Left, Storing
  <2>3. Receiving => Receiving'
    <3>1. ASSUME Receiving PROVE Receiving'
      <4>1. moved' = 0 /\ queue' = <<>> /\ NoneSays(inbox', 229)
        BY <1>1, <1>2, <1>4, <3>1 DEF Receiving, ServerFrame
      <4>2. blocks' <= FileBlocks /\ (~Excused' => blocks' = FileBlocks)
        BY <1>1, <1>4, <2>1
      <4>3. blocks' \in Int
        BY <1>1, <2>1
      <4>4. moved' + blocks' = blocks'
        <5>1. \A m, b \in Int : m = 0 => m + b = b
          OBVIOUS
        <5>2. moved' \in Int
          BY <4>1
        <5>3. QED
          BY <4>1, <4>3, <5>1, <5>2
      <4>5. QED
        BY <1>1, <2>1, <4>1, <4>2, <4>4 DEF Receiving
    <3>2. QED
      BY <3>1
  <2>4. Over => Over'
    BY <1>1, <1>4, <2>1 DEF Over
  <2>5. QED
    BY <1>1, <2>1, <2>2, <2>3, <2>4 DEF TransferState, ServerFrame, LoggingIn, Ended
<1>5. CASE server = "storing" /\ (Stores \/ BreaksOff)
  <2>1. /\ data' = "none" /\ blocks' = 0
        /\ Stores => data = "eof" /\ stored' = Append(stored, blocks)
        /\ BreaksOff => stored' = stored /\ Excused'
    BY <1>5 DEF Stores, BreaksOff, ServerGoto, Refusal, Excused
  <2>2. data = "eof" => blocks = FileBlocks
    <3>1. \A n : Settled(n) => blocks = FileBlocks
      BY <1>5 DEF Settled
    <3>2. Asked => blocks = FileBlocks
      BY <1>5, <3>1 DEF Asked, Left
    <3>3. ~Connected /\ ~Receiving /\ (Storing => data # "eof")
      BY <1>5 DEF Connected, Left, Receiving, Storing
    <3>4. Over /\ data = "eof" => blocks = FileBlocks
      BY <1>5 DEF Over
    <3>5. QED
      BY <3>1, <3>2, <3>3, <3>4 DEF TransferState, TypeOK, LoggingIn
  <2>3. \A k \in DOMAIN stored' : stored'[k] = FileBlocks
    <3>1. stored \in Seq(0..FileBlocks) /\ \A k \in DOMAIN stored : stored[k] = FileBlocks
      BY DEF TypeOK, TransferState
    <3>2. CASE stored' = stored
      BY <3>1, <3>2
    <3>3. CASE stored' = Append(stored, blocks) /\ blocks = FileBlocks
      BY <1>1, <3>1, <3>3
    <3>4. QED
      BY <1>5, <2>1, <2>2, <3>2, <3>3
  <2>4. ~Connected /\ ~Receiving
    BY <1>5 DEF Connected, Left, Receiving
  <2>5. \A n \in Nat : Settled(n) => n = 0 /\ Settled(0)'
    BY <1>1, <1>5, <2>1 DEF Settled
  <2>6. Len(queue) \in Nat /\ Len(queue) - 1 \in Int
    BY DEF TypeOK
  <2>7. Settled(Len(queue)) => Settled(Len(queue))'
    BY <1>1, <2>5, <2>6 DEF Settled
  <2>8. Asked => Asked'
    <3>1. Asked => /\ Len(queue) > 0 /\ queue[Len(queue)] = "EPSV" /\ Settled(Len(queue) - 1)
                   /\ NoneSays(inbox, 229) /\ (pc = "connect" => NoneSays(buf, 229))
      BY <1>5 DEF Asked, Left
    <3>2. Asked => Len(queue) - 1 = 0 /\ Settled(0)'
      BY <2>5, <2>6, <3>1
    <3>3. Asked => Settled(Len(queue) - 1)'
      BY <1>1, <3>2 DEF Settled
    <3>4. QED
      BY <1>1, <1>2, <3>1, <3>3 DEF Asked, ServerFrame, NoneSays
  <2>9. Storing => Storing'
    BY <1>1, <1>2, <1>5, <2>1 DEF Storing, ServerFrame, Only
  <2>10. Over => Over'
    BY <1>1, <1>5, <2>1 DEF Over
  <2>11. QED
    BY <1>1, <1>2, <2>1, <2>3, <2>4, <2>7, <2>8, <2>9, <2>10
       DEF TransferState, ServerFrame, LoggingIn, Ended
<1>6. QED
  BY <1>3, <1>4, <1>5 DEF SendsAll, Stores, BreaksOff

LEMMA ClosesTransferState ==
  ASSUME TypeOK, TransferState, ServerFrame, ReadsQuit \/ TimesOut
  PROVE  TransferState'
<1>1. CASE ReadsQuit
  <2>1. Reads("QUIT") /\ server' = "closed" /\ UNCHANGED <<data, blocks, stored>>
    BY <1>1 DEF ReadsQuit, ServerGoto, dataVars
  <2>2. pc \in Ended
    BY <2>1, TransferIsRead, TransferIs DEF TypeOK, TransferState, LoggingIn
  <2>3. Over'
    BY <2>1, <2>2, OverReads DEF TransferState, Over
  <2>4. QED
    BY <2>1, <2>2, <2>3 DEF TransferState, ServerFrame, LoggingIn, Ended
<1>2. CASE TimesOut
  <2>1. /\ server = "idle" /\ server' = "closed" /\ stored' = stored
        /\ queue = <<>> /\ queue' = <<>>
        /\ pc \notin Ended /\ "closed" \in excuses' /\ Excused'
        /\ data = "eof" => UNCHANGED <<data, blocks>>
        /\ data # "eof" => data' = "none" /\ blocks' = 0
    BY <1>2 DEF TimesOut, ServerGoto, Refusal, Excused
  <2>2. NoneSays(inbox, 229) => NoneSays(inbox', 229)
    BY <1>2, NoneAdded DEF TimesOut, Codes
  <2>3. Len(queue) = 0 /\ Len(queue') = 0
    BY <2>1
  <2>4. Settled(Len(queue)) => Settled(Len(queue))'
    BY <2>1, <2>3 DEF Settled
  <2>5. Asked => Asked'
    BY <2>1, <2>3 DEF Asked, Left
  <2>6. Connected => Connected'
    <3>1. Connected => Left' /\ NoneSays(inbox, 229)
      BY <2>1 DEF Connected, Left, NoneSays
    <3>2. QED
      BY <2>2, <3>1 DEF Connected
  <2>7. Receiving => Receiving'
    BY <2>1, <2>2, <2>3 DEF Receiving, ServerFrame, Only
  <2>8. Storing => Storing'
    BY <2>1, <2>2, <2>3 DEF Storing, ServerFrame, Only
  <2>9. QED
    BY <2>1, <2>2, <2>4, <2>5, <2>6, <2>7, <2>8 DEF TransferState, ServerFrame, LoggingIn
<1>3. QED
  BY <1>1, <1>2

LEMMA TransferStateStep ==
  ASSUME TypeOK, LetIn, TransferState, Next
  PROVE  TransferState'
<1>1. ASSUME Greeting \/ UserReply \/ PassReply \/ FirstReply \/ SecondReply
      PROVE  TransferState'
  <2>1. CASE Greeting \/ UserReply \/ FirstReply
    BY <2>1, RecvTransferState DEF Greeting, UserReply, FirstReply, Goto
  <2>2. CASE PassReply
    BY <2>2, RecvTransferState DEF PassReply, Goto
  <2>3. CASE SecondReply
    BY <2>3, RecvTransferState DEF SecondReply
  <2>4. QED
    BY <1>1, <2>1, <2>2, <2>3
<1>2. ASSUME Server \/ Refuses \/ BreaksOff \/ TimesOut PROVE ServerFrame
  BY <1>2, ServerKeeps
<1>3. ASSUME ReadsUser \/ ReadsPass \/ ReadsBadPass PROVE TransferState'
  <2>1. ServerFrame
    BY <1>2, <1>3 DEF Server
  <2>2. ASSUME NEW command \in LoginCommands, NEW code \in {331, 230, 530}, UNCHANGED data,
               Answers(command, code)
        PROVE  TransferState'
    BY <2>1, <2>2, LoginTransferState DEF Codes
  <2>3. QED
    BY <1>3, <2>2 DEF ReadsUser, ReadsPass, ReadsBadPass, LoginCommands
<1>4. QED
  BY <1>1, <1>2, <1>3, EpsvReplyTransferState, SendTransferState, DataTransferState,
     ExitTransferState, EpsvTransferState, BeginTransferState, ServesTransferState,
     ClosesTransferState
     DEF Next, Client, Server

-----------------------------------------------------------------------------
(* One reply at a time *)

LEMMA RecvOne ==
  ASSUME TypeOK, NEW l, Recv(l), server # "closed", "split" \notin excuses', One(inbox)
  PROVE  inbox # <<>> /\ inbox' = <<>> /\ ("glued" \in excuses' => "glued" \in excuses)
<1>1. inbox \in Seq(Lines) /\ inbox' \in Seq(Lines)
  BY RecvTakes DEF TypeOK
<1>2. PICK n \in 0..Len(inbox) : Takes(n)
  BY RecvTakes
<1>3. /\ n \in 1..Len(inbox) /\ inbox[n].last /\ Len(inbox') = Len(inbox) - n
      /\ "glued" \in excuses' <=> "glued" \in excuses \/ \E k \in 2..n : inbox[k - 1].last
  BY <1>1, <1>2 DEF Takes
<1>4. \A k \in 1..(Len(inbox) - 1) : ~inbox[k].last
  BY DEF One, Inner
<1>5. n = Len(inbox) /\ Len(inbox) \in Nat
  <2>1. n \notin 1..(Len(inbox) - 1)
    BY <1>3, <1>4
  <2>2. Len(inbox) \in Nat
    BY <1>1
  <2>3. QED
    BY <1>3, <2>1, <2>2
<1>6. ~\E k \in 2..n : inbox[k - 1].last
  BY <1>4, <1>5
<1>7. Len(inbox') = 0 /\ Len(inbox) # 0
  BY <1>3, <1>5
<1>8. inbox' = <<>> /\ inbox # <<>>
  BY <1>1, <1>7
<1>9. QED
  BY <1>3, <1>6, <1>8

LEMMA RecvTwo ==
  ASSUME TypeOK, NEW l, Recv(l), server # "closed", "split" \notin excuses', Two(inbox)
  PROVE  /\ inbox # <<>> /\ One(inbox')
         /\ ("glued" \in excuses' /\ "glued" \notin excuses) => inbox' = <<>>
<1>1. inbox \in Seq(Lines) /\ inbox' \in Seq(Lines)
  BY RecvTakes DEF TypeOK
<1>2. PICK n \in 0..Len(inbox) : Takes(n)
  BY RecvTakes
<1>3. /\ n \in 1..Len(inbox) /\ inbox[n].last /\ Len(inbox') = Len(inbox) - n
      /\ \A k \in 1..Len(inbox') : inbox'[k] = inbox[k + n]
      /\ "glued" \in excuses' <=> "glued" \in excuses \/ \E k \in 2..n : inbox[k - 1].last
  BY <1>1, <1>2 DEF Takes
<1>4. Len(inbox) \in Nat /\ Len(inbox) > 0
  BY <1>1, <1>3
<1>5. /\ inbox[Len(inbox)].last
      /\ \A i, j \in 1..(Len(inbox) - 1) : inbox[i].last /\ inbox[j].last => i = j
  BY <1>4 DEF Two, Inner, Whole
<1>6. CASE n = Len(inbox)
  <2>1. Len(inbox') = 0
    BY <1>3, <1>4, <1>6
  <2>2. inbox' = <<>>
    BY <1>1, <2>1
  <2>3. QED
    BY <1>4, <2>1, <2>2 DEF One, Inner, Whole
<1>7. CASE n < Len(inbox)
  <2>1. n \in 1..(Len(inbox) - 1)
    BY <1>3, <1>4, <1>7
  <2>2. ASSUME NEW k \in 1..(Len(inbox') - 1) PROVE ~inbox'[k].last
    <3>1. Len(inbox') = Len(inbox) - n
      BY <1>3
    <3>2. k \in 1..Len(inbox') /\ k + n \in 1..(Len(inbox) - 1) /\ k + n # n
      BY <1>4, <2>1, <3>1
    <3>3. inbox'[k] = inbox[k + n]
      BY <1>3, <3>2
    <3>4. QED
      BY <1>3, <1>5, <2>1, <3>2, <3>3
  <2>3. inbox'[Len(inbox')].last
    <3>1. Len(inbox') \in 1..Len(inbox') /\ Len(inbox') + n = Len(inbox)
      BY <1>3, <1>4, <1>7, <2>1
    <3>2. QED
      BY <1>3, <1>5, <3>1
  <2>4. ~\E k \in 2..n : inbox[k - 1].last
    <3>1. \A k \in 2..n : k - 1 \in 1..(Len(inbox) - 1) /\ k - 1 # n
      BY <1>4, <2>1
    <3>2. QED
      BY <1>3, <1>5, <2>1, <3>1
  <2>5. QED
    BY <1>3, <1>4, <2>2, <2>3, <2>4 DEF One, Inner, Whole
<1>8. QED
  BY <1>3, <1>4, <1>6, <1>7

LEMMA OneAdded ==
  ASSUME TypeOK, NEW code \in Codes, Reply(code)
  PROVE  /\ inbox' # <<>>
         /\ inbox = <<>> => One(inbox')
         /\ One(inbox) => Two(inbox')
<1>1. inbox \in Seq(Lines) /\ inbox' \in Seq(Lines)
  BY ReplyAdds DEF TypeOK
<1>2. /\ Len(inbox') \in {Len(inbox) + 1, Len(inbox) + 2}
      /\ \A k \in 1..Len(inbox) : inbox'[k] = inbox[k]
      /\ \A k \in 1..Len(inbox') : k > Len(inbox) => (inbox'[k].last <=> k = Len(inbox'))
  BY ReplyAdds DEF Adds
<1>3. Len(inbox) \in Nat /\ Len(inbox') \in Nat /\ Len(inbox') > 0 /\ inbox' # <<>>
  BY <1>1, <1>2
<1>4. inbox'[Len(inbox')].last
  BY <1>2, <1>3
<1>5. \A k \in 1..(Len(inbox') - 1) : inbox'[k].last => k \in 1..Len(inbox)
  BY <1>2, <1>3
<1>6. ASSUME inbox = <<>> PROVE One(inbox')
  <2>1. Len(inbox) = 0
    BY <1>6
  <2>2. QED
    BY <1>4, <1>5, <2>1 DEF One, Inner, Whole
<1>7. ASSUME One(inbox) PROVE Two(inbox')
  <2>1. \A k \in 1..(Len(inbox) - 1) : ~inbox[k].last
    BY <1>7 DEF One, Inner
  <2>2. \A k \in 1..(Len(inbox') - 1) : inbox'[k].last => k = Len(inbox)
    BY <1>2, <1>3, <1>5, <2>1
  <2>3. QED
    BY <1>4, <2>2 DEF Two, Inner, Whole
<1>8. QED
  BY <1>3, <1>6, <1>7

LEMMA OneIsTwo == ASSUME NEW lines, One(lines) PROVE Two(lines)
BY DEF One, Two

LEMMA InitReplies == Init => Replies
<1>1. Init => excuses # {"glued"}
  BY DEF Init
<1>2. QED
  BY <1>1 DEF Init, Replies

Unsplit == excuses \cap {"split", "closed"} = {}
\* The parts of Replies that no step on the server's side or the client's brings about.
LEMMA UnsplitBefore ==
  ASSUME TransferState, Replies, excuses \subseteq excuses', Unsplit'
  PROVE  /\ Unsplit /\ (pc \notin Ended => server # "closed")
         /\ (excuses' = {"glued"} /\ "glued" \in excuses) => excuses = {"glued"}
BY DEF Unsplit, TransferState

LEMMA RecvReplies ==
  ASSUME TypeOK, TransferState, Replies, NEW l, Recv(l), UNCHANGED dataVars,
         \/ l = "greet" /\ pc' = "user"
         \/ l = "userReply" /\ pc' = "pass"
         \/ l = "passReply" /\ pc' \in {"user", "epsv"}
         \/ l = "epsvReply" /\ pc' = "connect"
         \/ l = "first" /\ pc' = "data" /\ UNCHANGED step
         \/ l = "second" /\ pc' \in {"epsv", "quit"}
  PROVE  Replies'
<1> SUFFICES ASSUME Unsplit' PROVE Replies'
  BY DEF Replies, Unsplit
<1>1. /\ pc = l /\ UNCHANGED <<queue, server, stored, data, blocks, moved>>
      /\ Excused' <=> Excused
  BY RecvKeeps
<1>2. PICK n \in 0..Len(inbox) : Takes(n)
  BY RecvTakes
<1>3. excuses \subseteq excuses' /\ n \in Nat
  BY <1>2 DEF Takes, TypeOK
<1>4. /\ Unsplit /\ server # "closed" /\ "split" \notin excuses'
      /\ (excuses' = {"glued"} /\ "glued" \in excuses) => excuses = {"glued"}
  BY <1>1, <1>3, UnsplitBefore DEF Unsplit, Ended
<1>5. UNCHANGED step => Transfer' = Transfer
  BY SameTransfer DEF Recv
<1>6. One(inbox) => inbox # <<>> /\ inbox' = <<>> /\ ("glued" \in excuses' => "glued" \in excuses)
  BY <1>4, RecvOne
<1> inbox # <<>>
  BY <1>4, <1>6 DEF One, Inner, Whole
<1>7. CASE l \notin {"first", "second"}
  <2>1. /\ Quiet' /\ excuses' # {"glued"}
    BY <1>1, <1>4, <1>6, <1>7 DEF Replies, Unsplit, Due, Quiet
  <2>2. QED
    BY <1>7, <2>1 DEF Replies
<1>8. CASE l = "second"
  <2>1. Quiet' /\ excuses' # {"glued"}
    BY <1>1, <1>4, <1>6, <1>8 DEF Replies, Unsplit, Quiet
  <2>2. QED
    BY <1>8, <2>1 DEF Replies
<1>9. CASE l = "first"
  <2>1. /\ inbox # <<>> /\ queue = <<>> /\ excuses # {"glued"}
        /\ \/ server = (IF Transfer = "STOR" THEN "storing" ELSE "sending") /\ One(inbox)
           \/ server = "idle" /\ Two(inbox) /\ (~Excused => Transfer # "STOR")
    BY <1>1, <1>4, <1>9 DEF Replies, Unsplit
  <2>2. excuses' = {"glued"} => "glued" \notin excuses /\ ~Excused
    BY <1>1, <1>4, <2>1 DEF Excused
  <2>3. CASE One(inbox) /\ server = (IF Transfer = "STOR" THEN "storing" ELSE "sending")
    <3>1. inbox' = <<>> /\ excuses' # {"glued"}
      BY <1>6, <2>2, <2>3
    <3>2. One(inbox')
      BY <3>1 DEF One, Inner, Whole
    <3>3. QED
      BY <1>1, <1>5, <1>9, <2>1, <2>3, <3>1, <3>2 DEF Replies
  <2>4. CASE server = "idle" /\ Two(inbox) /\ (~Excused => Transfer # "STOR")
    <3>1. One(inbox') /\ (("glued" \in excuses' /\ "glued" \notin excuses) => inbox' = <<>>)
      BY <1>4, <2>4, RecvTwo
    <3>2. excuses' = {"glued"} => Quiet' /\ Transfer # "STOR"
      BY <1>1, <2>1, <2>2, <2>4, <3>1 DEF Quiet
    <3>3. QED
      BY <1>1, <1>5, <1>9, <2>1, <2>4, <3>1, <3>2 DEF Replies
  <2>5. QED
    BY <2>1, <2>3, <2>4
<1>10. QED
  BY <1>7, <1>8, <1>9

LEMMA SendReplies ==
  ASSUME TypeOK, TransferState, Replies,
         SendUser \/ SendPass \/ SendEpsv \/ SendCommand \/ SendQuit
  PROVE  Replies'
<1>1. PICK command \in Commands, to \in {"userReply", "passReply", "epsvReply", "first", "done"} :
        /\ Send(pc, command, to) /\ pc \in {"user", "pass", "epsv", "command", "quit"}
        /\ to = "first" => command = Transfer
  BY TransferIs
     DEF SendUser, SendPass, SendEpsv, SendCommand, SendQuit, Send, Commands, AfterCommand
<1>2. pc' = to /\ UNCHANGED <<inbox, server, excuses>> /\ Transfer' = Transfer
  BY <1>1, SameTransfer DEF Send, serverVars
<1> SUFFICES ASSUME Unsplit PROVE Replies'
  BY <1>2 DEF Replies, Unsplit
<1>3. Quiet /\ excuses # {"glued"}
  BY <1>1 DEF Replies, Unsplit
<1>4. Len(queue') = 1 /\ queue'[1] = command
  BY <1>1, <1>3, SendIs DEF Quiet
<1>5. QED
  BY <1>1, <1>2, <1>3, <1>4 DEF Replies, Quiet, Due, Only

LEMMA DataReplies ==
  ASSUME TypeOK, Replies, Connect \/ ReadBlock \/ ReadEnd \/ StoreBlock \/ StoreEnd
  PROVE  Replies'
<1>1. UNCHANGED <<inbox, queue, server, excuses>> /\ Transfer' = Transfer
  BY SameTransfer
     DEF Connect, ReadBlock, ReadEnd, StoreBlock, StoreEnd, Stay, clientVars, serverVars
<1>2. \/ pc = "connect" /\ pc' = "command"
      \/ pc = "data" /\ pc' \in {"data", "second"}
  BY DEF Connect, ReadBlock, ReadEnd, StoreBlock, StoreEnd, clientVars
<1>3. QED
  BY <1>1, <1>2 DEF Replies, Quiet

LEMMA ExitReplies ==
  ASSUME TypeOK, Replies, ConnectFails \/ NoFile \/ SegFault \/ SigPipe
  PROVE  Replies'
<1>1. /\ UNCHANGED <<excuses>> /\ pc' \in {"failed", "crashed"} /\ Transfer' = Transfer
      /\ (pc \in {"data", "second"} /\ Transfer # "STOR") => pc' = "crashed"
      /\ pc # "crashed"
  BY SameTransfer DEF ConnectFails, NoFile, SegFault, SigPipe, Exit, Stay
<1>2. QED
  BY <1>1 DEF Replies

LEMMA ServerReplies ==
  ASSUME TypeOK, TransferState, Replies, ServerFrame, Server \/ Refuses \/ BreaksOff
  PROVE  Replies'
<1> SUFFICES ASSUME Unsplit' PROVE Replies'
  BY DEF Replies, Unsplit
<1>1. excuses \subseteq excuses'
  BY DEF Server, Greet, ReadsUser, ReadsPass, ReadsBadPass, ReadsEpsv, ReadsQuit, BeginTransfer,
         SendsAll, Stores, Refuses, BreaksOff, Answers, Refusal
<1>2. /\ Unsplit /\ (pc \notin Ended => server # "closed")
      /\ (excuses' = {"glued"} /\ "glued" \in excuses) => excuses = {"glued"}
  BY <1>1, UnsplitBefore
<1>3. pc' = pc /\ Transfer' = Transfer
  BY DEF ServerFrame
<1>4. excuses' = {"glued"} => excuses = {"glued"} /\ ~(Refuses \/ BreaksOff)
  BY <1>1, <1>2
     DEF Server, Greet, ReadsUser, ReadsPass, ReadsBadPass, ReadsEpsv, ReadsQuit, BeginTransfer,
         SendsAll, Stores, Refuses, BreaksOff, Answers, Refusal
<1>5. CASE pc \in Ended
  BY <1>2, <1>3, <1>4, <1>5 DEF Replies, Unsplit, Ended
<1>6. ASSUME NEW code \in Codes, Reply(code)
      PROVE  inbox' # <<>> /\ (inbox = <<>> => One(inbox')) /\ (One(inbox) => Two(inbox'))
  BY <1>6, OneAdded
<1>7. CASE pc \notin Ended /\ Greet
  <2>1. inbox' # <<>> /\ (inbox = <<>> => One(inbox')) /\ server = "new" /\ server' = "idle"
        /\ queue' = queue
    BY <1>6, <1>7 DEF Greet, ServerGoto, Codes
  <2>2. pc = "greet" /\ excuses # {"glued"}
    BY <1>2, <1>7, <2>1 DEF Replies, Unsplit, Quiet, Due, TypeOK, Ended
  <2>3. QED
    BY <1>2, <1>3, <1>4, <2>1, <2>2 DEF Replies, Unsplit
<1>8. ASSUME pc \notin Ended,
             NEW command \in {"USER", "PASS", "BADPASS", "EPSV", "QUIT", "LIST", "RETR", "STOR"},
             Reads(command)
      PROVE  Replies'
  <2>1. /\ server = "idle" /\ Len(queue) > 0 /\ queue[1] = command
        /\ queue' \in Seq(Commands) /\ Len(queue') = Len(queue) - 1 /\ queue # <<>>
    BY <1>8, ReadsIs
  <2>2. /\ pc \in {"userReply", "passReply", "epsvReply", "first"} /\ excuses # {"glued"}
        /\ Len(queue) = 1 /\ inbox = <<>>
        /\ pc = "first" => command = Transfer
    BY <1>2, <1>8, <2>1 DEF Replies, Unsplit, Quiet, Due, Only, TypeOK, Ended
  <2>3. queue' = <<>> /\ excuses' # {"glued"}
    BY <1>4, <2>1, <2>2
  <2>4. /\ pc = "first" <=> command \in {"LIST", "RETR", "STOR"}
        /\ command # "QUIT"
    BY <1>8, <2>2, TransferIsRead, TransferIs DEF TransferState, LoggingIn
  <2>5. CASE pc # "first"
    <3>1. PICK code \in Codes : Answers(command, code)
      BY <1>8, <2>1, <2>4, <2>5
         DEF Server, Greet, ReadsUser, ReadsPass, ReadsBadPass, ReadsEpsv, ReadsQuit,
             BeginTransfer, SendsAll, Stores, Refuses, BreaksOff, Answers, Reads, Codes
    <3>2. inbox' # <<>> /\ One(inbox') /\ server' = "idle"
      BY <1>6, <2>2, <3>1 DEF Answers
    <3>3. QED
      BY <1>3, <2>2, <2>3, <2>5, <3>2 DEF Replies, Due
  <2>6. CASE pc = "first"
    <3>1. BeginTransfer \/ Refuses
      BY <1>8, <2>1, <2>4, <2>6
         DEF Server, Greet, ReadsUser, ReadsPass, ReadsBadPass, ReadsEpsv, ReadsQuit,
             BeginTransfer, SendsAll, Stores, Refuses, BreaksOff, Answers, Reads
    <3>2. inbox' # <<>> /\ One(inbox') /\ Two(inbox')
      BY <1>6, <2>2, <3>1, OneIsTwo DEF BeginTransfer, Refuses, Codes
    <3>3. \/ server' = (IF Transfer = "STOR" THEN "storing" ELSE "sending")
          \/ server' = "idle" /\ Excused'
      BY <2>1, <2>2, <2>6, <3>1 DEF BeginTransfer, Refuses, Reads, ServerGoto, Refusal, Excused
    <3>4. QED
      BY <1>3, <2>3, <2>6, <3>2, <3>3 DEF Replies
  <2>7. QED
    BY <2>5, <2>6
<1>9. CASE pc \notin Ended /\ server \in {"sending", "storing"} /\ (SendsAll \/ Stores \/ BreaksOff)
  <2>1. inbox' # <<>> /\ (inbox = <<>> => One(inbox')) /\ (One(inbox) => Two(inbox'))
        /\ server' = "idle" /\ queue' = queue /\ (BreaksOff => Excused')
    BY <1>6, <1>9 DEF SendsAll, Stores, BreaksOff, ServerGoto, Codes, Refusal, Excused
  <2>2. pc \in {"first", "data", "second"} /\ excuses # {"glued"}
    BY <1>2, <1>9 DEF Replies, Unsplit, Quiet, Due, TypeOK, Ended
  <2>3. CASE pc = "first"
    <3>1. /\ queue = <<>> /\ One(inbox)
          /\ server = (IF Transfer = "STOR" THEN "storing" ELSE "sending")
      BY <1>2, <1>9, <2>3 DEF Replies, Unsplit
    <3>2. Transfer = "STOR" => ~Stores
      BY <2>3, <3>1 DEF TransferState, Storing, Stores
    <3>3. ~Excused' => Transfer # "STOR"
      BY <1>9, <2>1, <3>1, <3>2 DEF SendsAll
    <3>4. QED
      BY <1>3, <1>4, <2>1, <2>2, <2>3, <3>1, <3>3 DEF Replies
  <2>4. CASE pc \in {"data", "second"}
    <3>1. queue = <<>> /\ inbox = <<>>
      BY <1>2, <1>9, <2>4 DEF Replies, Unsplit
    <3>2. QED
      BY <1>3, <1>4, <2>1, <2>2, <2>4, <3>1 DEF Replies
  <2>5. QED
    BY <2>2, <2>3, <2>4
<1>10. QED
  BY <1>5, <1>7, <1>8, <1>9
     DEF Server, Greet, ReadsUser, ReadsPass, ReadsBadPass, ReadsEpsv, ReadsQuit, BeginTransfer,
         SendsAll, Stores, Refuses, BreaksOff, Answers, Reads

LEMMA RepliesStep ==
  ASSUME TypeOK, TransferState, Replies, Next
  PROVE  Replies'
<1>1. ASSUME Greeting \/ UserReply \/ PassReply \/ EpsvReply \/ FirstReply \/ SecondReply
      PROVE  Replies'
  <2>1. CASE Greeting \/ UserReply \/ EpsvReply \/ FirstReply
    BY <2>1, RecvReplies DEF Greeting, UserReply, EpsvReply, FirstReply, Goto
  <2>2. CASE PassReply
    BY <2>2, RecvReplies DEF PassReply, Goto
  <2>3. CASE SecondReply
    BY <2>3, RecvReplies DEF SecondReply
  <2>4. QED
    BY <1>1, <2>1, <2>2, <2>3
<1>2. ASSUME Server \/ Refuses \/ BreaksOff \/ TimesOut PROVE ServerFrame
  BY <1>2, ServerKeeps
<1>3. ASSUME TimesOut PROVE Replies'
  BY <1>3 DEF TimesOut, Refusal, Replies
<1>4. QED
  BY <1>1, <1>2, <1>3, SendReplies, DataReplies, ExitReplies, ServerReplies
     DEF Next, Client, Server

-----------------------------------------------------------------------------
(* The theorems *)

LEMMA Invariance == Spec => []IInv
<1>1. Init => IInv
  BY InitTypes, InitLetIn, InitTransferState, InitReplies DEF IInv
<1>2. IInv /\ [Next]_vars => IInv'
  <2> SUFFICES ASSUME IInv, [Next]_vars PROVE IInv'
    OBVIOUS
  <2>1. CASE Next
    BY <2>1, ClientTypes, ServerTypes, LetInStep, TransferStateStep, RepliesStep DEF IInv, Next
  <2>2. CASE UNCHANGED vars
    <3>1. /\ UNCHANGED <<program, pc, step, tries, buf, inbox, queue, data, blocks, moved>>
          /\ UNCHANGED <<server, user, stored, long, refusals, excuses>>
      BY <2>2 DEF vars, clientVars, dataVars, serverVars
    <3>2. Transfers' = Transfers /\ Transfer' = Transfer
      BY <3>1, SameTransfer
    <3>3. TypeOK'
      BY <3>1, <3>2 DEF IInv, TypeOK
    <3>4. LetIn'
      BY <3>1 DEF IInv, LetIn
    <3>5. TransferState'
      BY <3>1, <3>2 DEF IInv, TransferState, Settled, Asked, Left, HasPort, Connected, Receiving,
                        Storing, Over, Only, Excused
    <3>6. Replies'
      BY <3>1, <3>2 DEF IInv, Replies, Quiet, Due, Only, Excused
    <3>7. QED
      BY <3>3, <3>4, <3>5, <3>6 DEF IInv
  <2>3. QED
    BY <2>1, <2>2
<1>3. QED
  BY <1>1, <1>2, PTL DEF Spec

\* Whatever the network and the server do, every variable keeps its type; no transfer
\* moves more blocks than there are (ftp_client.c:112-121 and 178-189, test.c:108-117
\* and 167-176).
THEOREM TypeCorrect == Spec => []TypeOK
<1>1. IInv => TypeOK
  BY DEF IInv
<1>2. QED
  BY <1>1, Invariance, PTL

\* A client that goes on to its transfers was let in by the server, however the replies
\* are cut and glued (the comparison with "230" at ftp_client.c:58 and test.c:56).
THEOREM LoginsAreHonest == Spec => []LoginHonest
<1>1. IInv => LoginHonest
  BY DEF IInv, LetIn, LoginHonest, LoggingIn
<1>2. QED
  BY <1>1, Invariance, PTL

\* Files are stored whole, and transfers that nobody refused have moved every block by
\* the time the second reply is awaited (ftp_client.c:112-123 and 178-191, test.c:108-119
\* and 167-180).
THEOREM FilesAreWhole == Spec => []TransfersWhole
<1>1. IInv => TransfersWhole
  BY DEF IInv, TransferState, TransfersWhole, Excused
<1>2. QED
  BY <1>1, Invariance, PTL

\* As long as no reply is cut in two, one recv per reply keeps the client and the server
\* in step: nothing is unread on either side when the client sends (a recv after every
\* send, ftp_client.c:40-54 and on).
THEOREM InStep == Spec => []OneAtATime
<1>1. IInv => OneAtATime
  BY DEF IInv, Replies, OneAtATime, Quiet
<1>2. QED
  BY <1>1, Invariance, PTL

\* Two replies in one recv leave the client waiting in a listing or a download, and
\* nowhere else; an upload is never disturbed (the two recvs of a transfer,
\* ftp_client.c:106 and 123, 174 and 191, test.c:162 and 180).
THEOREM UploadsAreNotGlued == Spec => []GluedOnlyInDownloads
<1>1. IInv => GluedOnlyInDownloads
  BY DEF IInv, Replies, GluedOnlyInDownloads
<1>2. QED
  BY <1>1, Invariance, PTL
=============================================================================
