----------------------------- MODULE EventLoop -----------------------------
(***************************************************************************)
(* The servers that serve all clients from one loop around select or poll: *)
(* three chats (BT2/chat_sever2.c, BT2/chat_server.c, BT3/poll_server.c),  *)
(* a telnet server (BT3/telnet_server.c) and an echo server                *)
(* (BT4-6-2023/server02_01.c).  They share the loop -- wait for readiness, *)
(* accept, then read from every ready client -- and differ in what they    *)
(* do with what they read.                                                 *)
(*                                                                         *)
(* A step is the code between two calls into the kernel whose result       *)
(* depends on the clients.  The servers never close a connection, so a     *)
(* descriptor is the connection accept made it for; NoConn stands for the  *)
(* -1 that a failed accept leaves in the array.                            *)
(*                                                                         *)
(* Abstracted: texts (a line is one of Kinds), a line split or glued by    *)
(* TCP (it reads as another line), what a telnet command does but that it  *)
(* may take for ever.                                                      *)
(***************************************************************************)
EXTENDS Integers, Sequences

CONSTANTS
  Conns,        \* the connections clients may make
  Programs,     \* the programs to run, see AllPrograms
  Kinds,        \* the lines clients send, see AllKinds
  MaxSlots,     \* the connections the program's arrays hold (64; 63 for poll)
  MinFd, MaxFd, \* the descriptors the process may still open when it starts: what its
                \* limit and the ones it inherits leave
  MaxSends,     \* bound: lines sent by all clients together
  MaxHangups,   \* bound: clients that hang up
  NoConn

AllPrograms == {"chat_sever2", "chat_server", "poll_server", "telnet_server", "echo"}
AllKinds ==
  {"NAME",      \* a valid client_id:name; a right username and password
   "BAD",       \* an invalid client_id:name; a wrong username and password
   "TEXT",      \* neither colon nor blank
   "CUT"}       \* a colon with nothing after it; a username without a password

ASSUME ConstantsAssumption ==
  /\ Programs \subseteq AllPrograms /\ Kinds \subseteq AllKinds
  /\ {MaxSlots, MinFd, MaxFd, MaxSends, MaxHangups} \subseteq Nat
  /\ NoConn \notin Conns

VARIABLES
  program,   \* the program that runs
  up,        \* FALSE once the process has died
  backlog,   \* connections the kernel has completed and accept not yet returned
  peer,      \* peer[c]: "none", "open", or "gone" once the client hung up
  inq,       \* inq[c]: lines sent by c that no recv has returned
  sent, hungup,   \* lines sent, and hang-ups, so far
  stalled,   \* clients that do not read and whose buffers are full
  pc,        \* "wait" (select, poll), "accept", "name", "scan", "cast"; "system" while
             \* telnet_server waits for a command, "prompt" after it
  spare,     \* descriptors the process may still open
  slots,     \* clients[] or fds[1..], with num_clients or nfds - 1 entries
  named,     \* the slots with visited[i] set, or registered with a valid name
  ready,     \* the slots that fdread or revents marks, as the loop sees them
  i, j,      \* the loop's indices: slot to serve, slot to send to
  newcomer,  \* the connection in chat_server's naming dialogue
  log, since, got   \* history: see Broadcast

clientVars == <<peer, inq, sent, hungup, stalled>>
history    == <<log, since, got>>
vars == <<program, up, backlog, clientVars, pc, spare, slots, named, ready, i, j, newcomer,
          history>>

Abstract == INSTANCE Broadcast WITH Conns <- Conns, log <- log, since <- since, got <- got

Polls == {"poll_server", "telnet_server"}
Chats == {"chat_sever2", "chat_server", "poll_server"}

-----------------------------------------------------------------------------
(* The clients *)

Connect(c) ==
  /\ up /\ peer[c] = "none"
  /\ peer' = [peer EXCEPT ![c] = "open"]
  /\ backlog' = Append(backlog, c)
  /\ UNCHANGED <<program, up, inq, sent, hungup, stalled, pc, spare, slots, named, ready, i, j,
                 newcomer, history>>

Say(c) ==
  /\ up /\ peer[c] = "open" /\ sent < MaxSends
  /\ \E kind \in Kinds : inq' = [inq EXCEPT ![c] = Append(@, kind)]
  /\ sent' = sent + 1
  /\ UNCHANGED <<program, up, backlog, peer, hungup, stalled, pc, spare, slots, named, ready,
                 i, j, newcomer, history>>

\* A client closes its end, or resets the connection and with it what was not read.
Hangup(c) ==
  /\ up /\ peer[c] = "open" /\ hungup < MaxHangups
  /\ peer' = [peer EXCEPT ![c] = "gone"]
  /\ inq' \in {inq, [inq EXCEPT ![c] = <<>>]}
  /\ hungup' = hungup + 1
  /\ stalled' = stalled \ {c}
  /\ UNCHANGED <<program, up, backlog, sent, pc, spare, slots, named, ready, i, j,
                 newcomer, history>>

\* A client stops reading long enough for the server's next send to it to block,
\* or reads again.
Stall(c) ==
  /\ up /\ peer[c] = "open"
  /\ stalled' = IF c \in stalled THEN stalled \ {c} ELSE stalled \cup {c}
  /\ UNCHANGED <<program, up, backlog, peer, inq, sent, hungup, pc, spare, slots, named, ready,
                 i, j, newcomer, history>>

-----------------------------------------------------------------------------
(* Waiting and accepting *)

Readable(c) == inq[c] # <<>> \/ peer[c] = "gone"
Serve == \* what the kernel reports: a select skips -1, a poll ignores it
  {k \in DOMAIN slots : slots[k] # NoConn /\ Readable(slots[k])}

WaitClientsFirst ==              \* mutant: accept only if no client is ready
  /\ up /\ pc = "wait"
  /\ backlog # <<>> \/ Serve # {}
  /\ ready' = Serve
  /\ pc' = IF Serve = {} THEN "accept" ELSE "scan"
  /\ i' = 1
  /\ UNCHANGED <<program, up, backlog, clientVars, spare, slots, named, j, newcomer, history>>
\* select() or poll() returns: a snapshot that the rest of the turn uses.
Wait ==
  /\ up /\ pc = "wait"
  /\ backlog # <<>> \/ Serve # {}
  /\ ready' = Serve
  /\ pc' = IF backlog # <<>> THEN "accept" ELSE "scan"
  /\ i' = 1
  /\ UNCHANGED <<program, up, backlog, clientVars, spare, slots, named, j, newcomer, history>>

\* What accept returns: nothing can be accepted without a descriptor.
Accepted == IF spare = 0 THEN NoConn ELSE Head(backlog)
TakeAccepted ==
  IF spare = 0 THEN UNCHANGED <<backlog, spare>>
  ELSE backlog' = Tail(backlog) /\ spare' = spare - 1

\* A chat's recipients are its clients; a poll_server's only once they are named.
Joins(c) ==
  since' = IF c = NoConn THEN since ELSE [since EXCEPT ![c] = Len(log)]

\* The readiness of the slot just filled: fdread does not have it; revents was
\* never written there.
SlotReadyAlways(k) == {{}, {k}}        \* mutant: fdread set again after accept
SlotReady(k) == IF program \in Polls /\ Accepted # NoConn THEN {{}, {k}} ELSE {{}}

Accept ==
  /\ up /\ pc = "accept" /\ program # "chat_server" /\ Len(slots) < MaxSlots
  /\ TakeAccepted
  /\ slots' = Append(slots, Accepted)
  /\ \E r \in SlotReady(Len(slots) + 1) : ready' = ready \cup r
  /\ IF program = "chat_sever2" THEN Joins(Accepted) ELSE UNCHANGED since
  /\ pc' = "scan"
  /\ UNCHANGED <<program, up, clientVars, named, i, j, newcomer, log, got>>

\* BT2/chat_server.c: accept, then a dialogue with the newcomer inside the loop.
AcceptAndAsk ==
  /\ up /\ pc = "accept" /\ program = "chat_server"
  /\ TakeAccepted
  /\ newcomer' = Accepted
  /\ pc' = "name"
  /\ UNCHANGED <<program, up, clientVars, slots, named, ready, i, j, history>>

Register(c, names) ==
  /\ Len(slots) < MaxSlots
  /\ slots' = Append(slots, c)
  /\ named' = named \cup names
  /\ Joins(c)
  /\ newcomer' = NoConn
  /\ pc' = "scan"
  /\ UNCHANGED <<program, up, backlog, peer, sent, hungup, stalled, spare, ready, i, j, log,
                 got>>

\* send or recv fails: the dialogue ends, and the connection is kept.
Failed == newcomer \in Conns => inq[newcomer] = <<>> /\ peer[newcomer] = "gone"
Asked == newcomer # NoConn /\ inq[newcomer] # <<>>
NameLostDropped ==               \* mutant: the newcomer is not registered
  /\ up /\ pc = "name" /\ Failed
  /\ newcomer' = NoConn /\ pc' = "scan"
  /\ UNCHANGED <<program, up, backlog, clientVars, spare, slots, named, ready, i, j, history>>
NameLost ==
  /\ up /\ pc = "name" /\ Failed
  /\ Register(newcomer, {})
  /\ UNCHANGED inq

Answer == Head(inq[newcomer])
AcceptedNamesAny == {"NAME", "BAD", "TEXT"}  \* mutant: continue leaves the dialogue
AcceptedNames == {"NAME"}
NameGiven ==
  /\ up /\ pc = "name" /\ Asked
  /\ Answer \in AcceptedNames
  /\ Register(newcomer, IF Answer = "NAME" THEN {Len(slots) + 1} ELSE {})
  /\ inq' = [inq EXCEPT ![newcomer] = Tail(@)]

AskAgain ==
  /\ up /\ pc = "name" /\ Asked
  /\ Answer \in {"BAD", "TEXT"} \ AcceptedNames /\ newcomer \notin stalled
  /\ inq' = [inq EXCEPT ![newcomer] = Tail(@)]
  /\ UNCHANGED <<program, up, backlog, peer, sent, hungup, stalled, pc, spare, slots, named,
                 ready, i, j, newcomer, history>>

-----------------------------------------------------------------------------
(* Serving the ready slots *)

\* The loop is at slot k, the first ready one from i on; recv is called on it.
Turn(k) ==
  /\ up /\ pc = "scan" /\ k \in ready /\ i <= k
  /\ \A l \in ready : i <= l => k <= l

\* recv returns the first line of slot k's client.
Line(k) == Head(inq[slots[k]])
Reads(k) ==
  /\ Turn(k) /\ inq[slots[k]] # <<>>
  /\ inq' = [inq EXCEPT ![slots[k]] = Tail(@)]
  /\ UNCHANGED <<program, up, backlog, peer, sent, hungup, stalled, slots, ready, newcomer>>

Continue(k) == i' = k + 1 /\ UNCHANGED <<pc, j>>

DisconnectedBreaks(k) ==         \* mutant: break for continue
  /\ Turn(k) /\ inq[slots[k]] = <<>> /\ peer[slots[k]] = "gone"
  /\ pc' = "wait"
  /\ UNCHANGED <<program, up, backlog, clientVars, spare, slots, named, ready, i, j, newcomer,
                 history>>
\* recv returns 0 or -1; the slot stays (TODO at line 92).
Disconnected(k) ==
  /\ Turn(k) /\ inq[slots[k]] = <<>> /\ peer[slots[k]] = "gone"
  /\ Continue(k)
  /\ UNCHANGED <<program, up, backlog, clientVars, spare, slots, named, ready, newcomer,
                 history>>

ScanEnd ==
  /\ up /\ pc = "scan" /\ \A l \in ready : l < i
  /\ pc' = "wait"
  /\ UNCHANGED <<program, up, backlog, clientVars, spare, slots, named, ready, i, j, newcomer,
                 history>>

\* The answer to slot k's client can be sent.
Answerable(k) == slots[k] \notin stalled

\* chat_sever2, poll_server: a client's first valid line is its name.
Name(k) ==
  /\ program \in {"chat_sever2", "poll_server"} /\ k \notin named /\ Reads(k)
  /\ Line(k) = "NAME"
  /\ named' = named \cup {k}
  /\ IF program = "poll_server" THEN Joins(slots[k]) ELSE UNCHANGED since
  /\ Continue(k)
  /\ UNCHANGED <<spare, log, got>>

Prompt(k) ==
  /\ program \in {"chat_sever2", "poll_server"} /\ k \notin named /\ Reads(k)
  /\ Line(k) \in {"BAD", "TEXT"} /\ Answerable(k)
  /\ Continue(k)
  /\ UNCHANGED <<named, spare, history>>

\* The chats: what a named client says is forwarded.  chat_server looks at no
\* flag: whoever is in clients[] speaks.
MaySpeak(k) == program = "chat_server" \/ k \in named
Speak(k) ==
  /\ program \in Chats /\ Reads(k) /\ MaySpeak(k)
  /\ log' = Append(log, slots[k])
  /\ pc' = "cast" /\ i' = k /\ j' = 1
  /\ UNCHANGED <<named, spare, since, got>>

LoginUnchecked(k) ==             \* mutant: fopen's result not looked at
  /\ program = "telnet_server" /\ k \notin named /\ Reads(k)
  /\ Line(k) \in {"NAME", "BAD", "CUT"} /\ Answerable(k)
  /\ spare' = spare - 1 /\ named' = named
  /\ Continue(k)
  /\ UNCHANGED history
\* telnet_server: every Check of a password opens database.txt and leaves it open.  A
\* password that was not sent is what the stack holds, which may be the right one.
Login(k) ==
  /\ program = "telnet_server" /\ k \notin named /\ Reads(k)
  /\ Line(k) \in {"NAME", "BAD", "CUT"} /\ spare > 0 /\ Answerable(k)
  /\ spare' = spare - 1
  /\ \/ Line(k) \in {"NAME", "CUT"} /\ named' = named \cup {k}
     \/ Line(k) # "NAME" /\ UNCHANGED named
  /\ Continue(k)
  /\ UNCHANGED history

\* A telnet prompt, an echo: only the client itself is answered.
Reply(k) ==
  /\ program \in {"telnet_server", "echo"} /\ Reads(k) /\ Answerable(k)
  /\ program = "telnet_server" => k \notin named /\ Line(k) = "TEXT"
  /\ Continue(k)
  /\ UNCHANGED <<named, spare, history>>

\* telnet_server runs the client's command and waits for its end; nothing makes it end.
Run(k) ==
  /\ program = "telnet_server" /\ k \in named /\ Reads(k)
  /\ pc' = "system" /\ i' = k
  /\ UNCHANGED <<named, spare, j, history>>
CommandEnds ==
  /\ up /\ pc = "system"
  /\ pc' = "prompt"
  /\ UNCHANGED <<program, up, backlog, clientVars, spare, slots, named, ready, i, j, newcomer,
                 history>>
AskNext ==
  /\ up /\ pc = "prompt" /\ Answerable(i)
  /\ pc' = "scan" /\ i' = i + 1
  /\ UNCHANGED <<program, up, backlog, clientVars, spare, slots, named, ready, j, newcomer,
                 history>>

-----------------------------------------------------------------------------
(* The broadcast *)

RecipientsAll == {k \in DOMAIN slots : slots[k] # NoConn}     \* mutant: j # i dropped
RecipientsButLast ==             \* mutant: j < num_clients - 1
  {k \in 1..Len(slots) - 1 : k # i /\ slots[k] # NoConn
                              /\ (program = "poll_server" => k \in named)}
Recipients ==
  {k \in DOMAIN slots : k # i /\ slots[k] # NoConn /\ (program = "poll_server" => k \in named)}

\* One send of the loop over j.
NextRecipient(k) ==
  /\ up /\ pc = "cast" /\ k \in Recipients /\ j <= k
  /\ \A l \in Recipients : j <= l => k <= l
Send(k) ==
  /\ NextRecipient(k) /\ slots[k] \notin stalled
  /\ got' = [got EXCEPT ![slots[k]] = Append(@, Len(log))]
  /\ j' = k + 1
  /\ UNCHANGED <<program, up, backlog, clientVars, pc, spare, slots, named, ready, i, newcomer,
                 log, since>>

CastEnd ==
  /\ up /\ pc = "cast" /\ \A l \in Recipients : l < j
  /\ pc' = "scan" /\ i' = i + 1
  /\ UNCHANGED <<program, up, backlog, clientVars, spare, slots, named, ready, j, newcomer,
                 history>>

-----------------------------------------------------------------------------
(* The ways the process dies *)

Dies ==
  /\ up' = FALSE
  /\ UNCHANGED <<program, backlog, clientVars, pc, spare, slots, named, ready, i, j, newcomer,
                 history>>

\* A send to a peer that closed its end may raise SIGPIPE, which no program
\* handles: the greeting, an answer, or a broadcast.
Answers(k) ==
  \/ program \in {"chat_sever2", "poll_server"} /\ k \notin named
     /\ Line(k) \in {"BAD", "TEXT"}
  \/ program = "telnet_server" /\ k \notin named
  \/ program = "echo"
SigPipe ==
  /\ up
  /\ \/ pc = "accept" /\ spare > 0 /\ peer[Head(backlog)] = "gone"
     \/ pc = "name" /\ Asked /\ peer[newcomer] = "gone" /\ Answer \in {"BAD", "TEXT"}
     \/ \E k \in DOMAIN slots :
          Turn(k) /\ peer[slots[k]] = "gone" /\ inq[slots[k]] # <<>> /\ Answers(k)
     \/ \E k \in DOMAIN slots : NextRecipient(k) /\ peer[slots[k]] = "gone"
     \/ pc = "prompt" /\ peer[slots[i]] = "gone"
  /\ Dies

\* strtok returns NULL for a missing name.
SegFault ==
  /\ up
  /\ \/ pc = "name" /\ Asked /\ Answer = "CUT"
     \/ \E k \in DOMAIN slots :
          /\ program \in {"chat_sever2", "poll_server"} /\ k \notin named /\ Turn(k)
          /\ inq[slots[k]] # <<>> /\ Line(k) = "CUT"
  /\ Dies

\* A connection past the end of the arrays: nothing is claimed of what follows.
Overrun ==
  /\ up /\ Len(slots) = MaxSlots
  /\ \/ pc = "accept" /\ program # "chat_server"
     \/ pc = "name" /\ (Failed \/ (Asked /\ Answer \in AcceptedNames))
  /\ Dies

\* fopen finds no descriptor: exit(EXIT_FAILURE).
NoFile ==
  /\ up /\ program = "telnet_server" /\ spare = 0
  /\ \E k \in DOMAIN slots :
       Turn(k) /\ k \notin named /\ inq[slots[k]] # <<>> /\ Line(k) \in {"NAME", "BAD", "CUT"}
  /\ Dies

-----------------------------------------------------------------------------
Init ==
  /\ program \in Programs /\ up = TRUE
  /\ backlog = <<>>
  /\ peer = [c \in Conns |-> "none"]
  /\ inq = [c \in Conns |-> <<>>]
  /\ sent = 0 /\ hungup = 0 /\ stalled = {}
  /\ pc = "wait" /\ spare \in MinFd..MaxFd
  /\ slots = <<>> /\ named = {} /\ ready = {} /\ i = 1 /\ j = 1 /\ newcomer = NoConn
  /\ log = <<>>
  /\ since = [c \in Conns |-> Abstract!Outside]
  /\ got = [c \in Conns |-> <<>>]

Serving(k) ==
  \/ Disconnected(k) \/ Name(k) \/ Prompt(k) \/ Speak(k) \/ Login(k) \/ Reply(k) \/ Run(k)
Server ==
  \/ Wait \/ Accept \/ AcceptAndAsk \/ NameLost \/ NameGiven \/ AskAgain \/ ScanEnd \/ CastEnd
  \/ \E k \in DOMAIN slots : Serving(k) \/ Send(k)
  \/ AskNext
  \/ SigPipe \/ SegFault \/ Overrun \/ NoFile

Next ==
  \/ Server \/ CommandEnds
  \/ \E c \in Conns : Connect(c) \/ Say(c) \/ Hangup(c) \/ Stall(c)

Spec == Init /\ [][Next]_vars

\* The kernel runs the process whenever it can take a step; nothing is assumed of
\* the clients and of their commands.
FairSpec == Spec /\ WF_vars(Server)
=============================================================================
