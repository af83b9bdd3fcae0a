----------------------------- MODULE ForkServer -----------------------------
(***************************************************************************)
(* The servers that fork.  BT4-6-2023/telnet_server.c ("telnet"),          *)
(* BT4-6-2023/time_server.c ("time") and BT12-6-2023/file_server.c         *)
(* ("file") fork a child for each connection; BT4-6-2023/http_server.c     *)
(* ("http") forks its workers first and each accepts for itself.           *)
(*                                                                         *)
(* A child that has ended is a zombie until its parent waits for it, and   *)
(* counts as one of the processes that the parent may have.  "telnet" and  *)
(* "http" wait once in a handler of SIGCHLD; the others never wait.        *)
(*                                                                         *)
(* A step is the code between two system calls.  The handler runs between  *)
(* two steps of the parent.                                                *)
(*                                                                         *)
(* Abstracted: texts, requests longer than the buffers, and what the       *)
(* commands of "telnet" do, except that they may never end and may leave a *)
(* process in the background that has the connection open, too.            *)
(***************************************************************************)
EXTENDS Integers, FiniteSets

CONSTANTS
  Programs,     \* the programs to run, see AllPrograms
  Procs,        \* the children that the parent may have, zombies included, and
                \* processes of the same user
  num_processes,   \* http: the workers it forks
  MaxConns,     \* bound: the connections clients make
  MaxFd,        \* http: the connections that a worker may have open
  MaxSends,     \* bound: requests sent by all clients
  MaxFaults     \* bound: failures of accept, opendir and fopen

AllPrograms == {"telnet", "time", "file", "http"}

ASSUME ConstantsAssumption ==
  /\ Programs \subseteq AllPrograms /\ IsFiniteSet(Procs)
  /\ {num_processes, MaxConns, MaxFd, MaxSends, MaxFaults} \subseteq Nat

\* Connections are numbered as they are made, which is the order accept takes them in.
Conns == 1..MaxConns
NoConn == 0

VARIABLES
  program,   \* the program that runs
  faults,    \* failures so far
  parent,    \* main(): "accept", "greet", "fork" or "close" once per connection; of http
             \* "fork", "wait" and "return"; "exited" at its end
  conn,      \* the parent's client socket, NoConn if accept failed or it is closed
  forks,     \* http: children forked, or tried to
  taken,     \* connections that accept has taken
  handling,  \* the parent is in signalHandler
  pending,   \* SIGCHLD is pending
  lost,      \* history: signals that found one pending, and were merged with it
  proc,      \* "none", "other" for a process that is no child, or a child's "accept",
             \* "recv", "system", "answer", "again", "content" or "zombie"
  sock,      \* its connection, NoConn once it has closed it
  leaks,     \* http: connections it has left open
  behind,    \* telnet: connections that a process in the background has open
  ended,     \* history: connections let go after a failure, or with their last answer
  peer,      \* peer[c]: "none", "open", "half" once the client has shut down its
             \* sending, "gone" once it has closed, "reset" once this is known here
  inbox,     \* inbox[c]: c's requests that no recv has returned
  told,      \* clients that were sent something when they had gone
  sent       \* requests sent by all clients

parentVars == <<parent, conn, forks>>
signalVars == <<handling, pending, lost>>
clientVars == <<peer, inbox, sent>>
vars == <<program, faults, parentVars, taken, signalVars, proc, sock, leaks, behind, ended,
          clientVars, told>>

Oldest == taken + 1
Waiting == Oldest \in Conns /\ peer[Oldest] # "none"
Live(p) == proc[p] \notin {"none", "other", "zombie"}
Zombies == {p \in Procs : proc[p] = "zombie"}
NoChildren == \A p \in Procs : proc[p] \in {"none", "other"}
Up == parent # "exited"
Fault == faults < MaxFaults /\ faults' = faults + 1
\* The server lets go of connection c, if it is one, whatever it has yet to say.
LetGo(c) == ended' = ended \cup ({c} \cap Conns)

-----------------------------------------------------------------------------
(* The clients *)

Client ==
  UNCHANGED <<program, faults, parentVars, taken, signalVars, proc, sock, leaks, behind, ended,
              told>>
Connect(c) ==
  /\ peer[c] = "none" /\ \A d \in Conns : d < c => peer[d] # "none"
  /\ peer' = [peer EXCEPT ![c] = "open"]
  /\ UNCHANGED <<inbox, sent>> /\ Client
Ask(c) ==
  /\ peer[c] = "open" /\ sent < MaxSends
  /\ inbox' = [inbox EXCEPT ![c] = @ + 1] /\ sent' = sent + 1
  /\ UNCHANGED peer /\ Client
\* A client that closes with something unread resets the connection.
Hangup(c) ==
  /\ peer[c] \in {"open", "half"}
  /\ \E s \in {"half", "gone", "reset"} : peer[c] # s /\ peer' = [peer EXCEPT ![c] = s]
  /\ UNCHANGED <<inbox, sent>> /\ Client
\* So does the client's kernel when something is sent to it after that.
Reset(c) ==
  /\ peer[c] = "gone" /\ c \in told
  /\ peer' = [peer EXCEPT ![c] = "reset"]
  /\ UNCHANGED <<inbox, sent>> /\ Client

\* A send to c, of a process for which RST has not arrived.
Tells(c) == told' = IF c \in Conns /\ peer[c] = "gone" THEN told \cup {c} ELSE told
Broken(c) == c \in Conns /\ peer[c] = "reset"

-----------------------------------------------------------------------------
(* Ends of processes, and SIGCHLD *)

Handles == program \in {"telnet", "http"}

\* Child p exits or is killed.
Ends(p) ==
  /\ proc' = [proc EXCEPT ![p] = IF Up THEN "zombie" ELSE "none"]
  /\ sock' = [sock EXCEPT ![p] = NoConn] /\ leaks' = [leaks EXCEPT ![p] = {}]
  /\ pending' = (pending \/ (Up /\ Handles))
  /\ lost' = IF Up /\ Handles /\ pending THEN lost + 1 ELSE lost
  /\ UNCHANGED <<handling, behind>>

\* The parent exits or is killed; init waits for its children.
ParentEnds ==
  /\ parent' = "exited" /\ conn' = NoConn
  /\ proc' = [p \in Procs |-> IF proc[p] = "zombie" THEN "none" ELSE proc[p]]
  /\ handling' = FALSE /\ pending' = FALSE /\ lost' = 0
  /\ UNCHANGED <<program, forks, taken, sock, leaks, behind, clientVars>>

Reap(p) == proc' = [proc EXCEPT ![p] = "none"]

Signalled ==
  /\ Up /\ pending /\ ~handling
  /\ pending' = FALSE /\ handling' = TRUE
  /\ UNCHANGED <<program, faults, parentVars, taken, lost, proc, sock, leaks, behind, ended,
                 clientVars, told>>

\* wait(NULL) in the handler, which is over when it returns.
WaitsAgain == TRUE        \* mutant: while (wait(NULL) > 0)
WaitsOnce == FALSE
HandlerWait ==
  /\ handling
  /\ \/ \E p \in Zombies : Reap(p) /\ handling' = WaitsOnce
     \/ NoChildren /\ handling' = FALSE /\ UNCHANGED proc
  /\ UNCHANGED <<program, faults, parentVars, taken, pending, lost, sock, leaks, behind, ended,
                 clientVars, told>>

-----------------------------------------------------------------------------
(* main() of telnet, time and file *)

Parent(l) == parent = l /\ ~handling /\ program # "http"
ParentSame == UNCHANGED <<program, forks, signalVars, leaks, behind, clientVars>>

Accept ==
  /\ Parent("accept") /\ Waiting
  /\ conn' = Oldest /\ taken' = Oldest
  /\ parent' = IF program = "time" THEN "fork" ELSE "greet"
  /\ UNCHANGED <<faults, proc, sock, ended, told>> /\ ParentSame

\* telnet does not look at what accept returned; file does so after sending to it.
AcceptFails ==
  /\ Parent("accept") /\ Waiting /\ program = "telnet"
  /\ Fault /\ conn' = NoConn /\ taken' = Oldest /\ parent' = "greet"
  /\ LetGo(Oldest)
  /\ UNCHANGED <<proc, sock, told>> /\ ParentSame
AcceptFailsAndExits ==
  /\ Parent("accept") /\ Waiting /\ program \in {"time", "file"}
  /\ Fault /\ ParentEnds /\ UNCHANGED <<ended, told>>

\* The parent's own send: request of telnet, send_file_list of file.
Greet ==
  /\ Parent("greet") /\ ~Broken(conn)
  /\ Tells(conn) /\ parent' = "fork"
  /\ UNCHANGED <<faults, conn, taken, proc, sock, ended>> /\ ParentSame
\* No directory: the connection is closed, and a child is forked all the same.
GreetFails ==
  /\ Parent("greet") /\ program = "file" /\ ~Broken(conn)
  /\ Fault /\ Tells(conn) /\ LetGo(conn) /\ conn' = NoConn /\ parent' = "fork"
  /\ UNCHANGED <<taken, proc, sock>> /\ ParentSame
GreetSigPipe ==
  /\ Parent("greet") /\ Broken(conn)
  /\ ParentEnds /\ UNCHANGED <<faults, ended, told>>

Fork ==
  /\ Parent("fork")
  /\ \E p \in Procs :
       /\ proc[p] = "none"
       /\ proc' = [proc EXCEPT ![p] = "recv"] /\ sock' = [sock EXCEPT ![p] = conn]
  /\ parent' = "close"
  /\ UNCHANGED <<faults, conn, taken, ended, told>> /\ ParentSame

\* telnet takes -1 for a child's number and goes on.
ForkFails ==
  /\ Parent("fork") /\ program = "telnet" /\ \A p \in Procs : proc[p] # "none"
  /\ parent' = "close" /\ LetGo(conn)
  /\ UNCHANGED <<faults, conn, taken, proc, sock, told>> /\ ParentSame
ForkFailsAndExits ==
  /\ Parent("fork") /\ program \in {"time", "file"} /\ \A p \in Procs : proc[p] # "none"
  /\ ParentEnds /\ LetGo(conn) /\ UNCHANGED <<faults, told>>

Close ==
  /\ Parent("close")
  /\ conn' = NoConn /\ parent' = "accept"
  /\ UNCHANGED <<faults, taken, proc, sock, ended, told>> /\ ParentSame

-----------------------------------------------------------------------------
(* main() of http *)

Http(l) == parent = l /\ ~handling /\ program = "http"
HttpSame ==
  UNCHANGED <<program, faults, conn, taken, signalVars, sock, leaks, behind, ended, clientVars,
              told>>

\* A fork that fails is a worker less.
ForkWorker ==
  /\ Http("fork") /\ forks < num_processes
  /\ \/ \E p \in Procs : proc[p] = "none" /\ proc' = [proc EXCEPT ![p] = "accept"]
     \/ (\A p \in Procs : proc[p] # "none") /\ UNCHANGED proc
  /\ forks' = forks + 1
  /\ UNCHANGED parent /\ HttpSame
WorkersForked ==
  /\ Http("fork") /\ forks = num_processes
  /\ parent' = "wait"
  /\ UNCHANGED <<forks, proc>> /\ HttpSame

\* The last wait may find the zombie before the handler runs, whose wait then blocks.
MainWait ==
  /\ Http("wait")
  /\ \/ \E p \in Zombies : Reap(p)
     \/ NoChildren /\ UNCHANGED proc
  /\ parent' = "return"
  /\ UNCHANGED forks /\ HttpSame
Return == Http("return") /\ ~pending /\ ParentEnds /\ UNCHANGED <<faults, ended, told>>

-----------------------------------------------------------------------------
(* The children *)

Child == UNCHANGED <<program, parentVars>>
ChildGoes(p, l) == proc' = [proc EXCEPT ![p] = l] /\ UNCHANGED <<signalVars, behind>>

\* A worker whose table is full gets -1 from accept for ever.
WorkerAccept(p) ==
  /\ proc[p] = "accept" /\ Waiting /\ Cardinality(leaks[p]) < MaxFd
  /\ ChildGoes(p, "recv")
  /\ sock' = [sock EXCEPT ![p] = Oldest] /\ taken' = Oldest
  /\ UNCHANGED <<faults, leaks, ended, clientVars, told>> /\ Child

\* What a client of telnet sends once it is logged in is a command.
Hear(p) ==
  /\ proc[p] = "recv" /\ sock[p] # NoConn
  /\ inbox[sock[p]] > 0 /\ peer[sock[p]] # "reset"
  /\ inbox' = [inbox EXCEPT ![sock[p]] = @ - 1]
  /\ \E l \in {"answer"} \cup (IF program = "telnet" THEN {"system"} ELSE {}) : ChildGoes(p, l)
  /\ UNCHANGED <<faults, taken, sock, leaks, ended, peer, sent, told>> /\ Child

\* system() returns; a process in the background has inherited the connection.
CommandEnds(p) ==
  /\ proc[p] = "system" /\ ChildGoes(p, "answer")
  /\ UNCHANGED <<faults, taken, sock, leaks, ended, clientVars, told>> /\ Child
CommandStays(p) ==
  /\ proc[p] = "system" /\ proc' = [proc EXCEPT ![p] = "answer"]
  /\ behind' = behind \cup {sock[p]}
  /\ UNCHANGED <<faults, taken, signalVars, sock, leaks, ended, clientVars, told>> /\ Child
BackgroundEnds(c) ==
  /\ c \in behind /\ behind' = behind \ {c}
  /\ UNCHANGED <<program, faults, parentVars, taken, signalVars, proc, sock, leaks, ended,
                 clientVars, told>>

\* recv returns 0: the client has finished sending.
AtEnd(p) ==
  /\ proc[p] = "recv" /\ sock[p] # NoConn
  /\ inbox[sock[p]] = 0 /\ peer[sock[p]] \in {"half", "gone"}
\* recv returns -1: the connection is reset, or the socket closed.
PeerOf(p) == IF sock[p] = NoConn THEN "closed" ELSE peer[sock[p]]
InError(p) == proc[p] = "recv" /\ PeerOf(p) \in {"closed", "reset"}

\* file ends a session only when recv fails, the others at the end of the stream, too.
OverInError(p) == InError(p)        \* mutant: if (ret < 0)
Over(p) == InError(p) \/ (AtEnd(p) /\ program # "file")
HearEnd(p) ==
  /\ program # "http" /\ Over(p)
  /\ Ends(p)
  /\ UNCHANGED <<faults, taken, ended, clientVars, told>> /\ Child
\* file takes it for a request without a name.
HearNothing(p) ==
  /\ AtEnd(p) /\ program = "file"
  /\ ChildGoes(p, "answer")
  /\ UNCHANGED <<faults, taken, sock, leaks, ended, clientVars, told>> /\ Child
\* http goes on to the next connection and leaves this one open.
HearLeak(p) ==
  /\ program = "http" /\ (InError(p) \/ AtEnd(p))
  /\ ChildGoes(p, "accept")
  /\ sock' = [sock EXCEPT ![p] = NoConn] /\ leaks' = [leaks EXCEPT ![p] = @ \cup {sock[p]}]
  /\ UNCHANGED <<faults, taken, ended, clientVars, told>> /\ Child

\* file answers a request without a name twice, one that names a file by the file.
NextAfterAnswer ==
  CASE program = "http" -> {"accept"}
    [] program \in {"time", "telnet"} -> {"recv"}
    [] program = "file" -> {"recv", "again", "content"}
Answer(p) ==
  /\ proc[p] = "answer" /\ ~Broken(sock[p]) /\ Tells(sock[p])
  /\ \E l \in NextAfterAnswer : ChildGoes(p, l)
  /\ IF program = "http" THEN sock' = [sock EXCEPT ![p] = NoConn] /\ LetGo(sock[p])
     ELSE UNCHANGED <<sock, ended>>
  /\ UNCHANGED <<faults, taken, leaks, clientVars>> /\ Child
AnswerAgain(p) ==
  /\ proc[p] = "again" /\ ~Broken(sock[p]) /\ Tells(sock[p])
  /\ ChildGoes(p, "recv")
  /\ UNCHANGED <<faults, taken, sock, leaks, ended, clientVars>> /\ Child
\* send_file closes the socket, and the loop goes on with it.
Content(p) ==
  /\ proc[p] = "content" /\ ~Broken(sock[p]) /\ Tells(sock[p])
  /\ ChildGoes(p, "recv") /\ sock' = [sock EXCEPT ![p] = NoConn] /\ LetGo(sock[p])
  /\ UNCHANGED <<faults, taken, leaks, clientVars>> /\ Child
ChildSigPipe(p) ==
  /\ proc[p] \in {"answer", "again", "content"} /\ Broken(sock[p])
  /\ Ends(p)
  /\ UNCHANGED <<faults, taken, ended, clientVars, told>> /\ Child

\* fopen fails: Check of telnet exits, send_file of file says so and dereferences NULL.
NoFile(p) ==
  /\ proc[p] = "answer" /\ program \in {"telnet", "file"} /\ ~Broken(sock[p])
  /\ IF program = "file" THEN Tells(sock[p]) ELSE UNCHANGED told
  /\ Fault /\ Ends(p) /\ LetGo(sock[p])
  /\ UNCHANGED <<taken, clientVars>> /\ Child

-----------------------------------------------------------------------------
Init ==
  /\ program \in Programs /\ faults = 0
  /\ parent = IF program = "http" THEN "fork" ELSE "accept"
  /\ conn = NoConn /\ forks = 0 /\ taken = 0
  /\ handling = FALSE /\ pending = FALSE /\ lost = 0
  /\ proc \in [Procs -> {"none", "other"}] /\ sock = [p \in Procs |-> NoConn]
  /\ leaks = [p \in Procs |-> {}] /\ behind = {} /\ ended = {}
  /\ peer = [c \in Conns |-> "none"] /\ inbox = [c \in Conns |-> 0]
  /\ told = {} /\ sent = 0

ParentSteps ==
  \/ Signalled \/ HandlerWait
  \/ Accept \/ AcceptFails \/ AcceptFailsAndExits \/ Greet \/ GreetFails \/ GreetSigPipe
  \/ Fork \/ ForkFails \/ ForkFailsAndExits \/ Close
  \/ ForkWorker \/ WorkersForked \/ MainWait \/ Return
ChildSteps(p) ==
  \/ WorkerAccept(p) \/ Hear(p) \/ HearEnd(p) \/ HearNothing(p) \/ HearLeak(p)
  \/ CommandEnds(p) \/ CommandStays(p)
  \/ Answer(p) \/ AnswerAgain(p) \/ Content(p) \/ ChildSigPipe(p) \/ NoFile(p)
Next ==
  \/ \E c \in Conns : Connect(c) \/ Ask(c) \/ Hangup(c) \/ Reset(c) \/ BackgroundEnds(c)
  \/ ParentSteps \/ \E p \in Procs : ChildSteps(p)

Spec == Init /\ [][Next]_vars

\* A child that waits for a command to end, or for a client that is still there to make
\* room for what is sent to it.  What the parents and the workers of http send always
\* has room: it is the first, and short.
AtMercy(p) ==
  \/ proc[p] = "system"
  \/ /\ program # "http" /\ proc[p] \in {"answer", "again", "content"}
     /\ PeerOf(p) \in {"open", "half"}

\* The kernel runs every process that is ready, and the client's answers at last.
FairSpec ==
  /\ Spec /\ WF_vars(ParentSteps)
  /\ \A p \in Procs : WF_vars(~AtMercy(p) /\ ChildSteps(p))
  /\ \A c \in Conns : WF_vars(Reset(c))
=============================================================================
