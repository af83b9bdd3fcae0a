---------------------------- MODULE ThreadServer ----------------------------
(***************************************************************************)
(* The servers that give each connection a thread and share nothing else   *)
(* on purpose: BT11-6-2023/http_server ("http"), time_server ("time") and  *)
(* BT26-6-2023/http_server.c ("files").  BT11-6-2023/telnet_server is      *)
(* "time" with other answers, which are in SharedOutput: they wait for the *)
(* client's own command, which need not end.                               *)
(*                                                                         *)
(* What they do share is main's variable `client', whose address every     *)
(* thread is given, the descriptor table, in which "files" opens files and *)
(* directories too, and the number of threads the process may have, of     *)
(* which "http" gives none back: its threads are neither joined nor        *)
(* detached.                                                               *)
(*                                                                         *)
(* A step is the code between two accesses to shared memory or the kernel. *)
(*                                                                         *)
(* Abstracted: texts, the parts an answer is sent in, and clients that do  *)
(* not read: a send that blocks holds up the thread of that client and     *)
(* keeps its descriptor, as a client does that is silent.  A recv that     *)
(* fails makes "http" store a zero before its buffer: the byte is the top  *)
(* byte of a neighbour or padding, and nothing reads it.                   *)
(***************************************************************************)
EXTENDS Integers, Sequences

CONSTANTS
  Programs,     \* the programs to run, see AllPrograms
  MaxConns,     \* bound: the connections clients make
  Threads,      \* the threads that the process may have
  MinFd, MaxFd, \* the descriptors free for connections and files: from MinFd to MaxFd
  NUM_THREADS,  \* the length of http's threads[]
  MaxSends      \* bound: requests sent by all clients together

AllPrograms == {"http", "time", "files"}
Paths ==
  {"ROOT",      \* /
   "FILE",      \* a file that is served
   "OTHER",     \* a file with another extension
   "DIR",       \* a directory
   "NONE"}      \* no file

ASSUME ConstantsAssumption ==
  /\ Programs \subseteq AllPrograms
  /\ {MaxConns, MinFd, MaxFd, MaxSends} \subseteq Nat /\ NUM_THREADS \in Nat \ {0}

\* Connections are numbered as they are made, which is the order accept takes them in.
Conns == 1..MaxConns
NoConn == 0        \* what a free descriptor denotes, and one of a file
File == -1
NoFd == -1         \* what accept returns when it fails
Fd == 1..MaxFd

VARIABLES
  program,   \* the program that runs
  up,        \* FALSE once the process has died
  limit,     \* the descriptors it may open are 1..limit
  badLen,    \* http's client_len, which is not initialised, happens to be negative
  mainPc,    \* main(): "accept" or "create"
  cell,      \* main's variable `client'
  accepted,  \* the connection accepted last, NoConn if that failed
  index,     \* thread_index of http
  taken,     \* connections that accept has taken
  fdt,       \* the process's descriptor table
  peer,      \* peer[c]: "none", "open", or "gone" once the client hung up
  inbox,     \* inbox[c]: c's requests that no recv has returned
  sent,      \* requests sent by all clients
  pc,        \* per thread: control; "none" before it is created and after a detached
             \* one has ended, "ended" after one that is kept
  sock,      \* its client
  wait,      \* the connection that its recv holds
  from,      \* whose request is in its buffer
  path,      \* files: what the request is for
  handle,    \* files: the descriptor of its file or directory
  robbed,    \* history: accept wrote `client' while a thread had not read it
  refused,   \* history: connections that came while every thread was in use
  got        \* history: got[c]: whose requests were answered to c

mainVars == <<program, limit, badLen, index, taken>>
netVars == <<peer, inbox, sent>>
bufVars == <<wait, from, path, handle>>
vars == <<mainVars, mainPc, cell, accepted, up, fdt, netVars, pc, sock, bufVars, robbed, refused,
          got>>

At(t, l) == up /\ pc[t] = l
Goto(t, l) == pc' = [pc EXCEPT ![t] = l]
LowestFree ==
  {f \in Fd : f <= limit /\ fdt[f] = NoConn /\ \A g \in Fd : fdt[g] = NoConn => f <= g}
Closed(f) == [g \in Fd |-> IF g = f THEN NoConn ELSE fdt[g]]
\* The connection a descriptor denotes, if any.
Conn(f) == IF f \in Fd /\ fdt[f] # File THEN fdt[f] ELSE NoConn
Oldest == taken + 1
Waiting == Oldest \in Conns /\ peer[Oldest] # "none"

-----------------------------------------------------------------------------
(* The clients *)

Client == /\ up /\ UNCHANGED <<mainVars, mainPc, cell, accepted, up, fdt, pc, sock, bufVars, robbed,
                               refused, got>>
Connect(c) ==
  /\ peer[c] = "none" /\ \A d \in Conns : d < c => peer[d] # "none"
  /\ peer' = [peer EXCEPT ![c] = "open"]
  /\ UNCHANGED <<inbox, sent>> /\ Client
Ask(c) ==
  /\ peer[c] = "open" /\ sent < MaxSends
  /\ inbox' = [inbox EXCEPT ![c] = @ + 1] /\ sent' = sent + 1
  /\ UNCHANGED peer /\ Client
Hangup(c) ==
  /\ peer[c] = "open"
  /\ peer' = [peer EXCEPT ![c] = "gone"]
  /\ UNCHANGED <<inbox, sent>> /\ Client

-----------------------------------------------------------------------------
(* main() *)

\* accept has returned f and stored it.
Returns(f, c, l) ==
  /\ up /\ mainPc = "accept"
  /\ mainPc' = l /\ cell' = f /\ accepted' = c
  /\ robbed' = (robbed \/ \E t \in Threads : pc[t] = "start")
  /\ UNCHANGED <<program, limit, badLen, index, up, netVars, pc, sock, bufVars, refused, got>>

Accept ==
  /\ Waiting /\ ~badLen
  /\ \E f \in LowestFree :
       /\ Returns(f, Oldest, "create")
       /\ fdt' = [fdt EXCEPT ![f] = Oldest]
  /\ taken' = Oldest

\* Without a free descriptor accept fails at once, whether or not a client waits.
\* http does not look at what accept returned.
AfterFailure == IF program = "http" THEN "create" ELSE "accept"
AcceptFails ==
  /\ LowestFree = {}
  /\ Returns(NoFd, NoConn, AfterFailure)
  /\ UNCHANGED <<taken, fdt>>

\* With a negative client_len accept fails when it has taken the connection, which
\* the kernel then closes.
AcceptDrops ==
  /\ Waiting /\ badLen
  /\ Returns(NoFd, NoConn, AfterFailure)
  /\ taken' = Oldest
  /\ UNCHANGED fdt

NextIndexPast == index + 1                      \* mutant: the array is no ring
NextIndex == (index + 1) % NUM_THREADS
CreateThreadAlone ==                     \* mutant: main waits for the thread to end
  /\ up /\ mainPc = "create" /\ \A t \in Threads : pc[t] \in {"none", "ended"}
  /\ \E t \in Threads : pc[t] = "none" /\ Goto(t, "start")
  /\ mainPc' = "accept"
  /\ index' = IF program = "http" THEN NextIndex ELSE index
  /\ UNCHANGED <<program, limit, badLen, taken, cell, accepted, up, fdt, netVars, sock, bufVars,
                 robbed, refused, got>>
CreateThread ==
  /\ up /\ mainPc = "create"
  /\ \E t \in Threads : pc[t] = "none" /\ Goto(t, "start")
  /\ mainPc' = "accept"
  /\ index' = IF program = "http" THEN NextIndex ELSE index
  /\ UNCHANGED <<program, limit, badLen, taken, cell, accepted, up, fdt, netVars, sock, bufVars,
                 robbed, refused, got>>

\* http alone is right to find its ended threads in the way.
InUse(t) == pc[t] # "none" /\ (pc[t] = "ended" => program = "http")
\* files does not look at what pthread_create returned.
RefusesTimeToo == {"time", "files"}   \* mutant: time continues without close
RefusesWithoutClose == {"files"}
CreateFails ==
  /\ up /\ mainPc = "create" /\ \A t \in Threads : pc[t] # "none"
  /\ mainPc' = "accept"
  /\ fdt' = IF program \in RefusesWithoutClose THEN fdt ELSE Closed(cell)
  /\ refused' = IF \A t \in Threads : InUse(t) THEN refused \cup {accepted} ELSE refused
  /\ UNCHANGED <<mainVars, cell, accepted, up, netVars, pc, sock, bufVars, robbed, got>>

-----------------------------------------------------------------------------
(* handle_client, client_thread *)

Own(t) == UNCHANGED <<mainVars, mainPc, cell, accepted, up, peer, sent, robbed, refused>>

ReadArg(t) ==
  /\ At(t, "start") /\ Own(t)
  /\ Goto(t, IF program = "time" THEN "greet" ELSE "recv")
  /\ sock' = [sock EXCEPT ![t] = cell]
  /\ UNCHANGED <<fdt, inbox, bufVars, got>>

Greet(t) ==
  /\ At(t, "greet") /\ Own(t) /\ Goto(t, "recv")
  /\ UNCHANGED <<fdt, inbox, sock, bufVars, got>>

Detached == {"time", "files"}
Ending == IF program \in Detached THEN "none" ELSE "ended"

\* recv returned 0 or -1: http answers all the same, files returns at once.
Failure ==
  CASE program = "http" -> "answer"
    [] program = "time" -> "close"
    [] program = "files" -> "none"

\* The thread goes to l; at its end its stack is gone.
Goes(t, l) ==
  /\ Own(t) /\ Goto(t, l)
  /\ sock' = IF l \in {"none", "ended"} THEN [sock EXCEPT ![t] = 0] ELSE sock

\* recv fails at once on what is no socket; otherwise it holds the connection until
\* it returns.
CallRecv(t) ==
  /\ At(t, "recv")
  /\ Goes(t, IF Conn(sock[t]) = NoConn THEN Failure ELSE "hear")
  /\ wait' = [wait EXCEPT ![t] = Conn(sock[t])]
  /\ from' = [from EXCEPT ![t] = NoConn]
  /\ UNCHANGED <<fdt, inbox, path, handle, got>>

\* A request without a path leaves path as it is on the stack: any.
Hear(t) ==
  /\ At(t, "hear") /\ Own(t)
  /\ inbox[wait[t]] > 0
  /\ inbox' = [inbox EXCEPT ![wait[t]] = @ - 1]
  /\ wait' = [wait EXCEPT ![t] = NoConn] /\ from' = [from EXCEPT ![t] = wait[t]]
  /\ IF program = "files"
     THEN \E p \in Paths :
            path' = [path EXCEPT ![t] = p] /\ Goto(t, IF p = "ROOT" THEN "opendir" ELSE "fopen")
     ELSE UNCHANGED path /\ Goto(t, "answer")
  /\ UNCHANGED <<fdt, sock, handle, got>>

HearEnd(t) ==
  /\ At(t, "hear")
  /\ inbox[wait[t]] = 0 /\ peer[wait[t]] = "gone"
  /\ wait' = [wait EXCEPT ![t] = NoConn]
  /\ Goes(t, Failure)
  /\ UNCHANGED <<fdt, inbox, from, path, handle, got>>

\* What sock[t] denotes when send is called.
Sends(t) ==
  got' = IF Conn(sock[t]) = NoConn THEN got
         ELSE [got EXCEPT ![Conn(sock[t])] = Append(@, from[t])]

Answer(t) ==
  /\ At(t, "answer") /\ Own(t) /\ Sends(t)
  /\ Goto(t, IF program = "http" THEN "close" ELSE "recv")
  /\ UNCHANGED <<fdt, inbox, sock, bufVars>>

Closes(t, l) ==
  /\ At(t, "close") /\ Goes(t, l)
  /\ fdt' = Closed(sock[t])
  /\ from' = [from EXCEPT ![t] = NoConn] /\ path' = [path EXCEPT ![t] = "NONE"]
  /\ UNCHANGED <<inbox, wait, handle, got>>
CloseSocketLoops(t) ==                   \* mutant: no break after the failed recv
  Closes(t, IF program = "time" THEN "recv" ELSE Ending)
CloseSocket(t) == Closes(t, Ending)

-----------------------------------------------------------------------------
(* client_thread of "files": fopen(path + 1), then perhaps opendir(path + 1) *)

Opens(t, paths, yes, no) ==
  /\ Own(t)
  /\ IF path[t] \in paths /\ LowestFree # {}
     THEN \E f \in LowestFree :
            /\ fdt' = [fdt EXCEPT ![f] = File] /\ handle' = [handle EXCEPT ![t] = f]
            /\ Goto(t, yes)
     ELSE UNCHANGED <<fdt, handle>> /\ Goto(t, no)
  /\ UNCHANGED <<inbox, sock, wait, from, path, got>>

\* fopen opens a directory for reading, too.
OpenFile(t) ==
  /\ At(t, "fopen")
  /\ Opens(t, {"FILE", "OTHER", "DIR"}, IF path[t] = "FILE" THEN "body" ELSE "fclose", "opendir")
OpenDir(t) == At(t, "opendir") /\ Opens(t, {"ROOT", "DIR"}, "body", "error")

SendBody(t) ==
  /\ At(t, "body") /\ Own(t) /\ Sends(t) /\ Goto(t, "closefile")
  /\ UNCHANGED <<fdt, inbox, sock, bufVars>>
SendError(t) ==
  /\ At(t, "error") /\ Own(t) /\ Sends(t) /\ Goto(t, "close")
  /\ UNCHANGED <<fdt, inbox, sock, bufVars>>

CloseFile(t) ==
  /\ up /\ pc[t] \in {"fclose", "closefile"} /\ Own(t)
  /\ Goto(t, IF pc[t] = "fclose" THEN "opendir" ELSE "close")
  /\ fdt' = Closed(handle[t]) /\ handle' = [handle EXCEPT ![t] = 0]
  /\ UNCHANGED <<inbox, sock, wait, from, path, got>>

-----------------------------------------------------------------------------
(* The ways the process dies *)

Dies ==
  /\ up' = FALSE
  /\ UNCHANGED <<mainVars, mainPc, cell, accepted, fdt, netVars, pc, sock, bufVars, robbed,
                 refused, got>>

\* A send to a client that left may raise SIGPIPE.  files handles the signal: wait
\* returns at once, for there are no children.
SigPipe ==
  /\ program # "files"
  /\ \E t \in Threads :
       /\ up /\ pc[t] \in {"greet", "answer"}
       /\ Conn(sock[t]) \in Conns /\ peer[Conn(sock[t])] = "gone"
  /\ Dies

\* files detaches a thread that it has not created: the one it created last, or what
\* was on the stack.
DetachesStale ==
  /\ program = "files" /\ up /\ mainPc = "create" /\ \A t \in Threads : pc[t] # "none"
  /\ Dies

-----------------------------------------------------------------------------
Init ==
  /\ program \in Programs /\ up = TRUE
  /\ limit \in MinFd..MaxFd /\ badLen \in {FALSE, program = "http"}
  /\ mainPc = "accept" /\ cell = 0 /\ accepted = NoConn /\ index = 0
  /\ taken = 0 /\ fdt = [f \in Fd |-> NoConn]
  /\ peer = [c \in Conns |-> "none"] /\ inbox = [c \in Conns |-> 0] /\ sent = 0
  /\ pc = [t \in Threads |-> "none"] /\ sock = [t \in Threads |-> 0]
  /\ wait = [t \in Threads |-> NoConn] /\ from = [t \in Threads |-> NoConn]
  /\ path = [t \in Threads |-> "NONE"] /\ handle = [t \in Threads |-> 0]
  /\ robbed = FALSE /\ refused = {}
  /\ got = [c \in Conns |-> <<>>]

Main ==
  \/ Accept \/ AcceptDrops \/ AcceptFails \/ CreateThread \/ CreateFails
Thread(t) ==
  \/ ReadArg(t) \/ Greet(t) \/ CallRecv(t) \/ Hear(t) \/ HearEnd(t) \/ Answer(t)
  \/ CloseSocket(t)
  \/ OpenFile(t) \/ OpenDir(t) \/ SendBody(t) \/ SendError(t) \/ CloseFile(t)
Next ==
  \/ \E c \in Conns : Connect(c) \/ Ask(c) \/ Hangup(c)
  \/ Main \/ \E t \in Threads : Thread(t)
  \/ SigPipe \/ DetachesStale

Spec == Init /\ [][Next]_vars

\* The kernel runs main and every thread that is ready.
FairSpec == Spec /\ WF_vars(Main) /\ \A t \in Threads : WF_vars(Thread(t))
=============================================================================
