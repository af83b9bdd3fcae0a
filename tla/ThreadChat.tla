----------------------------- MODULE ThreadChat -----------------------------
(***************************************************************************)
(* The threaded chat of BT11-6-2023/chat_server/chat_server.c: main()      *)
(* accepts connections, writes their descriptors into clients[] and starts *)
(* a thread for each; a thread asks for a name, counts itself in           *)
(* num_clients and broadcasts what its client says.  Nothing is locked:    *)
(* not num_clients, not clients[], not main's variable whose address every *)
(* thread is given, and not the place where strtok left off, which is one  *)
(* for the whole process.                                                  *)
(*                                                                         *)
(* A step is the code between two accesses to shared memory or the kernel. *)
(* A thread is named by the connection whose accept created it.            *)
(*                                                                         *)
(* Abstracted: texts (a line is one of Kinds, a message is its number),    *)
(* nameClients[], which is only printed, lines too long for the buffers,   *)
(* and clients that do not read.  The stack of a thread is not used again. *)
(***************************************************************************)
EXTENDS Integers, Sequences

CONSTANTS
  Conns,        \* the connections clients may make
  MaxFd,        \* descriptors 1..MaxFd are free for connections
  MaxClients,   \* MAX_CLIENTS
  Kinds,        \* the lines clients send when asked for a name, see AllKinds
  MaxSends,     \* bound: lines sent by all clients together
  MaxHangups,   \* bound: clients that hang up
  NoConn

AllKinds ==
  {"NAME",      \* client_id:name
   "SPACED",    \* client_id: and a name with a blank in it
   "SHORT",     \* client_id: and less than three characters
   "WORD",      \* another word, and a name
   "TEXT",      \* no colon
   "CUT"}       \* client_id: and nothing

ASSUME ConstantsAssumption ==
  /\ {MaxFd, MaxClients, MaxSends, MaxHangups} \subseteq Nat
  /\ Kinds \subseteq AllKinds
  /\ NoConn \notin Conns

Fd == 1..MaxFd
Terminal == 0      \* descriptor 0, which clients[] holds where nothing was stored
NoFd == -1         \* what accept returns when it fails
Index == 0..MaxClients - 1

VARIABLES
  up,        \* FALSE once the process has died
  mainPc,    \* main(): "accept", "cap", "store" or "create"
  cell,      \* main's variable `client'
  accepted,  \* the connection accepted last
  own,       \* own[c]: the descriptor accept returned for c (0 before)
  peer,      \* peer[c]: "none", "open", or "gone" once the client hung up
  fdt,       \* the process's descriptor table
  sent, hungup,  \* lines sent, and hang-ups, so far
  clients, num,  \* clients[], num_clients
  save, rest,    \* strtok's place: in the buffer of thread save, before a "fresh"
                 \* rest of its line, at the end of a line all "used", or there
                 \* with the buffer "refilled" by a later recv
  pc, sock, wait,      \* per thread: control, client, the connection recv holds
  line, blank, name,   \* its buf (who sent what), count > 0, whose name it has
  tmp, i,              \* num_clients as it read it; the loop's i
  crowd, mixed,  \* history: accept returned while another thread was yet to be
                 \* counted; two threads were between their two strtoks
  got            \* history: got[c]: the speakers of the messages sent to c

mainVars  == <<mainPc, cell, accepted, own>>
netVars   == <<peer, sent, hungup>>
arrayVars == <<clients, num>>
tokenVars == <<save, rest, mixed>>
nameVars  == <<line, blank, name>>
vars == <<up, mainVars, netVars, fdt, arrayVars, tokenVars, pc, sock, wait, nameVars, tmp, i,
          crowd, got>>

At(t, ls) == up /\ pc[t] \in ls
Goto(t, l) == pc' = [pc EXCEPT ![t] = l]

\* Threads that will be counted, but are not yet.
Uncounted == {"start", "greet", "ask", "name", "token", "count", "inc"}

-----------------------------------------------------------------------------
(* main() *)

LowestFree == {f \in Fd : fdt[f] = NoConn /\ \A g \in Fd : fdt[g] = NoConn => f <= g}

\* The connection a descriptor denotes, if any.
Conn(f) == IF f \in Fd THEN fdt[f] ELSE NoConn
Closed(f) == [g \in Fd |-> IF g = f THEN NoConn ELSE fdt[g]]

Crowded == crowd' = (crowd \/ \E t \in Conns : pc[t] \in Uncounted)

Accept(c) ==
  /\ up /\ mainPc = "accept" /\ peer[c] = "none"
  /\ peer' = [peer EXCEPT ![c] = "open"]
  /\ \E f \in LowestFree :
       /\ fdt' = [fdt EXCEPT ![f] = c]
       /\ own' = [own EXCEPT ![c] = f]
       /\ cell' = f
  /\ accepted' = c /\ mainPc' = "cap"
  /\ Crowded
  /\ UNCHANGED <<up, sent, hungup, arrayVars, tokenVars, pc, sock, wait, nameVars, tmp, i, got>>

\* No descriptor is left, whether a client waits or not; accept is called again at
\* once, but `client' is -1.
AcceptFails ==
  /\ up /\ mainPc = "accept" /\ LowestFree = {}
  /\ cell' = NoFd
  /\ Crowded
  /\ UNCHANGED <<up, mainPc, accepted, own, netVars, fdt, arrayVars, tokenVars, pc, sock, wait,
                 nameVars, tmp, i, got>>

\* main goes on at l, with the connection still open or closed.
Main(l, table) ==
  /\ mainPc' = l /\ fdt' = table
  /\ UNCHANGED <<up, cell, accepted, own, netVars, tokenVars, sock, wait, nameVars, tmp, i,
                 crowd, got>>

Admits == num < MaxClients
Cap ==
  /\ up /\ mainPc = "cap" /\ Admits
  /\ Main("store", fdt)
  /\ UNCHANGED <<arrayVars, pc>>

Refuse ==
  /\ up /\ mainPc = "cap" /\ ~Admits
  /\ Main("accept", Closed(cell))
  /\ UNCHANGED <<arrayVars, pc>>

\* clients[num_clients] = client : num_clients as it is now.
SlotNext == IF num + 1 \in Index THEN num + 1 ELSE num    \* mutant: one slot too far
Slot == num
Store ==
  /\ up /\ mainPc = "store" /\ num \in Index
  /\ Main("create", fdt)
  /\ clients' = [clients EXCEPT ![Slot] = cell]
  /\ UNCHANGED <<num, pc>>

CreateThread ==
  /\ up /\ mainPc = "create"
  /\ Main("accept", fdt)
  /\ Goto(accepted, "start")
  /\ UNCHANGED arrayVars

CreateFails ==
  /\ up /\ mainPc = "create"
  /\ Main("accept", Closed(cell))
  /\ UNCHANGED <<arrayVars, pc>>

Hangup(c) ==
  /\ up /\ peer[c] = "open" /\ hungup < MaxHangups
  /\ peer' = [peer EXCEPT ![c] = "gone"]
  /\ hungup' = hungup + 1
  /\ UNCHANGED <<up, mainVars, sent, fdt, arrayVars, tokenVars, pc, sock, wait, nameVars, tmp,
                 i, crowd, got>>

-----------------------------------------------------------------------------
(* handle_client: the naming dialogue *)

\* A step of thread t's own control, and what it leaves alone.
Own(t, l) ==
  /\ Goto(t, l)
  /\ UNCHANGED <<up, mainVars, netVars, clients, crowd>>

ReadArg(t) ==
  /\ At(t, {"start"})
  /\ Own(t, "greet")
  /\ sock' = [sock EXCEPT ![t] = cell]
  /\ UNCHANGED <<fdt, num, tokenVars, wait, nameVars, tmp, i, got>>

\* send fails only on a descriptor that is closed.
Greet(t) ==
  /\ At(t, {"greet"})
  /\ Own(t, IF Conn(sock[t]) = NoConn THEN "close" ELSE "ask")
  /\ UNCHANGED <<fdt, num, tokenVars, sock, wait, nameVars, tmp, i, got>>

\* recv fails at once on a closed descriptor; otherwise it holds the connection
\* until it returns.  From the dialogue a failed recv leads on, nameless.
CallRecv(t) ==
  /\ At(t, {"ask", "talk"})
  /\ wait' = [wait EXCEPT ![t] = Conn(sock[t])]
  /\ Own(t, CASE pc[t] = "ask" -> IF Conn(sock[t]) = NoConn THEN "count" ELSE "name"
              [] pc[t] = "talk" -> IF Conn(sock[t]) = NoConn THEN "close" ELSE "hear")
  /\ name' = IF pc[t] = "ask" THEN [name EXCEPT ![t] = NoConn] ELSE name
  /\ UNCHANGED <<fdt, num, tokenVars, sock, line, blank, tmp, i, got>>

LeaveUncounted(t) ==              \* mutant: return for break
  /\ At(t, {"name", "hear"}) /\ peer[wait[t]] = "gone"
  /\ wait' = [wait EXCEPT ![t] = NoConn]
  /\ Own(t, "close")
  /\ UNCHANGED <<fdt, num, tokenVars, sock, nameVars, tmp, i, got>>
Leave(t) ==
  /\ At(t, {"name", "hear"}) /\ peer[wait[t]] = "gone"
  /\ wait' = [wait EXCEPT ![t] = NoConn]
  /\ Own(t, IF pc[t] = "name" THEN "count" ELSE "close")
  /\ UNCHANGED <<fdt, num, tokenVars, sock, nameVars, tmp, i, got>>

\* recv returns a line of the client's into t's buffer.
Receive(t, l) ==
  /\ peer[wait[t]] = "open" /\ sent < MaxSends
  /\ sent' = sent + 1
  /\ wait' = [wait EXCEPT ![t] = NoConn]
  /\ Goto(t, l)
  /\ UNCHANGED <<up, mainVars, peer, hungup, fdt, arrayVars, sock, blank, name, tmp, crowd, got>>

\* Without a colon the dialogue goes on; else strtok cuts off the part before it.
Answer(t) ==
  /\ At(t, {"name"})
  /\ \E kind \in Kinds :
       /\ line' = [line EXCEPT ![t] = [from |-> wait[t], kind |-> kind]]
       /\ IF kind = "TEXT"
          THEN /\ Receive(t, "ask")
               /\ rest' = IF save = t /\ rest = "used" THEN "refilled" ELSE rest
               /\ UNCHANGED <<save, mixed>>
          ELSE /\ Receive(t, "token")
               /\ save' = t /\ rest' = "fresh"
               /\ mixed' = (mixed \/ \E u \in Conns \ {t} : pc[u] = "token")
  /\ UNCHANGED i

\* id is "client_id", the name is long enough, and count < 1.
AcceptsSpaced(t, long, b) == line[t].kind # "WORD" /\ long   \* mutant: no look at count
Accepts(t, long, b) == line[t].kind # "WORD" /\ long /\ ~b

\* Blanks are looked for from the second character on: one after the colon is right.
HasBlankFromZero(kind) == kind # "SHORT"             \* mutant: from the first
HasBlank(kind) == kind = "SPACED"

\* strtok(NULL, ":") finds the rest of the line that was cut last, of whichever
\* thread, and takes it as the name; s is whose name that is.
TakeName(t, s, long, hasBlank) ==
  /\ name' = [name EXCEPT ![t] = s]
  /\ blank' = [blank EXCEPT ![t] = @ \/ hasBlank]
  /\ rest' = "used"
  /\ Own(t, IF Accepts(t, long, blank[t] \/ hasBlank) THEN "count" ELSE "ask")
  /\ UNCHANGED <<save, mixed, fdt, num, sock, wait, line, tmp, i, got>>

Token(t) ==
  /\ At(t, {"token"}) /\ rest = "fresh" /\ line[save].kind # "CUT"
  /\ TakeName(t, line[save].from, line[save].kind # "SHORT", HasBlank(line[save].kind))

\* In a refilled buffer strtok finds part of another line, which is any name.
TokenOfRefill(t) ==
  /\ At(t, {"token"}) /\ rest = "refilled"
  /\ \E long, hasBlank \in BOOLEAN : TakeName(t, NoConn, long, hasBlank)

\* num_clients++ : a load and a store.
Load(t) ==
  /\ At(t, {"count"})
  /\ tmp' = [tmp EXCEPT ![t] = num]
  /\ Own(t, "inc")
  /\ UNCHANGED <<fdt, num, tokenVars, sock, wait, nameVars, i, got>>
CountSelf(t) ==
  /\ At(t, {"inc"})
  /\ num' = tmp[t] + 1
  /\ Own(t, "talk")
  /\ UNCHANGED <<fdt, tokenVars, sock, wait, nameVars, tmp, i, got>>

-----------------------------------------------------------------------------
(* handle_client: the broadcast *)

Hear(t) ==
  /\ At(t, {"hear"})
  /\ line' = [line EXCEPT ![t] = [from |-> wait[t], kind |-> "TEXT"]]
  /\ Receive(t, "cast")
  /\ i' = [i EXCEPT ![t] = 0]
  /\ rest' = IF save = t /\ rest = "used" THEN "refilled" ELSE rest
  /\ UNCHANGED <<save, mixed>>

\* i < num_clients and clients[i] != client, read now; clients[i] is read again
\* for the send.  num_clients may be past the end of clients[], and i follow it.
SkipsNone(t) == FALSE                \* mutant: the test is dropped
Skips(t) == clients[i[t]] = sock[t]
Test(t) ==
  /\ At(t, {"cast"}) /\ i[t] < num /\ i[t] \in Index
  /\ Own(t, IF Skips(t) THEN "cast" ELSE "send")
  /\ i' = IF Skips(t) THEN [i EXCEPT ![t] = @ + 1] ELSE i
  /\ UNCHANGED <<fdt, num, tokenVars, sock, wait, nameVars, tmp, got>>

\* What clients[i] is when send is called; the terminal is no socket.
Target(t) == Conn(clients[i[t]])
Send(t) ==
  /\ At(t, {"send"})
  /\ got' = IF Target(t) = NoConn THEN got
            ELSE [got EXCEPT ![Target(t)] = Append(@, line[t].from)]
  /\ i' = [i EXCEPT ![t] = @ + 1]
  /\ Own(t, "cast")
  /\ UNCHANGED <<fdt, num, tokenVars, sock, wait, nameVars, tmp>>

CastEnd(t) ==
  /\ At(t, {"cast"}) /\ i[t] >= num
  /\ Own(t, "talk")
  /\ UNCHANGED <<fdt, num, tokenVars, sock, wait, nameVars, tmp, i, got>>

CloseUncounted(t) ==         \* mutant: whoever leaves is counted out, counted in or not
  /\ At(t, {"close"})
  /\ fdt' = Closed(sock[t]) /\ num' = num - 1
  /\ Own(t, "done")
  /\ UNCHANGED <<tokenVars, sock, wait, nameVars, tmp, i, got>>
CloseSocket(t) ==
  /\ At(t, {"close"})
  /\ fdt' = Closed(sock[t])
  /\ Own(t, "done")
  /\ UNCHANGED <<num, tokenVars, sock, wait, nameVars, tmp, i, got>>

-----------------------------------------------------------------------------
(* The ways the process dies *)

Dies ==
  /\ up' = FALSE
  /\ UNCHANGED <<mainVars, netVars, fdt, arrayVars, tokenVars, pc, sock, wait, nameVars, tmp, i,
                 crowd, got>>

\* A send to a peer that closed its end may raise SIGPIPE.
Gone(c) == c \in Conns /\ peer[c] = "gone"
SigPipe ==
  /\ \E t \in Conns :
       \/ At(t, {"greet"}) /\ Gone(Conn(sock[t]))
       \/ At(t, {"send"}) /\ Gone(Target(t))
  /\ Dies

\* strtok finds nothing and returns NULL.
SegFault ==
  /\ \E t \in Conns :
       /\ At(t, {"token"})
       /\ rest \in {"used", "refilled"} \/ line[save].kind = "CUT"
  /\ Dies

\* An access past the end of clients[] or nameClients[]: nothing is claimed of what
\* follows.  The name copied past the end may also fall where it does no harm: then
\* CountSelf counts on, without end.
Overrun ==
  /\ \/ up /\ mainPc = "store" /\ num \notin Index
     \/ \E t \in Conns : At(t, {"inc"}) /\ tmp[t] \notin Index
     \/ \E t \in Conns : At(t, {"cast"}) /\ i[t] < num /\ i[t] \notin Index
  /\ Dies

-----------------------------------------------------------------------------
Init ==
  /\ up = TRUE
  /\ mainPc = "accept" /\ cell = 0 /\ accepted = NoConn /\ own = [c \in Conns |-> 0]
  /\ peer = [c \in Conns |-> "none"] /\ sent = 0 /\ hungup = 0
  /\ fdt = [f \in Fd |-> NoConn]
  /\ clients = [k \in Index |-> Terminal] /\ num = 0
  /\ save = NoConn /\ rest = "used"
  /\ pc = [t \in Conns |-> "none"]
  /\ sock = [t \in Conns |-> 0] /\ wait = [t \in Conns |-> NoConn]
  /\ line = [t \in Conns |-> [from |-> NoConn, kind |-> "TEXT"]]
  /\ blank = [t \in Conns |-> FALSE] /\ name = [t \in Conns |-> NoConn]
  /\ tmp = [t \in Conns |-> 0] /\ i = [t \in Conns |-> 0]
  /\ crowd = FALSE /\ mixed = FALSE
  /\ got = [c \in Conns |-> <<>>]

Thread(t) ==
  \/ ReadArg(t) \/ Greet(t) \/ CallRecv(t) \/ Leave(t) \/ Answer(t) \/ Token(t)
  \/ TokenOfRefill(t) \/ Load(t) \/ CountSelf(t) \/ Hear(t) \/ Test(t) \/ Send(t) \/ CastEnd(t)
  \/ CloseSocket(t)

Next ==
  \/ \E c \in Conns : Accept(c) \/ Hangup(c) \/ Thread(c)
  \/ AcceptFails \/ Cap \/ Refuse \/ Store \/ CreateThread \/ CreateFails
  \/ SigPipe \/ SegFault \/ Overrun

Spec == Init /\ [][Next]_vars
=============================================================================
