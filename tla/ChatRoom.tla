------------------------------ MODULE ChatRoom ------------------------------
(***************************************************************************)
(* The room server of BT10-7-2023/chat_server.c: main() accepts            *)
(* connections and starts one thread per connection, every thread runs     *)
(* handle_client, and all threads share -- without any lock -- a doubly    *)
(* linked list of users (head), a pointer to the operator's node (key) and *)
(* Topic.  A step of a thread is the code between two accesses to shared   *)
(* memory or to the kernel, so two handlers interleave where they do in    *)
(* the program.                                                            *)
(*                                                                         *)
(* Descriptors are small numbers that the kernel reuses, lowest first; a   *)
(* user's node keeps a number, not a connection, and is never removed when *)
(* the connection ends.  The process dies of SIGSEGV (SegFault) and, as it *)
(* never ignores SIGPIPE, of a send to a peer that is gone (SigPipe).  A   *)
(* send to a client that does not read blocks the handler, possibly for    *)
(* ever (Block).                                                           *)
(*                                                                         *)
(* Abstracted: the text of requests (a command and one name), the replies  *)
(* and broadcast texts (nameclient appears in nothing else), a request     *)
(* split or glued by TCP (it parses as another request of the set).        *)
(***************************************************************************)
EXTENDS Integers

CONSTANTS
  Conns,        \* the connections clients may make; a handler is named by the
                \* connection whose accept created it
  MaxFd,        \* descriptors 1..MaxFd are free for connections
  MaxNodes,     \* bound: nodes for which malloc finds memory
  MaxRequests,  \* bound: requests sent by all clients together
  MaxHangups,   \* bound: how many clients hang up
  Leaving,      \* bound: the clients that may hang up
  Stalling,     \* bound: the clients that may stop reading what they are sent
  Names,        \* nicknames, all accepted by checkName
  Requests,     \* the requests clients may send: <<client, command, name>>
  NoConn, NoName

AllCommands ==
  {"JOIN", "BADNICK", "MSG", "PMSG", "KICK", "OP", "TOPIC", "QUIT", "OTHER"}

ASSUME ConstantsAssumption ==
  /\ {MaxFd, MaxNodes, MaxRequests, MaxHangups} \subseteq Nat
  /\ Requests \subseteq Conns \X AllCommands \X (Names \cup {NoName})
  /\ {Leaving, Stalling} \subseteq SUBSET Conns
  /\ NoConn \notin Conns /\ NoName \notin Names

NULL == 0          \* the null pointer
Junk == -1         \* a pointer field malloc left uninitialised
NoFd == -1         \* what accept returns when it fails
Node == 1..MaxNodes
Fd == 1..MaxFd

VARIABLES
  up,        \* FALSE once a signal has killed the process
  mainPc,    \* main(): "accept", or "create" with a connection to hand over
  cell,      \* main's only variable `client', whose address every thread gets
  accepted,  \* the connection accepted last
  own,       \* own[c]: the descriptor accept returned for c (0 before)
  peer,      \* peer[c]: "none", "open", or "gone" once the client hung up
  fdt,       \* the process's descriptor table
  sent, hungup,   \* requests sent, and hang-ups, so far
  pc, sock, last, cur, mine,   \* handle_client: control, client, last,
             \* current, and the node createUser is linking
  wait,      \* the connection a blocked recv or send holds, whatever fdt says now
  head, key, topic, alloc, user, next, prev,   \* the shared list: nodes
             \* 1..alloc exist, numbered in the order they were published
  seen,      \* history: alloc when the JOIN in progress began its scan
  kicked,    \* history: nodes a KICK has unlinked
  clash,     \* history: two list updates have overlapped in time
  robbed     \* history: connections whose descriptor another handler, or a
             \* KICK, closed

procVars == <<up, mainPc, cell, accepted, own>>
netVars  == <<peer, fdt, sent, hungup>>
ptrVars  == <<head, alloc, user, next, prev>>
history  == <<kicked, clash, robbed>>
shared   == <<procVars, netVars, ptrVars, key, topic, history>>
locals   == <<sock, last, cur, mine, seen, wait>>
vars     == <<shared, pc, locals>>

-----------------------------------------------------------------------------
(* Control flow of a handler *)

\* t waits in a send: it is at the step that sends, and takes it when send returns.
Blocked(t) == pc[t] # "recv" /\ wait[t] # NoConn
At(t, ls) == up /\ pc[t] \in ls /\ ~Blocked(t)
Goto(t, l) == pc' = [pc EXCEPT ![t] = l] /\ UNCHANGED locals

\* Continue at l with `current' at n.
Visit(t, l, n) ==
  /\ pc' = [pc EXCEPT ![t] = l]
  /\ cur' = [cur EXCEPT ![t] = n]
  /\ UNCHANGED <<sock, last, mine, seen, wait>>

\* Nothing is left to do, or but to reply; the request's locals are dead and cleared.
Finish(t, l) ==
  /\ pc'   = [pc EXCEPT ![t] = l]
  /\ last' = [last EXCEPT ![t] = NoName]
  /\ cur'  = [cur EXCEPT ![t] = NULL]
  /\ mine' = [mine EXCEPT ![t] = NULL]
  /\ seen' = [seen EXCEPT ![t] = 0]
  /\ UNCHANGED <<sock, wait>>
EndRequest(t) == Finish(t, "recv?")      \* back to the top of the loop

\* What a thread that reads current->next continues with.  A field that malloc
\* left uninitialised reads as NULL, or as an address that SegFault covers.
FollowRaw(n) == next[n]     \* mutant: a link used uninitialised
Follow(n) == IF next[n] = Junk THEN NULL ELSE next[n]

\* A list update in progress: createUser from its test of `head' to its last
\* store, and KICK from its search to its last store.
Creating == {"create", "found", "foundlinks", "crown", "tail", "tailnext", "link", "links"}
Unlinking == {"unlink", "relink"}
Kicking == {"KICK-find"} \cup Unlinking
OthersIn(t, ls) == \E u \in Conns \ {t} : pc[u] \in ls

-----------------------------------------------------------------------------
(* main(): accept, pthread_create; and the clients.                         *)

\* The connection a descriptor denotes: calls on one that denotes none fail.
Conn(f) == IF f \in Fd THEN fdt[f] ELSE NoConn
Closed(f) == [g \in Fd |-> IF g = f THEN NoConn ELSE fdt[g]]

\* The kernel's choice of a descriptor: none if the table is full.
LowestFree == {f \in Fd : fdt[f] = NoConn /\ \A g \in Fd : fdt[g] = NoConn => f <= g}

Accept(c) ==
  /\ up /\ mainPc = "accept" /\ peer[c] = "none"
  /\ peer' = [peer EXCEPT ![c] = "open"]
  /\ \E f \in LowestFree :
       /\ fdt' = [fdt EXCEPT ![f] = c]
       /\ own' = [own EXCEPT ![c] = f]
       /\ cell' = f
  /\ accepted' = c /\ mainPc' = "create"
  /\ UNCHANGED <<up, sent, hungup, pc, locals, ptrVars, key, topic, history>>

\* accept finds no descriptor: its -1 is stored where the threads read, and it is called
\* again at once.
AcceptFails ==
  /\ up /\ mainPc = "accept" /\ LowestFree = {}
  /\ cell' = NoFd
  /\ UNCHANGED <<up, mainPc, accepted, own, netVars, pc, locals, ptrVars, key, topic, history>>

CreateThread ==
  /\ up /\ mainPc = "create"
  /\ mainPc' = "accept"
  /\ Goto(accepted, "start")
  /\ UNCHANGED <<up, cell, accepted, own, netVars, ptrVars, key, topic, history>>

CreateFails ==
  /\ up /\ mainPc = "create"
  /\ mainPc' = "accept"
  /\ fdt' = [fdt EXCEPT ![cell] = NoConn]
  /\ UNCHANGED <<up, cell, accepted, own, peer, sent, hungup, pc, locals, ptrVars, key,
                 topic, history>>

Hangup(c) ==
  /\ up /\ peer[c] = "open" /\ c \in Leaving /\ hungup < MaxHangups
  /\ peer' = [peer EXCEPT ![c] = "gone"]
  /\ hungup' = hungup + 1
  /\ UNCHANGED <<procVars, fdt, sent, pc, locals, ptrVars, key, topic, history>>

-----------------------------------------------------------------------------
(* handle_client: the loop around recv *)

\* int client = *(int *)arg : main's variable as it is now.
ReadArg(t) ==
  /\ At(t, {"start"})
  /\ pc' = [pc EXCEPT ![t] = "recv?"]
  /\ sock' = [sock EXCEPT ![t] = cell]
  /\ UNCHANGED <<shared, last, cur, mine, seen, wait>>

\* recv on a closed descriptor fails at once; otherwise the call holds the
\* connection until it returns, even if the descriptor is closed meanwhile.
CallRecv(t) ==
  /\ At(t, {"recv?"})
  /\ pc' = [pc EXCEPT ![t] = IF Conn(sock[t]) = NoConn THEN "close" ELSE "recv"]
  /\ wait' = [wait EXCEPT ![t] = Conn(sock[t])]
  /\ UNCHANGED <<shared, sock, last, cur, mine, seen>>

Receive(t) ==
  /\ At(t, {"recv"}) /\ peer[wait[t]] = "open" /\ sent < MaxRequests
  /\ \E cmd \in AllCommands, n \in Names \cup {NoName} :
       /\ <<t, cmd, n>> \in Requests
       /\ pc' = [pc EXCEPT ![t] = cmd]
       /\ last' = [last EXCEPT ![t] = n]
  /\ sent' = sent + 1
  /\ wait' = [wait EXCEPT ![t] = NoConn]
  /\ UNCHANGED <<procVars, peer, fdt, hungup, sock, cur, mine, seen, ptrVars, key, topic,
                 history>>

\* Mutant: the handler returns from the failed recv without closing.
LeaveOpen(t) ==
  /\ At(t, {"recv"}) /\ peer[wait[t]] = "gone"
  /\ pc' = [pc EXCEPT ![t] = "done"]
  /\ wait' = [wait EXCEPT ![t] = NoConn]
  /\ UNCHANGED <<shared, sock, last, cur, mine, seen>>

\* Mutant: QUIT closes the socket before it breaks, too.
LeaveTwice(t) ==
  /\ \/ At(t, {"recv"}) /\ peer[wait[t]] = "gone"
     \/ At(t, {"QUIT"})
  /\ pc' = [pc EXCEPT ![t] = "close"]
  /\ wait' = [wait EXCEPT ![t] = NoConn]
  /\ fdt' = IF pc[t] = "QUIT" THEN Closed(sock[t]) ELSE fdt
  /\ UNCHANGED <<procVars, peer, sent, hungup, ptrVars, key, topic, history, sock, last, cur,
                 mine, seen>>

\* recv returns 0 or -1 and the loop breaks; or QUIT was answered.
Leave(t) ==
  /\ \/ At(t, {"recv"}) /\ peer[wait[t]] = "gone"
     \/ At(t, {"QUIT"})
  /\ pc' = [pc EXCEPT ![t] = "close"]
  /\ wait' = [wait EXCEPT ![t] = NoConn]
  /\ UNCHANGED <<shared, sock, last, cur, mine, seen>>

ClosedArg(t) == cell         \* mutant: closes *(int *)arg, not its copy
ClosedFd(t) == sock[t]

\* close(client); pthread_exit.  The user's nodes stay in the list.
CloseSocket(t) ==
  /\ At(t, {"close"})
  /\ Goto(t, "done")
  /\ fdt' = Closed(ClosedFd(t))
  /\ robbed' = robbed \cup ({Conn(ClosedFd(t))} \cap (Conns \ {t}))
  /\ UNCHANGED <<procVars, peer, sent, hungup, ptrVars, key, topic, kicked, clash>>

\* 201 INVALID NICK NAME, 999 UNKNOWN ERROR
Refuse(t) == At(t, {"BADNICK", "OTHER"}) /\ EndRequest(t) /\ UNCHANGED shared

\* The reply to a request whose work is done: 203 DENIED, and 100 OK of OP.
Reply(t) == At(t, {"reply"}) /\ Goto(t, "recv?") /\ UNCHANGED shared

-----------------------------------------------------------------------------
(* JOIN: scan the list for the name, createUser *)

JoinBegin(t) ==
  /\ At(t, {"JOIN"})
  /\ pc' = [pc EXCEPT ![t] = "scan"]
  /\ cur' = [cur EXCEPT ![t] = head]
  /\ seen' = [seen EXCEPT ![t] = alloc]
  /\ UNCHANGED <<shared, sock, last, mine, wait>>

SameNameButHead(t, n) == n # head /\ user[n].name = last[t]  \* mutant
SameName(t, n) == user[n].name = last[t]

\* One turn of the loop that counts the users of that name; "dup": count != 0.
Scan(t) ==
  /\ At(t, {"scan", "dup"}) /\ cur[t] # NULL
  /\ Visit(t, IF SameName(t, cur[t]) THEN "dup" ELSE pc[t], Follow(cur[t]))
  /\ UNCHANGED shared

NameInUse(t) == At(t, {"dup"}) /\ cur[t] = NULL /\ EndRequest(t) /\ UNCHANGED shared

NameFree(t) ==
  /\ At(t, {"scan"}) /\ cur[t] = NULL
  /\ Goto(t, "create")
  /\ clash' = (clash \/ OthersIn(t, Creating \cup Unlinking))
  /\ UNCHANGED <<procVars, netVars, ptrVars, key, topic, kicked, robbed>>

\* Mutant: every user founds the list anew.
TestHeadNot(t) ==
  At(t, {"create"}) /\ Visit(t, "found", head) /\ UNCHANGED shared

TestHead(t) ==
  /\ At(t, {"create"})
  /\ Visit(t, IF head = NULL THEN "found" ELSE "tail", head)
  /\ UNCHANGED shared

\* createUser's malloc and first stores, taken when the node is published: until
\* then no other thread can see it.
NewNode == alloc + 1
NewUserByCell(t) ==           \* mutant: stores main's variable, not the copy
  [name |-> last[t], numclient |-> cell, owner |-> t, base |-> seen[t]]
NewUser(t) == [name |-> last[t], numclient |-> sock[t], owner |-> t, base |-> seen[t]]
Publish(t) ==
  /\ alloc < MaxNodes
  /\ alloc' = NewNode
  /\ user' = [user EXCEPT ![NewNode] = NewUser(t)]
  /\ mine' = [mine EXCEPT ![t] = NewNode]
  /\ UNCHANGED <<procVars, netVars, prev, key, topic, history, sock, last, cur, seen,
                 wait>>

\* head = user; ...
FoundRoom(t) ==
  /\ At(t, {"found"}) /\ Publish(t)
  /\ head' = NewNode
  /\ pc' = [pc EXCEPT ![t] = "foundlinks"]
  /\ UNCHANGED next

\* ... user->next = NULL; user->prev = NULL; ...
FoundLinks(t) ==
  /\ At(t, {"foundlinks"})
  /\ next' = [next EXCEPT ![mine[t]] = NULL]
  /\ prev' = [prev EXCEPT ![mine[t]] = NULL]
  /\ Goto(t, "crown")
  /\ UNCHANGED <<procVars, netVars, head, alloc, user, key, topic, history>>

\* ... key = user
Crown(t) ==
  /\ At(t, {"crown"})
  /\ key' = mine[t]
  /\ Goto(t, "joined")
  /\ UNCHANGED <<procVars, netVars, ptrVars, topic, history>>

\* while (current->next != NULL) current = current->next, which reads twice.
TailTest(t) ==
  /\ At(t, {"tail"}) /\ cur[t] # NULL
  /\ Goto(t, IF Follow(cur[t]) = NULL THEN "link" ELSE "tailnext")
  /\ UNCHANGED shared

TailNext(t) ==
  At(t, {"tailnext"}) /\ Visit(t, "tail", Follow(cur[t])) /\ UNCHANGED shared

\* current->next = user; ...
LinkTail(t) ==
  /\ At(t, {"link"}) /\ Publish(t)
  /\ next' = [next EXCEPT ![cur[t]] = NewNode]
  /\ pc' = [pc EXCEPT ![t] = "links"]
  /\ UNCHANGED head

\* ... user->prev = current; user->next = NULL
TerminatedRing(t) == [next EXCEPT ![mine[t]] = head]   \* mutant: a ring
Terminated(t) == [next EXCEPT ![mine[t]] = NULL]
TailLinks(t) ==
  /\ At(t, {"links"})
  /\ prev' = [prev EXCEPT ![mine[t]] = cur[t]]
  /\ next' = Terminated(t)
  /\ Goto(t, "joined")
  /\ UNCHANGED <<procVars, netVars, head, alloc, user, key, topic, history>>

-----------------------------------------------------------------------------
(* The broadcast that ends JOIN and that MSG is; a turn sends to the node's  *)
(* descriptor (see Forwards) and goes on.  JOIN replies 100 OK before it     *)
(* reads head, MSG after that.                                               *)

CastBegin(t) == At(t, {"joined"}) /\ Visit(t, "cast", head) /\ UNCHANGED shared
MsgBegin(t) == At(t, {"MSG"}) /\ Visit(t, "msgok", head) /\ UNCHANGED shared
MsgReply(t) == At(t, {"msgok"}) /\ Goto(t, "cast") /\ UNCHANGED shared

Cast(t) ==
  /\ At(t, {"cast"}) /\ cur[t] # NULL
  /\ Visit(t, "cast", Follow(cur[t]))
  /\ UNCHANGED shared

CastEnd(t) == At(t, {"cast"}) /\ cur[t] = NULL /\ EndRequest(t) /\ UNCHANGED shared

-----------------------------------------------------------------------------
(* PMSG, and the operator's commands KICK, OP and TOPIC *)

Searching == {"PMSG-find", "KICK-find", "OP-find"}

PmsgBegin(t) == At(t, {"PMSG"}) /\ Visit(t, "PMSG-find", head) /\ UNCHANGED shared

IsOperator(t) == user[key].numclient = sock[t]
MayCommandAlways(t) == TRUE      \* mutant: the check of key->numclient dropped
MayCommand(t) == IsOperator(t)
Granted(cmd) ==
  CASE cmd = "KICK" -> "KICK-find" [] cmd = "OP" -> "OP-find" [] OTHER -> "set"

Grant(t) ==
  /\ At(t, {"KICK", "OP", "TOPIC"}) /\ key # NULL /\ MayCommand(t)
  /\ Visit(t, Granted(pc[t]), IF pc[t] = "TOPIC" THEN NULL ELSE head)
  /\ clash' = (clash \/ (pc[t] = "KICK" /\ OthersIn(t, Kicking)))
  /\ UNCHANGED <<procVars, netVars, ptrVars, key, topic, kicked, robbed>>

Deny(t) ==
  /\ At(t, {"KICK", "OP", "TOPIC"}) /\ key # NULL /\ ~MayCommand(t)
  /\ Finish(t, "reply")
  /\ UNCHANGED shared

\* OP stops at the first user whose name DIFFERS: strcmp is not compared with 0.
Hit(t) == IF pc[t] = "OP-find" THEN ~SameName(t, cur[t]) ELSE SameName(t, cur[t])

Search(t) ==
  /\ At(t, Searching) /\ cur[t] # NULL /\ ~Hit(t)
  /\ Visit(t, pc[t], Follow(cur[t]))
  /\ UNCHANGED shared

UnknownName(t) == At(t, Searching) /\ cur[t] = NULL /\ EndRequest(t) /\ UNCHANGED shared

Deliver(t) ==
  At(t, {"PMSG-find"}) /\ cur[t] # NULL /\ Hit(t) /\ EndRequest(t) /\ UNCHANGED shared

HeirNext(t) == Follow(cur[t]) \* mutant: one node too far
Heir(t) == cur[t]
PassOperator(t) ==
  /\ At(t, {"OP-find"}) /\ cur[t] # NULL /\ Hit(t)
  /\ key' = Heir(t)
  /\ Finish(t, "reply")
  /\ UNCHANGED <<procVars, netVars, ptrVars, topic, history>>

SetTopic(t) ==
  /\ At(t, {"set"})
  /\ topic' = last[t]
  /\ EndRequest(t)
  /\ UNCHANGED <<procVars, netVars, ptrVars, key, history>>

KickFound(t) ==
  /\ At(t, {"KICK-find"}) /\ cur[t] # NULL /\ Hit(t)
  /\ Goto(t, "unlink")
  /\ clash' = (clash \/ OthersIn(t, Creating))
  /\ UNCHANGED <<procVars, netVars, ptrVars, key, topic, kicked, robbed>>

\* current->prev->next = current->next
UnlinkedBack(n) == [next EXCEPT ![n] = prev[n]]        \* mutant: sides swapped
Unlinked(n) == [next EXCEPT ![prev[n]] = next[n]]
Unlink(t) ==
  /\ At(t, {"unlink"}) /\ prev[cur[t]] \in Node
  /\ next' = Unlinked(cur[t])
  /\ Goto(t, "relink")
  /\ UNCHANGED <<procVars, netVars, head, alloc, user, prev, key, topic, history>>

\* current->next->prev = current->prev; close(current->numclient)
RelinkedNot(n) == prev         \* mutant: the second store forgotten
Relinked(n) == [prev EXCEPT ![next[n]] = prev[n]]
Relink(t) ==
  /\ At(t, {"relink"}) /\ next[cur[t]] \in Node
  /\ prev' = Relinked(cur[t])
  /\ kicked' = kicked \cup {cur[t]}
  /\ fdt' = [fdt EXCEPT ![user[cur[t]].numclient] = NoConn]
  /\ robbed' = robbed \cup ({fdt[user[cur[t]].numclient]} \cap Conns)
  /\ EndRequest(t)
  /\ UNCHANGED <<procVars, peer, sent, hungup, head, alloc, user, next, key, topic, clash>>

-----------------------------------------------------------------------------
(* Sending *)

\* The descriptors t's next step sends to: replies to its own client, ...
Replies(t) ==
  \/ pc[t] \in {"BADNICK", "OTHER", "QUIT", "joined", "msgok", "set", "reply"}
  \/ pc[t] \in Searching \cup {"dup"} /\ cur[t] = NULL
  \/ pc[t] \in {"PMSG-find", "KICK-find"} /\ cur[t] # NULL /\ Hit(t)

\* ... and texts for other users.
Forwards(t) ==
  \/ pc[t] = "cast" /\ cur[t] # NULL /\ user[cur[t]].numclient # sock[t]
  \/ pc[t] = "PMSG-find" /\ cur[t] # NULL /\ Hit(t)

Sends(t) == (IF Replies(t) THEN {sock[t]} ELSE {})
            \cup (IF Forwards(t) THEN {user[cur[t]].numclient} ELSE {})

\* A send finds the buffers of a connection full: its client does not read.
Block(t) ==
  /\ up /\ ~Blocked(t)
  /\ \E f \in Sends(t) :
       /\ fdt[f] \in Stalling /\ peer[fdt[f]] = "open"
       /\ wait' = [wait EXCEPT ![t] = fdt[f]]
  /\ UNCHANGED <<shared, pc, sock, last, cur, mine, seen>>

\* It returns when the client reads again, if ever, or is gone.
SendReturns(t) ==
  /\ up /\ Blocked(t)
  /\ wait' = [wait EXCEPT ![t] = NoConn]
  /\ UNCHANGED <<shared, pc, sock, last, cur, mine, seen>>
SendBroken(t) == wait[t] # NoConn /\ peer[wait[t]] = "gone" /\ SendReturns(t)

-----------------------------------------------------------------------------
(* The ways the process dies *)

Dies ==
  /\ up' = FALSE
  /\ UNCHANGED <<mainPc, cell, accepted, own, netVars, ptrVars, key, topic, history,
                 pc, locals>>

Walking == {"scan", "dup", "tail", "tailnext", "cast"} \cup Searching

\* What t dereferences next is NULL or an uninitialised field.
SegFault(t) ==
  /\ \/ At(t, {"KICK", "OP", "TOPIC"}) /\ key = NULL
     \/ At(t, {"found", "link"}) /\ alloc = MaxNodes
     \/ At(t, {"tail"}) /\ cur[t] = NULL
     \/ At(t, Walking) /\ cur[t] # NULL /\ next[cur[t]] = Junk
     \/ At(t, {"unlink"}) /\ prev[cur[t]] \notin Node
     \/ At(t, {"relink"}) /\ next[cur[t]] \notin Node
  /\ Dies

\* A send to a peer that has closed its end may succeed or raise SIGPIPE; one on
\* a closed descriptor fails with EBADF, which no caller looks at.
SendsTo(t) == IF Blocked(t) THEN {wait[t]} ELSE {fdt[f] : f \in Sends(t)}
SigPipe(t) ==
  /\ up /\ \E c \in SendsTo(t) \cap Conns : peer[c] = "gone"
  /\ Dies

-----------------------------------------------------------------------------
Init ==
  /\ up = TRUE /\ mainPc = "accept" /\ cell = 0 /\ accepted = NoConn
  /\ own = [c \in Conns |-> 0]
  /\ peer = [c \in Conns |-> "none"]
  /\ fdt = [f \in Fd |-> NoConn]
  /\ sent = 0 /\ hungup = 0
  /\ pc = [c \in Conns |-> "none"]
  /\ sock = [c \in Conns |-> 0]
  /\ last = [c \in Conns |-> NoName]
  /\ cur = [c \in Conns |-> NULL]
  /\ mine = [c \in Conns |-> NULL]
  /\ seen = [c \in Conns |-> 0]
  /\ wait = [c \in Conns |-> NoConn]
  /\ head = NULL /\ key = NULL /\ topic = NoName /\ alloc = 0
  /\ user = [n \in Node |-> [name |-> NoName, numclient |-> 0, owner |-> NoConn,
                             base |-> 0]]
  /\ next = [n \in Node |-> Junk] /\ prev = [n \in Node |-> Junk]
  /\ kicked = {} /\ clash = FALSE /\ robbed = {}

Join(t) == JoinBegin(t) \/ Scan(t) \/ NameFree(t) \/ NameInUse(t)
Create(t) == \/ TestHead(t) \/ FoundRoom(t) \/ FoundLinks(t) \/ Crown(t)
             \/ TailTest(t) \/ TailNext(t) \/ LinkTail(t) \/ TailLinks(t)
Broadcast(t) == CastBegin(t) \/ MsgBegin(t) \/ MsgReply(t) \/ Cast(t) \/ CastEnd(t)
Command(t) == \/ PmsgBegin(t) \/ Grant(t) \/ Deny(t) \/ Search(t) \/ UnknownName(t)
              \/ Deliver(t) \/ PassOperator(t) \/ SetTopic(t)
              \/ KickFound(t) \/ Unlink(t) \/ Relink(t)
Handle(t) == \/ ReadArg(t) \/ CallRecv(t) \/ Leave(t) \/ CloseSocket(t) \/ Refuse(t)
             \/ Join(t) \/ Create(t) \/ Broadcast(t) \/ Command(t) \/ Reply(t)
             \/ SendBroken(t) \/ SegFault(t) \/ SigPipe(t)

Next ==
  \/ AcceptFails \/ CreateThread \/ CreateFails
  \/ \E c \in Conns : Accept(c) \/ Hangup(c) \/ Receive(c) \/ Handle(c)
                      \/ Block(c) \/ SendReturns(c)

Spec == Init /\ [][Next]_vars

\* The scheduler runs main and every handler that can take a step; clients may
\* stay silent or connected, and leave unread what they are sent, for ever.
FairSpec ==
  /\ Spec
  /\ WF_vars(CreateThread \/ CreateFails)
  /\ \A t \in Conns : WF_vars(Handle(t))

Pcs == AllCommands \cup Creating \cup Unlinking \cup Searching \cup
       {"none", "start", "recv?", "recv", "close", "done", "scan", "dup", "joined",
        "msgok", "cast", "set", "reply"}
Users == [name : Names \cup {NoName}, numclient : Fd \cup {0},
          owner : Conns \cup {NoConn}, base : 0..MaxNodes]

\* Every variable keeps its type; in particular no cursor and no link of the list
\* ever holds anything but NULL, junk or the number of a node.
TypeOK ==
  /\ up \in BOOLEAN /\ mainPc \in {"accept", "create"}
  /\ cell \in Fd \cup {0, NoFd} /\ accepted \in Conns \cup {NoConn}
  /\ own \in [Conns -> Fd \cup {0}]
  /\ peer \in [Conns -> {"none", "open", "gone"}]
  /\ fdt \in [Fd -> Conns \cup {NoConn}]
  /\ sent \in 0..MaxRequests /\ hungup \in 0..MaxHangups
  /\ pc \in [Conns -> Pcs]
  /\ sock \in [Conns -> Fd \cup {0, NoFd}]
  /\ last \in [Conns -> Names \cup {NoName}]
  /\ cur \in [Conns -> Node \cup {NULL}] /\ mine \in [Conns -> Node \cup {NULL}]
  /\ seen \in [Conns -> 0..MaxNodes] /\ wait \in [Conns -> Conns \cup {NoConn}]
  /\ head \in Node \cup {NULL} /\ key \in Node \cup {NULL}
  /\ topic \in Names \cup {NoName} /\ alloc \in 0..MaxNodes
  /\ user \in [Node -> Users]
  /\ next \in [Node -> Node \cup {NULL, Junk}]
  /\ prev \in [Node -> Node \cup {NULL, Junk}]
  /\ kicked \subseteq Node /\ clash \in BOOLEAN /\ robbed \subseteq Conns
=============================================================================
