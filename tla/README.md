# Verification of the network programming exercises

The repository is a set of small network programs in C: chat, time, telnet, HTTP
and file servers, each written with another way of serving several clients (a
thread per client, a process per client, `select`, `poll`), and their clients.
This directory holds TLA+ models of them, the TLC runs that check the models on
small instances, and theorems proved with TLAPS.

## 1. The system: components, state, interactions

| Component (source) | State it keeps | Operations | Hard behaviour |
|---|---|---|---|
| Room server, `BT10-7-2023/chat_server.c` | a doubly linked list of users (`head`), the operator (`key`), `Topic`; one `client` variable in `main` | JOIN, MSG, PMSG, KICK, OP, TOPIC, QUIT; accept and thread creation | threads without a lock on a list; descriptors that are closed by one thread and used by another; death by a signal |
| Threaded chat, `BT11-6-2023/chat_server` | `clients[64]`, `nameClients`, `num_clients` | naming dialogue, broadcast, accept with a cap | unlocked counter and array, cap against the wrong number, stale descriptors |
| Event-loop servers: `BT2/chat_sever2.c`, `BT2/chat_server.c`, `BT3/poll_server.c`, `BT3/telnet_server.c`, `BT4-6-2023/server02_01.c` | `clients[64]` or `fds[64]`, `visited`, names | wait for readiness, accept, read, name or log in, broadcast or answer | readiness results that are stale, dead clients that stay, blocking inside the loop, SIGPIPE half-way through a broadcast |
| Thread-per-connection servers: `BT11-6-2023/http_server`, `time_server`, `telnet_server`, `BT26-6-2023/http_server.c` | the `client` variable, thread handles, files and directories open for a request; `out.txt` and the place of `strtok` in the telnet server | accept, hand over, log in, run, serve, close | the address of one variable handed to every thread; a file and a parser shared by all; threads never joined |
| Process-per-connection servers: `BT4-6-2023/http_server.c` (workers forked first), `time_server.c`, `telnet_server.c`, `BT12-6-2023/file_server.c` | each process's connection, connections left open, zombies, pending SIGCHLD | fork, serve, end, reap | descriptors left open, merged SIGCHLD, a `wait` in a handler, loops that never end |
| FTP clients `BT9-7-2023/ftp_client.c`, `test.c` | the control connection's reply stream, a data connection | USER, PASS, EPSV, LIST, STOR, RETR, QUIT | one `recv` taken for one reply |
| UDP file transfer `BT/udp_file_*.c` | a file and its copy | one datagram, append | none: no state, order or number is promised |
| Line clients, first exercises | -- | terminal to socket and back | none of their own; they are the environment of the servers |

Servers and clients interact through TCP connections only. Inside a server the
threads interact through its global variables, through `main`'s variable whose
address every thread receives, and through the kernel's descriptor table: a
descriptor is a number that is closed by one thread and handed out again by the
next `accept`.

What makes each correct: the list stays a list and holds those who joined and
were not removed; names are unique; a message goes to the clients it is meant
for; a connection is closed by who owns it; a counter and an array agree; every
request is finished and every connection is released. Where the code only
guarantees this up to a race, the property names the race and nothing more.

## 2. Modules

| Module | Models |
|---|---|
| `ChatRoom` | all of `BT10-7-2023/chat_server.c`: `main`, `handle_client`, `createUser`, the kernel's descriptor table, the clients |
| `ChatRoomProps` | its invariants, action and liveness properties |
| `MCChatRoom` | what the clients ask in each run, and the symmetry set |
| `ChatRoomProofs`, `ChatRoomListProofs` | theorems about it; those about the list of users |
| `Broadcast` | abstract: what a chat promises its members |
| `EventLoop` | `BT2/chat_sever2.c`, `BT2/chat_server.c`, `BT3/poll_server.c`, `BT3/telnet_server.c`, `BT4-6-2023/server02_01.c` |
| `EventLoopProps` | their properties; `Abstract == INSTANCE Broadcast` is the refinement |
| `MCEventLoop` | the symmetry set for TLC |
| `EventLoopProofs` | theorems, among them the refinement |
| `ThreadChat` | `BT11-6-2023/chat_server/chat_server.c`: `main`, `handle_client`, the descriptor table, the clients |
| `ThreadChatProps` | its invariants and action properties |
| `MCThreadChat`, `ThreadChatProofs` | the symmetry set for TLC; theorems |
| `ThreadServer`, `ThreadServerProps`, `MCThreadServer` | `BT11-6-2023/http_server`, `time_server`, the connections of `telnet_server`, `BT26-6-2023/http_server.c`; their properties; the programs to run; theorems in `ThreadServerProofs` |
| `SharedOutput`, `SharedOutputProps`, `MCSharedOutput` | what the threads of `BT11-6-2023/telnet_server` do with a line: logins and commands; their properties; the symmetry set; theorems in `SharedOutputProofs` |
| `ForkServer`, `ForkServerProps`, `MCForkServer` | `BT4-6-2023/telnet_server.c`, `time_server.c`, `http_server.c`, `BT12-6-2023/file_server.c`; their properties; the programs to run; theorems in `ForkServerProofs` |
| `FtpClient`, `FtpClientProps`, `MCFtpClient` | `BT9-7-2023/ftp_client.c` and `test.c` with an FTP server; their properties; the programs to run; theorems in `FtpClientProofs` |

Every server module is composed of the program, the part of the kernel it depends
on (descriptor table, listener's queue, signals, processes) and its clients.
`SharedOutput` continues `ThreadServer`: its threads are those whose connections
`ThreadServer` hands over, taken where nobody was handed another's.

### ChatRoom

State. `head`, `key`, `topic`, `user`, `next`, `prev` are the program's globals and
nodes; a node is a number, given when it is published, so a smaller number is an
older node. `pc`, `sock` (`client`), `last`, `cur` (`current`) and `mine` are the
locals of `handle_client` and `createUser`; `cell` is `main`'s variable `client`.
`fdt` is the descriptor table, `own[c]` the number accept returned for connection
`c`, `wait[t]` the connection that a blocked `recv` or `send` holds. `seen`, `kicked`, `clash` and
`robbed` are history: they restrict no step and let the properties speak of
what happened before.

Steps. A step is the code between two accesses to shared memory or the kernel.
Read-only steps of one walk are merged (the visit of a node and the read of its
`next`), and so are stores with no reader in between that could tell them apart
(lines 41-42, 53-54, 219-221). A handler is named by the connection whose accept
created it; which connection it then serves is what the hand-over through `cell`
decides. An `accept` that finds no descriptor leaves its -1 in `cell`, where a thread may
yet read it (`AcceptFails`). A send to a client that does not read blocks the handler
before the step that sends (`Block`) until the client reads or is gone (`SendReturns`,
`SendBroken`), or for ever. `Follow` reads a field `malloc` left uninitialised as NULL, or as an
address that `SegFault` covers. The process dies of `SegFault` (a NULL or junk
pointer, or `malloc` failing at the bound) or of `SigPipe`, which a send to a
peer that is gone may or may not raise: it depends on whether the peer's reset
has arrived.

Abstracted: texts (a request is a command and at most one name), what replies say, and
the split or gluing of requests by TCP, which yields requests of the same set.

Bounds. `MaxFd` descriptors, `MaxNodes` nodes (beyond it `malloc` fails, which the
program meets with a NULL dereference), `MaxRequests` requests out of `Requests`,
`MaxHangups` hang-ups of clients in `Leaving`; the clients in `Stalling` may stop reading.
Two handlers are what every race in the code needs; three connections
over two descriptors are what a reused descriptor and a third party's loss of it
need; three or four nodes make a middle node, the only one a KICK survives. The two safety runs
about the list and the descriptors have nobody who stops reading: a handler that waits
takes no step, so it adds no order of steps to them. `chatroom_commands` leaves KICK out;
it is in the other three runs, and `GrantsStayValid` proves `OperatorStill` for all commands.
In `chatroom_live` one client joins twice and kicks its second self, which lies between
the first user and the other client when that has joined in time; so a node is unlinked
while the other handler's walk stands on it, or before it, or behind.

### EventLoop and Broadcast

The five programs share one loop and differ in what they do with a line; `program`,
chosen in `Init` from the constant `Programs`, says which of them runs, and the actions
name in their guards the programs they belong to.

State. `slots` is `clients[]` with `num_clients` entries, or `fds[1..nfds-1]`. The
programs never close a client's descriptor, so an entry is the connection itself,
or `NoConn` for the -1 of a failed `accept`. `named` is `visited`, or in `chat_server`
the slots whose dialogue ended well; `ready` is `fdread` or the `revents`; `newcomer` is
the connection of `chat_server`'s dialogue. `backlog`, `peer`, `inq` and `stalled` are the
kernel's side: connections not yet accepted, hang-ups, lines not yet read, clients
that do not read. `spare` counts descriptors; `telnet_server`'s `Check` takes one at
every attempt and returns none. `log`, `since` and `got` are history.

Steps. `pc` is where the loop stands: `wait` (`select`, `poll`), `accept`, `name` (the
dialogue inside the loop), `scan` (from slot to slot), `cast` (from recipient to
recipient), `system` (`telnet_server` waits for a client's command, which nothing makes
end) and `prompt` (it asks for the next one). A step is the code between two calls into
the kernel whose result depends on the clients. What `select` returned is a snapshot:
clients go on connecting, speaking and hanging up while the loop works it off. `SlotReady`
models the `revents` of a slot that `accept` has just filled, which `poll` never wrote. A
hang-up may discard what the client had sent (a reset). Four actions end the process:
`SigPipe`, `SegFault` (`strtok` found nothing), `NoFile` (`fopen` failed, `exit`) and
`Overrun`, a connection past the end of the arrays, after which nothing is claimed.

Abstracted: a line is a valid name, an invalid one, neither, or one that `strtok`
fails on; what a telnet command does, beside ending or not; `sanitize_input` of the echo
server. A line without a password leaves `telnet_server`'s `pass` as it is on the stack, with
perhaps an earlier one in it: such a line (`"CUT"`) may log in or not.

`Broadcast` has a log of messages, and per member the point of joining and the
positions sent to it. `BroadcastSpec` says that the three chats implement it: the
members agree on one order, with no gap and no repetition, and get nothing of
their own. It may stop anywhere, as the programs do when a send kills them.

### ThreadChat

State. `clients` and `num` are `clients[]` and `num_clients`, `cell` is `main`'s variable
`client`, and `save` and `rest` are the place `strtok` remembers: in whose buffer, and
what is left there. Per thread, `sock` is `client`, `line` what was received last (by
whom it was sent, and its kind), `blank` is `count > 0`, `name` whose name the thread took,
`tmp` the value of `num_clients` it loaded, `i` the loop's index. `num`, `tmp` and `i` are numbers
without a bound, as `num_clients++` has none. `fdt`, `own` and `wait` are as in
`ChatRoom`; `crowd`, `mixed` and `got` are history.

Steps. `main`'s test of `num_clients` and its store into `clients[num_clients]` are two
steps, `num_clients++` is a load and a store, and the test of `clients[i]` and the send to
`clients[i]` read it twice. Between the two calls of `strtok` another thread may make
its own; what the second call finds is the rest of the line cut last (`Token`), part of
a line received into that buffer since (`TokenOfRefill`), or nothing, which the program
dereferences (`SegFault`). `AcceptFails` leaves -1 in the variable a thread may be about
to read. The process also dies of `SigPipe`, and `Overrun` is an access past the end of the
arrays -- to a name or slot by a client one too many, or in the loop over a number of
clients greater than the array -- after which nothing is claimed.

What holds, and up to which race: `CountedByName` (a name is the client's own and right)
until two dialogues' pairs of `strtok` calls overlap or a thread misreads its descriptor;
`RightNameAccepted` until the client once gave a name with a blank, as `count` is zeroed
only once; `EverybodyInTheArray` and `NobodyLost` (no increment is lost, and `num_clients`
stays within `MAX_CLIENTS`) as long as each client is counted before `accept` returns
again (`crowd`); `NoEcho` until a thread misreads its descriptor: then, with four clients
and a lost `num_clients++`, the next slot may lie before a broadcast that is under way,
and `main` stores the sender's own descriptor there between the two reads of `clients[i]`.
`RefusedAtMaximum` does not hold: see `findings`. `num_clients` never goes down, so a
server that has had `MAX_CLIENTS` named clients refuses everybody for ever; that is what
the code says and no document disagrees, hence no finding.

Abstracted: texts, `nameClients` (it is only printed), lines too long for the buffers,
reuse of an ended thread's stack, clients that do not read, failures of `accept`
other than a full descriptor table.

### ThreadServer

State. `cell` is `main`'s `client`, `accepted` the connection it was last given, `index` is
`thread_index`. Per thread, `sock` is its `client`, `wait` the connection its `recv` holds,
`from` whose request is in its buffer, `path` and `handle` what `BT26`'s thread looks for
and has open. `pc[t]` is `"ended"` after the end of a thread that nobody joins: it keeps
its place among the threads the process may have. `fdt` is the descriptor table,
in which `"files"` puts files and directories beside connections; `limit` says how
many descriptors are left to it. `robbed`, `refused` (connections that came while every thread
was in use, `InUse`) and `got` are history.

Steps. `accept` and its store are one step, as is the thread's read of `cell`; a `recv` is
its call, which looks the descriptor up, and its return. `accept` fails as long as no
descriptor is free, whether a client waits or not. `http` does not look at what
`accept` or `recv` returned: `AcceptFails` goes on to create a thread for -1, and `HearEnd`
goes on to answer. Its `client_len` is read before it was ever written; `badLen` is the
case that it is negative, in which `accept` takes each connection and fails
(`AcceptDrops`). `files` neither looks at what `pthread_create` returned: `CreateFails`
leaves the connection open, and `DetachesStale` is `pthread_detach` on a handle that is
none. It handles SIGPIPE, so `SigPipe` is not among its steps.

What holds, and up to which race: `OwnAnswers` and `EveryDescriptorKept` until an `accept`
returns while a thread has not read `client` (`robbed`). `Answered` names all that keeps a
client from an answer: that race, a dead process, its own hang-up, `badLen`, that every
thread was in use when it came (`Excused`; ended threads count as used in `http` only), or
that it is still in the listener's queue and no descriptor is ever free again (`Outside`).
A client that has got a thread is excused by no other client: with two threads, one
may stay connected and silent, and the other must be answered beside it.

Abstracted: texts, the parts an answer is sent in, clients that do not read, and the
commands of the telnet server that do not end: both hold up the one thread of that
client, which is to the others as one whose client is silent.

### SharedOutput

State. `file` is `out.txt`, as the sequence of blocks in it with the number of the command
that wrote each; `cmd`, `left` and `at` are a command, what it has yet to write, and where;
`behind` are the writers that commands have left in the background.
`text` and `error` are what a client was sent. `user`, `pass`, `k` are the locals of a login
(`k` the line of the credentials it is at), `save` and `rest` the place of `strtok`. `given`,
`accepted`, `mixed`, `met` and `failed` are history.

Steps. A line is a login or a command. The shell's `>` empties the file when it opens it,
a command writes block by block where it stands -- past the end of a file that was emptied
meanwhile, which leaves a hole. `system` returns when the command has written all
(`CommandEnds`), or has left a process to write the rest (`CommandStays`, `WriteBehind`).
`Read` is the one `fread`, of at most `BUFFER_SIZE - 1` bytes, for which `MaxRead` blocks
stand, and the send of what `strlen` finds in it; the rest of a longer output is never
sent. `LooksAtEnd` is the later look at the size. `SystemFails` and `OpenFails` are the
failures of `system` and `fopen`. A token that `strtok` finds in another thread's buffer
is any (`Alien`). `SegFault` is `strcmp` of NULL.

What holds: a client may be sent another's output, yet only of a command that ran at the
same time as its own, in the background too (`ConcurrentOutput`); alone, it is sent what
one `fread` takes of its own and nothing else, and the error message if it wrote nothing.
A login is
right unless another thread called `strtok` within it (`LoginHonest`).

### ForkServer

State. `proc` is the table of processes the user may have: children with their
control, zombies, and processes that are no children (`"other"`). `sock` is a child's
`client`, `leaks` the connections a worker of `http` has left open, `behind` those that a process in
the background has open, `conn` the parent's `client`; `ended`, history, are connections that the
server let go of after a failure or with its last answer (`LetGo`). `pending`
and `handling` are SIGCHLD; `lost`, history, counts the signals that found one pending.
`peer` tells a client that has only shut down its sending (`"half"`) from one that has closed
(`"gone"`) and one whose RST has arrived (`"reset"`); `told` are those that were sent
something after they had closed, to which their kernel answers RST.

Steps. The code between two system calls; the handler runs between two steps of the
parent. `HandlerWait` is blocked as long as there are children and none is a zombie, which
may happen to `http`, whose `main` waits as well. `telnet` sends and forks although `accept`
failed, and takes a failed `fork` for a parent's; `time` and `file` exit at either. The
parents of `telnet` and `file` die of SIGPIPE if a client resets before it was greeted:
`GreetSigPipe`, the end of the server. `file` takes the end of a stream for a request
(`HearNothing`), and goes on with the socket that `send_file` has closed, on which `recv`
fails: so the child ends.

A line of `telnet`'s client is answered, or is a command (`"system"`), which ends, never
ends, or ends and leaves a process behind that inherited the connection (`CommandStays`).
A worker of `http` whose `recv` returned 0 or -1 goes on without `close` (`HearLeak`): the
connection is in `leaks` until the worker dies.

What holds: `ZombiesAreMergedSignals`, and so the handler of `telnet` never blocks; and
`Served`: a request is read, and a connection that the client has closed is let go, with
these exceptions and no other. Nobody accepts the connection any more (`NoneAccepts` lists how
that comes about). The child waits for a command, or for the client to read (`HeldUp`), or
a process in the background has the connection open (`behind`). `http` leaked it
(`Leaked`): it is not let go. A request left unread is excused where the server had
already let go of the connection: after a failure of `accept`, `opendir`, `fork` or `fopen`,
or after the answer with which `http`, and `file` with the file, end it (`ended`), or where the
client's reset has thrown it away. The half-closed clients of `file` are never let go.

Abstracted: texts, the login of each child and what a command of `telnet` does, except
whether it ends and what it leaves behind. `file_client.c` is one of the clients: it asks
once and waits for the end of a session that only the server's `send_file` would bring,
which its `LIST` does not ask for.

### FtpClient

State. `pc` and `step` say where the client is and at which of its `Transfers`, `buf` is what
the last `recv` returned, `inbox` the lines of the control connection not yet received,
`queue` the commands the server has not read. `data`, `blocks` and `moved` are the data
connection of one transfer. The server is external: `server`, `user` and `stored` are
what it must keep to answer as the programs expect. `excuses` is history: what went
otherwise than one `recv` per reply, or was refused.

Steps. `Recv` takes one line or more, in order; at the end of the stream it returns 0, or -1
and leaves `buf` as it was. `test.c` reads its download until `recv` is not positive,
`ftp_client.c` its listings likewise and sends its file block by block. The server
answers in one line or two, and refuses, breaks a transfer off or closes after a
timeout as often as `MaxRefusals` says. A client ends by its last `close`, by `return 1`, or
by a signal (`SegFault`, `SigPipe`); what it has sent by then still arrives, so that `Exit`
turns an open data connection into one at its end.

What holds: commands and replies stay in step as long as no reply is cut in two, even
if two were received as one (`OneAtATime`); a client that goes on to its transfers was let
in, whatever `recv` returned (`LoginHonest`); files are whole unless the server said
otherwise (`TransfersWhole`); only listings and downloads can meet two replies in one
`recv` (`GluedOnlyInDownloads`), which is what the client then waits for in vain;
unless one of these happened, it ends (`Finishes`): that two replies received as one make it
wait for ever is not excluded, only that anything else does. `Finishes` rests on
`MaxTries`, too: somebody gives the right password at last.

Abstracted: texts, lines that arrive in parts, contents of files, and errors of the local
file: a `fread` that fails half-way would be taken for the end of the file, and store a part
of it.

### Runs

| Run | Question | Properties |
|---|---|---|
| `chatroom_list` | what the list is under every overlap of JOIN and KICK | `ListOrdered`, `ListExact`, `NamesUnique`, `HeadStays` |
| `chatroom_sockets` | whose descriptor is used and closed by whom, with reuse | `NodeIsConnection`, `RobbedOnlyAfter`, `ClosedByOwner` |
| `chatroom_commands` | the operator's right under every command but KICK, with a hang-up and clients that stop reading | `TypeOK`, `OperatorExists`, `OperatorStill` |
| `chatroom_live` | do requests end, with a KICK under a walk, and sockets get released | `RequestsEnd`, `SocketsReleased` |
| `eventloop` | all five programs, with too few descriptors and full arrays: do the chats broadcast, to whom, does the loop ever block, is anybody forgotten | `TypeOK`, `NobodyForgotten`, `CaughtUp`, `SpeakersNamed`, `ReadsDontBlock`, `BroadcastSpec` |
| `threadchat` | up to which race names, array and counter are right | `TypeOK`, `CountedByName`, `EverybodyInTheArray`, `NobodyLost`, `NoEcho`, `RightNameAccepted` |
| `threadchat_cap` | does the cap limit connections (it does not) | `RefusedAtMaximum` |
| `eventloop_live` | is every line read and every newcomer accepted | `LinesRead`, `NewcomersAccepted` |
| `threadserver` | whose answers a client gets, who closes which descriptor, who is answered beside others | `TypeOK`, `OwnAnswers`, `EveryDescriptorKept`, `Answered` |
| `sharedoutput` | whose output a client is sent, and is a login right, when threads overlap | `ConcurrentOutput`, `LoginHonest` |
| `forkserver` | which children stay zombies; is every request read and every connection let go | `ZombiesAreMergedSignals`, `Served` |
| `ftpclient` | what holds when a reply is not one `recv`, and does the program end | `TypeOK`, `OneAtATime`, `LoginHonest`, `TransfersWhole`, `GluedOnlyInDownloads`, `Finishes` |

`ListExact`, `NamesUnique`, `NodeIsConnection`, `RobbedOnlyAfter` and `OperatorStill`
except named races: two overlapping list updates (`clash`), a KICK, a handler that
misread its descriptor. Each exception is needed: without it TLC finds a
counterexample within the same bounds. The stress is on what is left: with the
exceptions the properties say that nothing else in the program breaks the list,
the names or the ownership of descriptors.

The bounds of the event loops: three clients make a speaker, a recipient already reached
and one not yet reached; three lines name two of them and leave a message, or one and
leave two messages in a row; one hang-up is what a dead slot or a SIGPIPE needs. `Init`
chooses two or three descriptors: with two, `accept` and `fopen` fail for the third
client, and a failed `accept` enters -1 again and again, which fills the three slots and
runs past them; with three, all of them chat. `eventloop_live` has two clients, one that
may starve and one that may starve it, and three lines: a login, a command, and a line
that waits for it.

The bounds of the thread servers: three connections for two threads, so that an `accept`
overtakes a thread and `pthread_create` fails; `Init` chooses two or three descriptors, so
that `accept`, `fopen` and `opendir` fail or do not. One request is enough: it is answered
to its client, to another, or to nobody. `threads[]` has two entries, so `index` wraps. Of
the telnet server: two overlapping threads, two users (one whose line comes before the
other's), commands of up to two blocks, of which one `fread` takes one (a hole, and an
output too long, need a second), three lines: a command left in the background and two
that meet it, or two logins and one more. Of the forking servers: two processes are two
children that die before the handler runs, or one beside a process of somebody else, when
a second `fork` fails; one worker may fill its table with a connection it has leaked and
leave the second client to the other worker, or to nobody. Of the FTP clients: replies of
one line or two, and every place where the server may refuse, break off or time out.

The bounds of the threaded chat: two threads overlap, and a third connection reuses
a descriptor or finds none; with two slots, two named clients fill the array. Three
lines are two dialogues and a message, or one client's wrong name, right name and
message; one hang-up closes a descriptor, leaves the dialogue, or raises SIGPIPE. The
cap's run has three descriptors, so that a third connection can be accepted.

Deadlock is not checked: the process may be killed, and clients may be done.

Fairness (`FairSpec`): `main` finishes creating a thread, and each handler that can take a
step eventually takes one, as the kernel schedules runnable threads. Nothing is assumed of
clients: they may stay silent, so `recv` and `accept` may wait for ever, and leave unread
what they are sent, so `send` may. `RequestsEnd` and `SocketsReleased` except a handler
that is in such a send for ever, or again and again (`Stuck`). `EventLoop`'s `FairSpec` is
weak fairness of the one process, not of the commands of `telnet_server`. `LinesRead` and
`NewcomersAccepted` except the dead process, and a loop that is `HeldUp` for ever, or
again and again: by a send to a client that does not read, a `recv` on a newcomer that
says nothing, `chat_server`'s dialogue, or a command. Where the loop is not held up from
some time on, every line is read, whatever held it up before. `ThreadServer`'s is weak
fairness of `main` and of each thread; `ForkServer`'s of the parent, of each child except
while it waits for its command or for its client to read (`AtMercy`), and of the RST a
client's kernel sends, which no program can withhold; `FtpClient`'s of the program and of
the server, whose timeout ends a silence. `SharedOutput` has safety properties only.

### Proofs

`ChatRoomProofs` proves, for any number of connections, descriptors, nodes,
requests and names:

| Theorem | States |
|---|---|
| `TypeCorrect` | `[]TypeOK` |
| `WalksGoForward` | `[]ListOrdered`: links go forward under every overlap |
| `RoomHasOperator` | `[]OperatorExists` |
| `FirstUserStays` | `HeadStays` |
| `NodesNameTheirUsers` | `[]NodeIsConnection` |
| `OwnersClose` | `ClosedByOwner` |
| `RobberyNeedsCause` | `[]RobbedOnlyAfter` |
| `GrantsStayValid` | `[]OperatorStill` |

The argument: `IInv` = `TypeOK`, `Cursors` (what `cur` and `mine` hold at each program
point: a cursor is an allocated node wherever it is dereferenced, a new node is
younger than the one it is linked behind) and `ListOrdered` is inductive;
`ListOrdered` alone is not, as a link is written from a cursor. `Writers` adds
who may be writing `head` and `key` and when two of them have clashed, `Sockets` what the
descriptor table, `own`, `sock` and the nodes have to do with one another. `Sound`
is their conjunction and implies each invariant above; the action properties
follow from it and one step of `Next`. All candidates were checked by TLC first.
The assumptions are those of `ConstantsAssumption`.

`EventLoopProofs` proves, for any number of clients, slots, descriptors and lines and
any choice of the programs:

| Theorem | States |
|---|---|
| `TypeCorrect` | `[]TypeOK` |
| `EveryClientHasAPlace` | `[]NobodyForgotten` |
| `ReadinessLasts` | `[]ReadsDontBlock` |
| `OnlyTheNamedAreHeard` | `[]SpeakersNamed` |
| `EverybodyCaughtUp` | `[]CaughtUp` |
| `ChatsImplementBroadcast` | `Spec => BroadcastSpec` |

The argument: `IInv` = `TypeOK` and `Indices` (the indices stay inside the arrays, and what
each program point implies). `Places` says that a connection is in one place
only; none of the others is inductive without it, as two slots of one client
would be read and written to twice. `ReadyStays` is `ReadsDontBlock` for
all slots still to be served, and `DialogueNames` is what makes `SpeakersNamed` hold in a
program that looks at no flag. `Members` ties the broadcast's members to the slots the
code sends to, and `Behind` is `CaughtUp` in terms of those slots. `Sound` is the
conjunction; it implies each invariant, and under it every step of `Next` is a join, a
publication, a delivery or a stutter of `Broadcast` (`Implements`).

`ChatRoomListProofs` continues `ChatRoomProofs`:

| Theorem | States |
|---|---|
| `TheListIsTheRoster` | `[]ListExact` |
| `NamesAreUnique` | `[]NamesUnique` |

`ListInv` says that until two list updates overlap the list is `Exact`. Most of `ListExact` is
false while an update runs, so the invariant says what is true then. `Linked`: `next` skips
no user and leads to users -- except that it passes the node a KICK has bypassed (`Bypassed`) --
and `prev` leads to the user just before, except at the node `createUser` has published and not
yet terminated (`Raw`). `Placed` is where the handler that makes the update stands, the only
one by `Writers` of `ChatRoomProofs`. `Searched` says what a JOIN's scan has seen: no user of that
name among those it has passed. With it a node that is published has another name than
every user its scan began with, which is `Distinct`. There is a lemma for each step that changes
a link, a node or a place in the list; all other steps fall under `LeavesExact`, `LeavesIdle`
and `StillExact`. TLC checked `ListInv` first, on the constants of `chatroom_list`.

`ThreadChatProofs`, for any number of connections, descriptors, slots and lines:

| Theorem | States |
|---|---|
| `TypeCorrect` | `[]TypeOK` |
| `NamesAreOwn` | `[]CountedByName` |
| `RightNamesEndTheDialogue` | `RightNameAccepted` |
| `TheArrayIsComplete` | `[]EverybodyInTheArray` |
| `NobodyIsLost` | `[]NobodyLost` |
| `NobodyHearsItself` | `[]NoEcho` |

`IInv` has a part for each race: `Bounds` holds always; `Fits` (each thread's descriptor, buffer
and the slot it sends to are its own) until a thread misreads its descriptor; `Tokens` (the place
of `strtok` is in the thread's own buffer between its two calls) until two pairs overlap; `Names`
until either; `Lined` (at most one thread is not yet counted, it is the last accepted, its
descriptor is in `clients[num_clients]`, and each counted slot is a counted thread's) until
an `accept` overtakes a thread. `CountedByName` is not inductive without `Tokens`, nor
`NobodyLost` without the value `Lined` gives to the loaded `tmp`. Proving `NoEcho` is what showed that
it needs `Fits`: the invariant failed at `main`'s store into `clients[]`.

`ThreadServerProofs`, for any number of threads, connections, descriptors and requests:

| Theorem | States |
|---|---|
| `TypeCorrect` | `[]TypeOK` |
| `AnswersAreOwn` | `[]OwnAnswers` |
| `DescriptorsAreKept` | `[]EveryDescriptorKept` |

`Bounds` holds always, `Handed` until `robbed`: `main` owns what it is handing over, no two
running threads have one descriptor (`Alone`), a thread answers what came over its own
(`Serves`), and every open descriptor has somebody to close it (`Covered`). `EveryDescriptorKept`
follows from `Covered` for the existence and from `Alone` for the uniqueness of the keeper.

`SharedOutputProofs`, for any number of threads, users, lines and blocks:

| Theorem | States |
|---|---|
| `LoginsAreHonest` | `[]LoginHonest` |
| `OutputIsConcurrent` | `[]ConcurrentOutput` |

`Logins` says where the place of `strtok` is during a login that nobody disturbed, and that its
loop has not passed the user's line. `Outputs` says what `out.txt` may hold while a thread may
yet read it (`Readable`): blocks of its own command and of those it met, to which every writer
in the background belongs; its own blocks, all it has written and in order, if it met none.

`ForkServerProofs`, for any number of processes, workers, connections and requests:

| Theorem | States |
|---|---|
| `ZombiesAreCounted` | `[]ZombiesAreMergedSignals` |
| `HandlerNeverBlocks` | `[]HandlerFindsZombie`: the `wait` in `telnet`'s handler finds a zombie |

`ZombiesAreMergedSignals` is inductive with the types of the processes and the signals: each step
is one of few kinds (a child dies, a signal is delivered or merged, the handler or `http`'s `main`
reaps), and a lemma counts the zombies for each. The second theorem uses that `Due` is positive
while the handler runs.

`FtpClientProofs`, for files of any size and any number of attempts, refusals and replies:

| Theorem | States |
|---|---|
| `TypeCorrect` | `[]TypeOK` |
| `LoginsAreHonest` | `[]LoginHonest` |
| `FilesAreWhole` | `[]TransfersWhole` |
| `InStep` | `[]OneAtATime` |
| `UploadsAreNotGlued` | `[]GluedOnlyInDownloads` |

`LetIn` says that nothing on its way to the client begins with 230 before the server let somebody
in. `TransferState` says, for each program point, what is in the two queues, on the data
connection and in the server: `Settled` between transfers, `Asked`, `Connected`, `Receiving`,
`Storing`, `Over`; so that the blocks moved and those on their way are the file. `Replies` counts
the replies and parts of replies due while none was cut in two. None of the properties is inductive
alone: each is about what the server does later with what the client has sent.

All these theorems assume what the modules' `ConstantsAssumption` says, and nothing else.

Only model-checked: the liveness properties (`RequestsEnd`, `SocketsReleased`, `LinesRead`,
`NewcomersAccepted`, `Answered`, `Served`, `Finishes`), as fairness and ENABLED are beyond the
prover; and the violation of `RefusedAtMaximum`. Every invariant and every action
property that a passing run checks is proved.

## 3. Plan

In this order; every module gets a type invariant, safety properties aimed at the
hazards listed in `PROJECT.json`, and theorems where noted.

1. `ChatRoom` (done): state machine, four runs, ten theorems.
2. `EventLoop` and `Broadcast` (done): state machine, two runs, six theorems.
3. `ThreadChat` (done): state machine, two runs, six theorems.
4. `ThreadServer`, `SharedOutput`, `ForkServer`, `FtpClient` (done): state machines, a run each,
   twelve theorems.
5. Left: the part of the liveness arguments that is safety, as theorems -- that a walk, a login
   and a transfer come closer to their end with each step (a measure that decreases), which
   with the fairness TLC assumes is why they end.

## 4. Not modelled

The UDP file programs: the sender sends one datagram and ends, the receiver appends
whatever comes; there is no state, order or number for a property to be about.
`sanitize_input` of the echo server and the texts of all requests and answers: the models
keep of a text what decides the control. The first exercises and the line clients:
sequential, terminal and file input and output. Buffer contents, and parsing beyond what
a request means.
