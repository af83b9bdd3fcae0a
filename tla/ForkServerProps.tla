-------------------------- MODULE ForkServerProps --------------------------
(***************************************************************************)
(* What becomes of the children of the forking servers, and of clients.    *)
(***************************************************************************)
EXTENDS ForkServer

\* A zombie stays for each SIGCHLD that was merged with one pending, for no other
\* cause, and until the handler has run for the last: so telnet's handler finds one
\* when it waits, and accept is never held up by it.  Only http's main, which waits as
\* well, may take the one that the handler then waits for.
Due == lost + (IF pending THEN 1 ELSE 0) + (IF handling THEN 1 ELSE 0)
ZombiesAreMergedSignals ==
  (Handles /\ Up) =>
    /\ Cardinality(Zombies) <= Due
    /\ parent # "return" => Cardinality(Zombies) = Due

-----------------------------------------------------------------------------
\* Who holds connection c.
Leaked(c) == \E p \in Procs : c \in leaks[p]
Held(c) == conn = c \/ (\E p \in Procs : sock[p] = c) \/ Leaked(c) \/ c \in behind

\* Nobody will accept another connection: the parent that does has exited, or each of
\* http's workers has died, filled its table, or waits for a client that is silent.
Busy(p) ==
  \/ ~Live(p)
  \/ proc[p] = "accept" /\ Cardinality(leaks[p]) = MaxFd
  \/ proc[p] = "recv" /\ inbox[sock[p]] = 0 /\ peer[sock[p]] = "open"
NoneAccepts ==
  IF program = "http" THEN parent # "fork" /\ \A p \in Procs : Busy(p) ELSE ~Up
Neglected(c) == c > taken /\ NoneAccepts
\* The child is held up by c itself, or by its command.
HeldUp(c) == \E p \in Procs : sock[p] = c /\ AtMercy(p)

\* What is owed to a client: that its request is read, and that its connection is let
\* go once it has closed it.  Requests are owed nothing any more once a failure has
\* cost the client its connection (accept, opendir, fork and fopen), or the answer
\* after which http, and file with the file itself, close it.  A client of file that
\* has only shut down its sending is not owed the second: its child takes the end of
\* the stream for requests for ever.
Unheard(c) == inbox[c] > 0 /\ peer[c] # "reset" /\ c \notin ended
Leaves(c) == peer[c] \in {"gone", "reset"} \/ (peer[c] = "half" /\ program # "file")
Owed(c) == Unheard(c) \/ (Leaves(c) /\ (c > taken \/ Held(c)))

\* Every client gets what it is owed, whatever the others do, unless from some moment on
\* nobody will ever accept its connection, its child waits for its command or for the
\* client itself, a process that a command left behind has the connection open, or http
\* has forgotten it: a worker whose recv failed or found the end goes on without close.
Served ==
  \A c \in Conns :
    \/ Owed(c) ~> ~Owed(c)
    \/ <>[](Neglected(c) \/ HeldUp(c) \/ Leaked(c) \/ c \in behind)
=============================================================================
