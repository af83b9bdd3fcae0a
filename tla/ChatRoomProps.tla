--------------------------- MODULE ChatRoomProps ---------------------------
(***************************************************************************)
(* What the room server of ChatRoom guarantees, and exactly up to where:   *)
(* each property names the overlap, the kick or the hand-off race after    *)
(* which it is no longer claimed.                                          *)
(***************************************************************************)
EXTENDS ChatRoom, FiniteSets

Allocated == 1..alloc
Roster == Allocated \ kicked          \* joined and not kicked

\* Handlers that exist and have not ended.
Live == {t \in Conns : pc[t] \notin {"none", "done"}}
\* Handlers that run with a descriptor other than the one accepted for them.
Misread == {t \in Conns : sock[t] # 0 /\ sock[t] # own[t]}
Undisturbed(t) == t \notin Misread /\ t \notin robbed

-----------------------------------------------------------------------------
\* The list only ever points forward: next leads to a node published later and
\* prev to one published earlier, whatever appends and kicks overlap.  So no
\* walk (lines 47, 114, 132, 154, 185, 213, 242) can go round in a circle.
ListOrdered ==
  \A n \in Node :
    /\ next[n] \in Node => n < next[n] /\ next[n] <= alloc
    /\ prev[n] \in Node => prev[n] < n /\ n <= alloc

\* Once a room has its first user and that JOIN has finished, there is an
\* operator: `key->numclient' (lines 205, 234, 261) is a NULL dereference only
\* before that.
OperatorExists ==
  head # NULL => key # NULL \/ \E t \in Conns : pc[t] \in {"foundlinks", "crown"}

\* If no two list updates ever overlapped and none is in progress, the links
\* hold exactly the users who joined and were not kicked, in order, in both
\* directions; nobody else's JOIN, MSG or walk disturbs that.
ListExact ==
  (up /\ ~clash /\ \A t \in Conns : pc[t] \notin Creating \cup Unlinking) =>
    /\ (head = NULL) = (Roster = {})
    /\ head # NULL => head \in Roster /\ \A m \in Roster : head <= m
    /\ \A n \in Roster :
         LET later == {m \in Roster : m > n} IN
         IF later = {} THEN next[n] = NULL
         ELSE /\ next[n] \in later /\ \A m \in later : next[n] <= m
              /\ prev[next[n]] = n

\* Two users of one name: the later one scanned the list before the earlier one
\* was published (the check at 112-121 and the insertion at 128 are apart), or
\* list updates overlapped.
NamesUnique ==
  \A m, n \in Roster :
    (m < n /\ user[m].name = user[n].name) => (clash \/ user[n].base < m)

\* As long as a user's handler runs, read its own descriptor and lost it to
\* nobody, the number in the user's node is the user's connection.
NodeIsConnection ==
  \A n \in Allocated :
    LET c == user[n].owner IN
    (c \in Live /\ Undisturbed(c)) => fdt[user[n].numclient] = c

\* Nobody's connection is closed under it unless there was a KICK or a handler
\* read another's descriptor out of main's variable.
RobbedOnlyAfter == robbed # {} => kicked # {} \/ Misread # {}

\* A granted command runs as operator to its end: the operator does not change
\* under it between the check (205, 234, 261) and the effect, unless two users
\* founded the room together or two handlers may share a descriptor.
OperatorStill ==
  \A t \in Conns :
    pc[t] \in {"KICK-find", "OP-find", "set", "unlink", "relink"} =>
      (key # NULL /\ IsOperator(t)) \/ clash \/ Misread # {} \/ robbed # {}

\* The first user of the room is never replaced or removed by a command: a
\* KICK of it kills the process instead.  Only a second founder replaces it.
HeadStays ==
  [][head # NULL /\ head' # head =>
       clash /\ \E t \in Conns : pc[t] = "found" /\ pc'[t] = "foundlinks"]_vars

\* A connection is closed by its own handler, by main when it has no thread for
\* it, by a KICK, or by a handler that misread its argument or was itself
\* robbed of its descriptor before.
ClosedBy(c) ==
  \/ pc[c] = "close" /\ pc'[c] = "done"
  \/ mainPc = "create" /\ accepted = c
  \/ \E t \in Conns : pc[t] = "relink" /\ pc'[t] = "recv?"
  \/ \E t \in Misread \cup robbed : pc[t] = "close" /\ pc'[t] = "done"
ClosedByOwner ==
  [][\A f \in Fd : fdt[f] # NoConn /\ fdt'[f] # fdt[f] => ClosedBy(fdt[f])]_vars

-----------------------------------------------------------------------------
\* A client that does not read holds up a handler that sends to it (124-273).
Stuck(t) == Blocked(t) /\ peer[wait[t]] = "open"

\* Every request is finished: the handler is back at recv, or the process died, or
\* clients that do not read hold the handler up for ever, or again and again.  Walks
\* end although other handlers append and kick while they run.
Waiting == {"none", "start", "recv?", "recv", "close", "done"}
RequestsEnd ==
  \A t \in Conns :
    ((up /\ pc[t] \notin Waiting) ~> (~up \/ pc[t] \in Waiting)) \/ []<>Stuck(t)

\* The socket of a client that hangs up is released whatever the others do, unless its
\* own handler read another's descriptor, or is held up by clients that do not read.
SocketsReleased ==
  \A c \in Conns :
    \/ (up /\ peer[c] = "gone") ~> (~up \/ c \in Misread \/ \A f \in Fd : fdt[f] # c)
    \/ []<>Stuck(c)
=============================================================================
