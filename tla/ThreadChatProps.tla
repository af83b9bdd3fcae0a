-------------------------- MODULE ThreadChatProps --------------------------
(***************************************************************************)
(* What the threaded chat guarantees, and up to which race: names, the     *)
(* array clients[] and the messages.                                       *)
(***************************************************************************)
EXTENDS ThreadChat, FiniteSets

Threads == {t \in Conns : pc[t] \notin {"none", "done"}}
Talking == {t \in Conns : pc[t] \in {"talk", "hear", "cast", "send"}}
\* Threads that run with a descriptor other than the one accepted for them.
Misread == {t \in Conns : sock[t] # 0 /\ sock[t] # own[t]}

TypeOK ==
  /\ up \in BOOLEAN /\ mainPc \in {"accept", "cap", "store", "create"}
  /\ cell \in Fd \cup {0, NoFd} /\ accepted \in Conns \cup {NoConn}
  /\ own \in [Conns -> Fd \cup {0}]
  /\ peer \in [Conns -> {"none", "open", "gone"}]
  /\ sent \in 0..MaxSends /\ hungup \in 0..MaxHangups
  /\ fdt \in [Fd -> Conns \cup {NoConn}]
  /\ clients \in [Index -> Fd \cup {Terminal}] /\ num \in Nat
  /\ save \in Conns \cup {NoConn} /\ rest \in {"fresh", "used", "refilled"}
  /\ pc \in [Conns -> {"none", "start", "greet", "ask", "name", "token", "count", "inc", "talk",
                       "hear", "cast", "send", "close", "done"}]
  /\ sock \in [Conns -> Fd \cup {0, NoFd}] /\ wait \in [Conns -> Conns \cup {NoConn}]
  /\ line \in [Conns -> [from : Conns \cup {NoConn}, kind : AllKinds]]
  /\ blank \in [Conns -> BOOLEAN] /\ name \in [Conns -> Conns \cup {NoConn}]
  /\ tmp \in [Conns -> Nat] /\ i \in [Conns -> Nat]
  /\ crowd \in BOOLEAN /\ mixed \in BOOLEAN
  /\ got \in [Conns -> Seq(Conns)]

-----------------------------------------------------------------------------
\* Who is counted gave a right name of its own, or left without one -- unless two
\* threads' pairs of strtok calls overlapped (51-53), when one takes the other's
\* name, or a thread was handed another's connection.
CountedByName ==
  \A t \in Conns :
    (pc[t] \in {"count", "inc"} /\ ~mixed /\ Misread = {}) =>
      \/ name[t] = t /\ line[t] = [from |-> t, kind |-> "NAME"]
      \/ name[t] = NoConn /\ peer[t] = "gone"

\* A right name ends the dialogue, unless an earlier name of the same client had a
\* blank: count is set to 0 only once (34), outside the loop.
RightNameAccepted ==
  [][\A t \in Conns :
       (pc[t] = "token" /\ pc'[t] = "ask" /\ line[t].kind = "NAME") => blank[t] \/ mixed]_vars

\* clients[] and num_clients belong together as long as every connection is counted
\* before accept returns again: everybody who talks is in one of the counted slots,
\* and in two only if its descriptor was another client's before.
Slots(t) == {k \in Index : k < num /\ clients[k] = sock[t]}
EverybodyInTheArray ==
  ~crowd => \A t \in Talking :
    /\ Slots(t) # {}
    /\ Cardinality(Slots(t)) > 1 => \E c \in Conns \ {t} : own[c] = own[t]

\* No two threads count themselves into one slot, on the same condition: num_clients
\* is the number of those who counted themselves, and then the test of 136 does keep it
\* within MAX_CLIENTS, although the ++ of 70 has no limit of its own.
NobodyLost ==
  ~crowd =>
    /\ num = Cardinality({t \in Conns :
                            pc[t] \in {"talk", "hear", "cast", "send", "close", "done"}})
    /\ num <= MaxClients

\* Nobody is sent what it said itself, although clients[i] is read twice (90, 92) and
\* main may store into it in between, and although descriptors are reused -- unless a
\* thread was handed another's connection: that may be the one main stores between the
\* two reads, once a lost num_clients++ has put the next slot back below i (this takes
\* four clients).
NoEcho == Misread = {} => \A c \in Conns : \A n \in DOMAIN got[c] : got[c][n] # c

\* 138 says that connections are refused at the maximum: there are never more than
\* MAX_CLIENTS.
RefusedAtMaximum == Cardinality(Threads) <= MaxClients
=============================================================================
