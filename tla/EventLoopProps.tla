--------------------------- MODULE EventLoopProps ---------------------------
(***************************************************************************)
(* What the event loops guarantee: the chats implement Broadcast, the      *)
(* readiness they act on is still valid when they act on it, and every     *)
(* line is read unless a client holds up the loop.                         *)
(***************************************************************************)
EXTENDS EventLoop

Connected == {slots[k] : k \in DOMAIN slots} \ {NoConn}
Slot == 1..MaxSlots

ClientTypes ==
  /\ peer \in [Conns -> {"none", "open", "gone"}]
  /\ inq \in [Conns -> Seq(Kinds)]
  /\ sent \in 0..MaxSends /\ hungup \in 0..MaxHangups /\ stalled \subseteq Conns
ServerTypes ==
  /\ program \in Programs /\ up \in BOOLEAN
  /\ pc \in {"wait", "accept", "name", "scan", "cast", "system", "prompt"}
  /\ backlog \in Seq(Conns) /\ spare \in 0..MaxFd
  /\ newcomer \in Conns \cup {NoConn}
  /\ slots \in Seq(Conns \cup {NoConn}) /\ Len(slots) <= MaxSlots
  /\ named \subseteq Slot /\ ready \subseteq Slot
  /\ i \in 1..MaxSlots + 1 /\ j \in 1..MaxSlots + 1
HistoryTypes ==
  /\ log \in Seq(Conns)
  /\ since \in [Conns -> Nat \cup {Abstract!Outside}]
  /\ got \in [Conns -> Seq(Nat)]

TypeOK == ClientTypes /\ ServerTypes /\ HistoryTypes

-----------------------------------------------------------------------------
\* The three chats implement Broadcast: one order of messages for everybody, no
\* gap, no repetition, nothing of one's own -- also when the process dies half-way
\* through a broadcast.
BroadcastSpec == Abstract!Spec

\* Once a broadcast is over every member has been sent everything; during one,
\* exactly those not yet reached by the loop over j lack the last message.
CaughtUp ==
  \A k \in DOMAIN slots :
    (program \in Chats /\ slots[k] # NoConn /\ since[slots[k]] # Abstract!Outside) =>
      Abstract!Pending(slots[k]) =
        IF pc = "cast" /\ k # i /\ j <= k THEN {Len(log)} ELSE {}

\* Whoever is heard has given a valid name before.  chat_server does not look at
\* a flag when it forwards (112-133): its dialogue must not let the nameless in,
\* or only when they can say nothing more.
SpeakersNamed == \A p \in DOMAIN log : \E k \in named : slots[k] = log[p]

\* recv is called only where it returns at once, although clients came and lines
\* were read since select returned; a poll server may block in recv on the client
\* it has just accepted.
ReadsDontBlock ==
  \A k \in DOMAIN slots :
    Turn(k) => Readable(slots[k]) \/ (program \in Polls /\ k = Len(slots))

\* The naming dialogue of chat_server is the only place where a newcomer is in no
\* slot: every accepted connection is served, or its end is noticed.
NobodyForgotten ==
  \A c \in Conns :
    peer[c] # "none" =>
      \/ \E n \in DOMAIN backlog : backlog[n] = c
      \/ pc = "name" /\ newcomer = c
      \/ \E k \in DOMAIN slots : slots[k] = c /\ \A l \in DOMAIN slots : slots[l] = c => l = k

-----------------------------------------------------------------------------
\* The loop waits for one client: a send to one that does not read, recv on a
\* newcomer whose revents were junk, the naming dialogue, or a telnet client's command.
HeldUp ==
  \/ pc = "name" /\ (Asked => newcomer \in stalled)
  \/ pc = "system"
  \/ pc = "prompt" /\ slots[i] \in stalled
  \/ \E k \in DOMAIN slots :
       \/ Turn(k) /\ (slots[k] \in stalled \/ ~Readable(slots[k]))
       \/ NextRecipient(k) /\ slots[k] \in stalled

\* Every line of an accepted client is read, unless the process dies or clients hold
\* it up for ever, or again and again; that one did for a while excuses nothing, and
\* clients that are gone and stay in the arrays starve nobody.
LinesRead ==
  \/ \A c \in Conns : (up /\ c \in Connected /\ inq[c] # <<>>) ~> (~up \/ inq[c] = <<>>)
  \/ []<>HeldUp

\* Every client that connects is accepted, likewise.
NewcomersAccepted ==
  \/ \A c \in Conns :
       (up /\ \E n \in DOMAIN backlog : backlog[n] = c)
         ~> (~up \/ \A n \in DOMAIN backlog : backlog[n] # c)
  \/ []<>HeldUp
=============================================================================
