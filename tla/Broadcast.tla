----------------------------- MODULE Broadcast -----------------------------
(***************************************************************************)
(* What a chat server promises its members: there is one order of all      *)
(* messages, and every member is sent, in that order and with no gap and   *)
(* no repetition, the messages of the others that follow its joining.      *)
(* It may lag behind, for ever if the server dies.                         *)
(***************************************************************************)
EXTENDS Integers, Sequences

CONSTANT Conns

VARIABLES
  log,     \* the senders of all messages, in the one order
  since,   \* since[c]: Len(log) when c joined, or Outside
  got      \* got[c]: the positions in log of the messages sent to c

Outside == -1
vars == <<log, since, got>>

\* The position c's knowledge of the log reaches to, and what it lacks.
Known(c) == IF got[c] = <<>> THEN since[c] ELSE got[c][Len(got[c])]
Pending(c) == {p \in 1..Len(log) : Known(c) < p /\ log[p] # c}

Init ==
  /\ log = <<>>
  /\ since = [c \in Conns |-> Outside]
  /\ got = [c \in Conns |-> <<>>]

Join(c) ==
  /\ since[c] = Outside
  /\ since' = [since EXCEPT ![c] = Len(log)]
  /\ UNCHANGED <<log, got>>

Publish(c) ==
  /\ since[c] # Outside
  /\ log' = Append(log, c)
  /\ UNCHANGED <<since, got>>

Deliver(c) ==
  /\ since[c] # Outside
  /\ \E p \in Pending(c) :
       /\ \A q \in Pending(c) : p <= q
       /\ got' = [got EXCEPT ![c] = Append(@, p)]
  /\ UNCHANGED <<log, since>>

Next == \E c \in Conns : Join(c) \/ Publish(c) \/ Deliver(c)

Spec == Init /\ [][Next]_vars
=============================================================================
