----------------------------- MODULE MCChatRoom -----------------------------
(* Model-checking definitions for ChatRoom: what clients ask, and symmetry. *)
EXTENDS ChatRoomProps, TLC

CONSTANTS c1, c2, ann, bob, cat    \* clients and names told apart by Scenario

\* Everybody may send every request of the commands; only some carry a name.
Named == {"JOIN", "PMSG", "KICK", "OP", "TOPIC"}
Everybody(commands) ==
  {r \in Conns \X commands \X (Names \cup {NoName}) : (r[2] \in Named) = (r[3] # NoName)}

Updates  == Everybody({"JOIN", "KICK"})
Sockets  == Everybody({"JOIN", "KICK", "QUIT"})
Operator == Everybody({"JOIN", "MSG", "PMSG", "OP", "TOPIC", "OTHER", "BADNICK", "QUIT"})

\* A room in which there is somebody to kick, between the first user and the last, while
\* another handler walks the list.
Scenario ==
  {<<c1, "JOIN", ann>>, <<c1, "JOIN", bob>>, <<c1, "KICK", bob>>, <<c2, "JOIN", cat>>}

Symmetry == Permutations(Conns) \cup Permutations(Names)
=============================================================================
