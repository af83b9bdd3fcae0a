--------------------------- MODULE ChatRoomProofs ---------------------------
(***************************************************************************)
(* Proofs about the room server, for any number of connections,            *)
(* descriptors, nodes, requests and names.  IInv is inductive: the types,  *)
(* where each handler's cursors may point (Cursors) and the direction of   *)
(* the links (ListOrdered).  Writers adds who is changing the list and     *)
(* what the founder of the room still has to do; Sockets relates the       *)
(* descriptor table to the handlers and to the users' nodes.               *)
(***************************************************************************)
EXTENDS ChatRoomProps, TLAPS

Cursors ==
  /\ mainPc = "create" =>
       /\ accepted \in Conns /\ cell \in Fd
       /\ peer[accepted] # "none" /\ pc[accepted] = "none"
  /\ head <= alloc /\ key <= alloc
  /\ \A t \in Conns :
       /\ peer[t] = "none" => pc[t] = "none"
       /\ pc[t] # "none" => cell # 0
       /\ pc[t] \notin {"none", "start", "recv?", "close", "done"} => sock[t] \in Fd
       /\ cur[t] <= alloc /\ mine[t] <= alloc
       /\ pc[t] \in {"foundlinks", "crown", "links"} => mine[t] # NULL
       /\ pc[t] \in {"tailnext", "link", "links", "unlink", "relink"} => cur[t] # NULL
       /\ pc[t] = "links" => cur[t] < mine[t]

IInv == TypeOK /\ Cursors /\ ListOrdered

Granting == {"KICK-find", "OP-find", "set", "unlink", "relink"}
Founders == {"found", "foundlinks", "crown"}
Overlap(A, B) == \E t, u \in Conns : t # u /\ pc[t] \in A /\ pc[u] \in B
Writers ==
  /\ Overlap(Creating, Creating \cup Unlinking) => clash
  /\ Overlap(Kicking, Kicking) => clash
  /\ \A t \in Conns : pc[t] = "found" /\ head # NULL => clash
  /\ \A t \in Conns : pc[t] \in Founders /\ key # NULL => clash
  /\ \A t \in Conns : pc[t] \in {"foundlinks", "crown"} => head # NULL
  /\ \A t \in Conns : pc[t] \in Granting => key # NULL
  /\ key # NULL => head # NULL
  /\ OperatorExists

Sockets ==
  /\ mainPc = "create" =>
       /\ cell = own[accepted]
       /\ fdt[cell] \in {accepted, NoConn}
       /\ accepted \notin robbed => fdt[cell] = accepted
  /\ \A c \in Conns :
       /\ peer[c] = "none" => own[c] = 0
       /\ pc[c] \notin {"none", "done"} =>
            own[c] \in Fd /\ (c \notin robbed => fdt[own[c]] = c)
       /\ pc[c] \in {"none", "start"} <=> sock[c] = 0
  /\ \A n \in Allocated :
       user[n].owner \in Conns /\ user[n].numclient # 0
         /\ user[n].numclient = sock[user[n].owner]

-----------------------------------------------------------------------------
(* IInv is inductive *)

LEMMA Initially == Init => IInv /\ Writers /\ Sockets
<1> SUFFICES ASSUME Init PROVE IInv /\ Writers /\ Sockets
  OBVIOUS
<1> USE ConstantsAssumption DEF Init, Node, Fd, NULL, Junk, NoFd
<1>1. TypeOK
  <2>1. pc \in [Conns -> Pcs]
    BY DEF Pcs
  <2>2. user \in [Node -> Users]
    BY DEF Users
  <2>3. 0 \in 0..MaxNodes /\ 0 \in 0..MaxRequests /\ 0 \in 0..MaxHangups
    OBVIOUS
  <2>4. seen \in [Conns -> 0..MaxNodes] /\ cur \in [Conns -> Node \cup {NULL}]
    BY <2>3
  <2>5. own \in [Conns -> Fd \cup {0}] /\ fdt \in [Fd -> Conns \cup {NoConn}]
        /\ peer \in [Conns -> {"none", "open", "gone"}]
    OBVIOUS
  <2>6. /\ sock \in [Conns -> Fd \cup {0, NoFd}] /\ last \in [Conns -> Names \cup {NoName}]
        /\ mine \in [Conns -> Node \cup {NULL}] /\ wait \in [Conns -> Conns \cup {NoConn}]
    OBVIOUS
  <2>7. /\ next \in [Node -> Node \cup {NULL, Junk}]
        /\ prev \in [Node -> Node \cup {NULL, Junk}]
    OBVIOUS
  <2>8. QED
    BY <2>1, <2>2, <2>3, <2>4, <2>5, <2>6, <2>7 DEF TypeOK
<1>2. Cursors /\ ListOrdered
  BY DEF Cursors, ListOrdered
<1>3. Writers
  BY DEF Writers, Overlap, OperatorExists, Creating, Unlinking, Kicking, Searching,
     Founders, Granting
<1>4. Sockets
  BY DEF Sockets, Allocated
<1>5. QED
  BY <1>1, <1>2, <1>3, <1>4 DEF IInv

LEMMA Inductive == ASSUME IInv, [Next]_vars PROVE IInv'
<1> USE ConstantsAssumption
    DEF IInv, TypeOK, Cursors, ListOrdered, Node, Fd, NULL, Junk, NoFd, Pcs, Users,
        AllCommands, Creating, Unlinking, Kicking, Searching,
        procVars, netVars, ptrVars, history, shared, locals
<1>1. ASSUME CreateThread PROVE IInv'
  BY <1>1 DEF CreateThread, Goto
<1>2. ASSUME CreateFails PROVE IInv'
  BY <1>2 DEF CreateFails
<1>3. ASSUME NEW c \in Conns, Accept(c) PROVE IInv'
  <2>1. PICK f \in Fd : /\ fdt' = [fdt EXCEPT ![f] = c]
                         /\ own' = [own EXCEPT ![c] = f]
                         /\ cell' = f
    BY <1>3 DEF Accept, LowestFree
  <2>2. TypeOK'
    BY <1>3, <2>1 DEF Accept
  <2>3. Cursors' /\ ListOrdered'
    BY <1>3, <2>1 DEF Accept
  <2>4. QED
    BY <2>2, <2>3
<1>4. ASSUME NEW c \in Conns, Hangup(c) PROVE IInv'
  BY <1>4 DEF Hangup
<1>5. ASSUME NEW c \in Conns, Receive(c) PROVE IInv'
  <2>1. PICK cmd \in AllCommands, n \in Names \cup {NoName} :
          pc' = [pc EXCEPT ![c] = cmd] /\ last' = [last EXCEPT ![c] = n]
    BY <1>5 DEF Receive
  <2>2. cmd \in Pcs
    OBVIOUS
  <2>3. sent' \in 0..MaxRequests /\ last' \in [Conns -> Names \cup {NoName}]
    BY <1>5, <2>1 DEF Receive
  <2>4. TypeOK'
    BY <1>5, <2>1, <2>2, <2>3 DEF Receive
  <2>5. Cursors'
    BY <1>5, <2>1, <2>2 DEF Receive, At
  <2>6. QED
    BY <1>5, <2>4, <2>5 DEF Receive
<1>6. ASSUME NEW t \in Conns, ReadArg(t) PROVE IInv'
  BY <1>6 DEF ReadArg, At
<1>7. ASSUME NEW t \in Conns, CallRecv(t) PROVE IInv'
  BY <1>7 DEF CallRecv, At, Conn
<1>8. ASSUME NEW t \in Conns, Leave(t) PROVE IInv'
  BY <1>8 DEF Leave, At
<1>9. ASSUME NEW t \in Conns, Refuse(t) PROVE IInv'
  BY <1>9, SMTT(30) DEF Refuse, At, EndRequest, Finish
<1>10. ASSUME NEW t \in Conns, JoinBegin(t) PROVE IInv'
  BY <1>10 DEF JoinBegin, At
<1>11. ASSUME NEW t \in Conns, Scan(t) PROVE IInv'
  BY <1>11, SMTT(30) DEF Scan, At, Visit, Follow
<1>12. ASSUME NEW t \in Conns, NameInUse(t) PROVE IInv'
  BY <1>12, SMTT(30) DEF NameInUse, At, EndRequest, Finish
<1>13. ASSUME NEW t \in Conns, TestHead(t) PROVE IInv'
  BY <1>13 DEF TestHead, At, Visit
<1>14. ASSUME NEW t \in Conns, TailTest(t) PROVE IInv'
  BY <1>14 DEF TailTest, At, Follow, Goto
<1>15. ASSUME NEW t \in Conns, TailNext(t) PROVE IInv'
  BY <1>15, SMTT(30) DEF TailNext, At, Visit, Follow
<1>16. ASSUME NEW t \in Conns, CastBegin(t) PROVE IInv'
  BY <1>16 DEF CastBegin, At, Visit
<1>17. ASSUME NEW t \in Conns, Cast(t) PROVE IInv'
  BY <1>17, SMTT(30) DEF Cast, At, Visit, Follow
<1>18. ASSUME NEW t \in Conns, CastEnd(t) PROVE IInv'
  BY <1>18, SMTT(30) DEF CastEnd, At, EndRequest, Finish
<1>19. ASSUME NEW t \in Conns, PmsgBegin(t) PROVE IInv'
  BY <1>19 DEF PmsgBegin, At, Visit
<1>20. ASSUME NEW t \in Conns, Grant(t) PROVE IInv'
  BY <1>20, SMTT(30) DEF Grant, At, Visit, Granted
<1>21. ASSUME NEW t \in Conns, Deny(t) PROVE IInv'
  <2>1. TypeOK'
    <3>1. /\ pc' \in [Conns -> Pcs] /\ last' \in [Conns -> Names \cup {NoName}]
          /\ cur' \in [Conns -> Node \cup {NULL}] /\ mine' \in [Conns -> Node \cup {NULL}]
          /\ seen' \in [Conns -> 0..MaxNodes]
      BY <1>21 DEF Deny, Finish
    <3>2. QED
      BY <1>21, <3>1 DEF Deny, Finish
  <2>2. Cursors'
    <3>1. /\ UNCHANGED <<mainPc, accepted, cell, peer, head, alloc, sock>>
          /\ key' = key /\ pc[t] \notin {"none", "start", "recv?", "close", "done"}
      BY <1>21 DEF Deny, At, Finish
    <3>2. /\ pc'[t] = "reply" /\ cur'[t] = NULL /\ mine'[t] = NULL
          /\ \A u \in Conns \ {t} : pc'[u] = pc[u] /\ cur'[u] = cur[u] /\ mine'[u] = mine[u]
      BY <1>21 DEF Deny, Finish
    <3>3. QED
      BY <3>1, <3>2
  <2>3. ListOrdered'
    BY <1>21 DEF Deny, At, Finish
  <2>4. QED
    BY <2>1, <2>2, <2>3
<1>22. ASSUME NEW t \in Conns, Search(t) PROVE IInv'
  BY <1>22, SMTT(30) DEF Search, At, Visit, Follow
<1>23. ASSUME NEW t \in Conns, UnknownName(t) PROVE IInv'
  BY <1>23, SMTT(30) DEF UnknownName, At, EndRequest, Finish
<1>24. ASSUME NEW t \in Conns, Deliver(t) PROVE IInv'
  BY <1>24, SMTT(30) DEF Deliver, At, EndRequest, Finish
<1>25. ASSUME NEW t \in Conns, CloseSocket(t) PROVE IInv'
  <2>1. Closed(ClosedFd(t)) \in [Fd -> Conns \cup {NoConn}]
    BY DEF Closed
  <2>2. QED
    BY <1>25, <2>1 DEF CloseSocket, At, Goto
<1>26. ASSUME NEW t \in Conns, NameFree(t) PROVE IInv'
  <2>1. TypeOK'
    BY <1>26 DEF NameFree, At, Goto
  <2>2. Cursors'
    BY <1>26 DEF NameFree, At, Goto
  <2>3. ListOrdered'
    BY <1>26 DEF NameFree, At, Goto
  <2>4. QED
    BY <2>1, <2>2, <2>3
<1>27. ASSUME NEW t \in Conns, FoundRoom(t) PROVE IInv'
  <2>0. NewUser(t) \in Users
    <3>1. /\ last[t] \in Names \cup {NoName} /\ sock[t] \in Fd /\ seen[t] \in 0..MaxNodes
      BY <1>27 DEF FoundRoom, At
    <3>2. QED
      BY <3>1 DEF NewUser
  <2>1. user' \in [Node -> Users] /\ NewNode \in Node
    BY <1>27, <2>0 DEF FoundRoom, Publish, NewNode
  <2>2. TypeOK'
    <3>1. next' \in [Node -> Node \cup {NULL, Junk}] /\ head' \in Node \cup {NULL}
      BY <1>27, <2>1 DEF FoundRoom
    <3>2. pc' \in [Conns -> Pcs] /\ alloc' \in 0..MaxNodes
      BY <1>27, <2>1 DEF FoundRoom, Publish, NewNode
    <3>3. mine' \in [Conns -> Node \cup {NULL}]
      BY <1>27, <2>1 DEF FoundRoom, Publish
    <3>4. QED
      BY <1>27, <2>1, <3>1, <3>2, <3>3, SMTT(30) DEF FoundRoom, Publish
  <2>3. Cursors'
    BY <1>27, <2>1, SMTT(30) DEF FoundRoom, At, Publish, NewNode
  <2>4. ListOrdered'
    BY <1>27, <2>1, SMTT(30) DEF FoundRoom, At, Publish, NewNode
  <2>5. QED
    BY <2>2, <2>3, <2>4
<1>28. ASSUME NEW t \in Conns, FoundLinks(t) PROVE IInv'
  <2>1. TypeOK'
    BY <1>28 DEF FoundLinks, At, Goto
  <2>2. Cursors'
    BY <1>28 DEF FoundLinks, At, Goto
  <2>3. ListOrdered'
    BY <1>28 DEF FoundLinks, At, Goto
  <2>4. QED
    BY <2>1, <2>2, <2>3
<1>29. ASSUME NEW t \in Conns, Crown(t) PROVE IInv'
  BY <1>29 DEF Crown, At, Goto
<1>30. ASSUME NEW t \in Conns, LinkTail(t) PROVE IInv'
  <2>0. NewUser(t) \in Users
    <3>1. /\ last[t] \in Names \cup {NoName} /\ sock[t] \in Fd /\ seen[t] \in 0..MaxNodes
      BY <1>30 DEF LinkTail, At
    <3>2. QED
      BY <3>1 DEF NewUser
  <2>1. user' \in [Node -> Users] /\ NewNode \in Node
    BY <1>30, <2>0 DEF LinkTail, Publish, NewNode
  <2>2. TypeOK'
    <3>1. next' \in [Node -> Node \cup {NULL, Junk}] /\ head' \in Node \cup {NULL}
      BY <1>30, <2>1 DEF LinkTail
    <3>2. pc' \in [Conns -> Pcs] /\ alloc' \in 0..MaxNodes
      BY <1>30, <2>1 DEF LinkTail, Publish, NewNode
    <3>3. mine' \in [Conns -> Node \cup {NULL}]
      BY <1>30, <2>1 DEF LinkTail, Publish
    <3>4. QED
      BY <1>30, <2>1, <3>1, <3>2, <3>3, SMTT(30) DEF LinkTail, Publish
  <2>3. Cursors'
    BY <1>30, <2>1, SMTT(30) DEF LinkTail, At, Publish, NewNode
  <2>4. ListOrdered'
    BY <1>30, <2>1, SMTT(30) DEF LinkTail, At, Publish, NewNode
  <2>5. QED
    BY <2>2, <2>3, <2>4
<1>31. ASSUME NEW t \in Conns, TailLinks(t) PROVE IInv'
  BY <1>31, SMTT(30) DEF TailLinks, At, Terminated, Goto
<1>32. ASSUME NEW t \in Conns, PassOperator(t) PROVE IInv'
  <2>1. TypeOK'
    <3>1. /\ pc' \in [Conns -> Pcs] /\ last' \in [Conns -> Names \cup {NoName}]
          /\ cur' \in [Conns -> Node \cup {NULL}] /\ mine' \in [Conns -> Node \cup {NULL}]
          /\ seen' \in [Conns -> 0..MaxNodes]
      BY <1>32 DEF PassOperator, Finish
    <3>2. head' \in Node \cup {NULL} /\ key' \in Node \cup {NULL}
      BY <1>32 DEF PassOperator, At, Heir
    <3>3. QED
      BY <1>32, <3>1, <3>2 DEF PassOperator, Finish
  <2>2. Cursors'
    <3>1. /\ UNCHANGED <<mainPc, accepted, cell, peer, head, alloc, sock>>
          /\ key' <= alloc /\ pc[t] \notin {"none", "start", "recv?", "close", "done"}
      BY <1>32 DEF PassOperator, At, Finish, Heir
    <3>2. /\ pc'[t] = "reply" /\ cur'[t] = NULL /\ mine'[t] = NULL
          /\ \A u \in Conns \ {t} : pc'[u] = pc[u] /\ cur'[u] = cur[u] /\ mine'[u] = mine[u]
      BY <1>32 DEF PassOperator, Finish
    <3>3. ASSUME NEW u \in Conns
          PROVE  /\ peer'[u] = "none" => pc'[u] = "none"
                 /\ pc'[u] # "none" => cell' # 0
                 /\ pc'[u] \notin {"none", "start", "recv?", "close", "done"} => sock'[u] \in Fd
                 /\ cur'[u] <= alloc' /\ mine'[u] <= alloc'
                 /\ pc'[u] \in {"foundlinks", "crown", "links"} => mine'[u] # NULL
                 /\ pc'[u] \in {"tailnext", "link", "links", "unlink", "relink"} =>
                      cur'[u] # NULL
                 /\ pc'[u] = "links" => cur'[u] < mine'[u]
      <4>1. CASE u = t
        BY <3>1, <3>2, <4>1
      <4>2. CASE u # t
        BY <3>1, <3>2, <4>2
      <4>3. QED
        BY <4>1, <4>2
    <3>4. mainPc' = "create" => /\ accepted' \in Conns /\ cell' \in Fd
                                /\ peer'[accepted'] # "none" /\ pc'[accepted'] = "none"
      BY <3>1, <3>2
    <3>5. QED
      BY <3>1, <3>3, <3>4
  <2>3. ListOrdered'
    BY <1>32 DEF PassOperator, At, Finish, Heir
  <2>4. QED
    BY <2>1, <2>2, <2>3
<1>33. ASSUME NEW t \in Conns, SetTopic(t) PROVE IInv'
  BY <1>33, SMTT(30) DEF SetTopic, At, EndRequest, Finish
<1>34. ASSUME NEW t \in Conns, KickFound(t) PROVE IInv'
  BY <1>34, SMTT(30) DEF KickFound, At, Goto
<1>35. ASSUME NEW t \in Conns, Unlink(t) PROVE IInv'
  <2>1. next' \in [Node -> Node \cup {NULL, Junk}] /\ pc' \in [Conns -> Pcs]
    BY <1>35 DEF Unlink, At, Unlinked, Goto, Pcs, Unlinking
  <2>2. TypeOK'
    BY <1>35, <2>1 DEF Unlink, Goto
  <2>3. Cursors'
    BY <1>35 DEF Unlink, At, Goto
  <2>4. ListOrdered'
    <3>1. cur[t] \in Node /\ prev[cur[t]] \in Node /\ prev[cur[t]] < cur[t]
      BY <1>35 DEF Unlink, At
    <3>2. /\ next' = [next EXCEPT ![prev[cur[t]]] = next[cur[t]]]
          /\ UNCHANGED <<prev, alloc>>
      BY <1>35 DEF Unlink, Unlinked
    <3>3. QED
      BY <3>1, <3>2
  <2>5. QED
    BY <2>2, <2>3, <2>4
<1>36. ASSUME NEW t \in Conns, Relink(t) PROVE IInv'
  <2>1. cur[t] \in Node /\ next[cur[t]] \in Node
    BY <1>36 DEF Relink, At
  <2>2. prev' \in [Node -> Node \cup {NULL, Junk}] /\ kicked' \subseteq Node
    BY <1>36, <2>1 DEF Relink, Relinked
  <2>3. fdt' \in [Fd -> Conns \cup {NoConn}] /\ robbed' \subseteq Conns
    BY <1>36 DEF Relink
  <2>4. TypeOK'
    BY <1>36, <2>2, <2>3 DEF Relink, EndRequest, Finish
  <2>5. Cursors'
    BY <1>36, <2>1 DEF Relink, At, EndRequest, Finish
  <2>6. ListOrdered'
    BY <1>36, <2>1 DEF Relink, Relinked, EndRequest, Finish
  <2>7. QED
    BY <2>4, <2>5, <2>6
<1>37. ASSUME NEW t \in Conns, SegFault(t) PROVE IInv'
  <2>1. Dies BY <1>37 DEF SegFault
  <2>2. QED BY <2>1 DEF Dies
<1>38. ASSUME NEW t \in Conns, SigPipe(t) PROVE IInv'
  <2>1. Dies BY <1>38 DEF SigPipe
  <2>2. QED BY <2>1 DEF Dies
<1>39. ASSUME AcceptFails PROVE IInv'
  BY <1>39 DEF AcceptFails
<1>40. ASSUME NEW t \in Conns, MsgBegin(t) \/ MsgReply(t) PROVE IInv'
  <2>1. CASE MsgBegin(t)
    BY <2>1 DEF MsgBegin, At, Visit
  <2>2. CASE MsgReply(t)
    BY <2>2 DEF MsgReply, At, Goto
  <2>3. QED
    BY <1>40, <2>1, <2>2
<1>41. ASSUME NEW t \in Conns, Reply(t) PROVE IInv'
  BY <1>41 DEF Reply, At, Goto
<1>42. ASSUME NEW t \in Conns, Block(t) PROVE IInv'
  BY <1>42 DEF Block
<1>43. ASSUME NEW t \in Conns, SendReturns(t) \/ SendBroken(t) PROVE IInv'
  <2>1. SendReturns(t)
    BY <1>43 DEF SendBroken
  <2>2. QED
    BY <2>1 DEF SendReturns
<1>44. CASE UNCHANGED vars
  BY <1>44 DEF vars
<1>45. QED
  BY <1>1, <1>2, <1>3, <1>4, <1>5, <1>6, <1>7, <1>8, <1>9, <1>10,
     <1>11, <1>12, <1>13, <1>14, <1>15, <1>16, <1>17, <1>18, <1>19, <1>20,
     <1>21, <1>22, <1>23, <1>24, <1>25, <1>26, <1>27, <1>28, <1>29, <1>30,
     <1>31, <1>32, <1>33, <1>34, <1>35, <1>36, <1>37, <1>38, <1>39, <1>40,
     <1>41, <1>42, <1>43, <1>44
  DEF Next, Handle, Join, Create, Broadcast, Command

\* Type correctness, for all values of the constants.
THEOREM TypeCorrect == Spec => []TypeOK
<1>1. Spec => []IInv
  BY Initially, Inductive, PTL DEF Spec
<1>2. IInv => TypeOK
  BY DEF IInv
<1>3. QED
  BY <1>1, <1>2, PTL

\* The links only point forward (ListOrdered): no walk can go round in a circle.
THEOREM WalksGoForward == Spec => []ListOrdered
<1>1. Spec => []IInv
  BY Initially, Inductive, PTL DEF Spec
<1>2. IInv => ListOrdered
  BY DEF IInv
<1>3. QED
  BY <1>1, <1>2, PTL

-----------------------------------------------------------------------------
(* The founder and the operator *)

LEMMA WritersInductive == ASSUME IInv, Writers, [Next]_vars PROVE Writers'
<1> USE ConstantsAssumption
    DEF Cursors, Writers, Overlap, OperatorExists, Node, NULL, Founders, Granting,
        AllCommands, Creating, Unlinking, Kicking, Searching,
        procVars, netVars, ptrVars, history, shared, locals
<1> pc \in [Conns -> Pcs] /\ alloc \in Nat /\ cur \in [Conns -> Node \cup {NULL}] /\ Cursors
  BY DEF IInv, TypeOK
<1>1. ASSUME CreateThread PROVE Writers'
  BY <1>1 DEF CreateThread, Goto
<1>2. ASSUME CreateFails PROVE Writers'
  BY <1>2 DEF CreateFails
<1>3. ASSUME NEW c \in Conns, Accept(c) PROVE Writers'
  BY <1>3 DEF Accept, LowestFree
<1>4. ASSUME NEW c \in Conns, Hangup(c) PROVE Writers'
  BY <1>4 DEF Hangup
<1>5. ASSUME NEW c \in Conns, Receive(c) PROVE Writers'
  <2>1. PICK cmd \in AllCommands : pc' = [pc EXCEPT ![c] = cmd]
    BY <1>5 DEF Receive
  <2>2. QED
    BY <1>5, <2>1 DEF Receive, At
<1>6. ASSUME NEW t \in Conns, ReadArg(t) PROVE Writers'
  BY <1>6 DEF ReadArg, At
<1>7. ASSUME NEW t \in Conns, CallRecv(t) PROVE Writers'
  BY <1>7 DEF CallRecv, At, Conn
<1>8. ASSUME NEW t \in Conns, Leave(t) PROVE Writers'
  BY <1>8 DEF Leave, At
<1>9. ASSUME NEW t \in Conns, Refuse(t) PROVE Writers'
  BY <1>9, SMTT(30) DEF Refuse, At, EndRequest, Finish
<1>10. ASSUME NEW t \in Conns, JoinBegin(t) PROVE Writers'
  BY <1>10 DEF JoinBegin, At
<1>11. ASSUME NEW t \in Conns, Scan(t) PROVE Writers'
  BY <1>11, SMTT(30) DEF Scan, At, Visit, Follow
<1>12. ASSUME NEW t \in Conns, NameInUse(t) PROVE Writers'
  BY <1>12, SMTT(30) DEF NameInUse, At, EndRequest, Finish
<1>13. ASSUME NEW t \in Conns, TestHead(t) PROVE Writers'
  BY <1>13 DEF TestHead, At, Visit
<1>14. ASSUME NEW t \in Conns, TailTest(t) PROVE Writers'
  BY <1>14 DEF TailTest, At, Follow, Goto
<1>15. ASSUME NEW t \in Conns, TailNext(t) PROVE Writers'
  BY <1>15, SMTT(30) DEF TailNext, At, Visit, Follow
<1>16. ASSUME NEW t \in Conns, CastBegin(t) PROVE Writers'
  BY <1>16 DEF CastBegin, At, Visit
<1>17. ASSUME NEW t \in Conns, Cast(t) PROVE Writers'
  BY <1>17, SMTT(30) DEF Cast, At, Visit, Follow
<1>18. ASSUME NEW t \in Conns, CastEnd(t) PROVE Writers'
  BY <1>18, SMTT(30) DEF CastEnd, At, EndRequest, Finish
<1>19. ASSUME NEW t \in Conns, PmsgBegin(t) PROVE Writers'
  BY <1>19 DEF PmsgBegin, At, Visit
<1>20. ASSUME NEW t \in Conns, Grant(t) PROVE Writers'
  <2>1. (clash => clash') /\ (pc[t] = "KICK" /\ OthersIn(t, Kicking) => clash')
    BY <1>20 DEF Grant
  <2>2. UNCHANGED <<ptrVars, key>> /\ key # NULL
    BY <1>20 DEF Grant
  <2>3. Overlap(Creating, Creating \cup Unlinking)' => clash'
    BY <1>20, <2>1 DEF Grant, At, Visit, Granted
  <2>4. Overlap(Kicking, Kicking)' => clash'
    BY <1>20, <2>1 DEF Grant, At, Visit, Granted, OthersIn
  <2>5. QED
    BY <1>20, <2>1, <2>2, <2>3, <2>4, SMTT(30) DEF Grant, At, Visit, Granted
<1>21. ASSUME NEW t \in Conns, Deny(t) PROVE Writers'
  BY <1>21, SMTT(30) DEF Deny, At, Finish
<1>22. ASSUME NEW t \in Conns, Search(t) PROVE Writers'
  BY <1>22, SMTT(30) DEF Search, At, Visit, Follow
<1>23. ASSUME NEW t \in Conns, UnknownName(t) PROVE Writers'
  BY <1>23, SMTT(30) DEF UnknownName, At, EndRequest, Finish
<1>24. ASSUME NEW t \in Conns, Deliver(t) PROVE Writers'
  BY <1>24, SMTT(30) DEF Deliver, At, EndRequest, Finish
<1>25. ASSUME NEW t \in Conns, CloseSocket(t) PROVE Writers'
  BY <1>25 DEF CloseSocket, At, ClosedFd, Closed, Conn, Goto
<1>26. ASSUME NEW t \in Conns, NameFree(t) PROVE Writers'
  <2>1. clash' = (clash \/ OthersIn(t, Creating \cup Unlinking))
    BY <1>26 DEF NameFree
  <2>2. UNCHANGED <<ptrVars, key>> /\ UNCHANGED <<mine, cur>>
    BY <1>26 DEF NameFree, Goto
  <2>3. Overlap(Creating, Creating \cup Unlinking)' => clash'
    <3>1. ASSUME NEW v \in Conns, NEW w \in Conns, v # w,
                 pc'[v] \in Creating, pc'[w] \in Creating \cup Unlinking
          PROVE  clash'
      <4>1. CASE v # t /\ w # t
        BY <1>26, <2>1, <3>1, <4>1 DEF NameFree, Goto
      <4>2. CASE v = t \/ w = t
        BY <1>26, <2>1, <3>1, <4>2 DEF NameFree, At, Goto, OthersIn
      <4>3. QED
        BY <4>1, <4>2
    <3>2. QED
      BY <3>1
  <2>4. Overlap(Kicking, Kicking)' => clash'
    BY <1>26, <2>1 DEF NameFree, At, Goto, OthersIn
  <2>5. clash => clash'
    BY <2>1
  <2>6. QED
    BY <1>26, <2>2, <2>3, <2>4, <2>5, SMTT(30) DEF NameFree, At, Goto
<1>27. ASSUME NEW t \in Conns, FoundRoom(t) PROVE Writers'
  BY <1>27, SMTT(30) DEF FoundRoom, At, NewUser, Publish, NewNode
<1>28. ASSUME NEW t \in Conns, FoundLinks(t) PROVE Writers'
  BY <1>28 DEF FoundLinks, At, Goto
<1>29. ASSUME NEW t \in Conns, Crown(t) PROVE Writers'
  BY <1>29 DEF Crown, At, Goto
<1>30. ASSUME NEW t \in Conns, LinkTail(t) PROVE Writers'
  BY <1>30, SMTT(30) DEF LinkTail, At, NewUser, Publish, NewNode
<1>31. ASSUME NEW t \in Conns, TailLinks(t) PROVE Writers'
  BY <1>31, SMTT(30) DEF TailLinks, At, Terminated, Goto
<1>32. ASSUME NEW t \in Conns, PassOperator(t) PROVE Writers'
  BY <1>32, SMTT(30) DEF PassOperator, At, Finish, Heir
<1>33. ASSUME NEW t \in Conns, SetTopic(t) PROVE Writers'
  BY <1>33, SMTT(30) DEF SetTopic, At, EndRequest, Finish
<1>34. ASSUME NEW t \in Conns, KickFound(t) PROVE Writers'
  <2>1. clash' = (clash \/ OthersIn(t, Creating))
    BY <1>34 DEF KickFound
  <2>2. UNCHANGED <<ptrVars, key>> /\ UNCHANGED <<mine, cur>>
    BY <1>34 DEF KickFound, Goto
  <2>3. Overlap(Creating, Creating \cup Unlinking)' => clash'
    <3>1. ASSUME NEW v \in Conns, NEW w \in Conns, v # w,
                 pc'[v] \in Creating, pc'[w] \in Creating \cup Unlinking
          PROVE  clash'
      <4>1. CASE v # t /\ w # t
        BY <1>34, <2>1, <3>1, <4>1 DEF KickFound, Goto
      <4>2. CASE v = t \/ w = t
        BY <1>34, <2>1, <3>1, <4>2 DEF KickFound, At, Goto, OthersIn
      <4>3. QED
        BY <4>1, <4>2
    <3>2. QED
      BY <3>1
  <2>4. Overlap(Kicking, Kicking)' => clash'
    BY <1>34, <2>1 DEF KickFound, At, Goto, OthersIn
  <2>5. clash => clash'
    BY <2>1
  <2>6. QED
    BY <1>34, <2>2, <2>3, <2>4, <2>5, SMTT(30) DEF KickFound, At, Goto
<1>35. ASSUME NEW t \in Conns, Unlink(t) PROVE Writers'
  BY <1>35, SMTT(30) DEF Unlink, At, Unlinked, Goto
<1>36. ASSUME NEW t \in Conns, Relink(t) PROVE Writers'
  BY <1>36, SMTT(30) DEF Relink, At, Relinked, EndRequest, Finish
<1>37. ASSUME NEW t \in Conns, SegFault(t) PROVE Writers'
  <2>1. Dies BY <1>37 DEF SegFault
  <2>2. QED BY <2>1 DEF Dies
<1>38. ASSUME NEW t \in Conns, SigPipe(t) PROVE Writers'
  <2>1. Dies BY <1>38 DEF SigPipe
  <2>2. QED BY <2>1 DEF Dies
<1>39. ASSUME AcceptFails PROVE Writers'
  BY <1>39 DEF AcceptFails
<1>40. ASSUME NEW t \in Conns, MsgBegin(t) \/ MsgReply(t) PROVE Writers'
  BY <1>40 DEF MsgBegin, MsgReply, At, Goto, Visit
<1>41. ASSUME NEW t \in Conns, Reply(t) PROVE Writers'
  BY <1>41 DEF Reply, At, Goto
<1>42. ASSUME NEW t \in Conns, Block(t) PROVE Writers'
  BY <1>42 DEF Block
<1>43. ASSUME NEW t \in Conns, SendReturns(t) \/ SendBroken(t) PROVE Writers'
  BY <1>43 DEF SendReturns, SendBroken
<1>44. CASE UNCHANGED vars
  BY <1>44 DEF vars
<1>45. QED
  BY <1>1, <1>2, <1>3, <1>4, <1>5, <1>6, <1>7, <1>8, <1>9, <1>10,
     <1>11, <1>12, <1>13, <1>14, <1>15, <1>16, <1>17, <1>18, <1>19, <1>20,
     <1>21, <1>22, <1>23, <1>24, <1>25, <1>26, <1>27, <1>28, <1>29, <1>30,
     <1>31, <1>32, <1>33, <1>34, <1>35, <1>36, <1>37, <1>38, <1>39, <1>40,
     <1>41, <1>42, <1>43, <1>44
  DEF Next, Handle, Join, Create, Broadcast, Command

\* Once the room has a user and its JOIN is over, there is an operator: the
\* dereference of `key' cannot fail from then on.
THEOREM RoomHasOperator == Spec => []OperatorExists
<1>1. Spec => [](IInv /\ Writers)
  BY Initially, Inductive, WritersInductive, PTL DEF Spec
<1>2. Writers => OperatorExists
  BY DEF Writers
<1>3. QED
  BY <1>1, <1>2, PTL

\* No command removes or replaces the first user of the room; only a second
\* founder, who saw the empty room too, does.
THEOREM FirstUserStays == Spec => HeadStays
<1>1. Spec => [](IInv /\ Writers)
  BY Initially, Inductive, WritersInductive, PTL DEF Spec
<1>2. IInv /\ Writers /\ [Next]_vars
        => [head # NULL /\ head' # head =>
              clash /\ \E t \in Conns : pc[t] = "found" /\ pc'[t] = "foundlinks"]_vars
  <2> SUFFICES ASSUME IInv, Writers, [Next]_vars, head' # head, head # NULL
               PROVE  clash /\ \E t \in Conns : pc[t] = "found" /\ pc'[t] = "foundlinks"
    OBVIOUS
  <2>1. PICK t \in Conns : FoundRoom(t)
    BY DEF Next, Handle, Join, Create, Broadcast, Command, vars, shared, procVars,
        netVars, ptrVars, CreateThread, CreateFails, Accept, Hangup, Receive,
        ReadArg, CallRecv, Leave, Refuse, JoinBegin, Scan, NameInUse, TestHead,
        TailTest, TailNext, CastBegin, MsgBegin, MsgReply, Reply, AcceptFails, Block,
        SendReturns, SendBroken, Cast, CastEnd, PmsgBegin, Grant, Deny,
        Search, UnknownName, Deliver, CloseSocket, NameFree, FoundLinks, Crown,
        LinkTail, TailLinks, PassOperator, SetTopic, KickFound, Unlink, Relink,
        SegFault, SigPipe, Dies, Publish
  <2>2. pc[t] = "found" /\ pc'[t] = "foundlinks"
    BY <2>1 DEF FoundRoom, At, IInv, TypeOK
  <2>3. QED
    BY <2>2 DEF Writers
<1>3. QED
  BY <1>1, <1>2, PTL DEF Spec, HeadStays

-----------------------------------------------------------------------------
(* The descriptors *)

\* A step of a handler between its start and its end that touches no descriptor and
\* no user: most of handle_client.
Outside == {"none", "start", "done"}
Quiet(t) ==
  /\ UNCHANGED <<mainPc, cell, accepted, own, peer, fdt, robbed, sock, alloc, user>>
  /\ pc[t] \notin Outside
  /\ \E l \in Pcs \ Outside : pc' = [pc EXCEPT ![t] = l]

LEMMA QuietSteps ==
  ASSUME IInv, NEW t \in Conns,
         \/ CallRecv(t) \/ Receive(t) \/ Leave(t) \/ Refuse(t)
         \/ JoinBegin(t) \/ Scan(t) \/ NameFree(t) \/ NameInUse(t)
         \/ TestHead(t) \/ FoundLinks(t) \/ Crown(t)
         \/ TailTest(t) \/ TailNext(t) \/ TailLinks(t)
         \/ Broadcast(t)
         \/ PmsgBegin(t) \/ Grant(t) \/ Deny(t) \/ Search(t) \/ UnknownName(t)
         \/ Deliver(t) \/ PassOperator(t) \/ SetTopic(t) \/ KickFound(t) \/ Unlink(t)
         \/ Reply(t)
  PROVE  Quiet(t)
<1> USE DEF Quiet, Outside, procVars, netVars, ptrVars, history, shared, locals,
            Creating, Unlinking, Searching
<1>0. pc[t] \in Pcs
  BY DEF IInv, TypeOK
<1> USE DEF Pcs
<1>1. CASE CallRecv(t)
  BY <1>0, <1>1 DEF CallRecv, At, Conn
<1>2. CASE Receive(t)
  <2>1. PICK cmd \in AllCommands : pc' = [pc EXCEPT ![t] = cmd]
    BY <1>2 DEF Receive
  <2>2. QED
    BY <1>2, <2>1 DEF Receive, At, AllCommands
<1>3. CASE Leave(t)
  BY <1>0, <1>3 DEF Leave, At
<1>4. CASE Refuse(t)
  BY <1>0, <1>4 DEF Refuse, At, EndRequest, Finish
<1>5. CASE JoinBegin(t)
  BY <1>0, <1>5 DEF JoinBegin, At
<1>6. CASE Scan(t)
  BY <1>0, <1>6 DEF Scan, At, Visit
<1>7. CASE NameFree(t)
  BY <1>0, <1>7 DEF NameFree, At, Goto
<1>8. CASE NameInUse(t)
  BY <1>0, <1>8 DEF NameInUse, At, EndRequest, Finish
<1>9. CASE TestHead(t)
  BY <1>0, <1>9 DEF TestHead, At, Visit
<1>10. CASE FoundLinks(t)
  BY <1>0, <1>10 DEF FoundLinks, At, Goto
<1>11. CASE Crown(t)
  BY <1>0, <1>11 DEF Crown, At, Goto
<1>12. CASE TailTest(t)
  BY <1>0, <1>12 DEF TailTest, At, Goto
<1>13. CASE TailNext(t)
  BY <1>0, <1>13 DEF TailNext, At, Visit
<1>14. CASE TailLinks(t)
  BY <1>0, <1>14 DEF TailLinks, At, Goto
<1>15. CASE CastBegin(t)
  BY <1>0, <1>15 DEF CastBegin, At, Visit
<1>16. CASE Cast(t)
  BY <1>0, <1>16 DEF Cast, At, Visit
<1>17. CASE CastEnd(t)
  BY <1>0, <1>17 DEF CastEnd, At, EndRequest, Finish
<1>18. CASE PmsgBegin(t)
  BY <1>0, <1>18 DEF PmsgBegin, At, Visit
<1>19. CASE Grant(t)
  BY <1>0, <1>19 DEF Grant, At, Visit, Granted
<1>20. CASE Deny(t)
  BY <1>0, <1>20 DEF Deny, At, Finish
<1>21. CASE Search(t)
  BY <1>0, <1>21 DEF Search, At, Visit
<1>22. CASE UnknownName(t)
  BY <1>0, <1>22 DEF UnknownName, At, EndRequest, Finish
<1>23. CASE Deliver(t)
  BY <1>0, <1>23 DEF Deliver, At, EndRequest, Finish
<1>24. CASE PassOperator(t)
  BY <1>0, <1>24 DEF PassOperator, At, Finish
<1>25. CASE SetTopic(t)
  BY <1>0, <1>25 DEF SetTopic, At, EndRequest, Finish
<1>26. CASE KickFound(t)
  BY <1>0, <1>26 DEF KickFound, At, Goto
<1>27. CASE Unlink(t)
  BY <1>0, <1>27 DEF Unlink, At, Goto
<1>28. CASE MsgBegin(t) \/ MsgReply(t)
  BY <1>0, <1>28 DEF MsgBegin, MsgReply, At, Visit, Goto
<1>29. CASE Reply(t)
  BY <1>0, <1>29 DEF Reply, At, Goto
<1>30. QED
  BY <1>1, <1>2, <1>3, <1>4, <1>5, <1>6, <1>7, <1>8, <1>9, <1>10,
     <1>11, <1>12, <1>13, <1>14, <1>15, <1>16, <1>17, <1>18, <1>19, <1>20,
     <1>21, <1>22, <1>23, <1>24, <1>25, <1>26, <1>27, <1>28, <1>29
  DEF Broadcast

LEMMA SocketsInductive == ASSUME IInv, Sockets, [Next]_vars PROVE Sockets'
<1> USE ConstantsAssumption
    DEF IInv, TypeOK, Cursors, Sockets, Allocated, Node, Fd, NULL, NoFd, Users,
        AllCommands, Creating, Unlinking, Kicking, Searching,
        procVars, netVars, ptrVars, history, shared, locals
<1>1. CASE CreateThread
  <2>1. /\ UNCHANGED <<cell, own, peer, fdt, robbed, sock, alloc, user>>
        /\ mainPc = "create" /\ mainPc' = "accept"
        /\ pc' = [pc EXCEPT ![accepted] = "start"]
    BY <1>1 DEF CreateThread, Goto
  <2>2. accepted \in Conns /\ pc[accepted] = "none"
    BY <2>1 DEF Sockets
  <2>3. ASSUME NEW c \in Conns
        PROVE  /\ peer'[c] = "none" => own'[c] = 0
               /\ pc'[c] \notin {"none", "done"} =>
                    own'[c] \in Fd /\ (c \notin robbed' => fdt'[own'[c]] = c)
               /\ pc'[c] \in {"none", "start"} <=> sock'[c] = 0
    BY <2>1, <2>2
  <2>4. QED
    BY <2>1, <2>3
<1>2. CASE CreateFails
  BY <1>2 DEF CreateFails
<1>3. ASSUME NEW c \in Conns, Accept(c) PROVE Sockets'
  BY <1>3 DEF Accept, LowestFree
<1>4. ASSUME NEW c \in Conns, Hangup(c) PROVE Sockets'
  BY <1>4 DEF Hangup
<1>5. ASSUME NEW t \in Conns, Quiet(t) PROVE Sockets'
  BY <1>5 DEF Quiet, Outside
<1>6. ASSUME NEW t \in Conns, ReadArg(t) PROVE Sockets'
  BY <1>6 DEF ReadArg, At
<1>7. ASSUME NEW t \in Conns, FoundRoom(t) PROVE Sockets'
  <2>1. /\ user' = [user EXCEPT ![alloc + 1] = NewUser(t)]
        /\ alloc + 1 \in Node /\ alloc' = alloc + 1
    BY <1>7 DEF FoundRoom, Publish, NewNode
  <2>2. \A n \in 1..alloc : user'[n] = user[n] /\ n \in Node
    BY <2>1
  <2>3. user'[alloc + 1].owner = t /\ user'[alloc + 1].numclient = sock[t]
    BY <2>1 DEF NewUser
  <2>4. UNCHANGED <<mainPc, accepted, cell, own, fdt, robbed, peer, sock>>
    BY <1>7 DEF FoundRoom, Publish
  <2>5. /\ \A c \in Conns : c # t => pc'[c] = pc[c]
        /\ pc[t] \notin {"none", "start", "done"} /\ pc'[t] \notin {"none", "start", "done"}
    BY <1>7 DEF FoundRoom, At
  <2>6. (1..alloc)' = (1..alloc) \cup {alloc + 1}
    BY <2>1
  <2>7. sock[t] # 0
    BY <1>7 DEF FoundRoom, At
  <2>8. ASSUME NEW n \in (1..alloc)'
        PROVE  /\ user'[n].owner \in Conns /\ user'[n].numclient # 0
               /\ user'[n].numclient = sock'[user'[n].owner]
    <3>1. CASE n \in 1..alloc
      BY <2>2, <2>4, <3>1
    <3>2. CASE n = alloc + 1
      BY <2>3, <2>4, <2>7, <3>2
    <3>3. QED
      BY <2>6, <2>8, <3>1, <3>2
  <2>9. ASSUME NEW c \in Conns
        PROVE  /\ peer'[c] = "none" => own'[c] = 0
               /\ pc'[c] \notin {"none", "done"} =>
                    own'[c] \in Fd /\ (c \notin robbed' => fdt'[own'[c]] = c)
               /\ pc'[c] \in {"none", "start"} <=> sock'[c] = 0
    BY <2>4, <2>5
  <2>10. QED
    BY <2>4, <2>8, <2>9
<1>8. ASSUME NEW t \in Conns, LinkTail(t) PROVE Sockets'
  <2>1. /\ user' = [user EXCEPT ![alloc + 1] = NewUser(t)]
        /\ alloc + 1 \in Node /\ alloc' = alloc + 1
    BY <1>8 DEF LinkTail, Publish, NewNode
  <2>2. \A n \in 1..alloc : user'[n] = user[n] /\ n \in Node
    BY <2>1
  <2>3. user'[alloc + 1].owner = t /\ user'[alloc + 1].numclient = sock[t]
    BY <2>1 DEF NewUser
  <2>4. UNCHANGED <<mainPc, accepted, cell, own, fdt, robbed, peer, sock>>
    BY <1>8 DEF LinkTail, Publish
  <2>5. /\ \A c \in Conns : c # t => pc'[c] = pc[c]
        /\ pc[t] \notin {"none", "start", "done"} /\ pc'[t] \notin {"none", "start", "done"}
    BY <1>8 DEF LinkTail, At
  <2>6. (1..alloc)' = (1..alloc) \cup {alloc + 1}
    BY <2>1
  <2>7. sock[t] # 0
    BY <1>8 DEF LinkTail, At
  <2>8. ASSUME NEW n \in (1..alloc)'
        PROVE  /\ user'[n].owner \in Conns /\ user'[n].numclient # 0
               /\ user'[n].numclient = sock'[user'[n].owner]
    <3>1. CASE n \in 1..alloc
      BY <2>2, <2>4, <3>1
    <3>2. CASE n = alloc + 1
      BY <2>3, <2>4, <2>7, <3>2
    <3>3. QED
      BY <2>6, <2>8, <3>1, <3>2
  <2>9. ASSUME NEW c \in Conns
        PROVE  /\ peer'[c] = "none" => own'[c] = 0
               /\ pc'[c] \notin {"none", "done"} =>
                    own'[c] \in Fd /\ (c \notin robbed' => fdt'[own'[c]] = c)
               /\ pc'[c] \in {"none", "start"} <=> sock'[c] = 0
    BY <2>4, <2>5
  <2>10. QED
    BY <2>4, <2>8, <2>9
<1>9. ASSUME NEW t \in Conns, CloseSocket(t) PROVE Sockets'
  BY <1>9 DEF CloseSocket, At, ClosedFd, Closed, Conn, Goto
<1>10. ASSUME NEW t \in Conns, Relink(t) PROVE Sockets'
  BY <1>10, SMTT(30) DEF Relink, At, Relinked, EndRequest, Finish
<1>11. ASSUME NEW t \in Conns, SegFault(t) \/ SigPipe(t) PROVE Sockets'
  <2>1. Dies
    BY <1>11 DEF SegFault, SigPipe
  <2>2. QED
    BY <2>1 DEF Dies
<1>12. CASE UNCHANGED vars
  BY <1>12 DEF vars
<1>13. CASE AcceptFails
  BY <1>13 DEF AcceptFails
<1>14. ASSUME NEW t \in Conns, Block(t) \/ SendReturns(t) \/ SendBroken(t) PROVE Sockets'
  BY <1>14 DEF Block, SendReturns, SendBroken
<1>15. QED
  <2> HIDE DEF IInv, Sockets
  <2> QED
    BY <1>1, <1>2, <1>3, <1>4, <1>5, <1>6, <1>7, <1>8, <1>9, <1>10, <1>11, <1>12,
       <1>13, <1>14, QuietSteps
    DEF Next, Handle, Join, Create, Broadcast, Command

Sound == IInv /\ Writers /\ Sockets

LEMMA SoundInvariant == Spec => []Sound
BY Initially, Inductive, WritersInductive, SocketsInductive, PTL DEF Spec, Sound

\* The number in a user's node is that user's connection for as long as the
\* user's handler runs, read its own descriptor and lost it to nobody.
THEOREM NodesNameTheirUsers == Spec => []NodeIsConnection
<1>1. Sound => NodeIsConnection
  BY DEF Sound, IInv, TypeOK, Cursors, Sockets, NodeIsConnection, Allocated, Live,
     Misread,
         Undisturbed, NULL
<1>2. QED
  BY <1>1, SoundInvariant, PTL

\* A connection is closed only by its handler, by main for want of a thread, by a
\* KICK, or by a handler whose own descriptor went wrong before.
THEOREM OwnersClose == Spec => ClosedByOwner
<1>1. Sound /\ [Next]_vars
        => [\A f \in Fd : fdt[f] # NoConn /\ fdt'[f] # fdt[f] => ClosedBy(fdt[f])]_vars
  <2> SUFFICES ASSUME Sound, [Next]_vars, NEW f \in Fd, fdt[f] # NoConn, fdt'[f] # fdt[f]
               PROVE  ClosedBy(fdt[f])
    OBVIOUS
  <2> USE DEF Sound, IInv, TypeOK, Cursors
  <2>1. \/ CreateFails \/ \E c \in Conns : Accept(c) \/ CloseSocket(c) \/ Relink(c)
    BY DEF Next, Handle, Join, Create, Broadcast, Command, vars, shared, procVars,
       netVars,
           CreateThread, Hangup, Receive, ReadArg, CallRecv, Leave, Refuse, JoinBegin,
           Scan, NameInUse, NameFree, TestHead, FoundRoom, FoundLinks, Crown, TailTest,
           TailNext, LinkTail, TailLinks, CastBegin, MsgBegin, MsgReply, Reply,
           AcceptFails, Block, SendReturns, SendBroken, Cast, CastEnd, PmsgBegin, Grant,
           Deny,
           Search, UnknownName, Deliver, PassOperator, SetTopic, KickFound, Unlink,
           SegFault, SigPipe, Dies, Publish
  <2>2. CASE CreateFails
    BY <2>2 DEF CreateFails, ClosedBy, Sockets
  <2>3. ASSUME NEW c \in Conns, Accept(c) PROVE FALSE
    BY <2>3 DEF Accept, LowestFree
  <2>4. ASSUME NEW c \in Conns, Relink(c) PROVE ClosedBy(fdt[f])
    BY <2>4 DEF Relink, At, EndRequest, Finish, ClosedBy
  <2>5. ASSUME NEW c \in Conns, CloseSocket(c) PROVE ClosedBy(fdt[f])
    <3>1. f = sock[c] /\ pc[c] = "close" /\ pc'[c] = "done" /\ fdt[f] \in Conns
      BY <2>5 DEF CloseSocket, ClosedFd, Closed, At, Goto
    <3>2. c \in Misread \/ c \in robbed \/ fdt[f] = c
      BY <3>1 DEF Sockets, Misread
    <3>3. QED
      BY <3>1, <3>2 DEF ClosedBy
  <2>6. QED
    BY <2>1, <2>2, <2>3, <2>4, <2>5
<1>2. QED
  BY <1>1, SoundInvariant, PTL DEF Spec, ClosedByOwner

\* What a step may do to the history variables: they only grow.
LEMMA HistoryGrows ==
  ASSUME Sound, [Next]_vars
  PROVE  /\ robbed \subseteq robbed' /\ kicked \subseteq kicked' /\ (clash => clash')
         /\ Misread \subseteq Misread'
<1> USE DEF Sound, IInv, TypeOK, Cursors
<1>1. robbed \subseteq robbed' /\ kicked \subseteq kicked' /\ (clash => clash')
  BY DEF Next, Handle, Join, Create, Broadcast, Command, vars, shared, history,
         CreateThread, CreateFails, Accept, Hangup, Receive, ReadArg, CallRecv, Leave,
         Refuse, JoinBegin, Scan, NameInUse, TestHead, TailTest, TailNext, CastBegin,
         MsgBegin, MsgReply, Reply,
         AcceptFails, Block, SendReturns, SendBroken, Cast, CastEnd, PmsgBegin, Grant,
         Deny, Search, UnknownName, Deliver,
         CloseSocket, NameFree, FoundRoom, FoundLinks, Crown, LinkTail, TailLinks,
         PassOperator, SetTopic, KickFound, Unlink, Relink, SegFault, SigPipe, Dies,
         Publish
<1>2. ASSUME NEW t \in Misread PROVE t \in Misread'
  <2>1. sock[t] # 0 /\ sock[t] # own[t] /\ t \in Conns
    BY DEF Misread
  <2>2. peer[t] # "none"
    BY <2>1 DEF Sockets
  <2>3. sock' = sock \/ \E c \in Conns : ReadArg(c)
    BY DEF Next, Handle, Join, Create, Broadcast, Command, vars, shared, locals,
         CreateThread, CreateFails, Accept, Hangup, Receive, CallRecv, Leave, Refuse,
         JoinBegin, Scan, NameInUse, TestHead, TailTest, TailNext, CastBegin, MsgBegin,
         MsgReply, Reply, AcceptFails, Block, SendReturns, SendBroken, Cast,
         CastEnd, PmsgBegin, Grant, Deny, Search, UnknownName, Deliver, CloseSocket,
         NameFree, FoundRoom, FoundLinks, Crown, LinkTail, TailLinks, PassOperator,
         SetTopic, KickFound, Unlink, Relink, SegFault, SigPipe, Dies, Publish, Goto,
         Visit, EndRequest, Finish
  <2>. own' = own \/ \E c \in Conns : Accept(c)
    BY DEF Next, Handle, Join, Create, Broadcast, Command, vars, shared, procVars,
         CreateThread, CreateFails, Hangup, Receive, ReadArg, CallRecv, Leave, Refuse,
         JoinBegin, Scan, NameInUse, TestHead, TailTest, TailNext, CastBegin, MsgBegin,
         MsgReply, Reply, AcceptFails, Block, SendReturns, SendBroken, Cast,
         CastEnd, PmsgBegin, Grant, Deny, Search, UnknownName, Deliver, CloseSocket,
         NameFree, FoundRoom, FoundLinks, Crown, LinkTail, TailLinks, PassOperator,
         SetTopic, KickFound, Unlink, Relink, SegFault, SigPipe, Dies, Publish
  <2>4. sock'[t] = sock[t] /\ own'[t] = own[t]
    BY <2>1, <2>2, <2>3 DEF Accept, ReadArg, At, Sockets
  <2>5. QED
    BY <2>1, <2>4 DEF Misread
<1>3. QED
  BY <1>1, <1>2

\* No handler loses its descriptor to another one before there was a KICK or a
\* handler read the descriptor of another.
THEOREM RobberyNeedsCause == Spec => []RobbedOnlyAfter
<1>1. Init => RobbedOnlyAfter
  BY DEF Init, RobbedOnlyAfter
<1>2. Sound /\ RobbedOnlyAfter /\ [Next]_vars => RobbedOnlyAfter'
  <2> SUFFICES ASSUME Sound, RobbedOnlyAfter, [Next]_vars,
                      robbed' # {}, kicked' = {}, Misread' = {}
               PROVE  FALSE
    BY DEF RobbedOnlyAfter
  <2>1. robbed = {} /\ kicked = {} /\ Misread = {}
    BY HistoryGrows DEF RobbedOnlyAfter
  <2>2. PICK t \in Conns : CloseSocket(t) \/ Relink(t)
    BY <2>1 DEF Next, Handle, Join, Create, Broadcast, Command, vars, shared, history,
         CreateThread, CreateFails, Accept, Hangup, Receive, ReadArg, CallRecv, Leave,
         Refuse, JoinBegin, Scan, NameInUse, TestHead, TailTest, TailNext, CastBegin,
         MsgBegin, MsgReply, Reply,
         AcceptFails, Block, SendReturns, SendBroken, Cast, CastEnd, PmsgBegin, Grant,
         Deny, Search, UnknownName, Deliver, NameFree,
         FoundRoom, FoundLinks, Crown, LinkTail, TailLinks, PassOperator, SetTopic,
         KickFound, Unlink, SegFault, SigPipe, Dies, Publish
  <2>3. CASE CloseSocket(t)
    <3>1. own[t] = sock[t] /\ fdt[own[t]] = t /\ sock[t] \in Fd
      BY <2>1, <2>3 DEF CloseSocket, At, Sound, Sockets, Misread
    <3>2. Conn(ClosedFd(t)) = t
      BY <3>1 DEF Conn, ClosedFd
    <3>3. QED
      BY <2>1, <2>3, <3>2 DEF CloseSocket
  <2>4. CASE Relink(t)
    BY <2>4 DEF Relink
  <2>5. QED
    BY <2>2, <2>3, <2>4
<1>3. QED
  BY <1>1, <1>2, SoundInvariant, PTL DEF Spec

\* A handler enters a granted command only through the check.
LEMMA OnlyGrantGrants ==
  ASSUME IInv, [Next]_vars, NEW w \in Conns, pc[w] \notin Granting, pc'[w] \in Granting
  PROVE  Grant(w)
<1> pc \in [Conns -> Pcs]
  BY DEF IInv, TypeOK
<1> USE DEF Granting, AllCommands
<1>1. ASSUME CreateThread PROVE Grant(w)
  BY <1>1 DEF CreateThread, At, Goto, Visit, EndRequest, Finish, Publish, shared
<1>2. ASSUME CreateFails PROVE Grant(w)
  BY <1>2 DEF CreateFails, At, Goto, Visit, EndRequest, Finish, Publish, shared
<1>3. ASSUME NEW c \in Conns, Accept(c) PROVE Grant(w)
  BY <1>3 DEF Accept, At, Goto, Visit, EndRequest, Finish, Publish, shared
<1>4. ASSUME NEW c \in Conns, Hangup(c) PROVE Grant(w)
  BY <1>4 DEF Hangup, At, Goto, Visit, EndRequest, Finish, Publish, shared
<1>5. ASSUME NEW c \in Conns, Receive(c) PROVE Grant(w)
  <2>1. PICK cmd \in AllCommands : pc' = [pc EXCEPT ![c] = cmd]
    BY <1>5 DEF Receive
  <2>2. QED
    BY <1>5, <2>1 DEF Receive, At
<1>6. ASSUME NEW t \in Conns, ReadArg(t) PROVE Grant(w)
  BY <1>6 DEF ReadArg, At, Goto, Visit, EndRequest, Finish, Publish, shared
<1>7. ASSUME NEW t \in Conns, CallRecv(t) PROVE Grant(w)
  BY <1>7 DEF CallRecv, At, Goto, Visit, EndRequest, Finish, Publish, shared
<1>8. ASSUME NEW t \in Conns, Leave(t) PROVE Grant(w)
  BY <1>8 DEF Leave, At, Goto, Visit, EndRequest, Finish, Publish, shared
<1>9. ASSUME NEW t \in Conns, Refuse(t) PROVE Grant(w)
  BY <1>9, SMTT(30) DEF Refuse, At, Goto, Visit, EndRequest, Finish, Publish, shared
<1>10. ASSUME NEW t \in Conns, JoinBegin(t) PROVE Grant(w)
  BY <1>10 DEF JoinBegin, At, Goto, Visit, EndRequest, Finish, Publish, shared
<1>11. ASSUME NEW t \in Conns, Scan(t) PROVE Grant(w)
  BY <1>11, SMTT(30) DEF Scan, At, Goto, Visit, EndRequest, Finish, Publish, shared
<1>12. ASSUME NEW t \in Conns, NameInUse(t) PROVE Grant(w)
  BY <1>12, SMTT(30) DEF NameInUse, At, Goto, Visit, EndRequest, Finish, Publish, shared
<1>13. ASSUME NEW t \in Conns, TestHead(t) PROVE Grant(w)
  BY <1>13 DEF TestHead, At, Goto, Visit, EndRequest, Finish, Publish, shared
<1>14. ASSUME NEW t \in Conns, TailTest(t) PROVE Grant(w)
  BY <1>14 DEF TailTest, At, Goto, Visit, EndRequest, Finish, Publish, shared
<1>15. ASSUME NEW t \in Conns, TailNext(t) PROVE Grant(w)
  BY <1>15, SMTT(30) DEF TailNext, At, Goto, Visit, EndRequest, Finish, Publish, shared
<1>16. ASSUME NEW t \in Conns, CastBegin(t) PROVE Grant(w)
  BY <1>16 DEF CastBegin, At, Goto, Visit, EndRequest, Finish, Publish, shared
<1>17. ASSUME NEW t \in Conns, Cast(t) PROVE Grant(w)
  BY <1>17, SMTT(30) DEF Cast, At, Goto, Visit, EndRequest, Finish, Publish, shared
<1>18. ASSUME NEW t \in Conns, CastEnd(t) PROVE Grant(w)
  BY <1>18, SMTT(30) DEF CastEnd, At, Goto, Visit, EndRequest, Finish, Publish, shared
<1>19. ASSUME NEW t \in Conns, PmsgBegin(t) PROVE Grant(w)
  BY <1>19 DEF PmsgBegin, At, Goto, Visit, EndRequest, Finish, Publish, shared
<1>20. ASSUME NEW t \in Conns, Grant(t) PROVE Grant(w)
  <2>1. t = w
    BY <1>20 DEF Grant, Visit
  <2>2. QED
    BY <1>20, <2>1
<1>21. ASSUME NEW t \in Conns, Deny(t) PROVE Grant(w)
  BY <1>21, SMTT(30) DEF Deny, At, Goto, Visit, EndRequest, Finish, Publish, shared
<1>22. ASSUME NEW t \in Conns, Search(t) PROVE Grant(w)
  BY <1>22, SMTT(30) DEF Search, At, Goto, Visit, EndRequest, Finish, Publish, shared
<1>23. ASSUME NEW t \in Conns, UnknownName(t) PROVE Grant(w)
  BY <1>23, SMTT(30) DEF UnknownName, At, Goto, Visit, EndRequest, Finish, Publish, shared
<1>24. ASSUME NEW t \in Conns, Deliver(t) PROVE Grant(w)
  BY <1>24, SMTT(30) DEF Deliver, At, Goto, Visit, EndRequest, Finish, Publish, shared
<1>25. ASSUME NEW t \in Conns, CloseSocket(t) PROVE Grant(w)
  BY <1>25 DEF CloseSocket, At, Goto, Visit, EndRequest, Finish, Publish, shared
<1>26. ASSUME NEW t \in Conns, NameFree(t) PROVE Grant(w)
  BY <1>26, SMTT(30) DEF NameFree, At, Goto, Visit, EndRequest, Finish, Publish, shared
<1>27. ASSUME NEW t \in Conns, FoundRoom(t) PROVE Grant(w)
  BY <1>27, SMTT(30) DEF FoundRoom, At, Goto, Visit, EndRequest, Finish, Publish, shared
<1>28. ASSUME NEW t \in Conns, FoundLinks(t) PROVE Grant(w)
  BY <1>28 DEF FoundLinks, At, Goto, Visit, EndRequest, Finish, Publish, shared
<1>29. ASSUME NEW t \in Conns, Crown(t) PROVE Grant(w)
  BY <1>29 DEF Crown, At, Goto, Visit, EndRequest, Finish, Publish, shared
<1>30. ASSUME NEW t \in Conns, LinkTail(t) PROVE Grant(w)
  BY <1>30, SMTT(30) DEF LinkTail, At, Goto, Visit, EndRequest, Finish, Publish, shared
<1>31. ASSUME NEW t \in Conns, TailLinks(t) PROVE Grant(w)
  BY <1>31, SMTT(30) DEF TailLinks, At, Goto, Visit, EndRequest, Finish, Publish, shared
<1>32. ASSUME NEW t \in Conns, PassOperator(t) PROVE Grant(w)
  BY <1>32, SMTT(30) DEF PassOperator, At, Goto, Visit, EndRequest, Finish, Publish, shared
<1>33. ASSUME NEW t \in Conns, SetTopic(t) PROVE Grant(w)
  BY <1>33, SMTT(30) DEF SetTopic, At, Goto, Visit, EndRequest, Finish, Publish, shared
<1>34. ASSUME NEW t \in Conns, KickFound(t) PROVE Grant(w)
  BY <1>34, SMTT(30) DEF KickFound, At, Goto, Visit, EndRequest, Finish, Publish, shared
<1>35. ASSUME NEW t \in Conns, Unlink(t) PROVE Grant(w)
  BY <1>35, SMTT(30) DEF Unlink, At, Goto, Visit, EndRequest, Finish, Publish, shared
<1>36. ASSUME NEW t \in Conns, Relink(t) PROVE Grant(w)
  BY <1>36, SMTT(30) DEF Relink, At, Goto, Visit, EndRequest, Finish, Publish, shared
<1>37. ASSUME NEW t \in Conns, SegFault(t) PROVE Grant(w)
  <2>1. Dies BY <1>37 DEF SegFault
  <2>2. QED BY <2>1 DEF Dies
<1>38. ASSUME NEW t \in Conns, SigPipe(t) PROVE Grant(w)
  <2>1. Dies BY <1>38 DEF SigPipe
  <2>2. QED BY <2>1 DEF Dies
<1>39. ASSUME AcceptFails PROVE Grant(w)
  BY <1>39 DEF AcceptFails
<1>40. ASSUME NEW t \in Conns, MsgBegin(t) \/ MsgReply(t) PROVE Grant(w)
  BY <1>40 DEF MsgBegin, MsgReply, At, Goto, Visit, shared
<1>41. ASSUME NEW t \in Conns, Reply(t) PROVE Grant(w)
  BY <1>41 DEF Reply, At, Goto, shared
<1>42. ASSUME NEW t \in Conns, Block(t) PROVE Grant(w)
  BY <1>42 DEF Block
<1>43. ASSUME NEW t \in Conns, SendReturns(t) \/ SendBroken(t) PROVE Grant(w)
  BY <1>43 DEF SendReturns, SendBroken
<1>44. CASE UNCHANGED vars
  BY <1>44 DEF vars
<1>45. QED
  BY <1>1, <1>2, <1>3, <1>4, <1>5, <1>6, <1>7, <1>8, <1>9, <1>10,
     <1>11, <1>12, <1>13, <1>14, <1>15, <1>16, <1>17, <1>18, <1>19, <1>20,
     <1>21, <1>22, <1>23, <1>24, <1>25, <1>26, <1>27, <1>28, <1>29, <1>30,
     <1>31, <1>32, <1>33, <1>34, <1>35, <1>36, <1>37, <1>38, <1>39, <1>40,
     <1>41, <1>42, <1>43, <1>44
  DEF Next, Handle, Join, Create, Broadcast, Command

\* A granted KICK, OP or TOPIC still has the operator's right when it takes
\* effect, unless the room had two founders or descriptors went wrong.
THEOREM GrantsStayValid == Spec => []OperatorStill
<1>1. Init => OperatorStill
  BY DEF Init, OperatorStill
<1>2. Sound /\ OperatorStill /\ [Next]_vars => OperatorStill'
  <2> SUFFICES ASSUME Sound, OperatorStill, [Next]_vars,
                      NEW t \in Conns, pc'[t] \in Granting,
                      ~clash', Misread' = {}, robbed' = {}
               PROVE  key' # NULL /\ user'[key'].numclient = sock'[t]
    BY DEF OperatorStill, IsOperator, Granting
  <2>1. ~clash /\ robbed = {} /\ Misread = {}
    BY HistoryGrows
  <2>2. ASSUME NEW u \in Conns, pc[u] \in Granting
        PROVE  key \in Allocated /\ user[key].numclient = sock[u]
    BY <2>1, <2>2 DEF OperatorStill, IsOperator, Granting, Sound, IInv, TypeOK, Cursors,
       Node,
                      NULL, Allocated
  <2>3. CASE pc[t] \in Granting /\ key' = key
    <3>1. user' = user \/ \E u \in Conns : Publish(u)
      BY DEF Next, Handle, Join, Create, Broadcast, Command, vars, shared, ptrVars,
         CreateThread, CreateFails, Accept, Hangup, Receive, ReadArg, CallRecv, Leave,
         Refuse, JoinBegin, Scan, NameInUse, TestHead, TailTest, TailNext, CastBegin,
         MsgBegin, MsgReply, Reply,
         AcceptFails, Block, SendReturns, SendBroken, Cast, CastEnd, PmsgBegin, Grant,
         Deny, Search, UnknownName, Deliver,
         CloseSocket, NameFree, FoundRoom, FoundLinks, Crown, LinkTail, TailLinks,
         PassOperator, SetTopic, KickFound, Unlink, Relink, SegFault, SigPipe, Dies
    <3> user \in [Node -> Users] /\ alloc \in Nat /\ key \in Node /\ key < alloc + 1
      BY <2>2, <2>3, ConstantsAssumption DEF Sound, IInv, TypeOK, Allocated, NULL, Node
    <3>2. user'[key] = user[key]
      <4>1. CASE user' = user
        BY <4>1
      <4>2. ASSUME NEW u \in Conns, Publish(u) PROVE user'[key] = user[key]
        BY <4>2, ConstantsAssumption DEF Publish, NewNode, Node
      <4>3. QED
        BY <3>1, <4>1, <4>2
    <3>3. sock' = sock \/ \E u \in Conns : ReadArg(u)
      BY DEF Next, Handle, Join, Create, Broadcast, Command, vars, shared, locals,
         CreateThread, CreateFails, Accept, Hangup, Receive, CallRecv, Leave, Refuse,
         JoinBegin, Scan, NameInUse, TestHead, TailTest, TailNext, CastBegin, MsgBegin,
         MsgReply, Reply, AcceptFails, Block, SendReturns, SendBroken, Cast,
         CastEnd, PmsgBegin, Grant, Deny, Search, UnknownName, Deliver, CloseSocket,
         NameFree, FoundRoom, FoundLinks, Crown, LinkTail, TailLinks, PassOperator,
         SetTopic, KickFound, Unlink, Relink, SegFault, SigPipe, Dies, Publish, Goto,
         Visit, EndRequest, Finish
    <3>4. sock'[t] = sock[t]
      BY <2>3, <3>3 DEF ReadArg, At, Granting, Sound, IInv, TypeOK
    <3>5. QED
      BY <2>2, <2>3, <3>2, <3>4 DEF Allocated, NULL
  <2>4. CASE pc[t] \in Granting /\ key' # key
    <3>1. PICK u \in Conns : Crown(u) \/ PassOperator(u)
      BY <2>4 DEF Next, Handle, Join, Create, Broadcast, Command, vars, shared,
         CreateThread, CreateFails, Accept, Hangup, Receive, ReadArg, CallRecv, Leave,
         Refuse, JoinBegin, Scan, NameInUse, TestHead, TailTest, TailNext, CastBegin,
         MsgBegin, MsgReply, Reply,
         AcceptFails, Block, SendReturns, SendBroken, Cast, CastEnd, PmsgBegin, Grant,
         Deny, Search, UnknownName, Deliver,
         CloseSocket, NameFree, FoundRoom, FoundLinks, LinkTail, TailLinks, SetTopic,
         KickFound, Unlink, Relink, SegFault, SigPipe, Dies, Publish
    <3>2. CASE Crown(u)
      BY <2>1, <2>2, <2>4, <3>2 DEF Crown, At, Sound, Writers, Founders, Granting
    <3>3. CASE PassOperator(u)
      <4>1. u # t
        BY <2>4, <3>3 DEF PassOperator, EndRequest, Finish, At, Granting, Sound, IInv,
           TypeOK
      <4>2. sock[u] = sock[t]
        BY <2>2, <2>4, <3>3 DEF PassOperator, Heir, At, Granting
      <4>3. own[u] = sock[u] /\ own[t] = sock[t] /\ fdt[own[u]] = u /\ fdt[own[t]] = t
        BY <2>1, <2>4, <3>3
           DEF PassOperator, At, Granting, Sound, Sockets, Misread
      <4>4. QED
        BY <4>1, <4>2, <4>3
    <3>4. QED
      BY <3>1, <3>2, <3>3
  <2>5. CASE pc[t] \notin Granting
    <3>2. Grant(t)
      BY <2>5, OnlyGrantGrants DEF Sound
    <3>3. QED
      BY <3>2 DEF Grant, MayCommand, IsOperator, Visit, shared, ptrVars
  <2>6. QED
    BY <2>3, <2>4, <2>5
<1>3. QED
  BY <1>1, <1>2, SoundInvariant, PTL DEF Spec
=============================================================================
