-------------------------- MODULE ThreadChatProofs --------------------------
(***************************************************************************)
(* Theorems about the threaded chat, for any number of connections,        *)
(* descriptors and clients.  Bounds are the types and what holds whatever  *)
(* the threads do to each other; Fits is what holds while every thread     *)
(* runs with the descriptor accepted for it, Names what holds while no two *)
(* pairs of strtok calls overlap, and Lined what holds while every thread  *)
(* is counted before accept returns again.                                 *)
(***************************************************************************)
EXTENDS ThreadChatProps, FiniteSetTheorems, TLAPS

\* main between accept and the new thread.
Busy == mainPc \in {"cap", "store", "create"}
Counted == {t \in Conns : pc[t] \in {"talk", "hear", "cast", "send", "close", "done"}}

Local(t) ==
  /\ peer[t] = "none" => own[t] = 0 /\ pc[t] = "none"
  /\ peer[t] # "none" => own[t] \in Fd /\ cell # 0
  /\ pc[t] \in {"none", "start"} => sock[t] = 0
  /\ pc[t] \in {"name", "hear"} => wait[t] \in Conns
  /\ pc[t] = "name" => name[t] = NoConn
  /\ pc[t] = "token" => line[t].from \in Conns /\ line[t].kind # "TEXT"
  /\ pc[t] \in {"cast", "send"} => line[t].from \in Conns
  /\ pc[t] = "send" => i[t] \in Index
Bounds ==
  /\ TypeOK
  /\ Busy => /\ cell \in Fd /\ accepted \in Conns /\ cell = own[accepted]
             /\ pc[accepted] = "none" /\ peer[accepted] # "none"
  /\ save = NoConn => rest = "used"
  /\ \A f \in Fd : fdt[f] # NoConn => own[fdt[f]] = f
  /\ \A t \in Conns : Local(t)

\* What belongs to t's own connection.
Alive(t) == pc[t] \notin {"none", "done"}
Fit(t) ==
  /\ Alive(t) => fdt[own[t]] = t
  /\ (Alive(t) /\ pc[t] # "start") => sock[t] = own[t]
  /\ pc[t] \in {"name", "hear"} => wait[t] = t
  /\ pc[t] \in {"token", "cast", "send"} => line[t].from = t
  /\ pc[t] = "send" => clients[i[t]] # own[t]
Fits ==
  /\ Busy => fdt[cell] = accepted
  /\ \A t \in Conns : Fit(t)
  /\ \A c \in Conns : \A n \in DOMAIN got[c] : got[c][n] # c

Named(t) ==
  \/ name[t] = t /\ line[t] = [from |-> t, kind |-> "NAME"]
  \/ name[t] = NoConn /\ peer[t] = "gone"
Tokens == \A t \in Conns : pc[t] = "token" => save = t /\ rest = "fresh"
Names == \A t \in Conns : pc[t] \in {"count", "inc"} => Named(t)

\* Slot k is that of a thread that was counted; two slots alike are two threads'.
Owned(k) == \E c \in Counted : own[c] = clients[k]
Twins(k, l) == \E c, d \in Counted : c # d /\ own[c] = clients[k] /\ own[d] = clients[l]
Lined ==
  /\ Misread = {}
  /\ \A t \in Conns : pc[t] \in Uncounted =>
       /\ accepted = t /\ cell = own[t] /\ mainPc = "accept"
       /\ num \in Index /\ clients[num] = own[t]
       /\ pc[t] = "inc" => tmp[t] = num
  /\ mainPc = "create" => num \in Index /\ clients[num] = cell
  /\ \A t \in Talking : \E k \in Index : k < num /\ clients[k] = own[t]
  /\ \A k \in Index : k < num => Owned(k)
  /\ \A k, l \in Index : (k < l /\ l < num /\ clients[k] = clients[l]) => Twins(k, l)
  /\ IsFiniteSet(Counted) /\ num = Cardinality(Counted) /\ num <= MaxClients

IInv ==
  /\ Bounds
  /\ Misread = {} => Fits
  /\ ~mixed => Tokens
  /\ (Misread = {} /\ ~mixed) => Names
  /\ ~crowd => Lined

-----------------------------------------------------------------------------
(* Operators *)

LEMMA Sets ==
  /\ Fd \subseteq Nat \ {0} /\ 0 \notin Fd /\ NoFd \notin Fd /\ NoFd # 0 /\ Terminal = 0
  /\ Index \subseteq Nat /\ MaxClients \in Nat /\ \A n \in Index : n + 1 <= MaxClients
  /\ NoConn \notin Conns /\ Kinds \subseteq AllKinds
BY ConstantsAssumption DEF Fd, NoFd, Terminal, Index

LEMMA ConnOf ==
  ASSUME TypeOK, NEW f
  PROVE  /\ Conn(f) \in Conns \cup {NoConn}
         /\ Conn(f) # NoConn => f \in Fd /\ fdt[f] = Conn(f)
         /\ f \in Fd => Conn(f) = fdt[f]
BY DEF Conn, TypeOK

LEMMA ClosedIs ==
  ASSUME TypeOK, NEW f
  PROVE  /\ Closed(f) \in [Fd -> Conns \cup {NoConn}]
         /\ \A g \in Fd : Closed(f)[g] = IF g = f THEN NoConn ELSE fdt[g]
BY DEF Closed, TypeOK

\* CallRecv's two uses of recv.
LEMMA Recv ==
  ASSUME TypeOK, NEW t \in Conns, CallRecv(t)
  PROVE  \/ /\ pc[t] = "ask"
            /\ pc' = [pc EXCEPT ![t] = IF Conn(sock[t]) = NoConn THEN "count" ELSE "name"]
            /\ name' = [name EXCEPT ![t] = NoConn]
         \/ /\ pc[t] = "talk"
            /\ pc' = [pc EXCEPT ![t] = IF Conn(sock[t]) = NoConn THEN "close" ELSE "hear"]
            /\ UNCHANGED name
<1> DEFINE l == CASE pc[t] = "ask" -> IF Conn(sock[t]) = NoConn THEN "count" ELSE "name"
                  [] pc[t] = "talk" -> IF Conn(sock[t]) = NoConn THEN "close" ELSE "hear"
<1>1. pc[t] \in {"ask", "talk"} /\ pc' = [pc EXCEPT ![t] = l]
  BY DEF CallRecv, At, Own, Goto
<1>2. pc[t] = "ask" => l = IF Conn(sock[t]) = NoConn THEN "count" ELSE "name"
  BY Zenon
<1>3. pc[t] = "talk" => l = IF Conn(sock[t]) = NoConn THEN "close" ELSE "hear"
  BY Zenon
<1>4. name' = IF pc[t] = "ask" THEN [name EXCEPT ![t] = NoConn] ELSE name
  BY DEF CallRecv
<1> HIDE DEF l
<1>5. CASE pc[t] = "ask"
  BY <1>1, <1>2, <1>4, <1>5
<1>6. CASE pc[t] = "talk"
  BY <1>1, <1>3, <1>4, <1>6
<1>7. QED
  BY <1>1, <1>5, <1>6

\* What a send adds to what clients got.
LEMMA Sent ==
  ASSUME TypeOK, NEW t \in Conns, line[t].from \in Conns, Send(t)
  PROVE  /\ got' \in [Conns -> Seq(Conns)]
         /\ \A c \in Conns :
              got'[c] = IF c = Target(t) THEN Append(got[c], line[t].from) ELSE got[c]
<1>1. CASE Target(t) = NoConn
  BY <1>1, Sets DEF Send, TypeOK
<1>2. CASE Target(t) \in Conns
  <2>1. \A c \in Conns : got[c] \in Seq(Conns)
    BY DEF TypeOK
  <2>2. got' = [got EXCEPT ![Target(t)] = Append(@, line[t].from)]
    BY <1>2, Sets DEF Send
  <2>3. Append(got[Target(t)], line[t].from) \in Seq(Conns)
    BY <1>2, <2>1
  <2>4. QED
    BY <1>2, <2>2, <2>3 DEF TypeOK
<1>3. QED
  BY <1>1, <1>2, ConnOf DEF Target

-----------------------------------------------------------------------------
(* Bounds is inductive *)

LEMMA InitBounds == Init => Bounds
<1> SUFFICES ASSUME Init PROVE Bounds
  OBVIOUS
<1>1. got \in [Conns -> Seq(Conns)]
  <2>1. <<>> \in Seq(Conns)
    OBVIOUS
  <2>2. QED
    BY <2>1 DEF Init
<1>2. TypeOK
  <2>1. /\ sent \in 0..MaxSends /\ hungup \in 0..MaxHangups /\ num \in Nat
        /\ tmp \in [Conns -> Nat] /\ i \in [Conns -> Nat]
    BY ConstantsAssumption DEF Init
  <2>2. /\ line \in [Conns -> [from : Conns \cup {NoConn}, kind : AllKinds]]
        /\ clients \in [Index -> Fd \cup {Terminal}]
    BY DEF Init, AllKinds
  <2>3. QED
    BY <1>1, <2>1, <2>2 DEF Init, TypeOK
<1>3. \A t \in Conns : Local(t)
  BY DEF Init, Local
<1>4. QED
  BY <1>2, <1>3 DEF Init, Bounds, Busy

LEMMA BoundsMain ==
  ASSUME Bounds, AcceptFails \/ Cap \/ Refuse \/ Store \/ CreateThread \/ CreateFails
                   \/ \E c \in Conns : Accept(c) \/ Hangup(c)
  PROVE  Bounds'
<1> USE DEF Bounds, Busy, Local
<1>1. ASSUME NEW c \in Conns, Accept(c) PROVE Bounds'
  <2>1. PICK f \in Fd : /\ fdt[f] = NoConn /\ fdt' = [fdt EXCEPT ![f] = c]
                        /\ own' = [own EXCEPT ![c] = f] /\ cell' = f
    BY <1>1 DEF Accept, LowestFree
  <2>2. /\ mainPc = "accept" /\ mainPc' = "cap" /\ accepted' = c /\ peer[c] = "none"
        /\ peer' = [peer EXCEPT ![c] = "open"]
        /\ UNCHANGED <<up, sent, hungup, arrayVars, tokenVars, pc, sock, wait, nameVars, tmp, i,
                       got>>
    BY <1>1 DEF Accept
  <2>3. crowd' \in BOOLEAN
    BY <1>1 DEF Accept, Crowded, TypeOK
  <2>4. TypeOK'
    BY <2>1, <2>2, <2>3 DEF TypeOK, arrayVars, tokenVars, nameVars
  <2>5. \A g \in Fd : fdt'[g] # NoConn => own'[fdt'[g]] = g
    BY <2>1, <2>2, Sets DEF TypeOK
  <2>6. \A t \in Conns : Local(t)'
    BY <2>1, <2>2, Sets DEF TypeOK, arrayVars, tokenVars, nameVars
  <2>7. cell' = own'[accepted'] /\ pc'[accepted'] = "none" /\ peer'[accepted'] # "none"
    BY <2>1, <2>2 DEF TypeOK
  <2>8. QED
    BY <2>1, <2>2, <2>4, <2>5, <2>6, <2>7 DEF tokenVars
<1>2. ASSUME NEW c \in Conns, Hangup(c) PROVE Bounds'
  <2>1. hungup' \in 0..MaxHangups
    <3>1. hungup < MaxHangups /\ hungup' = hungup + 1 /\ hungup \in 0..MaxHangups
      BY <1>2 DEF Hangup, TypeOK
    <3>2. QED
      BY <3>1, ConstantsAssumption
  <2>2. /\ peer[c] = "open" /\ peer' = [peer EXCEPT ![c] = "gone"]
        /\ UNCHANGED <<up, mainPc, cell, accepted, own, sent, fdt, clients, num, save, rest, mixed,
                       pc, sock, wait, line, blank, name, tmp, i, crowd, got>>
    BY <1>2 DEF Hangup, mainVars, arrayVars, tokenVars, nameVars
  <2>3. TypeOK'
    BY <2>1, <2>2 DEF TypeOK
  <2>4. peer' \in [Conns -> {"none", "open", "gone"}]
        /\ \A t \in Conns : peer'[t] = "none" <=> peer[t] = "none"
    BY <2>2 DEF TypeOK
  <2>5. \A t \in Conns : Local(t)'
    BY <2>2, <2>4
  <2>6. QED
    BY <2>2, <2>3, <2>4, <2>5
<1>3. CASE AcceptFails
  <2>1. crowd' \in BOOLEAN
    BY <1>3 DEF AcceptFails, Crowded, TypeOK
  <2>2. QED
    BY <1>3, <2>1, Sets DEF AcceptFails, TypeOK, netVars, arrayVars, tokenVars, nameVars
<1>4. CASE Cap \/ Refuse \/ CreateFails
  <2>1. PICK l \in {"store", "accept"}, table \in {fdt, Closed(cell)} :
          Main(l, table) /\ UNCHANGED <<arrayVars, pc>> /\ Busy
    BY <1>4 DEF Cap, Refuse, CreateFails
  <2>2. /\ table \in [Fd -> Conns \cup {NoConn}]
        /\ \A f \in Fd : table[f] # NoConn => table[f] = fdt[f]
    BY ClosedIs DEF TypeOK
  <2>3. /\ mainPc' = l /\ fdt' = table
        /\ UNCHANGED <<up, cell, accepted, own, peer, sent, hungup, clients, num, save, rest, mixed,
                       pc, sock, wait, line, blank, name, tmp, i, crowd, got>>
    BY <2>1 DEF Main, netVars, arrayVars, tokenVars, nameVars
  <2>4. TypeOK'
    BY <2>2, <2>3 DEF TypeOK
  <2>5. \A t \in Conns : Local(t)'
    BY <2>3
  <2>6. \A f \in Fd : fdt'[f] # NoConn => own'[fdt'[f]] = f
    BY <2>2, <2>3
  <2>7. QED
    BY <2>1, <2>3, <2>4, <2>5, <2>6
<1>5. CASE Store
  <2>1. clients' \in [Index -> Fd \cup {Terminal}]
    BY <1>5 DEF Store, Slot, TypeOK
  <2>2. QED
    BY <1>5, <2>1 DEF Store, Main, TypeOK, netVars, tokenVars, nameVars
<1>6. CASE CreateThread
  BY <1>6 DEF CreateThread, Goto, Main, TypeOK, netVars, arrayVars, tokenVars, nameVars
<1>7. QED
  BY <1>1, <1>2, <1>3, <1>4, <1>5, <1>6

LEMMA BoundsThread == ASSUME Bounds, NEW t \in Conns, Thread(t) PROVE Bounds'
<1> USE DEF Bounds, Busy, Local
<1>0. /\ UNCHANGED <<up, mainPc, cell, accepted, own, peer, hungup, clients, crowd>>
      /\ pc[t] \notin {"none", "done"}
  BY DEF Thread, ReadArg, Greet, CallRecv, Leave, Answer, Token, TokenOfRefill, TakeName, Load,
         CountSelf, Hear, Receive, Test, Send, CastEnd, CloseSocket, Own, At, mainVars, netVars,
         arrayVars
<1>1. CASE ReadArg(t)
  BY <1>0, <1>1 DEF ReadArg, At, Own, Goto, TypeOK, netVars, tokenVars, nameVars
<1>2. CASE Greet(t)
  BY <1>0, <1>2 DEF Greet, At, Own, Goto, TypeOK, netVars, tokenVars, nameVars
<1>3. CASE CallRecv(t)
  <2>1. /\ wait' = [wait EXCEPT ![t] = Conn(sock[t])]
        /\ UNCHANGED <<fdt, num, tokenVars, sent, sock, line, blank, tmp, i, got>>
    BY <1>3 DEF CallRecv, Own, netVars
  <2>2. PICK l \in {"count", "name", "close", "hear"} :
          /\ pc' = [pc EXCEPT ![t] = l]
          /\ l \in {"name", "hear"} => Conn(sock[t]) # NoConn
          /\ name' = [name EXCEPT ![t] = NoConn] \/ (UNCHANGED name /\ l # "name")
    BY <1>3, Recv
  <2>3. /\ wait' \in [Conns -> Conns \cup {NoConn}]
        /\ l \in {"name", "hear"} => wait'[t] \in Conns
        /\ \A u \in Conns \ {t} : wait'[u] = wait[u]
    BY <2>1, <2>2, ConnOf DEF TypeOK
  <2>4. /\ name' \in [Conns -> Conns \cup {NoConn}]
        /\ l = "name" => name'[t] = NoConn
        /\ \A u \in Conns \ {t} : name'[u] = name[u]
    BY <2>2 DEF TypeOK
  <2>5. TypeOK'
    BY <1>0, <2>1, <2>2, <2>3, <2>4 DEF TypeOK, tokenVars
  <2>6. \A u \in Conns \ {t} : pc'[u] = pc[u]
    BY <2>2 DEF TypeOK
  <2>7. \A u \in Conns \ {t} : Local(u)'
    BY <1>0, <2>1, <2>3, <2>4, <2>6
  <2>8. pc'[t] = l
    BY <2>2 DEF TypeOK
  <2>9. Local(t)'
    BY <1>0, <2>1, <2>2, <2>3, <2>4, <2>8
  <2>10. QED
    BY <1>0, <2>1, <2>5, <2>6, <2>7, <2>8, <2>9 DEF tokenVars
<1>4. CASE Leave(t)
  BY <1>0, <1>4 DEF Leave, At, Own, Goto, TypeOK, netVars, tokenVars, nameVars
<1>5. ASSUME Answer(t) \/ Hear(t) PROVE Bounds'
  <2>1. /\ pc[t] \in {"name", "hear"} /\ wait[t] \in Conns
        /\ UNCHANGED <<fdt, num, sock, blank, name, tmp, got>>
    BY <1>5 DEF Answer, Hear, Receive, At, arrayVars
  <2>2. sent' \in 0..MaxSends /\ wait' = [wait EXCEPT ![t] = NoConn]
    BY <1>5, ConstantsAssumption DEF Answer, Hear, Receive, TypeOK
  <2>3. PICK kind \in AllKinds, l \in {"ask", "token", "cast"} :
          /\ line' = [line EXCEPT ![t] = [from |-> wait[t], kind |-> kind]]
          /\ pc' = [pc EXCEPT ![t] = l]
          /\ l = "token" => kind # "TEXT"
    <3>1. CASE Answer(t)
      BY <3>1, Sets DEF Answer, Receive, Goto
    <3>2. CASE Hear(t)
      BY <3>2 DEF Hear, Receive, Goto, AllKinds
    <3>3. QED
      BY <1>5, <3>1, <3>2
  <2>4. i' \in [Conns -> Nat] /\ \A u \in Conns \ {t} : i'[u] = i[u]
    <3>1. CASE Answer(t)
      BY <3>1 DEF Answer, TypeOK
    <3>2. CASE Hear(t)
      BY <3>2, Sets DEF Hear, TypeOK
    <3>3. QED
      BY <1>5, <3>1, <3>2
  <2>5. /\ save' \in Conns \cup {NoConn} /\ rest' \in {"fresh", "used", "refilled"}
        /\ mixed' \in BOOLEAN
        /\ save' = NoConn => rest' = "used"
    <3>1. CASE Answer(t)
      <4>1. \/ /\ rest' = IF save = t /\ rest = "used" THEN "refilled" ELSE rest
               /\ UNCHANGED <<save, mixed>>
            \/ /\ save' = t /\ rest' = "fresh"
               /\ mixed' = (mixed \/ \E u \in Conns \ {t} : pc[u] = "token")
        BY <3>1 DEF Answer
      <4>2. mixed' \in BOOLEAN
        BY <4>1 DEF TypeOK
      <4>3. save' \in Conns \cup {NoConn} /\ rest' \in {"fresh", "used", "refilled"}
        BY <4>1 DEF TypeOK
      <4>4. save' = NoConn => rest' = "used"
        BY <4>1, Sets
      <4>5. QED
        BY <4>2, <4>3, <4>4
    <3>2. CASE Hear(t)
      BY <3>2, Sets DEF Hear, TypeOK
    <3>3. QED
      BY <1>5, <3>1, <3>2
  <2>6. line' \in [Conns -> [from : Conns \cup {NoConn}, kind : AllKinds]]
    BY <2>1, <2>3 DEF TypeOK
  <2>7. TypeOK'
    BY <1>0, <2>1, <2>2, <2>3, <2>4, <2>5, <2>6 DEF TypeOK
  <2>8. \A u \in Conns : Local(u)'
    BY <1>0, <2>1, <2>2, <2>3, <2>4 DEF TypeOK
  <2>9. QED
    BY <1>0, <2>1, <2>3, <2>5, <2>7, <2>8
<1>6. ASSUME Token(t) \/ TokenOfRefill(t) PROVE Bounds'
  <2>1. PICK s \in Conns \cup {NoConn}, long \in BOOLEAN, hasBlank \in BOOLEAN :
          TakeName(t, s, long, hasBlank)
    <3>1. CASE Token(t)
      <4>1. save \in Conns
        BY <3>1 DEF Token, TypeOK
      <4>2. line[save].from \in Conns \cup {NoConn}
        BY <4>1 DEF TypeOK
      <4>3. (line[save].kind # "SHORT") \in BOOLEAN /\ HasBlank(line[save].kind) \in BOOLEAN
        BY DEF HasBlank
      <4>4. QED
        BY <3>1, <4>2, <4>3 DEF Token
    <3>2. CASE TokenOfRefill(t)
      BY <3>2 DEF TokenOfRefill
    <3>3. QED
      BY <1>6, <3>1, <3>2
  <2>2. pc[t] = "token"
    BY <1>6 DEF Token, TokenOfRefill, At
  <2>3. QED
    BY <1>0, <2>1, <2>2 DEF TakeName, Own, Goto, TypeOK, netVars
<1>7. CASE Load(t)
  BY <1>0, <1>7 DEF Load, At, Own, Goto, TypeOK, netVars, tokenVars, nameVars
<1>8. CASE CountSelf(t)
  <2>1. num' \in Nat
    BY <1>8 DEF CountSelf, TypeOK
  <2>2. QED
    BY <1>0, <1>8, <2>1 DEF CountSelf, At, Own, Goto, TypeOK, netVars, tokenVars, nameVars
<1>9. CASE Test(t)
  <2>1. i[t] \in Index /\ i[t] + 1 \in Nat
    BY <1>9 DEF Test, TypeOK
  <2>2. QED
    BY <1>0, <1>9, <2>1 DEF Test, At, Own, Goto, TypeOK, netVars, tokenVars, nameVars
<1>10. CASE Send(t)
  <2>1. pc[t] = "send" /\ got' \in [Conns -> Seq(Conns)]
    BY <1>10, Sent DEF Send, At
  <2>2. i[t] + 1 \in Nat
    BY DEF TypeOK
  <2>3. QED
    BY <1>0, <1>10, <2>1, <2>2 DEF Send, Own, Goto, TypeOK, netVars, tokenVars, nameVars
<1>11. CASE CastEnd(t)
  BY <1>0, <1>11 DEF CastEnd, At, Own, Goto, TypeOK, netVars, tokenVars, nameVars
<1>12. CASE CloseSocket(t)
  BY <1>0, <1>12, ClosedIs DEF CloseSocket, At, Own, Goto, TypeOK, netVars, tokenVars, nameVars
<1>13. QED
  BY <1>1, <1>2, <1>3, <1>4, <1>5, <1>6, <1>7, <1>8, <1>9, <1>10, <1>11, <1>12 DEF Thread

LEMMA NextBounds == Bounds /\ [Next]_vars => Bounds'
<1> SUFFICES ASSUME Bounds, [Next]_vars PROVE Bounds'
  OBVIOUS
<1>1. CASE SigPipe \/ SegFault \/ Overrun \/ UNCHANGED vars
  <2>1. /\ UNCHANGED <<mainVars, netVars, fdt, arrayVars, tokenVars, pc, sock, wait, nameVars, tmp,
                       i, crowd, got>>
        /\ up' \in BOOLEAN
    BY <1>1 DEF SigPipe, SegFault, Overrun, Dies, vars, Bounds, TypeOK
  <2>2. QED
    BY <2>1 DEF mainVars, netVars, arrayVars, tokenVars, nameVars, Bounds, Busy, Local, TypeOK
<1>2. QED
  BY <1>1, BoundsMain, BoundsThread DEF Next

-----------------------------------------------------------------------------
(* Fits is inductive while every thread has its own connection *)

LEMMA MisreadIs == Misread = {} <=> \A t \in Conns : sock[t] = 0 \/ sock[t] = own[t]
BY DEF Misread

\* A thread that runs with another's descriptor keeps it.
LEMMA MisreadStays == Bounds /\ [Next]_vars /\ Misread' = {} => Misread = {}
<1> SUFFICES ASSUME Bounds, [Next]_vars, Misread' = {}, NEW t \in Conns, sock[t] # 0
             PROVE  sock[t] = own[t]
  BY MisreadIs
<1>1. sock'[t] = 0 \/ sock'[t] = own'[t]
  BY DEF Misread
<1>2. /\ peer[t] # "none" /\ pc[t] \notin {"none", "start"}
      /\ sock \in [Conns -> Fd \cup {0, NoFd}] /\ own \in [Conns -> Fd \cup {0}]
  BY DEF Bounds, Local, TypeOK
<1>3. sock'[t] = sock[t] /\ own'[t] = own[t]
  <2>1. CASE AcceptFails \/ Cap \/ Refuse \/ Store \/ CreateThread \/ CreateFails \/ SigPipe
             \/ SegFault \/ Overrun \/ UNCHANGED vars
    BY <2>1 DEF AcceptFails, Cap, Refuse, Store, CreateThread, CreateFails, Main, SigPipe, SegFault,
                Overrun, Dies, vars, mainVars
  <2>2. ASSUME NEW c \in Conns, Accept(c) \/ Hangup(c) PROVE sock'[t] = sock[t] /\ own'[t] = own[t]
    BY <1>2, <2>2 DEF Accept, Hangup, mainVars
  <2>3. ASSUME NEW u \in Conns, Thread(u) PROVE sock'[t] = sock[t] /\ own'[t] = own[t]
    BY <1>2, <2>3 DEF Thread, ReadArg, Greet, CallRecv, Leave, Answer, Token, TokenOfRefill,
         TakeName, Load, CountSelf, Hear, Receive, Test, Send, CastEnd, CloseSocket, Own, At,
         mainVars
  <2>4. QED
    BY <2>1, <2>2, <2>3 DEF Next
<1>4. QED
  BY <1>1, <1>3

LEMMA FitsMain ==
  ASSUME Bounds, Fits,
         AcceptFails \/ Cap \/ Refuse \/ Store \/ CreateThread \/ CreateFails
           \/ \E c \in Conns : Accept(c) \/ Hangup(c)
  PROVE  Fits'
<1> USE DEF Fits, Fit, Alive, Busy
<1>0. /\ Busy => /\ cell \in Fd /\ accepted \in Conns /\ cell = own[accepted]
                 /\ pc[accepted] = "none" /\ peer[accepted] # "none"
      /\ \A t \in Conns : /\ peer[t] = "none" => pc[t] = "none"
                          /\ peer[t] # "none" => own[t] \in Fd
      /\ TypeOK
  BY DEF Bounds, Local
<1>1. ASSUME NEW c \in Conns, Accept(c) PROVE Fits'
  <2>1. PICK f \in Fd : /\ fdt[f] = NoConn /\ fdt' = [fdt EXCEPT ![f] = c]
                        /\ own' = [own EXCEPT ![c] = f] /\ cell' = f
    BY <1>1 DEF Accept, LowestFree
  <2>2. /\ accepted' = c /\ pc[c] = "none" /\ UNCHANGED <<clients, pc, sock, wait, line, i, got>>
    BY <1>0, <1>1 DEF Accept, arrayVars, nameVars
  <2>3. \A t \in Conns : Alive(t) => t # c /\ own[t] # f /\ own'[t] = own[t] /\ own[t] \in Fd
    BY <1>0, <2>1, <2>2, Sets DEF TypeOK
  <2>4. \A t \in Conns : Fit(t)'
    BY <1>0, <2>1, <2>2, <2>3 DEF TypeOK
  <2>5. QED
    BY <1>0, <2>1, <2>2, <2>4 DEF TypeOK
<1>2. CASE AcceptFails \/ Cap \/ \E c \in Conns : Hangup(c)
  <2>1. /\ UNCHANGED <<accepted, own, fdt, clients, pc, sock, wait, line, i, got>>
        /\ Busy' => Busy /\ UNCHANGED cell
    BY <1>2 DEF AcceptFails, Cap, Hangup, Main, mainVars, arrayVars, nameVars
  <2>2. QED
    BY <2>1
<1>3. CASE Refuse \/ CreateFails
  <2>1. /\ UNCHANGED <<own, clients, pc, sock, wait, line, i, got>> /\ Busy /\ ~Busy'
        /\ fdt' = Closed(cell)
    BY <1>3 DEF Refuse, CreateFails, Main, arrayVars, nameVars
  <2>2. \A t \in Conns : Alive(t) => own[t] # cell /\ own[t] \in Fd
    BY <1>0, <2>1
  <2>3. \A t \in Conns : Alive(t) => fdt'[own[t]] = t
    BY <1>0, <2>1, <2>2, ClosedIs
  <2>4. QED
    BY <2>1, <2>3
<1>4. CASE Store
  <2>1. /\ UNCHANGED <<cell, accepted, own, fdt, pc, sock, wait, line, i, got>> /\ Busy
        /\ clients' = [clients EXCEPT ![num] = cell]
    BY <1>4 DEF Store, Slot, Main, nameVars
  <2>2. \A t \in Conns : pc[t] = "send" => own[t] # cell /\ clients'[i[t]] # own[t]
    <3>1. \A k : clients'[k] \in {clients[k], cell}
      BY <2>1, <1>0 DEF TypeOK
    <3>2. QED
      BY <1>0, <2>1, <3>1
  <2>3. QED
    BY <2>1, <2>2
<1>5. CASE CreateThread
  <2>1. /\ UNCHANGED <<cell, accepted, own, fdt, clients, sock, wait, line, i, got>>
        /\ Busy /\ ~Busy' /\ pc' = [pc EXCEPT ![accepted] = "start"]
    BY <1>5 DEF CreateThread, Goto, Main, arrayVars, nameVars
  <2>2. \A t \in Conns \ {accepted} : pc'[t] = pc[t]
    BY <1>0, <2>1 DEF TypeOK
  <2>3. pc'[accepted] = "start"
    BY <1>0, <2>1 DEF TypeOK
  <2>4. QED
    BY <1>0, <2>1, <2>2, <2>3
<1>6. QED
  BY <1>1, <1>2, <1>3, <1>4, <1>5

\* A step of thread t leaves what belongs to the others alone.
LEMMA FitsOthers ==
  ASSUME Bounds, Fits, NEW t \in Conns, Thread(t), NEW u \in Conns \ {t}
  PROVE  Fit(u)'
<1>1. /\ UNCHANGED <<own, clients>> /\ pc[t] \notin {"none", "done"}
      /\ sock'[u] = sock[u] /\ wait'[u] = wait[u] /\ line'[u] = line[u] /\ pc'[u] = pc[u]
      /\ i'[u] = i[u]
  BY DEF Bounds, TypeOK, Thread, ReadArg, Greet, CallRecv, Leave, Answer, Token, TokenOfRefill,
         TakeName, Load, CountSelf, Hear, Receive, Test, Send, CastEnd, CloseSocket, Own, Goto, At,
         mainVars, arrayVars, nameVars
<1>2. fdt' = fdt \/ (pc[t] = "close" /\ fdt' = Closed(sock[t]))
  BY DEF Thread, ReadArg, Greet, CallRecv, Leave, Answer, Token, TokenOfRefill,
         TakeName, Load, CountSelf, Hear, Receive, Test, Send, CastEnd, CloseSocket, At
<1>3. ASSUME Alive(u) PROVE fdt'[own[u]] = u
  <2>1. fdt[own[u]] = u /\ own[u] \in Fd /\ TypeOK
    BY <1>3 DEF Fits, Fit, Alive, Bounds, Local
  <2>2. pc[t] = "close" => sock[t] = own[t] /\ fdt[own[t]] = t
    BY DEF Fits, Fit, Alive
  <2>3. QED
    BY <1>2, <2>1, <2>2, ClosedIs
<1>4. QED
  BY <1>1, <1>3 DEF Fits, Fit, Alive

LEMMA FitsThread ==
  ASSUME Bounds, Fits, Misread' = {}, NEW t \in Conns, Thread(t)
  PROVE  Fits'
<1>0. /\ UNCHANGED <<mainPc, cell, accepted, own, peer, clients>> /\ pc[t] \notin {"none", "done"}
  BY DEF Thread, ReadArg, Greet, CallRecv, Leave, Answer, Token, TokenOfRefill, TakeName, Load,
         CountSelf, Hear, Receive, Test, Send, CastEnd, CloseSocket, Own, At, mainVars, netVars,
         arrayVars
<1>1. /\ TypeOK /\ own[t] \in Fd /\ cell # 0 /\ fdt[own[t]] = t
      /\ pc[t] = "start" \/ (sock[t] = own[t] /\ Conn(sock[t]) = t)
      /\ t # NoConn
  BY <1>0, Sets DEF Fits, Fit, Alive, Bounds, Local, Conn
<1>2. Busy' => fdt'[cell] = accepted
  <2>1. ASSUME Busy PROVE cell # own[t] /\ fdt[cell] = accepted /\ cell \in Fd
    BY <1>0, <1>1, <2>1 DEF Fits, Bounds
  <2>2. fdt' = fdt \/ (pc[t] = "close" /\ fdt' = Closed(sock[t]))
    BY DEF Thread, ReadArg, Greet, CallRecv, Leave, Answer, Token, TokenOfRefill, TakeName, Load,
           CountSelf, Hear, Receive, Test, Send, CastEnd, CloseSocket, At
  <2>3. QED
    BY <1>0, <1>1, <2>1, <2>2, ClosedIs DEF Busy
<1>3. \A c \in Conns : \A n \in DOMAIN got'[c] : got'[c][n] # c
  <2>1. CASE ~Send(t)
    <3>1. UNCHANGED got
      BY <2>1 DEF Thread, ReadArg, Greet, CallRecv, Leave, Answer, Token, TokenOfRefill, TakeName,
                  Load, CountSelf, Hear, Receive, Test, CastEnd, CloseSocket
    <3>2. QED
      BY <3>1 DEF Fits
  <2>2. CASE Send(t)
    <3>1. line[t].from = t /\ clients[i[t]] # own[t]
      BY <2>2 DEF Send, At, Fits, Fit
    <3>2. Target(t) # t
      <4>1. ASSUME Target(t) = t PROVE FALSE
        <5>1. clients[i[t]] \in Fd /\ fdt[clients[i[t]]] = t
          BY <1>1, <4>1, ConnOf DEF Target
        <5>2. QED
          BY <1>1, <3>1, <5>1 DEF Bounds
      <4>2. QED
        BY <4>1
    <3>3. ASSUME NEW c \in Conns PROVE \A n \in DOMAIN got'[c] : got'[c][n] # c
      <4>1. got[c] \in Seq(Conns) /\ \A n \in DOMAIN got[c] : got[c][n] # c
        BY <1>1 DEF TypeOK, Fits
      <4>2. CASE c # Target(t)
        BY <1>1, <2>2, <3>1, <4>1, <4>2, Sent
      <4>3. CASE c = Target(t)
        <5>1. got'[c] = Append(got[c], t)
          BY <1>1, <2>2, <3>1, <4>3, Sent
        <5>2. QED
          BY <3>2, <4>1, <4>3, <5>1
      <4>4. QED
        BY <4>2, <4>3
    <3>4. QED
      BY <3>3
  <2>3. QED
    BY <2>1, <2>2
<1>4. Fit(t)'
  <2> USE DEF Fit, Alive
  <2>0. /\ pc[t] \in {"name", "hear"} => wait[t] = t
        /\ pc[t] \in {"token", "cast", "send"} => line[t].from = t
    BY DEF Fits
  <2>1. CASE ReadArg(t)
    <3>1. sock'[t] = cell /\ pc'[t] = "greet" /\ UNCHANGED <<fdt, own>>
      BY <1>0, <1>1, <2>1 DEF ReadArg, Own, Goto, TypeOK
    <3>2. sock'[t] = own'[t]
      BY <1>1, <3>1 DEF Misread
    <3>3. QED
      BY <1>1, <3>1, <3>2
  <2>2. CASE CallRecv(t)
    <3>1. wait'[t] = t /\ pc'[t] \in {"name", "hear"} /\ UNCHANGED <<fdt, sock>> /\ pc[t] # "start"
      <4>1. wait'[t] = Conn(sock[t]) /\ UNCHANGED <<fdt, sock>> /\ pc[t] \in {"ask", "talk"}
        BY <1>1, <2>2 DEF CallRecv, At, TypeOK
      <4>2. pc'[t] \in {"name", "hear"}
        BY <1>1, <2>2, <4>1, Recv DEF TypeOK
      <4>3. QED
        BY <1>1, <4>1, <4>2
    <3>2. QED
      BY <1>0, <1>1, <3>1
  <2>3. CASE Answer(t) \/ Hear(t)
    <3>1. /\ UNCHANGED <<fdt, sock>> /\ pc[t] \in {"name", "hear"}
          /\ pc'[t] \in {"ask", "token", "cast"}
      BY <1>1, <2>3 DEF Answer, Hear, Receive, Goto, At, TypeOK
    <3>2. line'[t].from = wait[t]
      BY <1>1, <2>3 DEF Answer, Hear, TypeOK
    <3>3. QED
      BY <1>0, <1>1, <2>0, <3>1, <3>2
  <2>4. CASE Token(t) \/ TokenOfRefill(t)
    <3>1. UNCHANGED <<fdt, sock>> /\ pc[t] = "token" /\ pc'[t] \in {"count", "ask"}
      BY <1>1, <2>4 DEF Token, TokenOfRefill, TakeName, Own, Goto, At, TypeOK
    <3>2. QED
      BY <1>0, <1>1, <3>1
  <2>5. CASE Test(t)
    <3>1. /\ UNCHANGED <<fdt, sock, line>> /\ pc[t] = "cast" /\ pc'[t] \in {"cast", "send"}
          /\ pc'[t] = "send" => clients[i[t]] # sock[t] /\ i'[t] = i[t]
      BY <1>1, <2>5 DEF Test, Skips, Own, Goto, At, TypeOK, nameVars
    <3>2. QED
      BY <1>0, <1>1, <2>0, <3>1
  <2>6. CASE Send(t)
    <3>1. UNCHANGED <<fdt, sock, line>> /\ pc[t] = "send" /\ pc'[t] = "cast"
      BY <1>1, <2>6 DEF Send, Own, Goto, At, TypeOK, nameVars
    <3>2. QED
      BY <1>0, <1>1, <2>0, <3>1
  <2>7. CASE Greet(t) \/ Leave(t) \/ Load(t) \/ CountSelf(t) \/ CastEnd(t)
    <3>1. /\ UNCHANGED <<fdt, sock>> /\ pc[t] # "start"
          /\ pc'[t] \in {"close", "ask", "count", "inc", "talk"}
      BY <1>1, <2>7 DEF Greet, Leave, Load, CountSelf, CastEnd, Own, Goto, At, TypeOK
    <3>2. QED
      BY <1>0, <1>1, <3>1
  <2>8. CASE CloseSocket(t)
    <3>1. pc'[t] = "done"
      BY <1>1, <2>8 DEF CloseSocket, Own, Goto, TypeOK
    <3>2. QED
      BY <3>1
  <2>9. QED
    BY <2>1, <2>2, <2>3, <2>4, <2>5, <2>6, <2>7, <2>8 DEF Thread
<1>5. \A u \in Conns : Fit(u)'
  BY <1>4, FitsOthers
<1>6. QED
  BY <1>0, <1>2, <1>3, <1>5 DEF Fits

LEMMA NextFits == Bounds /\ Fits /\ [Next]_vars /\ Misread' = {} => Fits'
<1> SUFFICES ASSUME Bounds, Fits, [Next]_vars, Misread' = {} PROVE Fits'
  OBVIOUS
<1>1. CASE SigPipe \/ SegFault \/ Overrun \/ UNCHANGED vars
  BY <1>1 DEF SigPipe, SegFault, Overrun, Dies, vars, mainVars, arrayVars, nameVars, Fits, Fit,
              Alive, Busy
<1>2. QED
  BY <1>1, FitsMain, FitsThread DEF Next

-----------------------------------------------------------------------------
(* Tokens and Names are inductive while no two pairs of strtok calls overlap *)

\* Threads that have cut their line and have yet to take its rest.
LEMMA NextTokens ==
  ASSUME Bounds, Tokens, Next \/ UNCHANGED vars, ~mixed'
  PROVE  Tokens'
<1> USE DEF Tokens
<1>0. TypeOK
  BY DEF Bounds
<1>1. CASE AcceptFails \/ Cap \/ Refuse \/ Store \/ CreateFails \/ SigPipe \/ SegFault \/ Overrun
             \/ UNCHANGED vars \/ \E c \in Conns : Accept(c) \/ Hangup(c)
  <2>1. UNCHANGED <<pc, save, rest>>
    BY <1>1 DEF AcceptFails, Cap, Refuse, Store, CreateFails, Main, SigPipe, SegFault, Overrun,
                Dies, vars, Accept, Hangup, tokenVars
  <2>2. QED
    BY <2>1
<1>2. CASE CreateThread
  BY <1>0, <1>2 DEF CreateThread, Goto, Main, tokenVars, TypeOK
<1>3. ASSUME NEW t \in Conns, Thread(t) PROVE Tokens'
  <2>0. \A u \in Conns \ {t} : pc'[u] = pc[u]
    BY <1>0, <1>3 DEF Thread, ReadArg, Greet, CallRecv, Leave, Answer, Token, TokenOfRefill,
         TakeName, Load, CountSelf, Hear, Receive, Test, Send, CastEnd, CloseSocket, Own, Goto,
         TypeOK
  <2>1. CASE ReadArg(t) \/ Greet(t) \/ Leave(t) \/ Load(t) \/ CountSelf(t) \/ Test(t) \/ Send(t)
             \/ CastEnd(t) \/ CloseSocket(t)
    <3>1. UNCHANGED <<save, rest>> /\ pc'[t] # "token"
      BY <1>0, <2>1 DEF ReadArg, Greet, Leave, Load, CountSelf, Test, Send, CastEnd, CloseSocket,
                        Own, Goto, tokenVars, TypeOK
    <3>2. QED
      BY <2>0, <3>1
  <2>2. CASE CallRecv(t)
    <3>1. UNCHANGED <<save, rest>>
      BY <2>2 DEF CallRecv, tokenVars
    <3>2. pc'[t] # "token"
      BY <1>0, <2>2, Recv DEF TypeOK
    <3>3. QED
      BY <2>0, <3>1, <3>2
  <2>3. CASE Answer(t)
    <3>1. CASE pc' = [pc EXCEPT ![t] = "ask"] /\ UNCHANGED save /\ (save = t \/ UNCHANGED rest)
      <4>1. pc'[t] = "ask"
        BY <1>0, <3>1 DEF TypeOK
      <4>2. QED
        BY <2>0, <3>1, <4>1
    <3>2. CASE save' = t /\ rest' = "fresh" /\ \A u \in Conns \ {t} : pc[u] # "token"
      BY <2>0, <3>2
    <3>3. QED
      BY <2>3, <3>1, <3>2 DEF Answer, Receive, Goto
  <2>4. CASE Hear(t)
    <3>1. UNCHANGED save /\ (save = t \/ UNCHANGED rest) /\ pc'[t] = "cast"
      BY <1>0, <2>4 DEF Hear, Receive, Goto, TypeOK
    <3>2. QED
      BY <2>0, <3>1
  <2>5. CASE Token(t) \/ TokenOfRefill(t)
    <3>1. pc[t] = "token" /\ pc'[t] # "token"
      BY <1>0, <2>5 DEF Token, TokenOfRefill, TakeName, Own, Goto, At, TypeOK
    <3>2. QED
      BY <2>0, <3>1 DEF Bounds
  <2>6. QED
    BY <1>3, <2>1, <2>2, <2>3, <2>4, <2>5 DEF Thread
<1>4. QED
  BY <1>1, <1>2, <1>3 DEF Next

\* The dialogue lets a thread's own right name in, and nothing else but a hang-up.
LEMMA NextNames ==
  ASSUME Bounds, Fits, Tokens, Names, Next \/ UNCHANGED vars
  PROVE  Names'
<1> USE DEF Names, Named
<1>0. TypeOK
  BY DEF Bounds
<1>1. CASE AcceptFails \/ Cap \/ Refuse \/ Store \/ CreateFails \/ SigPipe \/ SegFault \/ Overrun
             \/ UNCHANGED vars \/ \E c \in Conns : Accept(c) \/ Hangup(c)
  <2>1. UNCHANGED <<pc, name, line>> /\ \A c \in Conns : peer[c] = "gone" => peer'[c] = "gone"
    BY <1>0, <1>1 DEF AcceptFails, Cap, Refuse, Store, CreateFails, Main, SigPipe, SegFault,
                Overrun, Dies, vars, Accept, Hangup, nameVars, netVars, TypeOK
  <2>2. QED
    BY <2>1
<1>2. CASE CreateThread
  BY <1>0, <1>2 DEF CreateThread, Goto, Main, nameVars, netVars, TypeOK
<1>3. ASSUME NEW t \in Conns, Thread(t) PROVE Names'
  <2>0. /\ UNCHANGED peer
        /\ \A u \in Conns \ {t} : pc'[u] = pc[u] /\ name'[u] = name[u] /\ line'[u] = line[u]
    BY <1>0, <1>3 DEF Thread, ReadArg, Greet, CallRecv, Leave, Answer, Token, TokenOfRefill,
         TakeName, Load, CountSelf, Hear, Receive, Test, Send, CastEnd, CloseSocket, Own, Goto,
         netVars, nameVars, TypeOK
  <2>1. pc'[t] \in {"count", "inc"} => Named(t)'
    <3>1. CASE ReadArg(t) \/ Greet(t) \/ Answer(t) \/ CountSelf(t) \/ Hear(t) \/ Test(t) \/ Send(t)
               \/ CastEnd(t) \/ CloseSocket(t)
      <4>1. pc'[t] \notin {"count", "inc"}
        BY <1>0, <3>1 DEF ReadArg, Greet, Answer, CountSelf, Hear, Receive, Test, Send, CastEnd,
                          CloseSocket, Own, Goto, TypeOK
      <4>2. QED
        BY <4>1
    <3>2. CASE CallRecv(t)
      <4>1. pc[t] \in {"ask", "talk"}
        BY <3>2 DEF CallRecv, At
      <4>2. Conn(sock[t]) = t /\ t # NoConn
        BY <4>1, Sets DEF Fits, Fit, Alive, Bounds, Local, Conn
      <4>3. pc'[t] \notin {"count", "inc"}
        BY <1>0, <3>2, <4>2, Recv DEF TypeOK
      <4>4. QED
        BY <4>3
    <3>3. CASE Leave(t)
      BY <1>0, <2>0, <3>3 DEF Leave, At, Own, Goto, nameVars, Fits, Fit, Bounds, Local, TypeOK
    <3>4. CASE Load(t)
      BY <1>0, <2>0, <3>4 DEF Load, At, Own, Goto, nameVars, TypeOK
    <3>5. CASE Token(t)
      <4>1. pc[t] = "token" /\ save = t /\ line[t].from = t /\ line[t].kind \notin {"CUT", "TEXT"}
        BY <3>5 DEF Token, At, Tokens, Fits, Fit, Bounds, Local
      <4>2. /\ name' = [name EXCEPT ![t] = t] /\ UNCHANGED line
            /\ pc' = [pc EXCEPT ![t] = IF Accepts(t, line[t].kind # "SHORT",
                                                  blank[t] \/ HasBlank(line[t].kind))
                                       THEN "count" ELSE "ask"]
        BY <3>5, <4>1 DEF Token, TakeName, Own, Goto
      <4>3. name'[t] = t /\ line[t] \in [from : Conns \cup {NoConn}, kind : AllKinds]
        BY <1>0, <4>2 DEF TypeOK
      <4>4. ASSUME pc'[t] \in {"count", "inc"} PROVE line[t].kind \notin {"WORD", "SHORT", "SPACED"}
        BY <1>0, <4>2, <4>4 DEF Accepts, HasBlank, TypeOK
      <4>5. pc'[t] \in {"count", "inc"} => line[t] = [from |-> t, kind |-> "NAME"]
        BY <4>1, <4>3, <4>4 DEF AllKinds
      <4>6. QED
        BY <4>2, <4>3, <4>5
    <3>6. CASE TokenOfRefill(t)
      BY <3>6 DEF TokenOfRefill, At, Tokens
    <3>7. QED
      BY <1>3, <3>1, <3>2, <3>3, <3>4, <3>5, <3>6 DEF Thread
  <2>2. QED
    BY <2>0, <2>1
<1>4. QED
  BY <1>1, <1>2, <1>3 DEF Next

\* A history of the whole run: it is never reset.
LEMMA HistoryStays == TypeOK /\ [Next]_vars => (mixed => mixed') /\ (crowd => crowd')
<1> SUFFICES ASSUME TypeOK, [Next]_vars PROVE (mixed => mixed') /\ (crowd => crowd')
  OBVIOUS
<1>1. ASSUME NEW t \in Conns, Thread(t) PROVE (mixed => mixed') /\ (crowd => crowd')
  <2>1. UNCHANGED crowd /\ (Answer(t) \/ UNCHANGED mixed)
    BY <1>1 DEF Thread, ReadArg, Greet, CallRecv, Leave, Answer, Token, TokenOfRefill, TakeName,
         Load, CountSelf, Hear, Receive, Test, Send, CastEnd, CloseSocket, Own, tokenVars
  <2>2. CASE Answer(t)
    <3>1. UNCHANGED mixed \/ mixed' = (mixed \/ \E u \in Conns \ {t} : pc[u] = "token")
      BY <2>2 DEF Answer
    <3>2. mixed => mixed'
      BY Zenon, <3>1
    <3>3. QED
      BY <2>1, <3>2 DEF TypeOK
  <2>3. QED
    BY <2>1, <2>2
<1>2. ASSUME AcceptFails \/ \E c \in Conns : Accept(c) PROVE (mixed => mixed') /\ (crowd => crowd')
  <2>1. UNCHANGED mixed /\ Crowded
    BY <1>2 DEF AcceptFails, Accept, tokenVars
  <2>2. crowd => crowd'
    BY Zenon, <2>1 DEF Crowded
  <2>3. QED
    BY <2>1, <2>2 DEF TypeOK
<1>3. CASE Cap \/ Refuse \/ Store \/ CreateThread \/ CreateFails \/ SigPipe \/ SegFault \/ Overrun
             \/ UNCHANGED vars \/ \E c \in Conns : Hangup(c)
  BY <1>3 DEF Cap, Refuse, Store, CreateThread, CreateFails, Main, SigPipe, SegFault, Overrun,
              Dies, vars, Hangup, tokenVars
<1>4. QED
  BY <1>1, <1>2, <1>3 DEF Next

-----------------------------------------------------------------------------
(* Lined is inductive while every thread is counted before the next accept *)

\* Steps that count nobody and leave the counted slots alone.
LEMMA LinedKept ==
  ASSUME TypeOK, Lined, Misread' = {}, UNCHANGED num, Counted' = Counted,
         Talking' \subseteq Talking,
         \A t \in Counted : own'[t] = own[t],
         \A k \in Index : k < num => clients'[k] = clients[k],
         \A t \in Conns : pc'[t] \in Uncounted =>
           /\ accepted' = t /\ cell' = own'[t] /\ mainPc' = "accept"
           /\ num \in Index /\ clients'[num] = own'[t]
           /\ pc'[t] = "inc" => tmp'[t] = num,
         mainPc' = "create" => num \in Index /\ clients'[num] = cell'
  PROVE  Lined'
<1>1. \A t \in Talking' : \E k \in Index : k < num' /\ clients'[k] = own'[t]
  BY DEF Lined, Talking, Counted
<1>2. \A k \in Index : k < num' => Owned(k)'
  BY DEF Lined, Owned
<1>3. ASSUME NEW k \in Index, NEW l \in Index, k < l, l < num', clients'[k] = clients'[l],
             k < num
      PROVE  Twins(k, l)'
  <2>1. PICK c \in Counted, d \in Counted : c # d /\ own[c] = clients[k] /\ own[d] = clients[l]
    BY <1>3 DEF Lined, Twins
  <2>2. c \in Counted' /\ d \in Counted' /\ own'[c] = clients'[k] /\ own'[d] = clients'[l]
    BY <1>3, <2>1
  <2>3. QED
    BY <2>1, <2>2 DEF Twins
<1>4. \A k, l \in Index : (k < l /\ l < num' /\ clients'[k] = clients'[l]) => Twins(k, l)'
  <2>1. \A k, l \in Index : k < l /\ l < num' => k < num
    <3>1. num \in Int /\ Index \subseteq Int
      BY Sets DEF TypeOK
    <3>2. \A j, k, l \in Int : j < k /\ k < l => j < l
      OBVIOUS
    <3>3. QED
      BY <3>1, <3>2
  <2>2. QED
    BY <1>3, <2>1
<1>5. QED
  BY <1>1, <1>2, <1>4 DEF Lined

LEMMA LinedMain ==
  ASSUME Bounds, Lined, ~crowd', Misread' = {},
         AcceptFails \/ Cap \/ Refuse \/ Store \/ CreateThread \/ CreateFails
           \/ \E c \in Conns : Accept(c) \/ Hangup(c)
  PROVE  Lined'
<1>0. /\ TypeOK /\ Counted \subseteq Conns
      /\ \A t \in Conns : pc[t] \in Uncounted => mainPc = "accept"
      /\ \A t \in Conns : pc[t] \in Uncounted =>
           /\ cell = own[t] /\ accepted = t /\ num \in Index /\ clients[num] = own[t]
           /\ pc[t] = "inc" => tmp[t] = num
  BY DEF Bounds, Lined, Counted
<1>1. CASE AcceptFails \/ \E c \in Conns : Accept(c)
  <2>1. \A t \in Conns : pc[t] \notin Uncounted
    <3>1. Crowded
      BY <1>1 DEF AcceptFails, Accept
    <3>2. QED
      BY Zenon, <3>1 DEF Crowded
  <2>2. UNCHANGED <<clients, num, pc>> /\ mainPc' # "create"
    BY <1>1 DEF AcceptFails, Accept, arrayVars
  <2>3. \A t \in Counted : own'[t] = own[t]
    BY <1>0, <1>1 DEF AcceptFails, Accept, Bounds, Local, Counted, TypeOK
  <2>4. Counted' = Counted /\ Talking' = Talking
    BY <2>2 DEF Counted, Talking
  <2>5. QED
    BY <1>0, <2>1, <2>2, <2>3, <2>4, LinedKept
<1>2. CASE Cap \/ Refuse \/ CreateFails \/ \E c \in Conns : Hangup(c)
  <2>1. /\ UNCHANGED <<cell, accepted, own, clients, num, pc, tmp>>
        /\ Busy \/ UNCHANGED mainPc
        /\ mainPc' = "create" => mainPc = "create"
    BY <1>2 DEF Cap, Refuse, CreateFails, Hangup, Main, mainVars, arrayVars, Busy
  <2>2. Counted' = Counted /\ Talking' = Talking
    BY <2>1 DEF Counted, Talking
  <2>3. \A t \in Conns : pc'[t] \in Uncounted => mainPc' = "accept"
    BY <1>0, <2>1 DEF Busy
  <2>4. mainPc' = "create" => num \in Index /\ clients'[num] = cell'
    BY <2>1 DEF Lined
  <2>5. QED
    BY <1>0, <2>1, <2>2, <2>3, <2>4, LinedKept
<1>3. CASE Store
  <2>1. /\ UNCHANGED <<cell, accepted, own, num, pc, tmp>> /\ num \in Index
        /\ mainPc = "store" /\ clients' = [clients EXCEPT ![num] = cell]
    BY <1>3 DEF Store, Slot, Main
  <2>2. Counted' = Counted /\ Talking' = Talking
    BY <2>1 DEF Counted, Talking
  <2>3. \A t \in Conns : pc'[t] \notin Uncounted
    BY <1>0, <2>1
  <2>4. clients'[num] = cell'
    BY <1>0, <2>1 DEF TypeOK
  <2>5. \A k \in Index : k < num => clients'[k] = clients[k]
    BY <1>0, <2>1, Sets DEF TypeOK
  <2>6. QED
    BY <1>0, <2>1, <2>2, <2>3, <2>4, <2>5, LinedKept
<1>4. CASE CreateThread
  <2>1. /\ UNCHANGED <<cell, accepted, own, clients, num, tmp>> /\ mainPc = "create"
        /\ mainPc' = "accept" /\ pc' = [pc EXCEPT ![accepted] = "start"]
    BY <1>4 DEF CreateThread, Goto, Main, arrayVars
  <2>2. /\ accepted \in Conns /\ cell = own[accepted] /\ pc[accepted] = "none"
        /\ num \in Index /\ clients[num] = cell
    BY <2>1 DEF Bounds, Busy, Lined
  <2>3. pc'[accepted] = "start" /\ \A t \in Conns \ {accepted} : pc'[t] = pc[t]
    BY <1>0, <2>1, <2>2 DEF TypeOK
  <2>4. Counted' = Counted /\ Talking' = Talking
    BY <2>2, <2>3 DEF Counted, Talking
  <2>5. \A t \in Conns \ {accepted} : pc'[t] \notin Uncounted
    BY <1>0, <2>1, <2>3
  <2>6. QED
    BY <1>0, <2>1, <2>2, <2>3, <2>4, <2>5, LinedKept
<1>5. QED
  BY <1>1, <1>2, <1>3, <1>4

\* A thread comes to be counted by CountSelf alone.
LEMMA CountsOnce ==
  ASSUME Bounds, Fits, NEW t \in Conns, Thread(t), ~CountSelf(t)
  PROVE  /\ UNCHANGED num
         /\ pc'[t] \in Uncounted <=> pc[t] \in Uncounted
         /\ t \in Counted' <=> t \in Counted
         /\ t \in Talking' => t \in Talking
         /\ pc'[t] = "inc" => tmp'[t] = num
<1> USE DEF Uncounted, Counted, Talking
<1>1. /\ TypeOK
      /\ pc[t] \notin {"none", "start", "done"} => Conn(sock[t]) # NoConn
  <2>1. ASSUME pc[t] \notin {"none", "start", "done"} PROVE Conn(sock[t]) = t
    BY <2>1, Sets DEF Fits, Fit, Alive, Bounds, Local, Conn
  <2>2. QED
    BY <2>1, Sets DEF Bounds
<1>2. CASE ReadArg(t) \/ Greet(t)
  BY <1>1, <1>2 DEF ReadArg, Greet, At, Own, Goto, TypeOK
<1>3. CASE CallRecv(t)
  <2>1. UNCHANGED num /\ pc[t] \in {"ask", "talk"}
    BY <1>3 DEF CallRecv, At
  <2>2. pc'[t] = IF pc[t] = "ask" THEN "name" ELSE "hear"
    BY <1>1, <1>3, <2>1, Recv DEF TypeOK
  <2>3. QED
    BY <2>1, <2>2
<1>4. CASE Leave(t)
  BY <1>1, <1>4 DEF Leave, At, Own, Goto, TypeOK
<1>5. CASE Answer(t) \/ Hear(t)
  <2>1. /\ UNCHANGED num
        /\ \/ pc[t] = "name" /\ pc'[t] \in {"ask", "token"}
           \/ pc[t] = "hear" /\ pc'[t] = "cast"
    BY <1>1, <1>5 DEF Answer, Hear, Receive, At, Goto, TypeOK, arrayVars
  <2>2. QED
    BY <2>1
<1>6. CASE Token(t) \/ TokenOfRefill(t)
  <2>1. UNCHANGED num /\ pc[t] = "token" /\ pc'[t] \in {"count", "ask"}
    BY <1>1, <1>6 DEF Token, TokenOfRefill, TakeName, Own, Goto, At, TypeOK
  <2>2. QED
    BY <2>1
<1>7. CASE Load(t) \/ Test(t) \/ Send(t) \/ CastEnd(t) \/ CloseSocket(t)
  BY <1>1, <1>7 DEF Load, Test, Send, CastEnd, CloseSocket, Own, Goto, At, TypeOK
<1>8. QED
  BY <1>2, <1>3, <1>4, <1>5, <1>6, <1>7 DEF Thread

LEMMA LinedThread ==
  ASSUME Bounds, Fits, Lined, Misread' = {}, NEW t \in Conns, Thread(t)
  PROVE  Lined'
<1>0. /\ TypeOK /\ Counted \subseteq Conns /\ Talking \subseteq Counted
      /\ UNCHANGED <<mainPc, cell, accepted, own, clients>>
      /\ \A u \in Conns \ {t} : pc'[u] = pc[u] /\ tmp'[u] = tmp[u]
  BY DEF Bounds, TypeOK, Counted, Talking, Thread, ReadArg, Greet, CallRecv, Leave, Answer, Token,
         TokenOfRefill, TakeName, Load, CountSelf, Hear, Receive, Test, Send, CastEnd, CloseSocket,
         Own, Goto, mainVars, arrayVars
<1>1. \A u \in Conns : pc[u] \in Uncounted =>
        /\ accepted = u /\ cell = own[u] /\ mainPc = "accept"
        /\ num \in Index /\ clients[num] = own[u]
        /\ pc[u] = "inc" => tmp[u] = num
  BY DEF Lined
<1>2. CASE ~CountSelf(t)
  <2>1. /\ UNCHANGED num
        /\ pc'[t] \in Uncounted <=> pc[t] \in Uncounted
        /\ t \in Counted' <=> t \in Counted
        /\ t \in Talking' => t \in Talking
        /\ pc'[t] = "inc" => tmp'[t] = num
    BY <1>2, CountsOnce
  <2>2. Counted' = Counted /\ Talking' \subseteq Talking
    <3>1. \A u \in Conns \ {t} : /\ u \in Counted' <=> u \in Counted
                                 /\ u \in Talking' <=> u \in Talking
      BY <1>0 DEF Counted, Talking
    <3>2. Counted' \subseteq Conns /\ Talking' \subseteq Conns
      BY DEF Counted, Talking
    <3>3. QED
      BY <1>0, <2>1, <3>1, <3>2
  <2>3. mainPc' = "create" => num \in Index /\ clients'[num] = cell'
    BY <1>0 DEF Lined
  <2>4. \A u \in Conns : pc'[u] \in Uncounted =>
          pc[u] \in Uncounted /\ (pc'[u] = "inc" => tmp'[u] = num)
    BY <1>0, <1>1, <2>1
  <2>5. QED
    BY <1>0, <1>1, <2>1, <2>2, <2>3, <2>4, LinedKept
<1>3. CASE CountSelf(t)
  <2>1. pc[t] = "inc" /\ num' = tmp[t] + 1 /\ pc'[t] = "talk"
    BY <1>0, <1>3 DEF CountSelf, At, Own, Goto, TypeOK
  <2>2. /\ t \notin Counted /\ accepted = t /\ mainPc = "accept"
        /\ num \in Index /\ clients[num] = own[t] /\ tmp[t] = num
    BY <1>1, <2>1 DEF Counted, Uncounted
  <2>3. \A u \in Conns : pc'[u] \notin Uncounted
    BY <1>0, <1>1, <2>1, <2>2 DEF Uncounted
  <2>4. Counted' = Counted \cup {t} /\ Talking' = Talking \cup {t}
    BY <1>0, <2>1 DEF Counted, Talking
  <2>5. IsFiniteSet(Counted') /\ num' = Cardinality(Counted')
    <3>1. IsFiniteSet(Counted) /\ num = Cardinality(Counted)
      BY DEF Lined
    <3>2. QED
      BY <2>1, <2>2, <2>4, <3>1, FS_AddElement
  <2>6. \A k \in Index : k < num' <=> k < num \/ k = num
    <3>1. num \in Int /\ Index \subseteq Int /\ num' = num + 1
      BY <2>1, <2>2, Sets
    <3>2. QED
      BY <3>1
  <2>7. \A u \in Talking' : \E k \in Index : k < num' /\ clients'[k] = own'[u]
    BY <1>0, <2>2, <2>4, <2>6 DEF Lined
  <2>8. \A k \in Index : k < num' => Owned(k)'
    BY <1>0, <2>2, <2>4, <2>6 DEF Lined, Owned
  <2>9. ASSUME NEW k \in Index, NEW l \in Index, k < l, l < num', clients'[k] = clients'[l]
        PROVE  Twins(k, l)'
    <3>1. CASE l < num
      <4>1. PICK c \in Counted, d \in Counted : c # d /\ own[c] = clients[k] /\ own[d] = clients[l]
        BY <1>0, <2>9, <3>1 DEF Lined, Twins
      <4>2. QED
        BY <1>0, <2>4, <4>1 DEF Twins
    <3>2. CASE l = num
      <4>1. PICK c \in Counted : own[c] = clients[k]
        BY <2>9, <3>2 DEF Lined, Owned
      <4>2. c # t /\ own[t] = clients[l]
        BY <2>2, <3>2
      <4>3. QED
        BY <1>0, <2>4, <4>1, <4>2 DEF Twins
    <3>3. QED
      BY <2>6, <2>9, <3>1, <3>2
  <2>10. num' <= MaxClients
    BY <2>1, <2>2, Sets
  <2>11. QED
    BY <1>0, <2>2, <2>3, <2>5, <2>7, <2>8, <2>9, <2>10 DEF Lined
<1>4. QED
  BY <1>2, <1>3

\* Then every thread still has its own connection after the step.
LEMMA LinedReads ==
  ASSUME Bounds, Fits, Lined, [Next]_vars, NEW t \in Conns, sock'[t] # 0
  PROVE  sock'[t] = own'[t]
<1>0. /\ sock[t] = 0 \/ sock[t] = own[t]
      /\ TypeOK
      /\ sock[t] # 0 => peer[t] # "none"
  BY MisreadIs DEF Lined, Bounds, Local
<1>1. CASE AcceptFails \/ Cap \/ Refuse \/ Store \/ CreateThread \/ CreateFails \/ SigPipe
           \/ SegFault \/ Overrun \/ UNCHANGED vars
  BY <1>0, <1>1 DEF AcceptFails, Cap, Refuse, Store, CreateThread, CreateFails, Main, SigPipe,
                    SegFault, Overrun, Dies, vars, mainVars
<1>2. ASSUME NEW c \in Conns, Accept(c) \/ Hangup(c) PROVE sock'[t] = own'[t]
  BY <1>0, <1>2 DEF Accept, Hangup, mainVars, TypeOK
<1>3. ASSUME NEW u \in Conns, Thread(u) PROVE sock'[t] = own'[t]
  <2>1. UNCHANGED own /\ (UNCHANGED sock \/ (pc[u] = "start" /\ sock' = [sock EXCEPT ![u] = cell]))
    BY <1>3 DEF Thread, ReadArg, Greet, CallRecv, Leave, Answer, Token, TokenOfRefill,
         TakeName, Load, CountSelf, Hear, Receive, Test, Send, CastEnd, CloseSocket, Own, At,
         mainVars
  <2>2. pc[u] = "start" => cell = own[u]
    BY DEF Lined, Uncounted
  <2>3. QED
    BY <1>0, <2>1, <2>2 DEF TypeOK
<1>4. QED
  BY <1>1, <1>2, <1>3 DEF Next

LEMMA NextLined == Bounds /\ Fits /\ Lined /\ [Next]_vars /\ ~crowd' => Lined'
<1> SUFFICES ASSUME Bounds, Fits, Lined, [Next]_vars, ~crowd' PROVE Lined'
  OBVIOUS
<1>1. Misread' = {}
  BY LinedReads DEF Misread
<1>2. CASE SigPipe \/ SegFault \/ Overrun \/ UNCHANGED vars
  <2>1. UNCHANGED <<mainPc, cell, accepted, own, clients, num, pc, tmp>>
    BY <1>2 DEF SigPipe, SegFault, Overrun, Dies, vars, mainVars, arrayVars
  <2>2. Counted' = Counted /\ Talking' = Talking
    BY <2>1 DEF Counted, Talking
  <2>3. /\ \A t \in Conns : pc'[t] \in Uncounted =>
             /\ accepted' = t /\ cell' = own'[t] /\ mainPc' = "accept"
             /\ num \in Index /\ clients'[num] = own'[t]
             /\ pc'[t] = "inc" => tmp'[t] = num
        /\ mainPc' = "create" => num \in Index /\ clients'[num] = cell'
    BY <2>1 DEF Lined
  <2>4. TypeOK
    BY DEF Bounds
  <2>5. QED
    BY <1>1, <2>1, <2>2, <2>3, <2>4, LinedKept
<1>3. QED
  BY <1>1, <1>2, LinedMain, LinedThread DEF Next

-----------------------------------------------------------------------------
(* The theorems *)

LEMMA InitIInv == Init => IInv
<1> SUFFICES ASSUME Init PROVE IInv
  OBVIOUS
<1>1. Misread = {} /\ Counted = {} /\ Talking = {}
  BY DEF Init, Misread, Counted, Talking
<1>2. Fits
  BY DEF Init, Fits, Fit, Alive, Busy
<1>3. Tokens /\ Names
  BY DEF Init, Tokens, Names
<1>4. IsFiniteSet(Counted) /\ num = Cardinality(Counted)
  BY <1>1, FS_EmptySet DEF Init
<1>5. Lined
  <2>1. (\A k \in Index : ~(k < num)) /\ num <= MaxClients
    BY Sets DEF Init
  <2>2. QED
    BY <1>1, <1>4, <2>1 DEF Init, Lined, Uncounted
<1>6. QED
  BY <1>2, <1>3, <1>5, InitBounds DEF IInv

LEMMA NextIInv == IInv /\ [Next]_vars => IInv'
<1> SUFFICES ASSUME IInv, [Next]_vars PROVE IInv'
  OBVIOUS
<1>1. Bounds /\ Bounds' /\ TypeOK
  BY NextBounds DEF IInv, Bounds
<1>2. (mixed => mixed') /\ (crowd => crowd') /\ (Misread' = {} => Misread = {})
  BY <1>1, HistoryStays, MisreadStays
<1>3. Misread' = {} => Fits'
  BY <1>1, <1>2, NextFits DEF IInv
<1>4. ~mixed' => Tokens'
  BY <1>1, <1>2, NextTokens DEF IInv
<1>5. (Misread' = {} /\ ~mixed') => Names'
  BY <1>1, <1>2, NextNames DEF IInv
<1>6. ~crowd' => Lined'
  <2>1. ASSUME ~crowd' PROVE Bounds /\ Lined /\ Fits
    BY <1>1, <1>2, <2>1 DEF IInv, Lined
  <2>2. QED
    BY <2>1, NextLined
<1>7. QED
  BY <1>1, <1>3, <1>4, <1>5, <1>6 DEF IInv

LEMMA Invariance == Spec => []IInv
BY InitIInv, NextIInv, PTL DEF Spec

\* Whatever the threads do to each other, until an access is out of bounds every slot of
\* clients[] holds a descriptor that was accepted, every buffer what a client sent, and
\* num_clients never falls below 0, however many threads leave before they are counted
\* (17-145).
THEOREM TypeCorrect == Spec => []TypeOK
<1>1. IInv => TypeOK
  BY DEF IInv, Bounds
<1>2. QED
  BY Invariance, <1>1, PTL

\* A client is counted with its own right name (48-67), or once it hung up, as long as
\* strtok's pairs of calls do not overlap and no thread has another's connection.
THEOREM NamesAreOwn == Spec => []CountedByName
<1>1. IInv => CountedByName
  BY DEF IInv, Names, Named, CountedByName
<1>2. QED
  BY Invariance, <1>1, PTL

\* The dialogue does not refuse a right name (51-67), unless the client was refused for a
\* blank before, or another thread's strtok came in between.
THEOREM RightNamesEndTheDialogue == Spec => RightNameAccepted
<1>1. ASSUME IInv, [Next]_vars, NEW t \in Conns, pc[t] = "token", pc'[t] = "ask",
             line[t].kind = "NAME", ~mixed
      PROVE  blank[t]
  <2>1. /\ TypeOK /\ save = t /\ rest = "fresh"
        /\ Busy => accepted \in Conns /\ pc[accepted] = "none"
    BY <1>1 DEF IInv, Bounds, Tokens
  <2>2. Token(t)
    <3>1. CASE AcceptFails \/ Cap \/ Refuse \/ Store \/ CreateThread \/ CreateFails \/ SigPipe
               \/ SegFault \/ Overrun \/ UNCHANGED vars \/ \E c \in Conns : Accept(c) \/ Hangup(c)
      <4>1. UNCHANGED pc \/ (mainPc = "create" /\ pc' = [pc EXCEPT ![accepted] = "start"])
        BY <3>1 DEF AcceptFails, Cap, Refuse, Store, CreateThread, CreateFails, Main, SigPipe,
                    SegFault, Overrun, Dies, vars, Accept, Hangup, Goto
      <4>2. QED
        BY <1>1, <2>1, <4>1 DEF TypeOK, Busy
    <3>2. ASSUME NEW u \in Conns, Thread(u) PROVE Token(t)
      <4>1. u = t
        BY <1>1, <2>1, <3>2 DEF Thread, ReadArg, Greet, CallRecv, Leave, Answer, Token,
           TokenOfRefill, TakeName, Load, CountSelf, Hear, Receive, Test, Send, CastEnd,
           CloseSocket, Own, Goto, TypeOK
      <4>2. QED
        BY <1>1, <2>1, <3>2, <4>1 DEF Thread, ReadArg, Greet, CallRecv, Leave, Answer,
           TokenOfRefill, Load, CountSelf, Hear, Test, Send, CastEnd, CloseSocket, At
    <3>3. QED
      BY <1>1, <3>1, <3>2 DEF Next
  <2>3. pc' = [pc EXCEPT ![t] = IF Accepts(t, line[t].kind # "SHORT",
                                           blank[t] \/ HasBlank(line[t].kind))
                                THEN "count" ELSE "ask"]
    BY <2>1, <2>2 DEF Token, TakeName, Own, Goto
  <2>4. ~Accepts(t, line[t].kind # "SHORT", blank[t] \/ HasBlank(line[t].kind))
    BY <1>1, <2>1, <2>3 DEF TypeOK
  <2>5. QED
    BY <1>1, <2>4 DEF Accepts, HasBlank
<1>2. IInv /\ [Next]_vars =>
        [\A t \in Conns :
           (pc[t] = "token" /\ pc'[t] = "ask" /\ line[t].kind = "NAME") => blank[t] \/ mixed]_vars
  BY <1>1
<1>3. QED
  BY Invariance, <1>2, PTL DEF Spec, RightNameAccepted

\* Everybody who talks is in a counted slot of clients[] (70, 143), and in two only if its
\* descriptor was another's before, as long as every thread is counted before the next
\* accept.
THEOREM TheArrayIsComplete == Spec => []EverybodyInTheArray
<1>1. ASSUME IInv, ~crowd, NEW t \in Talking
      PROVE  /\ Slots(t) # {}
             /\ Cardinality(Slots(t)) > 1 => \E c \in Conns \ {t} : own[c] = own[t]
  <2>1. Lined /\ Fits /\ t \in Conns
    BY <1>1 DEF IInv, Lined, Talking
  <2>2. sock[t] = own[t]
    BY <2>1 DEF Fits, Fit, Alive, Talking
  <2>3. PICK k \in Index : k \in Slots(t)
    BY <2>1, <2>2 DEF Lined, Slots
  <2>4. ASSUME Cardinality(Slots(t)) > 1 PROVE \E c \in Conns \ {t} : own[c] = own[t]
    <3>1. Slots(t) # {k}
      <4>1. Cardinality({k}) = 1
        BY FS_Singleton
      <4>2. CASE Slots(t) = {k}
        BY <2>4, <4>1, <4>2
      <4>3. QED
        BY <4>2
    <3>2. PICK l \in Index : l \in Slots(t) /\ l # k
      BY <2>3, <3>1 DEF Slots
    <3>3. k < num /\ l < num /\ clients[k] = own[t] /\ clients[l] = own[t]
      BY <2>2, <2>3, <3>2 DEF Slots
    <3>4. k < l \/ l < k
      BY <3>2, Sets
    <3>5. \E c, d \in Counted : c # d /\ own[c] = own[t] /\ own[d] = own[t]
      BY <2>1, <3>3, <3>4 DEF Lined, Twins
    <3>6. QED
      BY <3>5 DEF Counted
  <2>5. QED
    BY <2>3, <2>4
<1>2. IInv => EverybodyInTheArray
  BY <1>1 DEF EverybodyInTheArray
<1>3. QED
  BY Invariance, <1>2, PTL

\* No num_clients++ (70) is lost, on the same condition, and the test of 136 keeps it
\* within MAX_CLIENTS.
THEOREM NobodyIsLost == Spec => []NobodyLost
<1>1. IInv => NobodyLost
  BY DEF IInv, Lined, Counted, NobodyLost
<1>2. QED
  BY Invariance, <1>1, PTL

\* Nobody is sent its own words (88-94), unless a thread has another's connection.
THEOREM NobodyHearsItself == Spec => []NoEcho
<1>1. IInv => NoEcho
  BY DEF IInv, Fits, NoEcho
<1>2. QED
  BY Invariance, <1>1, PTL
=============================================================================
