-------------------------- MODULE ThreadServerProofs --------------------------
(***************************************************************************)
(* Theorems about the thread-per-connection servers, for any number of     *)
(* threads, connections, descriptors and requests.  Bounds are the types   *)
(* and what holds whoever reads `client' first; Handed is what holds while *)
(* every thread reads it in time: whose descriptor is whose.               *)
(***************************************************************************)
EXTENDS ThreadServerProps, TLAPS

WithFile == {"fclose", "body", "closefile"}
Bounds ==
  /\ TypeOK
  /\ \A c \in Conns : inbox[c] <= sent
  /\ \A t \in Threads :
       /\ pc[t] = "hear" => wait[t] \in Conns
       /\ pc[t] \in WithFile <=> handle[t] # 0
       /\ pc[t] \in {"none", "ended", "start"} => sock[t] = 0
       /\ pc[t] = "ended" => program = "http"

\* The descriptor of t's connection, and whose request it is about to answer.
Desc(t) == IF pc[t] = "start" THEN cell ELSE sock[t]
Answering == {"answer", "fopen", "fclose", "opendir", "body", "error"}
Alone(t) ==
  /\ Desc(t) \in Fd => fdt[Desc(t)] \in Conns
  /\ handle[t] \in Fd => fdt[handle[t]] = File
  /\ \A u \in Threads \ {t} : Running(u) =>
       /\ Desc(t) \in Fd => Desc(u) # Desc(t)
       /\ handle[t] \in Fd => handle[u] # handle[t]
       /\ pc[t] = "start" => pc[u] # "start"
Serves(t) ==
  /\ pc[t] = "hear" => sock[t] \in Fd /\ wait[t] = fdt[sock[t]] /\ from[t] = NoConn
  /\ (pc[t] \in Answering /\ sock[t] \in Fd) =>
       \/ from[t] = fdt[sock[t]]
       \/ from[t] = NoConn /\ program = "http" /\ peer[fdt[sock[t]]] = "gone"
MainOwns ==
  mainPc = "create" =>
    /\ \A t \in Threads : pc[t] # "start"
    /\ cell \in Fd =>
         /\ accepted \in Conns /\ fdt[cell] = accepted
         /\ \A t \in Threads : Running(t) => sock[t] # cell
Covered(f) ==
  \/ mainPc = "create" /\ cell = f
  \/ \E t \in Threads : Running(t) /\ f \in {Desc(t), handle[t]}
  \/ fdt[f] \in Conns /\ Forgotten(fdt[f])
OwnOnly(c) ==
  \A n \in DOMAIN got[c] :
    got[c][n] = c \/ (got[c][n] = NoConn /\ program = "http" /\ peer[c] = "gone")
Handed ==
  /\ MainOwns
  /\ \A t \in Threads : Running(t) => Alone(t) /\ Serves(t)
  /\ \A f \in Fd : fdt[f] # NoConn => Covered(f)
  /\ \A c \in Conns : OwnOnly(c)

IInv == Bounds /\ (~robbed => Handed)

-----------------------------------------------------------------------------
(* Operators *)

LEMMA Sets ==
  /\ Fd \subseteq Nat \ {0} /\ Conns \subseteq Nat \ {0} /\ NoFd \notin Fd /\ NoConn = 0
  /\ NoConn \notin Conns /\ File \notin Conns /\ File # NoConn
BY ConstantsAssumption DEF Fd, Conns, NoFd, NoConn, File

LEMMA ConnOf ==
  ASSUME TypeOK, NEW f
  PROVE  /\ Conn(f) \in Conns \cup {NoConn}
         /\ Conn(f) \in Conns => f \in Fd /\ fdt[f] = Conn(f)
         /\ f \in Fd /\ fdt[f] \in Conns => Conn(f) = fdt[f]
BY Sets DEF Conn, TypeOK

LEMMA ClosedIs ==
  ASSUME TypeOK, NEW f
  PROVE  /\ Closed(f) \in [Fd -> Conns \cup {NoConn, File}]
         /\ \A g \in Fd : Closed(f)[g] = IF g = f THEN NoConn ELSE fdt[g]
BY DEF Closed, TypeOK

LEMMA FailureIs ==
  ASSUME TypeOK
  PROVE  /\ Failure \in {"answer", "close", "none"}
         /\ Failure = "answer" <=> program = "http"
         /\ Failure = "close" <=> program = "time"
         /\ Failure = "none" <=> program = "files"
<1>1. program \in {"http", "time", "files"}
  BY ConstantsAssumption DEF TypeOK, AllPrograms
<1>2. program = "http" => Failure = "answer"
  BY Zenon DEF Failure
<1>3. program = "time" => Failure = "close"
  BY Zenon DEF Failure
<1>4. program = "files" => Failure = "none"
  BY Zenon DEF Failure
<1>5. QED
  BY <1>1, <1>2, <1>3, <1>4

LEMMA EndingIs ==
  ASSUME TypeOK
  PROVE  Ending \in {"none", "ended"} /\ (Ending = "ended" => program = "http")
<1>1. program \in {"http", "time", "files"}
  BY ConstantsAssumption DEF TypeOK, AllPrograms
<1>2. QED
  BY <1>1 DEF Ending, Detached

LEMMA GoesTo ==
  ASSUME TypeOK, NEW t \in Threads, NEW l, Goes(t, l)
  PROVE  /\ pc' = [pc EXCEPT ![t] = l]
         /\ sock' \in [Threads -> Fd \cup {0, NoFd}]
         /\ sock'[t] = IF l \in {"none", "ended"} THEN 0 ELSE sock[t]
         /\ \A u \in Threads \ {t} : sock'[u] = sock[u]
BY DEF TypeOK, Goes, Goto

\* What a send adds to what clients got.
LEMMA Sent ==
  ASSUME TypeOK, NEW t \in Threads, Sends(t)
  PROVE  /\ got' \in [Conns -> Seq(Conns \cup {NoConn})]
         /\ \A c \in Conns :
              got'[c] = IF c = Conn(sock[t]) THEN Append(got[c], from[t]) ELSE got[c]
<1>1. CASE Conn(sock[t]) = NoConn
  BY <1>1, Sets DEF Sends, TypeOK
<1>2. CASE Conn(sock[t]) \in Conns
  <2>1. \A c \in Conns : got[c] \in Seq(Conns \cup {NoConn}) /\ from[t] \in Conns \cup {NoConn}
    BY DEF TypeOK
  <2>2. got' = [got EXCEPT ![Conn(sock[t])] = Append(@, from[t])]
    BY <1>2, Sets DEF Sends
  <2>3. Append(got[Conn(sock[t])], from[t]) \in Seq(Conns \cup {NoConn})
    BY <1>2, <2>1
  <2>4. QED
    BY <1>2, <2>2, <2>3 DEF TypeOK
<1>3. QED
  BY <1>1, <1>2, ConnOf

-----------------------------------------------------------------------------
(* Bounds is inductive *)

LEMMA InitBounds == Init => Bounds
<1> SUFFICES ASSUME Init PROVE Bounds
  OBVIOUS
<1>1. <<>> \in Seq(Conns \cup {NoConn})
  OBVIOUS
<1>2. got \in [Conns -> Seq(Conns \cup {NoConn})]
  BY <1>1 DEF Init
<1>3. TypeOK
  <2>1. badLen \in BOOLEAN
    BY DEF Init
  <2>2. /\ index \in 0..NUM_THREADS - 1 /\ taken \in 0..MaxConns /\ sent \in 0..MaxSends
    BY ConstantsAssumption DEF Init
  <2>3. /\ fdt \in [Fd -> Conns \cup {NoConn, File}] /\ inbox \in [Conns -> 0..MaxSends]
        /\ peer \in [Conns -> {"none", "open", "gone"}]
    BY ConstantsAssumption DEF Init
  <2>4. QED
    BY <1>2, <2>1, <2>2, <2>3 DEF Init, TypeOK, Paths
<1>4. QED
  BY <1>3 DEF Init, Bounds, WithFile

LEMMA BoundsClients ==
  ASSUME Bounds, NEW c \in Conns, Connect(c) \/ Ask(c) \/ Hangup(c)
  PROVE  Bounds'
<1> USE DEF Bounds, TypeOK, Client, mainVars, bufVars
<1>1. CASE Connect(c) \/ Hangup(c)
  <2>1. peer' \in [Conns -> {"none", "open", "gone"}]
    BY <1>1 DEF Connect, Hangup
  <2>2. UNCHANGED <<inbox, sent>> /\ Client
    BY <1>1 DEF Connect, Hangup
  <2>3. QED
    BY <2>1, <2>2
<1>2. CASE Ask(c)
  <2>1. inbox[c] + 1 \in 0..MaxSends /\ sent + 1 \in 0..MaxSends
    BY <1>2, ConstantsAssumption DEF Ask
  <2>2. inbox' \in [Conns -> 0..MaxSends] /\ sent' \in 0..MaxSends
    BY <1>2, <2>1 DEF Ask
  <2>3. \A d \in Conns : inbox'[d] <= sent'
    BY <1>2 DEF Ask
  <2>4. QED
    BY <1>2, <2>2, <2>3 DEF Ask
<1>3. QED
  BY <1>1, <1>2

LEMMA BoundsMain == ASSUME Bounds, Main PROVE Bounds'
<1> USE DEF Bounds, TypeOK
<1>1. CASE Accept \/ AcceptDrops \/ AcceptFails
  <2>1. taken' \in 0..MaxConns
    BY <1>1, ConstantsAssumption DEF Accept, AcceptDrops, AcceptFails, Waiting, Oldest, Conns
  <2>2. fdt' \in [Fd -> Conns \cup {NoConn, File}]
    BY <1>1 DEF Accept, AcceptDrops, AcceptFails, Waiting, LowestFree
  <2>3. \E f \in Fd \cup {NoFd}, c \in Conns \cup {NoConn}, l \in {"accept", "create"} :
          Returns(f, c, l)
    BY <1>1 DEF Accept, AcceptDrops, AcceptFails, AfterFailure, Waiting, LowestFree
  <2>4. QED
    BY <2>1, <2>2, <2>3 DEF Returns, netVars, bufVars
<1>2. CASE CreateThread
  <2>1. index' \in 0..NUM_THREADS - 1
    BY <1>2, ConstantsAssumption DEF CreateThread, NextIndex
  <2>2. PICK t \in Threads : pc[t] = "none" /\ pc' = [pc EXCEPT ![t] = "start"]
    BY <1>2 DEF CreateThread, Goto
  <2>3. QED
    BY <1>2, <2>1, <2>2 DEF CreateThread, netVars, bufVars, WithFile
<1>3. CASE CreateFails
  <2>1. fdt' \in [Fd -> Conns \cup {NoConn, File}]
    BY <1>3, ClosedIs DEF CreateFails
  <2>2. refused' \subseteq Conns \cup {NoConn}
    BY <1>3 DEF CreateFails
  <2>3. QED
    BY <1>3, <2>1, <2>2 DEF CreateFails, mainVars, netVars, bufVars
<1>4. QED
  BY <1>1, <1>2, <1>3 DEF Main

LEMMA BoundsThread == ASSUME Bounds, NEW t \in Threads, Thread(t) PROVE Bounds'
<1> USE DEF Bounds, TypeOK
<1>0. /\ UNCHANGED <<program, limit, badLen, index, taken, mainPc, cell, accepted, up, peer, sent,
                     robbed, refused>>
  BY DEF Thread, ReadArg, Greet, CallRecv, Hear, HearEnd, Answer, CloseSocket, Closes, OpenFile,
         OpenDir, Opens, SendBody, SendError, CloseFile, Own, Goes, mainVars
<1>1. CASE ReadArg(t)
  BY <1>0, <1>1 DEF ReadArg, At, Goto, bufVars, WithFile
<1>2. CASE Greet(t)
  BY <1>0, <1>2 DEF Greet, At, Goto, bufVars, WithFile
<1>3. CASE CallRecv(t)
  <2>1. PICK l \in {"answer", "close", "none", "hear"} :
          Goes(t, l) /\ (l = "hear" => Conn(sock[t]) \in Conns)
    <3>1. Failure \in {"answer", "close", "none"}
      BY FailureIs
    <3>2. Goes(t, IF Conn(sock[t]) = NoConn THEN Failure ELSE "hear")
      BY <1>3 DEF CallRecv
    <3>3. CASE Conn(sock[t]) = NoConn
      BY <3>1, <3>2, <3>3
    <3>4. CASE Conn(sock[t]) # NoConn
      <4>1. Conn(sock[t]) \in Conns
        BY <3>4, ConnOf
      <4>2. Goes(t, "hear")
        BY <3>2, <3>4
      <4>3. QED
        BY <4>1, <4>2
    <3>5. QED
      BY <3>3, <3>4
  <2>2. /\ wait' \in [Threads -> Conns \cup {NoConn}] /\ from' \in [Threads -> Conns \cup {NoConn}]
        /\ l = "hear" => wait'[t] \in Conns
        /\ \A u \in Threads \ {t} : wait'[u] = wait[u]
    BY <1>3, <2>1, ConnOf DEF CallRecv
  <2>3. pc[t] = "recv" /\ UNCHANGED <<fdt, inbox, path, handle, got>>
    BY <1>3 DEF CallRecv, At
  <2>4. /\ pc' = [pc EXCEPT ![t] = l] /\ sock' \in [Threads -> Fd \cup {0, NoFd}]
        /\ l = "none" => sock'[t] = 0
        /\ \A u \in Threads \ {t} : sock'[u] = sock[u]
    BY <2>1, GoesTo
  <2>5. TypeOK'
    BY <1>0, <2>2, <2>3, <2>4
  <2>6. QED
    BY <1>0, <2>2, <2>3, <2>4, <2>5 DEF WithFile
<1>4. CASE Hear(t)
  <2>1. pc[t] = "hear" /\ wait[t] \in Conns /\ UNCHANGED <<fdt, sock, handle, got>>
    BY <1>4 DEF Hear, At
  <2>2. /\ inbox' \in [Conns -> 0..MaxSends] /\ \A c \in Conns : inbox'[c] <= sent
        /\ wait' \in [Threads -> Conns \cup {NoConn}] /\ from' \in [Threads -> Conns \cup {NoConn}]
        /\ \A u \in Threads \ {t} : wait'[u] = wait[u]
    BY <1>4, <2>1, ConstantsAssumption DEF Hear
  <2>3. path' \in [Threads -> Paths]
    BY <1>4 DEF Hear
  <2>4. PICK l \in {"opendir", "fopen", "answer"} : pc' = [pc EXCEPT ![t] = l]
    BY <1>4 DEF Hear, Goto
  <2>5. QED
    BY <1>0, <2>1, <2>2, <2>3, <2>4 DEF WithFile
<1>5. CASE HearEnd(t)
  BY <1>0, <1>5, FailureIs DEF HearEnd, Goes, At, Goto, WithFile
<1>6. CASE CloseSocket(t)
  BY <1>0, <1>6, ClosedIs, EndingIs DEF CloseSocket, Closes, Goes, At, Goto, WithFile, Paths
<1>7. CASE OpenFile(t) \/ OpenDir(t)
  <2>1. /\ pc[t] \in {"fopen", "opendir"} /\ UNCHANGED <<inbox, sock, wait, from, path, got>>
        /\ \/ \E f \in Fd, l \in WithFile :
                /\ fdt' = [fdt EXCEPT ![f] = File] /\ handle' = [handle EXCEPT ![t] = f]
                /\ pc' = [pc EXCEPT ![t] = l]
           \/ \E l \in {"opendir", "error"} :
                UNCHANGED <<fdt, handle>> /\ pc' = [pc EXCEPT ![t] = l]
    BY <1>7 DEF OpenFile, OpenDir, Opens, At, Goto, WithFile, LowestFree
  <2>2. CASE \E l \in {"opendir", "error"} :
               UNCHANGED <<fdt, handle>> /\ pc' = [pc EXCEPT ![t] = l]
    BY <1>0, <2>1, <2>2 DEF WithFile
  <2>3. ASSUME NEW f \in Fd, NEW l \in WithFile,
               fdt' = [fdt EXCEPT ![f] = File], handle' = [handle EXCEPT ![t] = f],
               pc' = [pc EXCEPT ![t] = l]
        PROVE  Bounds'
    <3>1. handle'[t] # 0 /\ pc'[t] = l
      BY <2>3, Sets
    <3>2. \A u \in Threads \ {t} : handle'[u] = handle[u] /\ pc'[u] = pc[u]
      BY <2>3
    <3>3. TypeOK'
      BY <1>0, <2>1, <2>3 DEF WithFile
    <3>4. QED
      BY <1>0, <2>1, <3>1, <3>2, <3>3 DEF WithFile
  <2>4. QED
    BY <2>1, <2>2, <2>3
<1>8. CASE Answer(t) \/ SendBody(t) \/ SendError(t)
  <2>1. got' \in [Conns -> Seq(Conns \cup {NoConn})]
    BY <1>8, Sent DEF Answer, SendBody, SendError
  <2>2. /\ UNCHANGED <<fdt, inbox, sock, bufVars>>
        /\ \/ /\ pc[t] \in {"answer", "error"}
              /\ \E l \in {"close", "recv"} : pc' = [pc EXCEPT ![t] = l]
           \/ pc[t] = "body" /\ pc' = [pc EXCEPT ![t] = "closefile"]
    BY <1>8 DEF Answer, SendBody, SendError, At, Goto
  <2>3. QED
    BY <1>0, <2>1, <2>2 DEF bufVars, WithFile
<1>9. CASE CloseFile(t)
  BY <1>0, <1>9, ClosedIs DEF CloseFile, Goto, WithFile
<1>10. QED
  BY <1>1, <1>2, <1>3, <1>4, <1>5, <1>6, <1>7, <1>8, <1>9 DEF Thread

LEMMA NextBounds == Bounds /\ [Next]_vars => Bounds'
<1> SUFFICES ASSUME Bounds, [Next]_vars PROVE Bounds'
  OBVIOUS
<1>1. CASE SigPipe \/ DetachesStale \/ UNCHANGED vars
  BY <1>1 DEF SigPipe, DetachesStale, Dies, vars, mainVars, netVars, bufVars, Bounds, TypeOK
<1>2. QED
  BY <1>1, BoundsClients, BoundsMain, BoundsThread DEF Next

-----------------------------------------------------------------------------
(* Handed is inductive while every thread reads `client' in time *)

\* Steps that open and close nothing and start no thread.
LEMMA Quiet ==
  ASSUME Handed, UNCHANGED <<program, fdt, handle>>, refused \subseteq refused',
         \A c \in Conns : peer[c] = "gone" => peer'[c] = "gone",
         MainOwns',
         \A f \in Fd : (mainPc = "create" /\ cell = f /\ fdt[f] # NoConn) => Covered(f)',
         \A u \in Threads : Running(u)' =>
            /\ Running(u) /\ Desc(u)' = Desc(u) /\ Serves(u)'
            /\ pc'[u] = "start" => pc[u] = "start",
         \A u \in Threads : (Running(u) /\ ~Running(u)') =>
            /\ handle[u] \notin Fd
            /\ Desc(u) \in Fd => program = "files" /\ peer'[fdt[Desc(u)]] = "gone",
         \A c \in Conns : OwnOnly(c)'
  PROVE  Handed'
<1>1. ASSUME NEW u \in Threads, Running(u)' PROVE Alone(u)'
  <2>1. Alone(u) /\ Desc(u)' = Desc(u) /\ (pc'[u] = "start" => pc[u] = "start")
    BY <1>1 DEF Handed
  <2>2. \A v \in Threads \ {u} : Running(v)' => Running(v) /\ Desc(v)' = Desc(v)
                                               /\ (pc'[v] = "start" => pc[v] = "start")
    OBVIOUS
  <2>3. QED
    BY <2>1, <2>2 DEF Alone
<1>2. ASSUME NEW f \in Fd, fdt[f] # NoConn PROVE Covered(f)'
  <2>1. CASE mainPc = "create" /\ cell = f
    BY <1>2, <2>1
  <2>2. ASSUME NEW u \in Threads, Running(u), f \in {Desc(u), handle[u]} PROVE Covered(f)'
    <3>1. CASE Running(u)'
      BY <2>2, <3>1 DEF Covered
    <3>2. CASE ~Running(u)'
      <4>1. f = Desc(u) /\ program = "files" /\ peer'[fdt[f]] = "gone" /\ fdt[f] \in Conns
        BY <2>2, <3>2 DEF Handed, Alone
      <4>2. QED
        BY <4>1 DEF Covered, Forgotten
    <3>3. QED
      BY <3>1, <3>2
  <2>3. CASE fdt[f] \in Conns /\ Forgotten(fdt[f])
    BY <2>3 DEF Covered, Forgotten
  <2>4. QED
    BY <1>2, <2>1, <2>2, <2>3 DEF Handed, Covered
<1>3. QED
  BY <1>1, <1>2 DEF Handed

\* Steps that close descriptor g, which nobody keeps afterwards.
LEMMA Closing ==
  ASSUME TypeOK, Handed, NEW g, fdt' = Closed(g), UNCHANGED <<program, peer, got>>,
         refused \subseteq refused', MainOwns',
         \A f \in Fd \ {g} : (mainPc = "create" /\ cell = f /\ fdt[f] # NoConn) => Covered(f)',
         \A u \in Threads : Running(u)' =>
            /\ Running(u) /\ Desc(u)' = Desc(u) /\ handle'[u] \in {handle[u], 0}
            /\ g \in Fd => Desc(u) # g /\ handle'[u] # g
            /\ pc'[u] = "start" => pc[u] = "start",
         \A u \in Threads : Running(u)' => Serves(u)',
         \A u \in Threads : Running(u) =>
            \A f \in Fd \ {g} :
              f \in {Desc(u), handle[u]} => Running(u)' /\ f \in {Desc(u)', handle'[u]}
  PROVE  Handed'
<1>1. \A f \in Fd : fdt'[f] = IF f = g THEN NoConn ELSE fdt[f]
  BY ClosedIs
<1>2. ASSUME NEW u \in Threads, Running(u)' PROVE Alone(u)'
  <2>1. /\ Alone(u) /\ Desc(u)' = Desc(u) /\ handle'[u] \in {handle[u], 0}
        /\ g \in Fd => Desc(u) # g /\ handle'[u] # g
        /\ pc'[u] = "start" => pc[u] = "start"
    BY <1>2 DEF Handed
  <2>2. \A v \in Threads \ {u} : Running(v)' =>
           /\ Running(v) /\ Desc(v)' = Desc(v) /\ handle'[v] \in {handle[v], 0}
           /\ pc'[v] = "start" => pc[v] = "start"
    OBVIOUS
  <2>3. 0 \notin Fd
    BY Sets
  <2>4. QED
    BY <1>1, <2>1, <2>2, <2>3 DEF Alone
<1>3. ASSUME NEW f \in Fd, fdt'[f] # NoConn PROVE Covered(f)'
  <2>1. f # g /\ fdt'[f] = fdt[f] /\ Covered(f) /\ fdt[f] # NoConn
    BY <1>1, <1>3 DEF Handed
  <2>2. CASE mainPc = "create" /\ cell = f
    BY <2>1, <2>2
  <2>3. CASE \E u \in Threads : Running(u) /\ f \in {Desc(u), handle[u]}
    BY <2>1, <2>3 DEF Covered
  <2>4. CASE fdt[f] \in Conns /\ Forgotten(fdt[f])
    BY <2>1, <2>4 DEF Covered, Forgotten
  <2>5. QED
    BY <2>1, <2>2, <2>3, <2>4 DEF Covered
<1>4. \A c \in Conns : OwnOnly(c)'
  BY DEF Handed, OwnOnly
<1>5. QED
  BY <1>2, <1>3, <1>4 DEF Handed

LEMMA HandedClients ==
  ASSUME Bounds, Handed, NEW c \in Conns, Connect(c) \/ Ask(c) \/ Hangup(c)
  PROVE  Handed'
<1>1. /\ UNCHANGED <<program, fdt, handle, refused, pc, sock, mainPc, cell, accepted>>
      /\ UNCHANGED <<wait, from, got>>
      /\ \A d \in Conns : peer[d] = "gone" => peer'[d] = "gone"
  BY DEF Connect, Ask, Hangup, Client, mainVars, bufVars, Bounds, TypeOK
<1>2. \A u \in Threads : Running(u)' = Running(u) /\ Desc(u)' = Desc(u)
  BY <1>1 DEF Running, Desc
<1>3. MainOwns' /\ \A f \in Fd : (mainPc = "create" /\ cell = f) => Covered(f)'
  BY <1>1, <1>2 DEF Handed, MainOwns, Covered, Running
<1>4. ASSUME NEW u \in Threads, Running(u) PROVE Serves(u)'
  <2>1. Serves(u) /\ (sock[u] \in Fd /\ pc[u] # "start" => fdt[sock[u]] \in Conns)
    BY <1>4 DEF Handed, Alone, Desc
  <2>2. QED
    BY <1>1, <2>1 DEF Serves, Answering
<1>5. \A d \in Conns : OwnOnly(d)'
  BY <1>1 DEF Handed, OwnOnly
<1>6. QED
  BY <1>1, <1>2, <1>3, <1>4, <1>5, Quiet DEF Running

\* The end of the process, and steps of nobody.
LEMMA HandedSame ==
  ASSUME Bounds, Handed, SigPipe \/ DetachesStale \/ UNCHANGED vars
  PROVE  Handed'
<1>1. /\ UNCHANGED <<program, fdt, handle, refused, pc, sock, mainPc, cell, accepted>>
      /\ UNCHANGED <<wait, from, got, peer>>
  BY DEF SigPipe, DetachesStale, Dies, vars, mainVars, netVars, bufVars
<1>2. \A u \in Threads : Running(u)' = Running(u) /\ Desc(u)' = Desc(u)
  BY <1>1 DEF Running, Desc
<1>3. MainOwns' /\ \A f \in Fd : (mainPc = "create" /\ cell = f) => Covered(f)'
  BY <1>1, <1>2 DEF Handed, MainOwns, Covered, Running
<1>4. ASSUME NEW u \in Threads, Running(u) PROVE Serves(u)'
  BY <1>1, <1>4 DEF Handed, Serves, Answering
<1>5. \A d \in Conns : OwnOnly(d)'
  BY <1>1 DEF Handed, OwnOnly
<1>6. QED
  BY <1>1, <1>2, <1>3, <1>4, <1>5, Quiet DEF Running

LEMMA HandedMain == ASSUME Bounds, Handed, ~robbed', Main PROVE Handed'
<1> USE DEF Bounds, TypeOK
<1>1. CASE AcceptDrops \/ AcceptFails
  <2>1. /\ UNCHANGED <<program, fdt, handle, refused, pc, sock, peer, wait, from, got>>
        /\ mainPc = "accept" /\ cell' = NoFd /\ \A u \in Threads : pc[u] # "start"
    BY <1>1 DEF AcceptDrops, AcceptFails, Returns, netVars, bufVars
  <2>2. \A u \in Threads : Running(u)' = Running(u) /\ Desc(u)' = Desc(u)
    BY <2>1 DEF Running, Desc
  <2>3. MainOwns'
    BY <2>1, Sets DEF MainOwns
  <2>4. ASSUME NEW u \in Threads, Running(u) PROVE Serves(u)'
    BY <2>1, <2>4 DEF Handed, Serves, Answering
  <2>5. \A d \in Conns : OwnOnly(d)'
    BY <2>1 DEF Handed, OwnOnly
  <2>6. QED
    BY <2>1, <2>2, <2>3, <2>4, <2>5, Quiet DEF Running
<1>2. CASE Accept
  <2>1. PICK g \in Fd : fdt[g] = NoConn /\ fdt' = [fdt EXCEPT ![g] = Oldest] /\ cell' = g
    BY <1>2 DEF Accept, Returns, LowestFree
  <2>2. /\ UNCHANGED <<program, handle, refused, pc, sock, peer, wait, from, got>>
        /\ mainPc = "accept" /\ mainPc' = "create" /\ accepted' = Oldest /\ Oldest \in Conns
        /\ \A u \in Threads : pc[u] # "start"
    BY <1>2 DEF Accept, Returns, Waiting, netVars, bufVars
  <2>3. \A u \in Threads : Running(u)' = Running(u) /\ Desc(u)' = Desc(u) /\ Desc(u) = sock[u]
    BY <2>2 DEF Running, Desc
  <2>4. ASSUME NEW u \in Threads, Running(u)
        PROVE  Alone(u)' /\ Serves(u)' /\ Desc(u) # g /\ handle[u] # g
    <3>1. Alone(u) /\ Serves(u)
      BY <2>4 DEF Handed
    <3>2. Desc(u) # g /\ handle[u] # g /\ fdt'[g] = Oldest /\ \A f \in Fd \ {g} : fdt'[f] = fdt[f]
      BY <2>1, <3>1, Sets DEF Alone
    <3>3. Alone(u)'
      BY <2>2, <2>3, <3>1, <3>2 DEF Alone
    <3>4. Serves(u)'
      BY <2>2, <2>3, <3>1, <3>2 DEF Serves
    <3>5. QED
      BY <3>2, <3>3, <3>4
  <2>5. MainOwns'
    BY <2>1, <2>2, <2>3, <2>4 DEF MainOwns, Running
  <2>6. \A f \in Fd : fdt'[f] # NoConn => Covered(f)'
    BY <2>1, <2>2, <2>3 DEF Handed, Covered, Forgotten
  <2>7. \A d \in Conns : OwnOnly(d)'
    BY <2>2 DEF Handed, OwnOnly
  <2>8. QED
    BY <2>3, <2>4, <2>5, <2>6, <2>7 DEF Handed
<1>3. CASE CreateThread
  <2>1. PICK t \in Threads : pc[t] = "none" /\ pc' = [pc EXCEPT ![t] = "start"]
    BY <1>3 DEF CreateThread, Goto
  <2>2. /\ UNCHANGED <<program, cell, accepted, fdt, peer, sock, wait, from, handle, refused, got>>
        /\ mainPc = "create" /\ mainPc' = "accept" /\ handle[t] = 0
    BY <1>3, <2>1 DEF CreateThread, netVars, bufVars, WithFile
  <2>3. /\ Desc(t)' = cell /\ ~Running(t) /\ Running(t)'
        /\ \A u \in Threads \ {t} :
             Desc(u)' = Desc(u) /\ (Running(u)' <=> Running(u)) /\ pc'[u] = pc[u]
    BY <2>1, <2>2 DEF Desc, Running
  <2>4. /\ \A u \in Threads : pc[u] # "start"
        /\ cell \in Fd => /\ fdt[cell] \in Conns
                          /\ \A u \in Threads : Running(u) => Desc(u) # cell
    BY <2>2 DEF Handed, MainOwns, Desc
  <2>5. Alone(t)' /\ Serves(t)'
    BY <2>1, <2>2, <2>3, <2>4, Sets DEF Alone, Serves, Answering
  <2>6. ASSUME NEW u \in Threads \ {t}, Running(u) PROVE Alone(u)' /\ Serves(u)'
    <3>1. Alone(u) /\ Serves(u)
      BY <2>6 DEF Handed
    <3>2. Serves(u)'
      BY <2>2, <2>3, <3>1 DEF Serves
    <3>3. Desc(u) \in Fd => Desc(t)' # Desc(u)
      BY <2>3, <2>4, <2>6
    <3>4. Alone(u)'
      BY <2>1, <2>2, <2>3, <2>4, <3>1, <3>3, Sets DEF Alone
    <3>5. QED
      BY <3>2, <3>4
  <2>7. \A f \in Fd : fdt[f] # NoConn => Covered(f)'
    BY <2>1, <2>2, <2>3 DEF Handed, Covered, Forgotten
  <2>8. QED
    BY <2>2, <2>3, <2>5, <2>6, <2>7 DEF Handed, MainOwns, OwnOnly
<1>4. CASE CreateFails
  <2>1. /\ UNCHANGED <<program, handle, pc, sock, cell, peer, wait, from, got>>
        /\ mainPc = "create" /\ mainPc' = "accept"
    BY <1>4 DEF CreateFails, mainVars, netVars, bufVars
  <2>2. \A u \in Threads : Running(u)' = Running(u) /\ Desc(u)' = Desc(u)
    BY <2>1 DEF Running, Desc
  <2>3. MainOwns'
    BY <2>1 DEF MainOwns
  <2>4. \A u \in Threads : Running(u) => Serves(u) /\ (Desc(u) # cell \/ cell \notin Fd)
    BY <2>1 DEF Handed, MainOwns, Desc
  <2>5. CASE program = "files"
    <3>1. fdt' = fdt /\ refused' = refused \cup {accepted}
      BY <1>4, <2>5 DEF CreateFails, RefusesWithoutClose, InUse
    <3>2. \A f \in Fd : (mainPc = "create" /\ cell = f /\ fdt[f] # NoConn) => Covered(f)'
      BY <2>1, <2>5, <3>1 DEF Handed, MainOwns, Covered, Forgotten
    <3>3. \A u \in Threads : Running(u) => Serves(u)'
      BY <2>1, <2>4, <3>1 DEF Serves
    <3>4. \A d \in Conns : OwnOnly(d)'
      BY <2>1 DEF Handed, OwnOnly
    <3>5. QED
      BY <2>1, <2>2, <2>3, <3>1, <3>2, <3>3, <3>4, Quiet
  <2>6. CASE program # "files"
    <3>1. fdt' = Closed(cell) /\ refused \subseteq refused'
      BY <1>4, <2>6 DEF CreateFails, RefusesWithoutClose
    <3>2. \A f \in Fd : fdt'[f] = IF f = cell THEN NoConn ELSE fdt[f]
      BY <3>1, ClosedIs
    <3>3. ASSUME NEW u \in Threads, Running(u)
          PROVE  Serves(u)' /\ (cell \in Fd => Desc(u) # cell /\ handle[u] # cell)
      <4>1. cell \in Fd => Desc(u) # cell /\ fdt[cell] \in Conns
        BY <2>1, <2>4, <3>3 DEF Handed, MainOwns
      <4>2. cell \in Fd => handle[u] # cell
        BY <3>3, <4>1, Sets DEF Handed, Alone
      <4>3. sock[u] \in Fd /\ pc[u] # "start" => fdt'[sock[u]] = fdt[sock[u]]
        BY <3>2, <4>1 DEF Desc
      <4>4. Serves(u)'
        BY <2>1, <2>4, <3>3, <4>3 DEF Serves, Answering
      <4>5. QED
        BY <4>1, <4>2, <4>4
    <3>4. QED
      BY <2>1, <2>2, <2>3, <3>1, <3>3, Closing
  <2>7. QED
    BY <2>5, <2>6
<1>5. QED
  BY <1>1, <1>2, <1>3, <1>4 DEF Main

\* Steps of a thread that open and close nothing.
LEMMA ThreadQuiet ==
  ASSUME Bounds, Handed, NEW t \in Threads, Running(t), NEW l, l # "start",
         pc' = [pc EXCEPT ![t] = l], UNCHANGED <<fdt, handle>>,
         UNCHANGED <<program, cell, peer, refused, mainPc, accepted>>,
         \A u \in Threads \ {t} : sock'[u] = sock[u] /\ wait'[u] = wait[u] /\ from'[u] = from[u],
         l \in {"none", "ended"} =>
           /\ handle[t] = 0
           /\ Desc(t) \in Fd => program = "files" /\ peer[fdt[Desc(t)]] = "gone",
         l \notin {"none", "ended"} => sock'[t] = Desc(t) /\ Serves(t)',
         \A c \in Conns : OwnOnly(c)'
  PROVE  Handed'
<1>1. pc'[t] = l /\ \A u \in Threads \ {t} : pc'[u] = pc[u]
  BY DEF Bounds, TypeOK
<1>2. \A u \in Threads \ {t} :
        /\ Running(u)' = Running(u) /\ Desc(u)' = Desc(u) /\ (pc'[u] = "start" => pc[u] = "start")
        /\ Running(u) => Serves(u)'
  BY <1>1 DEF Handed, Running, Desc, Serves
<1>3. Running(t)' => Desc(t)' = Desc(t) /\ Serves(t)'
  BY <1>1 DEF Running, Desc
<1>4. MainOwns'
  BY <1>1, <1>2, <1>3 DEF Handed, MainOwns, Running, Desc
<1>5. \A f \in Fd : (mainPc = "create" /\ cell = f) => Covered(f)'
  BY DEF Covered
<1>6. 0 \notin Fd
  BY Sets
<1>7. ~Running(t)' => handle[t] = 0 /\ (Desc(t) \in Fd => program = "files"
                                                       /\ peer'[fdt[Desc(t)]] = "gone")
  BY <1>1 DEF Running
<1>8. QED
  BY <1>1, <1>2, <1>3, <1>4, <1>5, <1>6, <1>7, Quiet

LEMMA HandedSends ==
  ASSUME Bounds, Handed, NEW t \in Threads, Answer(t) \/ SendBody(t) \/ SendError(t)
  PROVE  Handed'
<1> USE DEF Bounds, TypeOK
<1>1. /\ UNCHANGED <<fdt, handle, program, cell, peer, refused, mainPc, accepted, sock, wait, from>>
      /\ pc[t] \in Answering \cap {"answer", "body", "error"}
      /\ \E l \in {"close", "recv", "closefile"} : pc' = [pc EXCEPT ![t] = l]
      /\ Sends(t)
  BY DEF Answer, SendBody, SendError, At, Goto, Own, mainVars, bufVars, Answering
<1>2. ASSUME NEW c \in Conns PROVE OwnOnly(c)'
  <2>1. OwnOnly(c)
    BY DEF Handed
  <2>2. CASE c = Conn(sock[t])
    <3>1. sock[t] \in Fd /\ fdt[sock[t]] = c
      BY <2>2, ConnOf
    <3>2. from[t] = c \/ (from[t] = NoConn /\ program = "http" /\ peer[c] = "gone")
      BY <1>1, <3>1 DEF Handed, Serves, Running
    <3>3. got'[c] = Append(got[c], from[t]) /\ got[c] \in Seq(Conns \cup {NoConn})
      BY <1>1, <2>2, Sent
    <3>4. \A n \in DOMAIN got'[c] :
            \/ n \in DOMAIN got[c] /\ got'[c][n] = got[c][n]
            \/ got'[c][n] = from[t]
      BY <3>3
    <3>5. QED
      BY <1>1, <2>1, <3>2, <3>4 DEF OwnOnly
  <2>3. CASE c # Conn(sock[t])
    BY <1>1, <2>1, <2>3, Sent DEF OwnOnly
  <2>4. QED
    BY <2>2, <2>3
<1>3. Running(t) /\ sock[t] = Desc(t)
  BY <1>1 DEF Running, Desc
<1>4. PICK l \in {"close", "recv", "closefile"} : pc' = [pc EXCEPT ![t] = l]
  BY <1>1
<1>5. Serves(t)'
  BY <1>4 DEF Serves, Answering
<1>6. QED
  BY <1>1, <1>2, <1>3, <1>4, <1>5, ThreadQuiet

LEMMA HandedReads ==
  ASSUME Bounds, Bounds', Handed, NEW t \in Threads,
         ReadArg(t) \/ Greet(t) \/ CallRecv(t) \/ Hear(t) \/ HearEnd(t)
  PROVE  Handed'
<1> USE DEF Bounds, TypeOK
<1>1. /\ UNCHANGED <<fdt, handle, program, cell, peer, refused, mainPc, accepted, got>>
      /\ pc[t] \in {"start", "greet", "recv", "hear"} /\ Running(t)
      /\ \A u \in Threads \ {t} : sock'[u] = sock[u] /\ wait'[u] = wait[u] /\ from'[u] = from[u]
  BY DEF ReadArg, Greet, CallRecv, Hear, HearEnd, At, Goes, Own, mainVars, bufVars, Running
<1>2. \A c \in Conns : OwnOnly(c)'
  BY <1>1 DEF Handed, OwnOnly
<1>3. handle[t] = 0
  BY <1>1 DEF WithFile
<1>4. Alone(t) /\ Serves(t)
  BY <1>1 DEF Handed
<1>5. CASE ReadArg(t) \/ Greet(t)
  <2>1. PICK l \in {"greet", "recv"} : pc' = [pc EXCEPT ![t] = l]
    BY <1>5 DEF ReadArg, Greet, Goto
  <2>2. sock'[t] = Desc(t)
    BY <1>5 DEF ReadArg, Greet, At, Desc
  <2>3. Serves(t)'
    BY <2>1 DEF Serves, Answering
  <2>4. QED
    BY <1>1, <1>2, <2>1, <2>2, <2>3, ThreadQuiet
<1>6. CASE CallRecv(t)
  <2>1. sock[t] = Desc(t) /\ wait'[t] = Conn(sock[t]) /\ from'[t] = NoConn
    BY <1>6 DEF CallRecv, At, Desc
  <2>2. CASE Conn(sock[t]) = NoConn
    <3>1. Goes(t, Failure) /\ sock[t] \notin Fd
      BY <1>4, <1>6, <2>1, <2>2, ConnOf, Sets DEF CallRecv, Alone
    <3>2. pc' = [pc EXCEPT ![t] = Failure] /\ (Failure # "none" => sock'[t] = sock[t])
      BY <3>1, FailureIs, GoesTo
    <3>3. Failure # "none" => Serves(t)'
      BY <3>1, <3>2, FailureIs DEF Serves
    <3>4. PICK l \in {"answer", "close", "none"} : Failure = l
      BY FailureIs
    <3>5. /\ l # "start" /\ pc' = [pc EXCEPT ![t] = l]
          /\ l \in {"none", "ended"} => handle[t] = 0 /\ Desc(t) \notin Fd
          /\ l \notin {"none", "ended"} => sock'[t] = Desc(t) /\ Serves(t)'
      BY <1>3, <2>1, <3>1, <3>2, <3>3, <3>4
    <3>6. QED
      BY <1>1, <1>2, <3>5, ThreadQuiet
  <2>3. CASE Conn(sock[t]) # NoConn
    <3>1. Goes(t, "hear") /\ sock[t] \in Fd /\ Conn(sock[t]) = fdt[sock[t]]
      BY <1>6, <2>3, ConnOf DEF CallRecv
    <3>2. pc' = [pc EXCEPT ![t] = "hear"] /\ sock'[t] = sock[t]
      BY <3>1 DEF Goes, Goto
    <3>3. Serves(t)'
      BY <1>1, <2>1, <3>1, <3>2 DEF Serves, Answering
    <3>4. QED
      BY <1>1, <1>2, <2>1, <3>2, <3>3, ThreadQuiet
  <2>4. QED
    BY <2>2, <2>3
<1>7. CASE Hear(t)
  <2>1. /\ pc[t] = "hear" /\ from'[t] = wait[t] /\ sock' = sock
        /\ \E l \in {"opendir", "fopen", "answer"} : pc' = [pc EXCEPT ![t] = l]
    BY <1>7 DEF Hear, At, Goto
  <2>2. sock[t] \in Fd /\ wait[t] = fdt[sock[t]] /\ sock[t] = Desc(t)
    BY <1>4, <2>1 DEF Serves, Desc
  <2>3. PICK l \in {"opendir", "fopen", "answer"} : pc' = [pc EXCEPT ![t] = l]
    BY <2>1
  <2>4. Serves(t)'
    BY <1>1, <2>1, <2>2, <2>3 DEF Serves
  <2>5. QED
    BY <1>1, <1>2, <2>1, <2>2, <2>3, <2>4, ThreadQuiet
<1>8. CASE HearEnd(t)
  <2>1. pc[t] = "hear" /\ peer[wait[t]] = "gone" /\ UNCHANGED from /\ Goes(t, Failure)
    BY <1>8 DEF HearEnd, At
  <2>2. sock[t] \in Fd /\ wait[t] = fdt[sock[t]] /\ sock[t] = Desc(t)
    BY <1>4, <2>1 DEF Serves, Desc
  <2>3. pc' = [pc EXCEPT ![t] = Failure] /\ (Failure # "none" => sock'[t] = sock[t])
    BY <2>1, FailureIs, GoesTo
  <2>4. Failure # "none" => Serves(t)'
    <3>1. from'[t] = NoConn /\ peer'[wait[t]] = "gone" /\ program' = program
      BY <1>1, <1>4, <2>1 DEF Serves
    <3>2. pc'[t] = Failure
      BY <2>3
    <3>3. QED
      BY <1>1, <2>2, <2>3, <3>1, <3>2, FailureIs DEF Serves, Answering
  <2>5. PICK l \in {"answer", "close", "none"} : Failure = l
    BY FailureIs
  <2>6. /\ l # "start" /\ pc' = [pc EXCEPT ![t] = l]
        /\ l \in {"none", "ended"} =>
             handle[t] = 0 /\ program = "files" /\ peer[fdt[Desc(t)]] = "gone"
        /\ l \notin {"none", "ended"} => sock'[t] = Desc(t) /\ Serves(t)'
    BY <1>3, <2>1, <2>2, <2>3, <2>4, <2>5, FailureIs
  <2>7. QED
    BY <1>1, <1>2, <2>6, ThreadQuiet
<1>9. QED
  BY <1>5, <1>6, <1>7, <1>8

LEMMA HandedCloses ==
  ASSUME Bounds, Handed, NEW t \in Threads, CloseSocket(t) \/ CloseFile(t)
  PROVE  Handed'
<1> USE DEF Bounds, TypeOK
<1>1. /\ UNCHANGED <<program, cell, peer, refused, mainPc, accepted, got, wait>>
      /\ pc[t] \in {"close", "fclose", "closefile"} /\ Running(t)
      /\ \A u \in Threads \ {t} :
           /\ pc'[u] = pc[u] /\ sock'[u] = sock[u] /\ handle'[u] = handle[u] /\ from'[u] = from[u]
  BY DEF CloseSocket, Closes, CloseFile, At, Goes, Goto, Own, mainVars, Running
<1>2. \A u \in Threads \ {t} : Running(u)' = Running(u) /\ Desc(u)' = Desc(u)
  BY <1>1 DEF Running, Desc
<1>3. Alone(t) /\ sock[t] = Desc(t) /\ 0 \notin Fd
  BY <1>1, Sets DEF Handed, Desc
<1>4. ASSUME NEW g, fdt' = Closed(g), NEW u \in Threads \ {t}, Running(u), g \in Fd => Desc(u) # g
      PROVE  Serves(u)'
  <2>1. \A f \in Fd : fdt'[f] = IF f = g THEN NoConn ELSE fdt[f]
    BY <1>4, ClosedIs
  <2>2. Serves(u) /\ (pc[u] # "start" => Desc(u) = sock[u])
    BY <1>4 DEF Handed, Desc
  <2>3. QED
    BY <1>1, <1>4, <2>1, <2>2 DEF Serves, Answering
<1>5. CASE CloseSocket(t)
  <2>1. /\ pc[t] = "close" /\ fdt' = Closed(sock[t]) /\ handle' = handle /\ handle[t] = 0
        /\ pc'[t] \in {"none", "ended"}
    BY <1>5, EndingIs DEF CloseSocket, Closes, At, Goes, Goto, WithFile
  <2>2. ASSUME NEW u \in Threads \ {t}, Running(u)
        PROVE  sock[t] \in Fd => Desc(u) # sock[t] /\ handle[u] # sock[t]
    <3>1. Alone(u)
      BY <2>2 DEF Handed
    <3>2. QED
      BY <1>1, <1>3, <2>2, <3>1, Sets DEF Alone
  <2>3. ~Running(t)'
    BY <2>1 DEF Running
  <2>4. MainOwns'
    BY <1>1, <1>2, <1>3, <2>1, <2>3, ClosedIs DEF Handed, MainOwns, Running
  <2>5. \A f \in Fd : (mainPc = "create" /\ cell = f) => Covered(f)'
    BY <1>1 DEF Covered
  <2>6. PICK g : g = sock[t]
    OBVIOUS
  <2>7. \A u \in Threads : Running(u)' =>
           /\ Running(u) /\ Desc(u)' = Desc(u) /\ handle'[u] \in {handle[u], 0}
           /\ g \in Fd => Desc(u) # g /\ handle'[u] # g
           /\ pc'[u] = "start" => pc[u] = "start"
           /\ Serves(u)'
    BY <1>1, <1>2, <1>3, <1>4, <2>1, <2>2, <2>3, <2>6
  <2>8. \A u \in Threads : Running(u) =>
           \A f \in Fd \ {g} :
             f \in {Desc(u), handle[u]} => Running(u)' /\ f \in {Desc(u)', handle'[u]}
    BY <1>1, <1>2, <1>3, <1>4, <2>1, <2>2, <2>3, <2>6
  <2>9. QED
    <3> HIDE DEF Bounds, TypeOK
    <3>1. /\ TypeOK /\ fdt' = Closed(g) /\ refused \subseteq refused'
          /\ UNCHANGED <<program, peer, got>>
      BY <1>1, <2>1, <2>6 DEF Bounds
    <3>2. QED
      BY <2>4, <2>5, <2>7, <2>8, <3>1, Closing
<1>6. CASE CloseFile(t)
  <2>1. /\ fdt' = Closed(handle[t]) /\ handle'[t] = 0 /\ handle[t] \in Fd
        /\ sock' = sock /\ from' = from /\ pc'[t] \in {"opendir", "close"}
        /\ pc'[t] = "opendir" => pc[t] = "fclose"
    BY <1>6 DEF CloseFile, Goto, WithFile
  <2>2. \A u \in Threads \ {t} : Running(u) => Desc(u) # handle[t] /\ handle[u] # handle[t]
    BY <1>1, <1>3, <2>1, Sets DEF Handed, Alone
  <2>3. fdt[handle[t]] = File /\ Desc(t) # handle[t]
    BY <1>3, <2>1, Sets DEF Alone
  <2>4. Running(t)' /\ Desc(t)' = Desc(t) /\ pc'[t] # "start"
    BY <1>1, <2>1 DEF Running, Desc
  <2>5. Serves(t)'
    <3>1. Serves(t) /\ pc[t] # "hear" /\ pc'[t] # "hear"
      BY <1>1, <2>1 DEF Handed
    <3>2. sock[t] \in Fd => fdt'[sock[t]] = fdt[sock[t]]
      BY <1>3, <2>1, <2>3, ClosedIs
    <3>3. QED
      BY <1>1, <2>1, <3>1, <3>2 DEF Serves, Answering
  <2>6. MainOwns'
    <3>1. mainPc = "create" /\ cell \in Fd => cell # handle[t]
      BY <2>3, Sets DEF Handed, MainOwns
    <3>2. QED
      BY <1>1, <1>2, <2>1, <2>4, <3>1, ClosedIs DEF Handed, MainOwns, Running
  <2>7. \A f \in Fd : (mainPc = "create" /\ cell = f) => Covered(f)'
    BY <1>1 DEF Covered
  <2>8. PICK g : g = handle[t]
    OBVIOUS
  <2>9. \A u \in Threads : Running(u)' =>
           /\ Running(u) /\ Desc(u)' = Desc(u) /\ handle'[u] \in {handle[u], 0}
           /\ g \in Fd => Desc(u) # g /\ handle'[u] # g
           /\ pc'[u] = "start" => pc[u] = "start"
           /\ Serves(u)'
    BY <1>1, <1>2, <1>3, <1>4, <2>1, <2>2, <2>3, <2>4, <2>5, <2>8
  <2>10. \A u \in Threads : Running(u) =>
           \A f \in Fd \ {g} :
             f \in {Desc(u), handle[u]} => Running(u)' /\ f \in {Desc(u)', handle'[u]}
    BY <1>1, <1>2, <1>3, <1>4, <2>1, <2>2, <2>3, <2>4, <2>5, <2>8
  <2>11. QED
    <3> HIDE DEF Bounds, TypeOK
    <3>1. /\ TypeOK /\ fdt' = Closed(g) /\ refused \subseteq refused'
          /\ UNCHANGED <<program, peer, got>>
      BY <1>1, <2>1, <2>8 DEF Bounds
    <3>2. QED
      BY <2>6, <2>7, <2>9, <2>10, <3>1, Closing
<1>7. QED
  BY <1>5, <1>6

LEMMA HandedOpens ==
  ASSUME Bounds, Handed, NEW t \in Threads, OpenFile(t) \/ OpenDir(t)
  PROVE  Handed'
<1> USE DEF Bounds, TypeOK
<1>1. /\ UNCHANGED <<program, cell, peer, refused, mainPc, accepted, got, sock, wait, from>>
      /\ pc[t] \in {"fopen", "opendir"} /\ Running(t) /\ sock[t] = Desc(t) /\ handle[t] = 0
  BY DEF OpenFile, OpenDir, Opens, At, Own, mainVars, Running, Desc, WithFile
<1>2. \A c \in Conns : OwnOnly(c)'
  BY <1>1 DEF Handed, OwnOnly
<1>3. Alone(t) /\ Serves(t)
  BY <1>1 DEF Handed
<1>4. CASE UNCHANGED <<fdt, handle>> /\ \E l \in {"opendir", "error"} : pc' = [pc EXCEPT ![t] = l]
  <2>1. PICK l \in {"opendir", "error"} : pc' = [pc EXCEPT ![t] = l]
    BY <1>4
  <2>2. Serves(t)'
    BY <1>1, <1>3, <1>4, <2>1 DEF Serves, Answering
  <2>3. QED
    BY <1>1, <1>2, <1>4, <2>1, <2>2, ThreadQuiet
<1>5. ASSUME NEW g \in LowestFree, NEW l \in WithFile, fdt' = [fdt EXCEPT ![g] = File],
             handle' = [handle EXCEPT ![t] = g], pc' = [pc EXCEPT ![t] = l]
      PROVE  Handed'
  <2>1. g \in Fd /\ fdt[g] = NoConn /\ l # "start" /\ l \notin {"none", "ended", "hear"}
    BY DEF LowestFree, WithFile
  <2>2. /\ fdt'[g] = File /\ \A f \in Fd \ {g} : fdt'[f] = fdt[f]
        /\ handle'[t] = g /\ pc'[t] = l
        /\ \A u \in Threads \ {t} : handle'[u] = handle[u] /\ pc'[u] = pc[u]
    BY <1>5, <2>1
  <2>3. \A u \in Threads : Running(u)' = Running(u) /\ Desc(u)' = Desc(u)
    BY <1>1, <2>1, <2>2 DEF Running, Desc
  <2>4. \A u \in Threads : Running(u) => Desc(u) # g /\ handle[u] # g
    BY <2>1, Sets DEF Handed, Alone
  <2>5. ASSUME NEW u \in Threads \ {t}, Running(u) PROVE Alone(u)' /\ Serves(u)'
    <3>1. Alone(u) /\ Serves(u) /\ (pc[u] # "start" => Desc(u) = sock[u])
      BY <2>5 DEF Handed, Desc
    <3>2. Alone(u)'
      BY <1>1, <2>1, <2>2, <2>3, <2>4, <2>5, <3>1 DEF Alone
    <3>3. Serves(u)'
      BY <1>1, <2>2, <2>4, <2>5, <3>1 DEF Serves, Answering
    <3>4. QED
      BY <3>2, <3>3
  <2>6. Alone(t)'
    BY <1>1, <1>3, <2>1, <2>2, <2>3, <2>4 DEF Alone
  <2>7. Serves(t)'
    BY <1>1, <1>3, <2>1, <2>2, <2>4 DEF Serves, Answering
  <2>8. MainOwns'
    <3>1. mainPc = "create" /\ cell \in Fd => cell # g
      BY <2>1, Sets DEF Handed, MainOwns
    <3>2. QED
      BY <1>1, <2>1, <2>2, <2>3, <3>1 DEF Handed, MainOwns, Running
  <2>9. \A f \in Fd : fdt'[f] # NoConn => Covered(f)'
    <3>1. Covered(g)'
      BY <1>1, <2>2, <2>3 DEF Covered
    <3>2. ASSUME NEW f \in Fd \ {g}, fdt[f] # NoConn PROVE Covered(f)'
      <4>1. Covered(f) /\ fdt'[f] = fdt[f] /\ f # 0
        BY <2>2, <3>2, Sets DEF Handed
      <4>2. \A u \in Threads : handle[u] = f => handle'[u] = f
        BY <1>1, <2>2, <4>1
      <4>3. QED
        BY <1>1, <2>3, <4>1, <4>2 DEF Covered, Forgotten
    <3>3. QED
      BY <2>2, <3>1, <3>2
  <2>10. QED
    BY <1>1, <1>2, <2>3, <2>5, <2>6, <2>7, <2>8, <2>9 DEF Handed
<1>6. QED
  BY <1>4, <1>5 DEF OpenFile, OpenDir, Opens, Goto, WithFile

-----------------------------------------------------------------------------
(* The invariant *)

LEMMA InitIInv == Init => IInv
<1> SUFFICES ASSUME Init PROVE IInv
  OBVIOUS
<1>1. Bounds
  BY InitBounds
<1>2. \A t \in Threads : ~Running(t)
  BY DEF Init, Running
<1>3. \A c \in Conns : OwnOnly(c)
  BY DEF Init, OwnOnly
<1>4. Handed
  BY <1>2, <1>3 DEF Init, Handed, MainOwns
<1>5. QED
  BY <1>1, <1>4 DEF IInv

LEMMA NextIInv == IInv /\ Bounds' /\ [Next]_vars => IInv'
<1> SUFFICES ASSUME Bounds, Bounds', ~robbed => Handed, [Next]_vars, ~robbed' PROVE Handed'
  BY DEF IInv
<1>1. Handed
  <2>1. robbed => robbed'
    BY DEF Next, Connect, Ask, Hangup, Client, Main, Accept, AcceptDrops, AcceptFails, Returns,
           CreateThread, CreateFails, Thread, ReadArg, Greet, CallRecv, Hear, HearEnd, Answer,
           CloseSocket, Closes, OpenFile, OpenDir, Opens, SendBody, SendError, CloseFile, Own, Goes,
           SigPipe, DetachesStale, Dies, vars
  <2>2. QED
    BY <2>1
<1>2. ASSUME NEW t \in Threads, Thread(t) PROVE Handed'
  BY <1>1, <1>2, HandedReads, HandedSends, HandedCloses, HandedOpens DEF Thread
<1>3. QED
  BY <1>1, <1>2, HandedClients, HandedMain, HandedSame DEF Next

LEMMA Invariant == Spec => []IInv
<1>1. IInv => Bounds
  BY DEF IInv
<1>2. IInv /\ [Next]_vars => IInv'
  BY <1>1, NextBounds, NextIInv
<1>3. QED
  BY <1>2, InitIInv, PTL DEF Spec

\* Types, bounds and control points, whatever the clients and the scheduler do.
THEOREM TypeCorrect == Spec => []TypeOK
<1>1. IInv => TypeOK
  BY DEF IInv, Bounds
<1>2. QED
  BY <1>1, Invariant, PTL

\* No thread answers on a descriptor that was closed and given to another connection, as
\* long as each has read `client' before the next accept returns (http_server.c:12,
\* 68-72 and time_server.c:62, 112-120 of BT11-6-2023; BT26-6-2023/http_server.c:51-60, 90).
THEOREM AnswersAreOwn == Spec => []OwnAnswers
<1>1. IInv => OwnAnswers
  BY DEF IInv, Handed, OwnOnly, OwnAnswers
<1>2. QED
  BY <1>1, Invariant, PTL

\* On the same condition each open descriptor has exactly one who will close it, but for
\* those that files forgets (BT26-6-2023/http_server.c:60, 93-95).
THEOREM DescriptorsAreKept == Spec => []EveryDescriptorKept
<1>1. IInv => EveryDescriptorKept
  <2> SUFFICES ASSUME IInv, ~robbed, NEW f \in Fd, fdt[f] # NoConn
               PROVE  \/ mainPc = "create" /\ cell = f /\ Keepers(f) = {}
                      \/ \E t \in Threads : Keepers(f) = {t}
                      \/ fdt[f] \in Conns /\ Forgotten(fdt[f])
    BY DEF EveryDescriptorKept
  <2>1. Bounds /\ Handed /\ 0 \notin Fd
    BY Sets DEF IInv
  <2>2. \A u \in Threads : u \in Keepers(f) <=> Running(u) /\ f \in {Desc(u), handle[u]}
    BY <2>1 DEF Keepers, Desc, Running, Bounds
  <2>3. CASE mainPc = "create" /\ cell = f
    <3>1. \A u \in Threads : Running(u) => Desc(u) # f /\ handle[u] # f
      BY <2>1, <2>3, Sets DEF Handed, MainOwns, Alone, Desc
    <3>2. QED
      BY <2>2, <2>3, <3>1 DEF Keepers
  <2>4. ASSUME NEW t \in Threads, Running(t), f \in {Desc(t), handle[t]} PROVE Keepers(f) = {t}
    <3>1. Alone(t) /\ \A u \in Threads \ {t} : Running(u) => Alone(u)
      BY <2>1, <2>4 DEF Handed
    <3>2. \A u \in Threads \ {t} : Running(u) => f \notin {Desc(u), handle[u]}
      BY <2>4, <3>1, Sets DEF Alone
    <3>3. QED
      BY <2>2, <2>4, <3>2 DEF Keepers
  <2>5. QED
    BY <2>1, <2>3, <2>4 DEF Handed, Covered
<1>2. QED
  BY <1>1, Invariant, PTL
=============================================================================
