-------------------------- MODULE EventLoopProofs --------------------------
(***************************************************************************)
(* Theorems about the event loops, for any number of clients, slots,       *)
(* descriptors and lines.                                                  *)
(***************************************************************************)
EXTENDS EventLoopProps, TLAPS

\* What the loop's indices point to, and what the program points imply.
Indices ==
  /\ ready \subseteq DOMAIN slots /\ \A k \in ready : slots[k] \in Conns
  /\ named \subseteq DOMAIN slots
  /\ pc = "accept" => backlog # <<>>
  /\ pc = "name" => program = "chat_server"
  /\ pc \in {"system", "prompt"} => program = "telnet_server" /\ i \in ready
  /\ newcomer # NoConn => pc = "name"
  /\ pc = "cast" =>
       program \in Chats /\ i \in ready /\ log # <<>> /\ log[Len(log)] = slots[i]

IInv == TypeOK /\ Indices

-----------------------------------------------------------------------------
(* Sequences *)

LEMMA EmptySeq == ASSUME NEW S PROVE <<>> \in Seq(S)
OBVIOUS

LEMMA Taken ==
  ASSUME NEW S, NEW s \in Seq(S), s # <<>>
  PROVE  Head(s) \in S /\ Tail(s) \in Seq(S)
OBVIOUS

LEMMA Appended ==
  ASSUME NEW S, NEW s \in Seq(S), NEW e \in S
  PROVE  /\ Append(s, e) \in Seq(S) /\ Append(s, e) # <<>>
         /\ Len(s) \in Nat /\ Len(Append(s, e)) = Len(s) + 1
         /\ DOMAIN s = 1..Len(s) /\ DOMAIN Append(s, e) = DOMAIN s \cup {Len(s) + 1}
         /\ Len(s) + 1 \notin DOMAIN s
         /\ Append(s, e)[Len(s) + 1] = e
         /\ \A k \in DOMAIN s : Append(s, e)[k] = s[k]
OBVIOUS

-----------------------------------------------------------------------------
(* Types and indices *)

LEMMA InitialTypes == Init => IInv
<1> SUFFICES ASSUME Init PROVE IInv
  OBVIOUS
<1>1. ClientTypes
  <2>1. [c \in Conns |-> <<>>] \in [Conns -> Seq(Kinds)]
    BY EmptySeq
  <2>2. QED
    BY <2>1, ConstantsAssumption DEF Init, ClientTypes
<1>2. ServerTypes
  <2>1. <<>> \in Seq(Conns) /\ <<>> \in Seq(Conns \cup {NoConn})
    BY EmptySeq
  <2>2. QED
    BY <2>1, ConstantsAssumption DEF Init, ServerTypes, Slot
<1>3. HistoryTypes
  <2>1. <<>> \in Seq(Conns) /\ [c \in Conns |-> <<>>] \in [Conns -> Seq(Nat)]
    BY EmptySeq
  <2>2. QED
    BY <2>1 DEF Init, HistoryTypes
<1>4. QED
  BY <1>1, <1>2, <1>3 DEF IInv, TypeOK, Init, Indices

\* A ready slot holds a connection and is one of the array's.
LEMMA ReadySlot ==
  ASSUME IInv, NEW k \in DOMAIN slots
  PROVE  /\ k \in 1..Len(slots) /\ k \in Slot /\ k + 1 \in 1..MaxSlots + 1
         /\ k \in ready => slots[k] \in Conns
<1>1. slots \in Seq(Conns \cup {NoConn}) /\ Len(slots) <= MaxSlots /\ Len(slots) \in Nat
  BY DEF IInv, TypeOK, ServerTypes
<1>2. k \in 1..Len(slots)
  BY <1>1
<1>3. k \in Slot /\ k + 1 \in 1..MaxSlots + 1
  BY <1>1, <1>2, ConstantsAssumption DEF Slot
<1>4. QED
  BY <1>2, <1>3 DEF IInv, Indices

\* A line taken from a client's queue.
LEMMA LineTaken ==
  ASSUME IInv, NEW c \in Conns, inq[c] # <<>>
  PROVE  [inq EXCEPT ![c] = Tail(@)] \in [Conns -> Seq(Kinds)]
<1>1. inq \in [Conns -> Seq(Kinds)] /\ inq[c] \in Seq(Kinds)
  BY DEF IInv, TypeOK, ClientTypes
<1>2. Tail(inq[c]) \in Seq(Kinds)
  BY <1>1, Taken
<1>3. QED
  BY <1>1, <1>2

LEMMA ClientStep == ASSUME IInv, [Next]_vars PROVE ClientTypes'
<1> ClientTypes
  BY DEF IInv, TypeOK
<1>1. ASSUME UNCHANGED clientVars PROVE ClientTypes'
  BY <1>1 DEF clientVars, ClientTypes
<1>2. ASSUME NEW c \in Conns, inq[c] # <<>>, inq' = [inq EXCEPT ![c] = Tail(@)],
             UNCHANGED <<peer, sent, hungup, stalled>>
      PROVE  ClientTypes'
  BY <1>2, LineTaken DEF ClientTypes
<1>3. ASSUME NEW c \in Conns, Connect(c) PROVE ClientTypes'
  BY <1>3 DEF Connect, ClientTypes
<1>4. ASSUME NEW c \in Conns, Say(c) PROVE ClientTypes'
  <2>1. PICK kind \in Kinds : inq' = [inq EXCEPT ![c] = Append(@, kind)]
    BY <1>4 DEF Say
  <2>2. inq \in [Conns -> Seq(Kinds)] /\ Append(inq[c], kind) \in Seq(Kinds)
    BY Appended DEF ClientTypes
  <2>3. inq' \in [Conns -> Seq(Kinds)]
    BY <2>1, <2>2
  <2>4. sent' \in 0..MaxSends
    BY <1>4, ConstantsAssumption DEF Say, ClientTypes
  <2>5. QED
    BY <1>4, <2>3, <2>4 DEF Say, ClientTypes
<1>5. ASSUME NEW c \in Conns, Hangup(c) PROVE ClientTypes'
  <2>1. inq' \in [Conns -> Seq(Kinds)]
    BY <1>5, EmptySeq DEF Hangup, ClientTypes
  <2>2. hungup' \in 0..MaxHangups
    BY <1>5, ConstantsAssumption DEF Hangup, ClientTypes
  <2>3. QED
    BY <1>5, <2>1, <2>2 DEF Hangup, ClientTypes
<1>6. ASSUME NEW c \in Conns, Stall(c) PROVE ClientTypes'
  BY <1>6 DEF Stall, ClientTypes
<1>7. CASE Wait \/ Accept \/ AcceptAndAsk \/ ScanEnd \/ CastEnd \/ CommandEnds \/ AskNext
  BY <1>1, <1>7 DEF Wait, Accept, AcceptAndAsk, ScanEnd, CastEnd, CommandEnds, AskNext, clientVars
<1>8. CASE NameLost
  BY <1>1, <1>8 DEF NameLost, Register, clientVars
<1>9. CASE NameGiven \/ AskAgain
  <2>1. newcomer \in Conns /\ inq[newcomer] # <<>>
    BY <1>9 DEF NameGiven, AskAgain, Asked, IInv, TypeOK, ServerTypes
  <2>2. QED
    BY <1>2, <1>9, <2>1 DEF NameGiven, AskAgain, Register
<1>10. ASSUME NEW k \in DOMAIN slots, Reads(k) PROVE ClientTypes'
  BY <1>2, <1>10, ReadySlot DEF Reads, Turn
<1>11. ASSUME NEW k \in DOMAIN slots, Disconnected(k) \/ Send(k) PROVE ClientTypes'
  BY <1>1, <1>11 DEF Disconnected, Send
<1>12. CASE SigPipe \/ SegFault \/ Overrun \/ NoFile
  BY <1>1, <1>12 DEF SigPipe, SegFault, Overrun, NoFile, Dies
<1>13. CASE UNCHANGED vars
  BY <1>1, <1>13 DEF vars
<1>14. QED
  BY <1>3, <1>4, <1>5, <1>6, <1>7, <1>8, <1>9, <1>10, <1>11, <1>12, <1>13
  DEF Next, Server, Serving, Name, Prompt, Speak, Login, Reply, Run

\* What a chat's newcomer gets: the present length of the log.
LEMMA JoinTypes ==
  ASSUME IInv, NEW c \in Conns \cup {NoConn}, Joins(c)
  PROVE  since' \in [Conns -> Nat \cup {Abstract!Outside}]
<1>1. Len(log) \in Nat /\ since \in [Conns -> Nat \cup {Abstract!Outside}]
  BY DEF IInv, TypeOK, HistoryTypes
<1>2. QED
  BY <1>1 DEF Joins

LEMMA HistoryStep == ASSUME IInv, [Next]_vars PROVE HistoryTypes'
<1> HistoryTypes
  BY DEF IInv, TypeOK
<1>1. ASSUME UNCHANGED history PROVE HistoryTypes'
  BY <1>1 DEF history, HistoryTypes
<1>2. ASSUME NEW c \in Conns, Connect(c) \/ Say(c) \/ Hangup(c) \/ Stall(c) PROVE HistoryTypes'
  BY <1>1, <1>2 DEF Connect, Say, Hangup, Stall
<1>3. CASE Wait \/ AcceptAndAsk \/ AskAgain \/ ScanEnd \/ CastEnd \/ CommandEnds \/ AskNext
  BY <1>1, <1>3 DEF Wait, AcceptAndAsk, AskAgain, ScanEnd, CastEnd, CommandEnds, AskNext
<1>4. CASE Accept
  <2>1. Accepted \in Conns \cup {NoConn}
    BY <1>4, Taken DEF Accept, Accepted, IInv, TypeOK, ServerTypes, Indices
  <2>2. QED
    BY <1>4, <2>1, JoinTypes DEF Accept, HistoryTypes
<1>5. CASE NameLost \/ NameGiven
  <2>1. newcomer \in Conns \cup {NoConn}
    BY DEF IInv, TypeOK, ServerTypes
  <2>2. QED
    BY <1>5, <2>1, JoinTypes DEF NameLost, NameGiven, Register, HistoryTypes
<1>6. ASSUME NEW k \in DOMAIN slots, Name(k) PROVE HistoryTypes'
  <2>1. slots[k] \in Conns
    BY <1>6, ReadySlot DEF Name, Reads, Turn
  <2>2. QED
    BY <1>6, <2>1, JoinTypes DEF Name, HistoryTypes
<1>7. ASSUME NEW k \in DOMAIN slots, Speak(k) PROVE HistoryTypes'
  <2>1. slots[k] \in Conns
    BY <1>7, ReadySlot DEF Speak, Reads, Turn
  <2>2. Append(log, slots[k]) \in Seq(Conns)
    BY <2>1, Appended DEF HistoryTypes
  <2>3. QED
    BY <1>7, <2>2 DEF Speak, HistoryTypes
<1>8. ASSUME NEW k \in DOMAIN slots, Prompt(k) \/ Login(k) \/ Reply(k) \/ Run(k) \/ Disconnected(k)
      PROVE  HistoryTypes'
  BY <1>1, <1>8 DEF Prompt, Login, Reply, Run, Disconnected
<1>9. ASSUME NEW k \in DOMAIN slots, Send(k) PROVE HistoryTypes'
  <2>1. slots \in Seq(Conns \cup {NoConn})
    BY DEF IInv, TypeOK, ServerTypes
  <2>2. slots[k] \in Conns
    BY <1>9, <2>1 DEF Send, NextRecipient, Recipients
  <2>3. Len(log) \in Nat /\ got[slots[k]] \in Seq(Nat)
    BY <2>2 DEF HistoryTypes
  <2>4. Append(got[slots[k]], Len(log)) \in Seq(Nat)
    BY <2>3, Appended
  <2>5. QED
    BY <1>9, <2>2, <2>4 DEF Send, HistoryTypes
<1>10. CASE SigPipe \/ SegFault \/ Overrun \/ NoFile
  BY <1>1, <1>10 DEF SigPipe, SegFault, Overrun, NoFile, Dies
<1>11. CASE UNCHANGED vars
  BY <1>1, <1>11 DEF vars
<1>12. QED
  BY <1>2, <1>3, <1>4, <1>5, <1>6, <1>7, <1>8, <1>9, <1>10, <1>11 DEF Next, Server, Serving

\* What a new slot changes: nothing below it.
LEMMA SlotAdded ==
  ASSUME IInv, NEW c \in Conns \cup {NoConn}, Len(slots) < MaxSlots,
         slots' = Append(slots, c)
  PROVE  /\ slots' \in Seq(Conns \cup {NoConn}) /\ Len(slots') <= MaxSlots
         /\ Len(slots) + 1 \in Slot /\ Len(slots) + 1 \notin DOMAIN slots
         /\ DOMAIN slots' = DOMAIN slots \cup {Len(slots) + 1}
         /\ slots'[Len(slots) + 1] = c
         /\ \A k \in DOMAIN slots : slots'[k] = slots[k]
<1>1. slots \in Seq(Conns \cup {NoConn})
  BY DEF IInv, TypeOK, ServerTypes
<1>2. Len(slots) \in Nat /\ Len(slots') = Len(slots) + 1
  BY <1>1, Appended
<1>3. Len(slots') <= MaxSlots /\ Len(slots) + 1 \in Slot
  BY <1>2, ConstantsAssumption DEF Slot
<1>4. QED
  BY <1>1, <1>3, Appended

\* accept's result.
LEMMA AcceptTypes ==
  ASSUME IInv, pc = "accept", TakeAccepted
  PROVE  /\ Accepted \in Conns \cup {NoConn}
         /\ backlog' \in Seq(Conns) /\ spare' \in 0..MaxFd
<1>1. backlog \in Seq(Conns) /\ backlog # <<>> /\ spare \in 0..MaxFd
  BY DEF IInv, TypeOK, ServerTypes, Indices
<1>2. Head(backlog) \in Conns /\ Tail(backlog) \in Seq(Conns)
  BY <1>1, Taken
<1>3. spare # 0 => spare - 1 \in 0..MaxFd
  BY <1>1, ConstantsAssumption
<1>4. QED
  BY <1>1, <1>2, <1>3 DEF TakeAccepted, Accepted

LEMMA ServerStep == ASSUME IInv, [Next]_vars PROVE ServerTypes'
<1> ServerTypes
  BY DEF IInv, TypeOK
<1>1. ASSUME NEW c \in Conns, Connect(c) PROVE ServerTypes'
  <2>1. Append(backlog, c) \in Seq(Conns)
    BY Appended DEF ServerTypes
  <2>2. QED
    BY <1>1, <2>1 DEF Connect, ServerTypes, Slot
<1>2. ASSUME NEW c \in Conns, Say(c) \/ Hangup(c) \/ Stall(c) PROVE ServerTypes'
  BY <1>2 DEF Say, Hangup, Stall, ServerTypes, Slot
<1>3. CASE Wait
  <2>1. Serve \subseteq Slot
    BY ReadySlot DEF Serve
  <2>2. 1 \in 1..MaxSlots + 1
    BY ConstantsAssumption
  <2>3. QED
    BY <1>3, <2>1, <2>2 DEF Wait, ServerTypes, Slot
<1>4. CASE Accept
  <2>1. /\ backlog' \in Seq(Conns) /\ spare' \in 0..MaxFd
        /\ Accepted \in Conns \cup {NoConn}
    BY <1>4, AcceptTypes DEF Accept
  <2>2. /\ slots' \in Seq(Conns \cup {NoConn}) /\ Len(slots') <= MaxSlots
        /\ Len(slots) + 1 \in Slot
    BY <1>4, <2>1, SlotAdded DEF Accept
  <2>3. ready' \subseteq Slot
    BY <1>4, <2>2 DEF Accept, SlotReady, ServerTypes
  <2>4. QED
    BY <1>4, <2>1, <2>2, <2>3 DEF Accept, clientVars, ServerTypes, Slot
<1>5. CASE AcceptAndAsk
  <2>1. /\ backlog' \in Seq(Conns) /\ spare' \in 0..MaxFd
        /\ Accepted \in Conns \cup {NoConn}
    BY <1>5, AcceptTypes DEF AcceptAndAsk
  <2>2. QED
    BY <1>5, <2>1 DEF AcceptAndAsk, ServerTypes, Slot
<1>6. CASE NameLost \/ NameGiven
  <2>1. newcomer \in Conns \cup {NoConn}
    BY DEF ServerTypes
  <2>2. /\ slots' \in Seq(Conns \cup {NoConn}) /\ Len(slots') <= MaxSlots
        /\ Len(slots) + 1 \in Slot
    BY <1>6, <2>1, SlotAdded DEF NameLost, NameGiven, Register
  <2>3. named' \subseteq Slot
    BY <1>6, <2>2 DEF NameLost, NameGiven, Register, ServerTypes
  <2>4. QED
    BY <1>6, <2>2, <2>3 DEF NameLost, NameGiven, Register, ServerTypes, Slot
<1>7. CASE AskAgain \/ ScanEnd \/ CommandEnds
  BY <1>7 DEF AskAgain, ScanEnd, CommandEnds, ServerTypes, Slot
<1>8. CASE CastEnd \/ AskNext
  <2>1. i \in ready /\ ready \subseteq Slot
    BY <1>8 DEF CastEnd, AskNext, IInv, Indices, ServerTypes
  <2>2. i + 1 \in 1..MaxSlots + 1
    BY <2>1, ConstantsAssumption DEF Slot
  <2>3. QED
    BY <1>8, <2>2 DEF CastEnd, AskNext, clientVars, history, ServerTypes, Slot
<1>9. ASSUME NEW k \in DOMAIN slots, Serving(k) PROVE ServerTypes'
  <2>1. k \in Slot /\ k + 1 \in 1..MaxSlots + 1
    BY ReadySlot
  <2>2. k \in 1..MaxSlots + 1 /\ 1 \in 1..MaxSlots + 1
    BY <2>1, ConstantsAssumption DEF Slot
  <2>3. CASE Disconnected(k)
    BY <2>1, <2>3 DEF Disconnected, Continue, ServerTypes, Slot
  <2>4. CASE Name(k)
    BY <2>1, <2>4 DEF Name, Reads, Continue, ServerTypes, Slot
  <2>5. CASE Prompt(k) \/ Reply(k)
    BY <2>1, <2>5 DEF Prompt, Reply, Reads, Continue, ServerTypes, Slot
  <2>6. CASE Speak(k)
    BY <2>2, <2>6 DEF Speak, Reads, ServerTypes, Slot
  <2>7. CASE Login(k)
    <3>1. named' \subseteq Slot
      BY <2>1, <2>7 DEF Login, ServerTypes
    <3>2. spare' \in 0..MaxFd
      BY <2>7, ConstantsAssumption DEF Login, ServerTypes
    <3>3. QED
      BY <2>1, <2>7, <3>1, <3>2 DEF Login, Reads, Continue, ServerTypes, Slot
  <2>8. CASE Run(k)
    BY <2>2, <2>8 DEF Run, Reads, ServerTypes, Slot
  <2>9. QED
    BY <1>9, <2>3, <2>4, <2>5, <2>6, <2>7, <2>8 DEF Serving
<1>10. ASSUME NEW k \in DOMAIN slots, Send(k) PROVE ServerTypes'
  BY <1>10, ReadySlot DEF Send, ServerTypes, Slot
<1>11. CASE SigPipe \/ SegFault \/ Overrun \/ NoFile
  BY <1>11 DEF SigPipe, SegFault, Overrun, NoFile, Dies, ServerTypes, Slot
<1>12. CASE UNCHANGED vars
  BY <1>12 DEF vars, ServerTypes, Slot
<1>13. QED
  BY <1>1, <1>2, <1>3, <1>4, <1>5, <1>6, <1>7, <1>8, <1>9, <1>10, <1>11, <1>12
  DEF Next, Server

LEMMA IndicesStep == ASSUME IInv, [Next]_vars PROVE Indices'
<1> Indices
  BY DEF IInv
<1>1. ASSUME NEW c \in Conns, Connect(c) PROVE Indices'
  <2>1. backlog' # <<>>
    BY <1>1, Appended DEF Connect, IInv, TypeOK, ServerTypes
  <2>2. QED
    BY <1>1, <2>1 DEF Connect, history, Indices
<1>2. ASSUME NEW c \in Conns, Say(c) \/ Hangup(c) \/ Stall(c) PROVE Indices'
  BY <1>2 DEF Say, Hangup, Stall, history, Indices
<1>3. CASE Wait
  <2>1. \A k \in Serve : k \in DOMAIN slots /\ slots[k] \in Conns
    BY DEF Serve, IInv, TypeOK, ServerTypes
  <2>2. QED
    BY <1>3, <2>1 DEF Wait, history, Indices
<1>4. CASE Accept
  <2>1. Accepted \in Conns \cup {NoConn}
    BY <1>4, AcceptTypes DEF Accept
  <2>2. /\ DOMAIN slots' = DOMAIN slots \cup {Len(slots) + 1}
        /\ slots'[Len(slots) + 1] = Accepted
        /\ \A k \in DOMAIN slots : slots'[k] = slots[k]
    BY <1>4, <2>1, SlotAdded DEF Accept
  <2>3. \A k \in ready' : k \in ready \/ (k = Len(slots) + 1 /\ Accepted \in Conns)
    BY <1>4, <2>1 DEF Accept, SlotReady
  <2>4. newcomer' = NoConn /\ pc' = "scan" /\ named' = named
    BY <1>4 DEF Accept, Indices
  <2>5. QED
    BY <2>2, <2>3, <2>4 DEF Indices
<1>5. CASE AcceptAndAsk
  BY <1>5 DEF AcceptAndAsk, history, Indices
<1>6. CASE NameLost \/ NameGiven
  <2>1. newcomer \in Conns \cup {NoConn}
    BY DEF IInv, TypeOK, ServerTypes
  <2>2. /\ DOMAIN slots' = DOMAIN slots \cup {Len(slots) + 1}
        /\ \A k \in DOMAIN slots : slots'[k] = slots[k]
    BY <1>6, <2>1, SlotAdded DEF NameLost, NameGiven, Register
  <2>3. named' \subseteq named \cup {Len(slots) + 1}
    BY <1>6 DEF NameLost, NameGiven, Register
  <2>4. newcomer' = NoConn /\ pc' = "scan" /\ ready' = ready
    BY <1>6 DEF NameLost, NameGiven, Register
  <2>5. QED
    BY <2>2, <2>3, <2>4 DEF Indices
<1>7. CASE AskAgain \/ ScanEnd \/ CastEnd \/ CommandEnds \/ AskNext
  BY <1>7 DEF AskAgain, ScanEnd, CastEnd, CommandEnds, AskNext, history, Indices
<1>8. ASSUME NEW k \in DOMAIN slots, Speak(k) PROVE Indices'
  <2>1. k \in ready /\ slots[k] \in Conns
    BY <1>8 DEF Speak, Reads, Turn, Indices
  <2>2. log' # <<>> /\ log'[Len(log')] = slots[k]
    BY <1>8, <2>1, Appended DEF Speak, IInv, TypeOK, HistoryTypes
  <2>3. QED
    BY <1>8, <2>1, <2>2 DEF Speak, Reads, Turn, Indices
<1>9. ASSUME NEW k \in DOMAIN slots, Disconnected(k) \/ Prompt(k) \/ Reply(k) \/ Run(k)
      PROVE  Indices'
  BY <1>9 DEF Disconnected, Prompt, Reply, Run, Reads, Turn, Continue, history, Indices
<1>10. ASSUME NEW k \in DOMAIN slots, Name(k) \/ Login(k) PROVE Indices'
  <2>1. named' \subseteq named \cup {k}
    BY <1>10 DEF Name, Login
  <2>2. QED
    BY <1>10, <2>1 DEF Name, Login, Reads, Turn, Continue, history, Indices
<1>11. ASSUME NEW k \in DOMAIN slots, Send(k) PROVE Indices'
  BY <1>11 DEF Send, Indices
<1>12. CASE SigPipe \/ SegFault \/ Overrun \/ NoFile
  BY <1>12 DEF SigPipe, SegFault, Overrun, NoFile, Dies, history, Indices
<1>13. CASE UNCHANGED vars
  BY <1>13 DEF vars, history, Indices
<1>14. QED
  BY <1>1, <1>2, <1>3, <1>4, <1>5, <1>6, <1>7, <1>8, <1>9, <1>10, <1>11, <1>12, <1>13
  DEF Next, Server, Serving

-----------------------------------------------------------------------------
(* Where a connection is: in the backlog, in the dialogue or in one slot *)

Places ==
  /\ \A m, n \in DOMAIN backlog : backlog[m] = backlog[n] => m = n
  /\ \A n \in DOMAIN backlog :
       /\ peer[backlog[n]] # "none" /\ backlog[n] # newcomer
       /\ \A k \in DOMAIN slots : slots[k] # backlog[n]
  /\ newcomer # NoConn =>
       peer[newcomer] # "none" /\ \A k \in DOMAIN slots : slots[k] # newcomer
  /\ \A k \in DOMAIN slots : slots[k] # NoConn => peer[slots[k]] # "none"
  /\ \A k, l \in DOMAIN slots : slots[k] = slots[l] /\ slots[k] # NoConn => k = l
  /\ \A c \in Conns : peer[c] # "none" =>
       \/ \E n \in DOMAIN backlog : backlog[n] = c
       \/ newcomer = c
       \/ \E k \in DOMAIN slots : slots[k] = c

LEMMA Shifted ==
  ASSUME NEW S, NEW s \in Seq(S), s # <<>>
  PROVE  /\ 1 \in DOMAIN s /\ Head(s) = s[1]
         /\ \A n \in DOMAIN Tail(s) :
              n + 1 \in DOMAIN s /\ n + 1 # 1 /\ Tail(s)[n] = s[n + 1]
         /\ \A m, n \in DOMAIN Tail(s) : m + 1 = n + 1 => m = n
         /\ \A n \in DOMAIN s \ {1} : \E m \in DOMAIN Tail(s) : Tail(s)[m] = s[n]
<1>1. DOMAIN s = 1..Len(s) /\ Len(s) \in Nat /\ 1 <= Len(s) /\ Head(s) = s[1]
  OBVIOUS
<1>2. DOMAIN Tail(s) = 1..Len(s) - 1 /\ \A n \in 1..Len(s) - 1 : Tail(s)[n] = s[n + 1]
  OBVIOUS
<1>3. ASSUME NEW n \in DOMAIN s \ {1}
      PROVE  \E m \in DOMAIN Tail(s) : Tail(s)[m] = s[n]
  <2>1. n - 1 \in 1..Len(s) - 1 /\ (n - 1) + 1 = n
    BY <1>1
  <2>2. QED
    BY <1>2, <2>1
<1>4. ASSUME NEW n \in DOMAIN Tail(s)
      PROVE  n \in Nat /\ n + 1 \in DOMAIN s /\ n + 1 # 1 /\ Tail(s)[n] = s[n + 1]
  BY <1>1, <1>2
<1>5. QED
  BY <1>1, <1>3, <1>4

\* accept moves the head of the backlog, to a slot or to the dialogue.
LEMMA HeadTaken ==
  ASSUME IInv, Places, pc = "accept", TakeAccepted
  PROVE  /\ Accepted \in Conns \cup {NoConn}
         /\ Accepted # NoConn =>
              peer[Accepted] # "none" /\ \A k \in DOMAIN slots : slots[k] # Accepted
         /\ \A m, n \in DOMAIN backlog' : backlog'[m] = backlog'[n] => m = n
         /\ \A n \in DOMAIN backlog' :
              /\ backlog'[n] # Accepted
              /\ \E m \in DOMAIN backlog : backlog[m] = backlog'[n]
         /\ \A n \in DOMAIN backlog :
              backlog[n] = Accepted \/ \E m \in DOMAIN backlog' : backlog'[m] = backlog[n]
<1>1. backlog \in Seq(Conns) /\ backlog # <<>>
  BY DEF IInv, TypeOK, ServerTypes, Indices
<1>2. Accepted \in Conns \cup {NoConn}
  BY AcceptTypes
<1>3. \A n \in DOMAIN backlog : backlog[n] \in Conns
  BY <1>1
<1>4. CASE spare = 0
  BY <1>2, <1>3, <1>4, ConstantsAssumption DEF TakeAccepted, Accepted, Places
<1>5. CASE spare # 0
  <2>1. backlog' = Tail(backlog) /\ Accepted = Head(backlog)
    BY <1>5 DEF TakeAccepted, Accepted
  <2>2. QED
    BY <1>1, <1>2, <2>1, Shifted DEF Places
<1>6. QED
  BY <1>4, <1>5

LEMMA InitialPlaces == Init => Places
BY DEF Init, Places

LEMMA PlacesStep == ASSUME IInv, Places, [Next]_vars PROVE Places'
<1>1. ASSUME UNCHANGED <<backlog, peer, newcomer, slots>> PROVE Places'
  BY <1>1 DEF Places
<1>2. /\ backlog \in Seq(Conns) /\ newcomer \in Conns \cup {NoConn}
      /\ slots \in Seq(Conns \cup {NoConn}) /\ peer \in [Conns -> {"none", "open", "gone"}]
  BY DEF IInv, TypeOK, ServerTypes, ClientTypes
<1>3. ASSUME NEW c \in Conns, Connect(c) PROVE Places'
  <2>1. /\ DOMAIN backlog' = DOMAIN backlog \cup {Len(backlog) + 1}
        /\ backlog'[Len(backlog) + 1] = c
        /\ \A n \in DOMAIN backlog : backlog'[n] = backlog[n]
    BY <1>2, <1>3, Appended DEF Connect
  <2>2. /\ \A n \in DOMAIN backlog : backlog[n] # c
        /\ newcomer # c /\ \A k \in DOMAIN slots : slots[k] # c
    BY <1>3, ConstantsAssumption DEF Connect, Places
  <2>3. /\ newcomer' = newcomer /\ slots' = slots
        /\ \A d \in Conns : peer'[d] = IF d = c THEN "open" ELSE peer[d]
    BY <1>2, <1>3 DEF Connect
  <2>4. /\ \A n \in DOMAIN backlog : backlog[n] \in Conns
        /\ \A k \in DOMAIN slots : slots[k] \in Conns \cup {NoConn}
    BY <1>2
  <2>5. QED
    BY <1>2, <2>1, <2>2, <2>3, <2>4 DEF Places
<1>4. ASSUME NEW c \in Conns, Hangup(c) PROVE Places'
  <2>1. \A d \in Conns : peer[d] # "none" <=> peer'[d] # "none"
    BY <1>2, <1>4 DEF Hangup
  <2>2. /\ \A n \in DOMAIN backlog : backlog[n] \in Conns
        /\ \A k \in DOMAIN slots : slots[k] \in Conns \cup {NoConn}
    BY <1>2
  <2>3. UNCHANGED <<backlog, newcomer, slots>>
    BY <1>4 DEF Hangup
  <2>4. QED
    BY <1>2, <2>1, <2>2, <2>3 DEF Places
<1>5. ASSUME NEW c \in Conns, Say(c) \/ Stall(c) PROVE Places'
  BY <1>1, <1>5 DEF Say, Stall
<1>6. CASE Accept
  <2>1. Accepted \in Conns \cup {NoConn}
    BY <1>6, HeadTaken DEF Accept
  <2>2. /\ DOMAIN slots' = DOMAIN slots \cup {Len(slots) + 1}
        /\ slots'[Len(slots) + 1] = Accepted
        /\ \A k \in DOMAIN slots : slots'[k] = slots[k]
    BY <1>6, <2>1, SlotAdded DEF Accept
  <2>3. newcomer = NoConn /\ newcomer' = NoConn /\ peer' = peer
    BY <1>6 DEF Accept, clientVars, IInv, Indices
  <2>4. \A n \in DOMAIN backlog : backlog[n] \in Conns /\ backlog[n] # NoConn
    BY <1>2, ConstantsAssumption
  <2>5. /\ Accepted # NoConn =>
             peer[Accepted] # "none" /\ \A k \in DOMAIN slots : slots[k] # Accepted
        /\ \A m, n \in DOMAIN backlog' : backlog'[m] = backlog'[n] => m = n
        /\ \A n \in DOMAIN backlog' :
             backlog'[n] # Accepted /\ \E m \in DOMAIN backlog : backlog[m] = backlog'[n]
        /\ \A n \in DOMAIN backlog :
             backlog[n] = Accepted \/ \E m \in DOMAIN backlog' : backlog'[m] = backlog[n]
    BY <1>6, HeadTaken DEF Accept
  <2>6. QED
    BY <2>1, <2>2, <2>3, <2>4, <2>5, ConstantsAssumption DEF Places
<1>7. CASE AcceptAndAsk
  <2>1. newcomer = NoConn /\ newcomer' = Accepted /\ peer' = peer /\ slots' = slots
    BY <1>7 DEF AcceptAndAsk, clientVars, IInv, Indices
  <2>2. \A n \in DOMAIN backlog : backlog[n] \in Conns /\ backlog[n] # NoConn
    BY <1>2, ConstantsAssumption
  <2>3. /\ Accepted # NoConn =>
             peer[Accepted] # "none" /\ \A k \in DOMAIN slots : slots[k] # Accepted
        /\ \A m, n \in DOMAIN backlog' : backlog'[m] = backlog'[n] => m = n
        /\ \A n \in DOMAIN backlog' :
             backlog'[n] # Accepted /\ \E m \in DOMAIN backlog : backlog[m] = backlog'[n]
        /\ \A n \in DOMAIN backlog :
             backlog[n] = Accepted \/ \E m \in DOMAIN backlog' : backlog'[m] = backlog[n]
    BY <1>7, HeadTaken DEF AcceptAndAsk
  <2>4. QED
    BY <2>1, <2>2, <2>3, ConstantsAssumption DEF Places
<1>8. CASE NameLost \/ NameGiven
  <2>1. /\ DOMAIN slots' = DOMAIN slots \cup {Len(slots) + 1}
        /\ slots'[Len(slots) + 1] = newcomer
        /\ \A k \in DOMAIN slots : slots'[k] = slots[k]
    BY <1>2, <1>8, SlotAdded DEF NameLost, NameGiven, Register
  <2>2. newcomer' = NoConn /\ peer' = peer /\ backlog' = backlog
    BY <1>8 DEF NameLost, NameGiven, Register
  <2>3. \A n \in DOMAIN backlog : backlog[n] # NoConn
    BY <1>2, ConstantsAssumption
  <2>4. QED
    BY <1>2, <2>1, <2>2, <2>3, ConstantsAssumption DEF Places
<1>9. CASE Wait \/ AskAgain \/ ScanEnd \/ CastEnd \/ CommandEnds \/ AskNext
  BY <1>1, <1>9 DEF Wait, AskAgain, ScanEnd, CastEnd, CommandEnds, AskNext, clientVars
<1>10. ASSUME NEW k \in DOMAIN slots, Serving(k) \/ Send(k) PROVE Places'
  <2>1. CASE Disconnected(k) \/ Send(k)
    BY <1>1, <2>1 DEF Disconnected, Send, clientVars
  <2>2. CASE Reads(k)
    BY <1>1, <2>2 DEF Reads
  <2>3. QED
    BY <1>10, <2>1, <2>2 DEF Serving, Name, Prompt, Speak, Login, Reply, Run
<1>11. CASE SigPipe \/ SegFault \/ Overrun \/ NoFile
  BY <1>1, <1>11 DEF SigPipe, SegFault, Overrun, NoFile, Dies, clientVars
<1>12. CASE UNCHANGED vars
  BY <1>1, <1>12 DEF vars, clientVars
<1>13. QED
  BY <1>3, <1>4, <1>5, <1>6, <1>7, <1>8, <1>9, <1>10, <1>11, <1>12 DEF Next, Server

-----------------------------------------------------------------------------
(* Readiness and names *)

\* recv on slot k returns at once, or k is the slot accept has just filled.
MayRead(k) == Readable(slots[k]) \/ (program \in Polls /\ k = Len(slots))

\* Nothing but the loop itself uses up what made a slot ready.
ReadyStays ==
  \A k \in ready :
    /\ pc \in {"accept", "name"} => Readable(slots[k])
    /\ pc = "scan" /\ i <= k => MayRead(k)
    /\ pc \in {"cast", "system", "prompt"} /\ i < k => MayRead(k)

\* chat_server's clients[] holds the named, and those who can say nothing more.
DialogueNames ==
  program = "chat_server" =>
    \A k \in DOMAIN slots :
      \/ k \in named
      \/ slots[k] = NoConn
      \/ peer[slots[k]] = "gone" /\ inq[slots[k]] = <<>>

LEMMA ReadyStep == ASSUME IInv, Places, ReadyStays, [Next]_vars PROVE ReadyStays'
<1> DEFINE M == DOMAIN slots
<1>1. /\ ready \subseteq M /\ i \in Nat
      /\ \A k \in ready : k \in Nat /\ slots[k] \in Conns
      /\ peer \in [Conns -> {"none", "open", "gone"}] /\ inq \in [Conns -> Seq(Kinds)]
  <2>1. ready \subseteq Slot /\ i \in 1..MaxSlots + 1
    BY DEF IInv, TypeOK, ServerTypes
  <2>2. QED
    BY <2>1 DEF IInv, TypeOK, ClientTypes, Indices, Slot
<1>2. ASSUME UNCHANGED <<program, ready, slots, pc, i, inq, peer>> PROVE ReadyStays'
  BY <1>2 DEF ReadyStays, MayRead, Readable
<1>3. ASSUME \A c \in Conns : Readable(c) => Readable(c)',
             UNCHANGED <<program, ready, slots, pc, i>>
      PROVE  ReadyStays'
  BY <1>1, <1>3 DEF ReadyStays, MayRead
<1>4. ASSUME NEW c \in Conns, Connect(c) \/ Hangup(c) PROVE ReadyStays'
  <2>1. \A d \in Conns : Readable(d) => Readable(d)'
    BY <1>1, <1>4 DEF Connect, Hangup, Readable
  <2>2. QED
    BY <1>3, <1>4, <2>1 DEF Connect, Hangup
<1>5. ASSUME NEW c \in Conns, Say(c) PROVE ReadyStays'
  <2>1. PICK kind \in Kinds : inq' = [inq EXCEPT ![c] = Append(@, kind)]
    BY <1>5 DEF Say
  <2>2. Append(inq[c], kind) # <<>>
    BY <1>1, Appended
  <2>3. \A d \in Conns : Readable(d) => Readable(d)'
    BY <1>1, <1>5, <2>1, <2>2 DEF Say, Readable
  <2>4. QED
    BY <1>3, <1>5, <2>3 DEF Say
<1>6. ASSUME NEW c \in Conns, Stall(c) PROVE ReadyStays'
  BY <1>2, <1>6 DEF Stall
<1>7. CASE Wait
  BY <1>7 DEF Wait, Serve, ReadyStays, MayRead, Readable, clientVars
<1>8. CASE Accept
  <2>1. Accepted \in Conns \cup {NoConn}
    BY <1>8, AcceptTypes DEF Accept
  <2>2. \A k \in DOMAIN slots : slots'[k] = slots[k]
    BY <1>8, <2>1, SlotAdded DEF Accept
  <2>3. Len(slots') = Len(slots) + 1
    BY <1>8, <2>1, Appended DEF Accept, IInv, TypeOK, ServerTypes
  <2>4. \A k \in ready' : k \in ready \/ (k = Len(slots) + 1 /\ program \in Polls)
    BY <1>8 DEF Accept, SlotReady
  <2>5. pc = "accept" /\ pc' = "scan" /\ UNCHANGED <<program, inq, peer>>
    BY <1>8 DEF Accept, clientVars
  <2>6. QED
    BY <1>1, <2>2, <2>3, <2>4, <2>5 DEF ReadyStays, MayRead, Readable
<1>9. CASE AcceptAndAsk
  BY <1>9 DEF AcceptAndAsk, clientVars, ReadyStays, Readable
<1>10. CASE NameLost \/ NameGiven
  <2>1. \A k \in DOMAIN slots : slots'[k] = slots[k]
    BY <1>10, SlotAdded DEF NameLost, NameGiven, Register, IInv, TypeOK, ServerTypes
  <2>2. \A k \in ready : inq'[slots[k]] = inq[slots[k]]
    <3>1. \A k \in ready : newcomer # NoConn => slots[k] # newcomer
      BY <1>1 DEF Places
    <3>2. QED
      BY <1>1, <1>10, <3>1 DEF NameLost, NameGiven, Asked
  <2>3. pc = "name" /\ pc' = "scan" /\ UNCHANGED <<ready, program, peer>>
    BY <1>10 DEF NameLost, NameGiven, Register
  <2>4. QED
    BY <1>1, <2>1, <2>2, <2>3 DEF ReadyStays, MayRead, Readable
<1>11. CASE AskAgain
  <2>1. \A k \in ready : newcomer # NoConn => slots[k] # newcomer
    BY <1>1 DEF Places
  <2>2. \A k \in ready : inq'[slots[k]] = inq[slots[k]]
    BY <1>1, <1>11, <2>1 DEF AskAgain, Asked
  <2>3. pc = "name" /\ UNCHANGED <<pc, ready, slots, program, peer>>
    BY <1>11 DEF AskAgain
  <2>4. QED
    BY <2>2, <2>3 DEF ReadyStays, Readable
<1>12. CASE ScanEnd
  BY <1>12 DEF ScanEnd, ReadyStays
<1>13. CASE CastEnd \/ CommandEnds \/ AskNext
  <2>1. \A k \in ready : i + 1 <= k => i < k
    BY <1>1
  <2>2. QED
    BY <1>13, <2>1
    DEF CastEnd, CommandEnds, AskNext, clientVars, ReadyStays, MayRead, Readable
<1>14. ASSUME NEW k \in DOMAIN slots, Disconnected(k) PROVE ReadyStays'
  <2>1. k \in Nat /\ i <= k
    BY <1>1, <1>14 DEF Disconnected, Turn
  <2>2. \A l \in ready : k + 1 <= l => i <= l
    BY <1>1, <2>1
  <2>3. QED
    BY <1>14, <2>2 DEF Disconnected, Continue, Turn, clientVars, ReadyStays, MayRead, Readable
<1>15. ASSUME NEW k \in DOMAIN slots, Reads(k),
              Continue(k) \/ (pc' \in {"cast", "system"} /\ i' = k), UNCHANGED program
       PROVE  ReadyStays'
  <2>1. k \in ready /\ k \in Nat /\ i <= k /\ pc = "scan"
    BY <1>1, <1>15 DEF Reads, Turn
  <2>2. \A l \in ready : k < l => i <= l /\ inq'[slots[l]] = inq[slots[l]]
    <3>1. \A l \in ready : l # k => slots[l] # slots[k]
      BY <1>1, <2>1, ConstantsAssumption DEF Places
    <3>2. QED
      BY <1>1, <1>15, <2>1, <3>1 DEF Reads
  <2>3. \A l \in ready : k + 1 <= l => k < l
    BY <1>1, <2>1
  <2>4. UNCHANGED <<ready, slots, peer>>
    BY <1>15 DEF Reads
  <2>5. QED
    BY <1>15, <2>1, <2>2, <2>3, <2>4 DEF Continue, ReadyStays, MayRead, Readable
<1>16. ASSUME NEW k \in DOMAIN slots, Send(k) PROVE ReadyStays'
  BY <1>2, <1>16 DEF Send, clientVars
<1>17. CASE SigPipe \/ SegFault \/ Overrun \/ NoFile
  BY <1>2, <1>17 DEF SigPipe, SegFault, Overrun, NoFile, Dies, clientVars
<1>18. CASE UNCHANGED vars
  BY <1>2, <1>18 DEF vars, clientVars
<1>19. QED
  BY <1>4, <1>5, <1>6, <1>7, <1>8, <1>9, <1>10, <1>11, <1>12, <1>13, <1>14, <1>15, <1>16,
     <1>17, <1>18
  DEF Next, Server, Serving, Name, Prompt, Speak, Login, Reply, Run, Reads

LEMMA DialogueStep ==
  ASSUME IInv, Places, DialogueNames, [Next]_vars PROVE DialogueNames'
<1>1. /\ slots \in Seq(Conns \cup {NoConn}) /\ newcomer \in Conns \cup {NoConn}
      /\ peer \in [Conns -> {"none", "open", "gone"}] /\ inq \in [Conns -> Seq(Kinds)]
  BY DEF IInv, TypeOK, ServerTypes, ClientTypes
<1>2. \A k \in DOMAIN slots : slots[k] \in Conns \cup {NoConn}
  BY <1>1
<1>3. ASSUME UNCHANGED <<program, slots, peer, inq>>, named \subseteq named'
      PROVE  DialogueNames'
  BY <1>3 DEF DialogueNames
<1>4. ASSUME NEW c \in Conns, Connect(c) PROVE DialogueNames'
  BY <1>1, <1>2, <1>4 DEF Connect, DialogueNames
<1>5. ASSUME NEW c \in Conns, Say(c) PROVE DialogueNames'
  <2>1. /\ peer[c] = "open" /\ UNCHANGED <<program, slots, peer, named>>
        /\ \A d \in Conns : d # c => inq'[d] = inq[d]
    BY <1>1, <1>5 DEF Say
  <2>2. QED
    BY <1>2, <2>1 DEF DialogueNames
<1>6. ASSUME NEW c \in Conns, Hangup(c) PROVE DialogueNames'
  <2>1. /\ UNCHANGED <<program, slots, named>>
        /\ \A d \in Conns : peer[d] = "gone" => peer'[d] = "gone"
        /\ \A d \in Conns : inq[d] = <<>> => inq'[d] = <<>>
    BY <1>1, <1>6 DEF Hangup
  <2>2. QED
    BY <1>2, <2>1 DEF DialogueNames
<1>7. ASSUME NEW c \in Conns, Stall(c) PROVE DialogueNames'
  BY <1>3, <1>7 DEF Stall
<1>8. CASE Wait \/ AcceptAndAsk \/ ScanEnd \/ CastEnd \/ CommandEnds \/ AskNext
  BY <1>3, <1>8 DEF Wait, AcceptAndAsk, ScanEnd, CastEnd, CommandEnds, AskNext, clientVars
<1>9. CASE Accept
  BY <1>9 DEF Accept, DialogueNames
<1>10. CASE AskAgain
  <2>1. \A d \in Conns : inq[d] = <<>> => inq'[d] = <<>>
    BY <1>1, <1>10 DEF AskAgain, Asked
  <2>2. QED
    BY <1>2, <1>10, <2>1 DEF AskAgain, DialogueNames
<1>11. CASE NameLost \/ NameGiven
  <2>1. /\ DOMAIN slots' = DOMAIN slots \cup {Len(slots) + 1}
        /\ slots'[Len(slots) + 1] = newcomer
        /\ \A k \in DOMAIN slots : slots'[k] = slots[k]
    BY <1>1, <1>11, SlotAdded DEF NameLost, NameGiven, Register
  <2>2. named \subseteq named' /\ UNCHANGED <<program, peer>>
    BY <1>11 DEF NameLost, NameGiven, Register
  <2>3. \A d \in Conns : inq[d] = <<>> => inq'[d] = <<>>
    BY <1>1, <1>11 DEF NameLost, NameGiven, Asked
  <2>4. \/ Len(slots) + 1 \in named'
        \/ newcomer = NoConn
        \/ peer[newcomer] = "gone" /\ inq'[newcomer] = <<>>
    <3>1. CASE NameLost
      BY <1>1, <3>1, <2>3 DEF NameLost, Failed
    <3>2. CASE NameGiven
      BY <3>2 DEF NameGiven, AcceptedNames, Register
    <3>3. QED
      BY <1>11, <3>1, <3>2
  <2>5. QED
    BY <1>2, <2>1, <2>2, <2>3, <2>4 DEF DialogueNames
<1>12. ASSUME NEW k \in DOMAIN slots, Reads(k), named \subseteq named' PROVE DialogueNames'
  <2>1. slots[k] \in Conns
    BY <1>12, ReadySlot DEF Reads, Turn
  <2>2. \A d \in Conns : inq[d] = <<>> => inq'[d] = <<>>
    BY <1>1, <1>12, <2>1 DEF Reads
  <2>3. QED
    BY <1>2, <1>12, <2>2 DEF Reads, DialogueNames
<1>13. ASSUME NEW k \in DOMAIN slots, Disconnected(k) \/ Send(k) PROVE DialogueNames'
  BY <1>3, <1>13 DEF Disconnected, Send, clientVars
<1>14. CASE SigPipe \/ SegFault \/ Overrun \/ NoFile
  BY <1>3, <1>14 DEF SigPipe, SegFault, Overrun, NoFile, Dies, clientVars
<1>15. CASE UNCHANGED vars
  BY <1>3, <1>15 DEF vars, clientVars
<1>16. QED
  BY <1>4, <1>5, <1>6, <1>7, <1>8, <1>9, <1>10, <1>11, <1>12, <1>13, <1>14, <1>15
  DEF Next, Server, Serving, Name, Prompt, Speak, Login, Reply, Run

LEMMA SpeakersStep ==
  ASSUME IInv, DialogueNames, SpeakersNamed, [Next]_vars PROVE SpeakersNamed'
<1>1. /\ log \in Seq(Conns) /\ slots \in Seq(Conns \cup {NoConn})
      /\ newcomer \in Conns \cup {NoConn} /\ named \subseteq DOMAIN slots
  BY DEF IInv, TypeOK, ServerTypes, HistoryTypes, Indices
<1>2. ASSUME UNCHANGED <<log, slots>>, named \subseteq named' PROVE SpeakersNamed'
  BY <1>2 DEF SpeakersNamed
<1>3. ASSUME NEW c \in Conns \cup {NoConn}, Len(slots) < MaxSlots, slots' = Append(slots, c),
             UNCHANGED log, named \subseteq named'
      PROVE  SpeakersNamed'
  <2>1. \A k \in named : slots'[k] = slots[k]
    BY <1>1, <1>3, SlotAdded
  <2>2. QED
    BY <1>3, <2>1 DEF SpeakersNamed
<1>4. ASSUME NEW c \in Conns, Connect(c) \/ Say(c) \/ Hangup(c) \/ Stall(c)
      PROVE  SpeakersNamed'
  BY <1>2, <1>4 DEF Connect, Say, Hangup, Stall, history
<1>5. CASE Wait \/ AcceptAndAsk \/ AskAgain \/ ScanEnd \/ CastEnd \/ CommandEnds \/ AskNext
  BY <1>2, <1>5 DEF Wait, AcceptAndAsk, AskAgain, ScanEnd, CastEnd, CommandEnds, AskNext, history
<1>6. CASE Accept
  <2>1. Accepted \in Conns \cup {NoConn}
    BY <1>6, AcceptTypes DEF Accept
  <2>2. QED
    BY <1>3, <1>6, <2>1 DEF Accept
<1>7. CASE NameLost \/ NameGiven
  BY <1>1, <1>3, <1>7 DEF NameLost, NameGiven, Register
<1>8. ASSUME NEW k \in DOMAIN slots, Speak(k) PROVE SpeakersNamed'
  <2>1. slots[k] \in Conns /\ inq[slots[k]] # <<>>
    BY <1>8, ReadySlot DEF Speak, Reads, Turn
  <2>2. k \in named
    BY <1>8, <2>1, ConstantsAssumption DEF Speak, MaySpeak, DialogueNames
  <2>3. /\ DOMAIN log' = DOMAIN log \cup {Len(log) + 1} /\ log'[Len(log) + 1] = slots[k]
        /\ \A p \in DOMAIN log : log'[p] = log[p]
    BY <1>1, <1>8, <2>1, Appended DEF Speak
  <2>4. UNCHANGED <<slots, named>>
    BY <1>8 DEF Speak, Reads
  <2>5. QED
    BY <2>2, <2>3, <2>4 DEF SpeakersNamed
<1>9. ASSUME NEW k \in DOMAIN slots, Name(k) \/ Prompt(k) \/ Login(k) \/ Reply(k) \/ Run(k)
      PROVE  SpeakersNamed'
  BY <1>2, <1>9 DEF Name, Prompt, Login, Reply, Run, Reads, history
<1>10. ASSUME NEW k \in DOMAIN slots, Disconnected(k) \/ Send(k) PROVE SpeakersNamed'
  BY <1>2, <1>10 DEF Disconnected, Send, history
<1>11. CASE SigPipe \/ SegFault \/ Overrun \/ NoFile
  BY <1>2, <1>11 DEF SigPipe, SegFault, Overrun, NoFile, Dies, history
<1>12. CASE UNCHANGED vars
  BY <1>2, <1>12 DEF vars, history
<1>13. QED
  BY <1>4, <1>5, <1>6, <1>7, <1>8, <1>9, <1>10, <1>11, <1>12 DEF Next, Server, Serving

-----------------------------------------------------------------------------
(* Members of the broadcast *)

\* The slots a broadcast reaches, but for the speaker's.
Reached ==
  {k \in DOMAIN slots :
     slots[k] # NoConn /\ program \in Chats /\ (program = "poll_server" => k \in named)}

Joined == {c \in Conns : since[c] # Abstract!Outside}

\* The members are the clients in the slots a broadcast reaches.
Members ==
  /\ \A c \in Conns \ Joined : got[c] = <<>>
  /\ \A c \in Joined : since[c] \in 0..Len(log) /\ \E k \in Reached : slots[k] = c
  /\ \A k \in Reached : slots[k] \in Joined
  /\ \A c \in Conns : got[c] # <<>> => got[c][Len(got[c])] \in 1..Len(log)

LEMMA InitialMembers == Init => Members /\ SpeakersNamed /\ ReadyStays
BY DEF Init, Members, Joined, Reached, SpeakersNamed, ReadyStays

LEMMA HistoryDomains ==
  ASSUME IInv
  PROVE  /\ log \in Seq(Conns) /\ Len(log) \in Nat /\ DOMAIN log = 1..Len(log)
         /\ since \in [Conns -> Nat \cup {Abstract!Outside}]
         /\ got \in [Conns -> Seq(Nat)]
         /\ slots \in Seq(Conns \cup {NoConn}) /\ named \subseteq DOMAIN slots
         /\ \A k \in DOMAIN slots : slots[k] \in Conns \cup {NoConn} /\ k \in Nat
         /\ newcomer \in Conns \cup {NoConn}
<1>1. /\ log \in Seq(Conns) /\ since \in [Conns -> Nat \cup {Abstract!Outside}]
      /\ got \in [Conns -> Seq(Nat)]
  BY DEF IInv, TypeOK, HistoryTypes
<1>2. /\ slots \in Seq(Conns \cup {NoConn}) /\ named \subseteq DOMAIN slots
      /\ newcomer \in Conns \cup {NoConn}
  BY DEF IInv, TypeOK, ServerTypes, Indices
<1>3. QED
  BY <1>1, <1>2

\* A client of no slot is no member.
LEMMA Stranger ==
  ASSUME IInv, Members, NEW c \in Conns, \A k \in DOMAIN slots : slots[k] # c
  PROVE  c \notin Joined /\ since[c] = Abstract!Outside /\ got[c] = <<>>
BY DEF Members, Joined, Reached

\* c joins: it becomes a member with nothing to catch up with.
LEMMA JoinedOne ==
  ASSUME IInv, NEW c \in Conns \cup {NoConn}, Joins(c)
  PROVE  /\ \A d \in Conns : since'[d] = IF d = c THEN Len(log) ELSE since[d]
         /\ Joined' = Joined \cup ({c} \ {NoConn})
<1>1. \A d \in Conns : since'[d] = IF d = c THEN Len(log) ELSE since[d]
  BY HistoryDomains, ConstantsAssumption DEF Joins
<1>2. Len(log) # Abstract!Outside
  BY HistoryDomains DEF Abstract!Outside
<1>3. QED
  BY <1>1, <1>2, ConstantsAssumption DEF Joined

\* A slot is added for c, who joins.
LEMMA SlotJoins ==
  ASSUME IInv, Members, NEW c \in Conns \cup {NoConn}, Joins(c),
         program \in {"chat_sever2", "chat_server"},
         Len(slots) < MaxSlots, slots' = Append(slots, c),
         \A k \in DOMAIN slots : c # NoConn => slots[k] # c,
         UNCHANGED <<program, log, got>>
  PROVE  Members'
<1>1. /\ DOMAIN slots' = DOMAIN slots \cup {Len(slots) + 1}
      /\ slots'[Len(slots) + 1] = c
      /\ \A k \in DOMAIN slots : slots'[k] = slots[k]
  BY SlotAdded
<1>2. /\ Reached' = Reached \cup {k \in {Len(slots) + 1} : c # NoConn}
      /\ Reached \subseteq DOMAIN slots
  BY <1>1 DEF Reached, Chats
<1>3. /\ \A d \in Conns : since'[d] = IF d = c THEN Len(log) ELSE since[d]
      /\ Joined' = Joined \cup ({c} \ {NoConn})
  BY JoinedOne
<1>4. Len(log) \in 0..Len(log)
  BY HistoryDomains
<1>5. c # NoConn => c \in Conns /\ got[c] = <<>> /\ c \notin Joined
  BY Stranger
<1>6. \A d \in Joined' : since'[d] \in 0..Len(log) /\ \E k \in Reached' : slots'[k] = d
  <2>1. ASSUME NEW d \in Joined
        PROVE  since'[d] \in 0..Len(log) /\ \E k \in Reached' : slots'[k] = d
    <3>1. d \in Conns /\ d # NoConn /\ d # c
      BY <1>5, ConstantsAssumption DEF Joined
    <3>2. QED
      BY <1>1, <1>2, <1>3, <3>1 DEF Members
  <2>2. ASSUME c # NoConn
        PROVE  since'[c] \in 0..Len(log) /\ \E k \in Reached' : slots'[k] = c
    BY <1>1, <1>2, <1>3, <1>4, <1>5, <2>2
  <2>3. QED
    BY <1>3, <2>1, <2>2
<1>7. \A k \in Reached' : slots'[k] \in Joined'
  BY <1>1, <1>2, <1>3 DEF Members
<1>8. \A d \in Conns \ Joined' : got'[d] = <<>>
  BY <1>3 DEF Members
<1>9. \A d \in Conns : got'[d] # <<>> => got'[d][Len(got'[d])] \in 1..Len(log')
  BY DEF Members
<1>10. log' = log
  OBVIOUS
<1>11. QED
  BY <1>6, <1>7, <1>8, <1>9, <1>10 DEF Members

LEMMA MembersStep == ASSUME IInv, Places, Members, [Next]_vars PROVE Members'
<1>1. ASSUME UNCHANGED <<program, slots, named, history>> PROVE Members'
  BY <1>1 DEF Members, Joined, Reached, history
<1>2. ASSUME UNCHANGED <<program, slots, history>>, program # "poll_server" PROVE Members'
  BY <1>2 DEF Members, Joined, Reached, history
<1>3. ASSUME NEW c \in Conns, Connect(c) \/ Say(c) \/ Hangup(c) \/ Stall(c) PROVE Members'
  BY <1>1, <1>3 DEF Connect, Say, Hangup, Stall
<1>4. CASE Wait \/ AcceptAndAsk \/ AskAgain \/ ScanEnd \/ CastEnd \/ CommandEnds \/ AskNext
  BY <1>1, <1>4 DEF Wait, AcceptAndAsk, AskAgain, ScanEnd, CastEnd, CommandEnds, AskNext
<1>5. CASE Accept
  <2>1. /\ Accepted \in Conns \cup {NoConn}
        /\ \A k \in DOMAIN slots : Accepted # NoConn => slots[k] # Accepted
    BY <1>5, HeadTaken DEF Accept
  <2>2. CASE program = "chat_sever2"
    BY <1>5, <2>1, <2>2, SlotJoins DEF Accept
  <2>3. CASE program # "chat_sever2"
    <3>1. /\ DOMAIN slots' = DOMAIN slots \cup {Len(slots) + 1}
          /\ \A k \in DOMAIN slots : slots'[k] = slots[k]
          /\ Len(slots) + 1 \notin DOMAIN slots
      BY <1>5, <2>1, SlotAdded DEF Accept
    <3>2. UNCHANGED <<program, named, log, since, got>>
      BY <1>5, <2>3 DEF Accept
    <3>3. Reached' = Reached
      BY <1>5, <2>3, <3>1, <3>2, HistoryDomains DEF Accept, Reached, Chats
    <3>4. Joined' = Joined /\ Reached \subseteq DOMAIN slots
      BY <3>2 DEF Joined, Reached
    <3>5. QED
      BY <3>1, <3>2, <3>3, <3>4 DEF Members
  <2>4. QED
    BY <2>2, <2>3
<1>6. CASE NameLost \/ NameGiven
  <2>1. \A k \in DOMAIN slots : newcomer # NoConn => slots[k] # newcomer
    BY DEF Places
  <2>2. program = "chat_server"
    BY <1>6 DEF NameLost, NameGiven, IInv, Indices
  <2>3. QED
    BY <1>6, <2>1, <2>2, HistoryDomains, SlotJoins DEF NameLost, NameGiven, Register
<1>7. ASSUME NEW k \in DOMAIN slots, Name(k) PROVE Members'
  <2>1. CASE program # "poll_server"
    BY <1>2, <1>7, <2>1 DEF Name, Reads, history
  <2>2. CASE program = "poll_server"
    <3> DEFINE c == slots[k]
    <3>1. c \in Conns /\ c # NoConn
      BY <1>7, ReadySlot, ConstantsAssumption DEF Name, Reads, Turn
    <3>2. /\ named' = named \cup {k} /\ k \notin named /\ UNCHANGED <<program, slots, log, got>>
          /\ Joins(c)
      BY <1>7, <2>2 DEF Name, Reads
    <3>3. \A l \in DOMAIN slots : l # k => slots[l] # c
      BY <3>1 DEF Places
    <3>4. c \notin Joined /\ got[c] = <<>>
      BY <3>1, <3>2, <3>3, <2>2 DEF Members, Reached
    <3>5. /\ \A d \in Conns : since'[d] = IF d = c THEN Len(log) ELSE since[d]
          /\ Joined' = Joined \cup {c}
      BY <3>1, <3>2, JoinedOne
    <3>6. Len(log) \in 0..Len(log)
      BY HistoryDomains
    <3>7. Reached' = Reached \cup {k}
      BY <2>2, <3>1, <3>2 DEF Reached, Chats
    <3>8. Joined \subseteq Conns
      BY DEF Joined
    <3>9. QED
      BY <3>1, <3>2, <3>4, <3>5, <3>6, <3>7, <3>8 DEF Members
  <2>3. QED
    BY <2>1, <2>2
<1>8. ASSUME NEW k \in DOMAIN slots, Speak(k) PROVE Members'
  <2>1. slots[k] \in Conns
    BY <1>8, ReadySlot DEF Speak, Reads, Turn
  <2>2. Len(log') = Len(log) + 1
    BY <1>8, <2>1, HistoryDomains, Appended DEF Speak
  <2>3. 0..Len(log) \subseteq 0..Len(log') /\ 1..Len(log) \subseteq 1..Len(log')
    BY <2>2, HistoryDomains
  <2>4. UNCHANGED <<slots, since, got>> /\ Joined' = Joined /\ Reached' = Reached
    BY <1>8 DEF Speak, Reads, Joined, Reached
  <2>5. QED
    BY <2>3, <2>4 DEF Members
<1>9. ASSUME NEW k \in DOMAIN slots, Prompt(k) \/ Reply(k) \/ Run(k) \/ Disconnected(k)
      PROVE  Members'
  BY <1>1, <1>9 DEF Prompt, Reply, Run, Disconnected, Reads
<1>10. ASSUME NEW k \in DOMAIN slots, Login(k) PROVE Members'
  BY <1>2, <1>10 DEF Login, Reads
<1>11. ASSUME NEW k \in DOMAIN slots, Send(k) PROVE Members'
  <2>1. pc = "cast" /\ k \in Recipients /\ UNCHANGED <<program, slots, named, log, since>>
    BY <1>11 DEF Send, NextRecipient
  <2>2. slots[k] \in Conns /\ k \in Reached
    BY <2>1, HistoryDomains DEF Recipients, Reached, IInv, Indices
  <2>3. slots[k] \in Joined /\ Reached' = Reached /\ Joined' = Joined
    BY <2>1, <2>2 DEF Members, Reached, Joined
  <2>4. log # <<>>
    BY <2>1 DEF IInv, Indices
  <2>5. Len(log) \in 1..Len(log) /\ Len(log) \in Nat
    BY <2>4, HistoryDomains
  <2>6. \A c \in Conns : got'[c] = IF c = slots[k] THEN Append(got[c], Len(log)) ELSE got[c]
    BY <1>11, <2>2, HistoryDomains DEF Send
  <2>7. got[slots[k]] \in Seq(Nat)
    BY <2>2, HistoryDomains
  <2>8. got'[slots[k]][Len(got'[slots[k]])] = Len(log)
    <3> DEFINE s == got[slots[k]]
    <3>1. Len(Append(s, Len(log))) = Len(s) + 1 /\ Append(s, Len(log))[Len(s) + 1] = Len(log)
      BY <2>5, <2>7, Appended
    <3>2. got'[slots[k]] = Append(s, Len(log))
      BY <2>2, <2>6
    <3>3. QED
      BY <3>1, <3>2
  <2>9. QED
    BY <2>1, <2>2, <2>3, <2>5, <2>6, <2>8 DEF Members
<1>12. CASE SigPipe \/ SegFault \/ Overrun \/ NoFile
  BY <1>1, <1>12 DEF SigPipe, SegFault, Overrun, NoFile, Dies
<1>13. CASE UNCHANGED vars
  BY <1>1, <1>13 DEF vars
<1>14. QED
  BY <1>3, <1>4, <1>5, <1>6, <1>7, <1>8, <1>9, <1>10, <1>11, <1>12, <1>13
  DEF Next, Server, Serving

-----------------------------------------------------------------------------
(* What members know *)

Knows == [c \in Conns |-> Abstract!Known(c)]

\* A message a reached client has not been sent is the one being broadcast, and
\* the loop over j has yet to come to that client.
Behind ==
  \A k \in Reached : \A p \in 1..Len(log) :
    (Knows[slots[k]] < p /\ log[p] # slots[k])
      <=> (pc = "cast" /\ k # i /\ j <= k /\ p = Len(log))

\* A member's knowledge ends inside the log.
LEMMA KnownInLog ==
  ASSUME IInv, Members, NEW c \in Joined
  PROVE  c \in Conns /\ Knows[c] = Abstract!Known(c) /\ Knows[c] \in 0..Len(log)
<1>1. c \in Conns
  BY DEF Joined
<1>2. since[c] \in 0..Len(log) /\ (got[c] # <<>> => got[c][Len(got[c])] \in 1..Len(log))
  BY <1>1 DEF Members
<1>3. 1..Len(log) \subseteq 0..Len(log)
  BY HistoryDomains
<1>4. QED
  BY <1>1, <1>2, <1>3 DEF Knows, Abstract!Known

LEMMA BehindMeansCaughtUp == ASSUME IInv, Places, Members, Behind PROVE CaughtUp
<1> SUFFICES ASSUME NEW k \in DOMAIN slots, program \in Chats, slots[k] # NoConn,
                    since[slots[k]] # Abstract!Outside
             PROVE  Abstract!Pending(slots[k])
                      = IF pc = "cast" /\ k # i /\ j <= k THEN {Len(log)} ELSE {}
  BY DEF CaughtUp
<1>1. slots[k] \in Joined
  BY HistoryDomains DEF Joined
<1>2. k \in Reached
  <2>1. PICK l \in Reached : slots[l] = slots[k]
    BY <1>1 DEF Members
  <2>2. l = k
    BY <2>1 DEF Reached, Places
  <2>3. QED
    BY <2>2
<1>3. Knows[slots[k]] = Abstract!Known(slots[k])
  BY <1>1, KnownInLog
<1>4. \A p \in 1..Len(log) :
        p \in Abstract!Pending(slots[k]) <=> (pc = "cast" /\ k # i /\ j <= k /\ p = Len(log))
  BY <1>2, <1>3 DEF Behind, Abstract!Pending
<1>5. Abstract!Pending(slots[k]) \subseteq 1..Len(log)
  BY DEF Abstract!Pending
<1>6. pc = "cast" => Len(log) \in 1..Len(log)
  BY HistoryDomains DEF IInv, Indices
<1>7. QED
  BY <1>4, <1>5, <1>6

\* A client joins by a slot that is added or named.
LEMMA NewcomerKnows ==
  ASSUME IInv, Members, NEW c \in Conns \cup {NoConn}, Joins(c), c \notin Joined,
         UNCHANGED <<log, got>>
  PROVE  \A d \in Conns : Knows'[d] = IF d = c THEN Len(log) ELSE Knows[d]
<1>1. \A d \in Conns : since'[d] = IF d = c THEN Len(log) ELSE since[d]
  BY JoinedOne
<1>2. c \in Conns => got[c] = <<>>
  BY DEF Members
<1>3. QED
  BY <1>1, <1>2 DEF Knows, Abstract!Known

LEMMA InitialBehind == Init => Behind
BY DEF Init, Behind, Reached

LEMMA BehindStep == ASSUME IInv, Places, Members, Behind, [Next]_vars PROVE Behind'
<1>1. ASSUME UNCHANGED history, Knows' = Knows, \A k \in Reached' : k \in Reached,
             \A k \in Reached : slots'[k] = slots[k],
             pc # "cast", pc' # "cast"
      PROVE  Behind'
  BY <1>1 DEF history, Behind
<1>2. ASSUME UNCHANGED <<slots, history, Reached, pc, i, j>> PROVE Behind'
  <2>1. Knows' = Knows
    BY <1>2 DEF history, Knows, Abstract!Known
  <2>2. QED
    BY <1>2, <2>1 DEF history, Behind
<1>3. ASSUME UNCHANGED history PROVE Knows' = Knows
  BY <1>3 DEF history, Knows, Abstract!Known
<1>4. ASSUME NEW c \in Conns, Connect(c) \/ Say(c) \/ Hangup(c) \/ Stall(c) PROVE Behind'
  BY <1>2, <1>4 DEF Connect, Say, Hangup, Stall, Reached
<1>5. CASE Wait \/ AcceptAndAsk \/ AskAgain \/ ScanEnd \/ CommandEnds \/ AskNext
  BY <1>1, <1>3, <1>5 DEF Wait, AcceptAndAsk, AskAgain, ScanEnd, CommandEnds, AskNext, Reached
<1>6. ASSUME NEW c \in Conns \cup {NoConn}, Joins(c), c \notin Joined, UNCHANGED <<log, got>>,
             \A k \in Reached' : slots'[k] = c \/ (k \in Reached /\ slots'[k] = slots[k]),
             \A k \in Reached' : slots'[k] \in Conns,
             pc # "cast", pc' # "cast"
      PROVE  Behind'
  <2>1. \A d \in Conns : Knows'[d] = IF d = c THEN Len(log) ELSE Knows[d]
    BY <1>6, NewcomerKnows
  <2>2. \A p \in 1..Len(log) : ~(Len(log) < p)
    BY HistoryDomains
  <2>3. QED
    BY <1>6, <2>1, <2>2 DEF Behind
<1>7. CASE Accept
  <2>1. /\ Accepted \in Conns \cup {NoConn}
        /\ \A k \in DOMAIN slots : Accepted # NoConn => slots[k] # Accepted
    BY <1>7, HeadTaken DEF Accept
  <2>2. /\ DOMAIN slots' = DOMAIN slots \cup {Len(slots) + 1}
        /\ slots'[Len(slots) + 1] = Accepted
        /\ \A k \in DOMAIN slots : slots'[k] = slots[k]
        /\ Len(slots) + 1 \notin DOMAIN slots
    BY <1>7, <2>1, SlotAdded DEF Accept
  <2>3. pc # "cast" /\ pc' # "cast" /\ UNCHANGED <<program, named, log, got>>
    BY <1>7 DEF Accept
  <2>4. CASE program = "chat_sever2"
    <3>1. Accepted \notin Joined
      BY <2>1, Stranger, ConstantsAssumption DEF Joined
    <3>2. \A k \in Reached' : slots'[k] = Accepted \/ (k \in Reached /\ slots'[k] = slots[k])
      BY <2>2, <2>3 DEF Reached
    <3>3. \A k \in Reached' : slots'[k] \in Conns
      BY <2>1, <2>2, HistoryDomains DEF Reached
    <3>4. QED
      BY <1>6, <1>7, <2>1, <2>3, <2>4, <3>1, <3>2, <3>3 DEF Accept
  <2>5. CASE program # "chat_sever2"
    <3>1. Reached' = Reached
      BY <1>7, <2>2, <2>3, <2>5, HistoryDomains DEF Accept, Reached, Chats
    <3>2. UNCHANGED history
      BY <1>7, <2>5 DEF Accept, history
    <3>3. \A k \in Reached : slots'[k] = slots[k]
      BY <2>2 DEF Reached
    <3>4. QED
      BY <1>1, <1>3, <2>3, <3>1, <3>2, <3>3
  <2>6. QED
    BY <2>4, <2>5
<1>8. CASE NameLost \/ NameGiven
  <2>1. newcomer \notin Joined
    BY Stranger, ConstantsAssumption, HistoryDomains DEF Places, Joined
  <2>2. /\ DOMAIN slots' = DOMAIN slots \cup {Len(slots) + 1}
        /\ slots'[Len(slots) + 1] = newcomer
        /\ \A k \in DOMAIN slots : slots'[k] = slots[k]
    BY <1>8, HistoryDomains, SlotAdded DEF NameLost, NameGiven, Register
  <2>3. /\ Joins(newcomer) /\ UNCHANGED <<program, log, got>> /\ pc # "cast" /\ pc' # "cast"
        /\ program = "chat_server"
    BY <1>8 DEF NameLost, NameGiven, Register, IInv, Indices
  <2>4. \A k \in Reached' : slots'[k] = newcomer \/ (k \in Reached /\ slots'[k] = slots[k])
    BY <2>2, <2>3 DEF Reached
  <2>5. \A k \in Reached' : slots'[k] \in Conns
    BY <2>2, HistoryDomains DEF Reached
  <2>6. QED
    BY <1>6, <2>1, <2>3, <2>4, <2>5, HistoryDomains
<1>9. ASSUME NEW k \in DOMAIN slots, Name(k) PROVE Behind'
  <2>1. pc # "cast" /\ pc' # "cast" /\ UNCHANGED <<program, slots, log, got>>
        /\ named' = named \cup {k} /\ k \notin named
    BY <1>9 DEF Name, Reads, Turn, Continue
  <2>2. CASE program # "poll_server"
    BY <1>1, <1>3, <1>9, <2>1, <2>2 DEF Name, history, Reached
  <2>3. CASE program = "poll_server"
    <3>1. slots[k] \in Conns /\ slots[k] # NoConn
      BY <1>9, ReadySlot, ConstantsAssumption DEF Name, Reads, Turn
    <3>2. slots[k] \notin Joined
      BY <2>1, <2>3, <3>1 DEF Members, Places, Reached
    <3>3. \A l \in Reached' : slots'[l] = slots[k] \/ (l \in Reached /\ slots'[l] = slots[l])
      BY <2>1, <2>3 DEF Reached
    <3>4. \A l \in Reached' : slots'[l] \in Conns
      BY <2>1, HistoryDomains DEF Reached
    <3>5. QED
      BY <1>6, <1>9, <2>1, <2>3, <3>1, <3>2, <3>3, <3>4 DEF Name
  <2>4. QED
    BY <2>2, <2>3
<1>10. ASSUME NEW k \in DOMAIN slots, Speak(k) PROVE Behind'
  <2>1. slots[k] \in Conns /\ slots[k] # NoConn
    BY <1>10, ReadySlot, ConstantsAssumption DEF Speak, Reads, Turn
  <2>2. /\ log' = Append(log, slots[k]) /\ UNCHANGED <<program, slots, named, since, got>>
        /\ pc # "cast" /\ pc' = "cast" /\ i' = k /\ j' = 1
    BY <1>10 DEF Speak, Reads, Turn
  <2>3. /\ Len(log') = Len(log) + 1 /\ log'[Len(log) + 1] = slots[k]
        /\ \A p \in 1..Len(log) : log'[p] = log[p]
        /\ 1..Len(log') = 1..Len(log) \cup {Len(log) + 1}
        /\ \A p \in 1..Len(log) : p # Len(log) + 1
    <3>1. Len(log') = Len(log) + 1 /\ log'[Len(log) + 1] = slots[k]
          /\ \A p \in DOMAIN log : log'[p] = log[p]
      BY <2>1, <2>2, HistoryDomains, Appended
    <3>2. 1..Len(log) + 1 = 1..Len(log) \cup {Len(log) + 1} /\ DOMAIN log = 1..Len(log)
      BY HistoryDomains
    <3>3. \A p \in 1..Len(log) : p # Len(log) + 1
      BY HistoryDomains
    <3>4. QED
      BY <3>1, <3>2, <3>3
  <2>4. Knows' = Knows /\ Reached' = Reached /\ Reached \subseteq DOMAIN slots
    BY <2>2 DEF Knows, Abstract!Known, Reached
  <2>5. ASSUME NEW l \in Reached
        PROVE  1 <= l /\ Knows[slots[l]] < Len(log) + 1 /\ (slots[k] # slots[l] <=> l # k)
    <3>1. Knows[slots[l]] \in 0..Len(log)
      BY KnownInLog DEF Members
    <3>2. l \in 1..Len(slots) /\ (slots[k] # slots[l] <=> l # k)
      BY <2>1, HistoryDomains, ReadySlot DEF Places, Reached
    <3>3. QED
      BY <3>1, <3>2, HistoryDomains
  <2>6. QED
    BY <2>2, <2>3, <2>4, <2>5 DEF Behind
<1>11. ASSUME NEW k \in DOMAIN slots, Prompt(k) \/ Reply(k) \/ Run(k) \/ Disconnected(k)
      PROVE  Behind'
  BY <1>1, <1>3, <1>11 DEF Prompt, Reply, Run, Disconnected, Reads, Turn, Continue, Reached
<1>12. ASSUME NEW k \in DOMAIN slots, Login(k) PROVE Behind'
  BY <1>1, <1>3, <1>12 DEF Login, Reads, Turn, Continue, Reached, Chats
<1>13. ASSUME NEW k \in DOMAIN slots, Send(k) PROVE Behind'
  <2>1. /\ pc = "cast" /\ k \in Recipients /\ j <= k /\ \A l \in Recipients : j <= l => k <= l
        /\ j' = k + 1 /\ UNCHANGED <<program, slots, named, pc, i, log, since>>
    BY <1>13 DEF Send, NextRecipient
  <2>2. program \in Chats
    BY <2>1 DEF IInv, Indices
  <2>3. slots[k] \in Conns /\ k \in Reached /\ Recipients = Reached \ {i}
    BY <2>1, <2>2, HistoryDomains DEF Recipients, Reached
  <2>4. \A c \in Conns : Knows'[c] = IF c = slots[k] THEN Len(log) ELSE Knows[c]
    <3> DEFINE s == got[slots[k]]
    <3>1. s \in Seq(Nat) /\ Len(log) \in Nat
      BY <2>3, HistoryDomains
    <3>2. /\ Append(s, Len(log)) # <<>>
          /\ Append(s, Len(log))[Len(Append(s, Len(log)))] = Len(log)
      <4>1. Append(s, Len(log)) # <<>> /\ Len(Append(s, Len(log))) = Len(s) + 1
            /\ Append(s, Len(log))[Len(s) + 1] = Len(log)
        BY <3>1, Appended
      <4>2. QED
        BY <4>1
    <3>3. got' = [got EXCEPT ![slots[k]] = Append(s, Len(log))]
      BY <1>13 DEF Send
    <3>4. QED
      BY <2>1, <2>3, <3>2, <3>3, HistoryDomains DEF Knows, Abstract!Known
  <2>5. Reached' = Reached
    BY <2>1 DEF Reached
  <2>6. ASSUME NEW l \in Reached
        PROVE  /\ slots[l] \in Conns /\ (slots[l] = slots[k] <=> l = k)
               /\ l # i => (j <= l <=> k <= l)
               /\ k + 1 <= l <=> (k <= l /\ l # k)
    <3>1. l \in Nat /\ k \in Nat /\ j \in Nat
      BY HistoryDomains, ReadySlot DEF Reached, IInv, TypeOK, ServerTypes
    <3>2. slots[l] \in Conns /\ (slots[l] = slots[k] <=> l = k)
      BY <2>3, HistoryDomains DEF Places, Reached
    <3>3. l # i => (j <= l => k <= l)
      BY <2>1, <2>3
    <3>4. QED
      BY <2>1, <3>1, <3>2, <3>3
  <2>7. \A p \in 1..Len(log) : ~(Len(log) < p)
    BY HistoryDomains
  <2>8. QED
    BY <2>1, <2>3, <2>4, <2>5, <2>6, <2>7 DEF Behind
<1>14. CASE CastEnd
  <2>1. /\ pc = "cast" /\ pc' = "scan" /\ \A l \in Recipients : l < j
        /\ UNCHANGED <<program, slots, named, history>>
    BY <1>14 DEF CastEnd
  <2>2. program \in Chats
    BY <2>1 DEF IInv, Indices
  <2>3. Reached' = Reached /\ \A l \in Reached : l # i => l \in Recipients
    BY <2>1, <2>2 DEF Recipients, Reached
  <2>4. \A l \in Reached : l # i => ~(j <= l)
    <3>1. \A l \in Reached : l \in Nat /\ j \in Nat
      BY HistoryDomains, ReadySlot DEF Reached, IInv, TypeOK, ServerTypes
    <3>2. QED
      BY <2>1, <2>3, <3>1
  <2>5. QED
    BY <1>3, <2>1, <2>3, <2>4 DEF Behind, history
<1>15. CASE SigPipe \/ SegFault \/ Overrun \/ NoFile
  BY <1>2, <1>15 DEF SigPipe, SegFault, Overrun, NoFile, Dies, Reached
<1>16. CASE UNCHANGED vars
  BY <1>2, <1>16 DEF vars, Reached
<1>17. QED
  BY <1>4, <1>5, <1>7, <1>8, <1>9, <1>10, <1>11, <1>12, <1>13, <1>14, <1>15, <1>16
  DEF Next, Server, Serving

-----------------------------------------------------------------------------
(* The theorems *)

Sound ==
  IInv /\ Places /\ ReadyStays /\ DialogueNames /\ SpeakersNamed /\ Members /\ Behind

LEMMA SoundInductive == Spec => []Sound
<1>1. Init => Sound
  BY InitialTypes, InitialPlaces, InitialMembers, InitialBehind DEF Sound, Init, DialogueNames
<1>2. Sound /\ [Next]_vars => Sound'
  <2> SUFFICES ASSUME Sound, [Next]_vars PROVE Sound'
    OBVIOUS
  <2>1. IInv'
    BY ClientStep, ServerStep, HistoryStep, IndicesStep DEF Sound, IInv, TypeOK
  <2>2. Places' /\ ReadyStays' /\ DialogueNames' /\ SpeakersNamed'
    BY PlacesStep, ReadyStep, DialogueStep, SpeakersStep DEF Sound
  <2>3. Members' /\ Behind'
    BY MembersStep, BehindStep DEF Sound
  <2>4. QED
    BY <2>1, <2>2, <2>3 DEF Sound
<1>3. QED
  BY <1>1, <1>2, PTL DEF Spec

\* Every variable keeps its type, and every index stays inside the arrays: the
\* connection past the end is the one that ends the claims (Overrun).
THEOREM TypeCorrect == Spec => []TypeOK
<1>1. Sound => TypeOK
  BY DEF Sound, IInv
<1>2. QED
  BY SoundInductive, <1>1, PTL

\* Every connection the kernel completed is in the backlog, in chat_server's
\* dialogue, or in exactly one slot of the program's array.
THEOREM EveryClientHasAPlace == Spec => []NobodyForgotten
<1>1. Sound => NobodyForgotten
  <2> SUFFICES ASSUME Sound, NEW c \in Conns, peer[c] # "none"
               PROVE  \/ \E n \in DOMAIN backlog : backlog[n] = c
                      \/ pc = "name" /\ newcomer = c
                      \/ \E k \in DOMAIN slots :
                           slots[k] = c /\ \A l \in DOMAIN slots : slots[l] = c => l = k
    BY DEF NobodyForgotten
  <2>1. c # NoConn
    BY ConstantsAssumption
  <2>2. QED
    BY <2>1 DEF Sound, IInv, Indices, Places
<1>2. QED
  BY SoundInductive, <1>1, PTL

\* select's and poll's answers do not go stale: recv returns at once, except on the
\* slot a poll server has just filled.
THEOREM ReadinessLasts == Spec => []ReadsDontBlock
<1>1. Sound => ReadsDontBlock
  BY DEF Sound, ReadyStays, MayRead, ReadsDontBlock, Turn
<1>2. QED
  BY SoundInductive, <1>1, PTL

\* Only clients that gave a valid name are ever heard.
THEOREM OnlyTheNamedAreHeard == Spec => []SpeakersNamed
<1>1. Sound => SpeakersNamed
  BY DEF Sound
<1>2. QED
  BY SoundInductive, <1>1, PTL

\* Between broadcasts every member has everything; during one, the members after
\* j lack the last message and nothing else.
THEOREM EverybodyCaughtUp == Spec => []CaughtUp
<1>1. Sound => CaughtUp
  BY BehindMeansCaughtUp DEF Sound
<1>2. QED
  BY SoundInductive, <1>1, PTL

-----------------------------------------------------------------------------
(* The chats implement Broadcast *)

LEMMA Implements ==
  ASSUME Sound, [Next]_vars PROVE [Abstract!Next]_(Abstract!vars)
<1> DEFINE Goal == [Abstract!Next]_(Abstract!vars)
<1>1. ASSUME UNCHANGED history PROVE Goal
  BY <1>1 DEF history, Abstract!vars
<1>2. ASSUME NEW c \in Conns \cup {NoConn}, c \notin Joined, Joins(c), UNCHANGED <<log, got>>
      PROVE  Goal
  <2>1. CASE c = NoConn
    BY <1>1, <1>2, <2>1 DEF Joins, history
  <2>2. CASE c \in Conns
    <3>1. Abstract!Join(c)
      BY <1>2, <2>2, ConstantsAssumption DEF Joins, Joined, Abstract!Join
    <3>2. QED
      BY <2>2, <3>1 DEF Abstract!Next
  <2>3. QED
    BY <2>1, <2>2
<1>3. ASSUME NEW c \in Conns, Connect(c) \/ Say(c) \/ Hangup(c) \/ Stall(c) PROVE Goal
  BY <1>1, <1>3 DEF Connect, Say, Hangup, Stall
<1>4. CASE Wait \/ AcceptAndAsk \/ AskAgain \/ ScanEnd \/ CastEnd \/ CommandEnds \/ AskNext
  BY <1>1, <1>4 DEF Wait, AcceptAndAsk, AskAgain, ScanEnd, CastEnd, CommandEnds, AskNext
<1>5. CASE Accept
  <2>1. CASE program = "chat_sever2"
    <3>1. /\ Accepted \in Conns \cup {NoConn}
          /\ \A k \in DOMAIN slots : Accepted # NoConn => slots[k] # Accepted
      BY <1>5, HeadTaken DEF Accept, Sound
    <3>2. Accepted \notin Joined
      BY <3>1, Stranger, ConstantsAssumption DEF Joined, Sound
    <3>3. QED
      BY <1>2, <1>5, <2>1, <3>1, <3>2 DEF Accept
  <2>2. CASE program # "chat_sever2"
    BY <1>1, <1>5, <2>2 DEF Accept, history
  <2>3. QED
    BY <2>1, <2>2
<1>6. CASE NameLost \/ NameGiven
  <2>1. newcomer \in Conns \cup {NoConn} /\ newcomer \notin Joined
    BY Stranger, ConstantsAssumption, HistoryDomains DEF Sound, Places, Joined
  <2>2. QED
    BY <1>2, <1>6, <2>1 DEF NameLost, NameGiven, Register
<1>7. ASSUME NEW k \in DOMAIN slots, Name(k) PROVE Goal
  <2>1. slots[k] \in Conns /\ slots[k] # NoConn
    BY <1>7, ReadySlot, ConstantsAssumption DEF Sound, Name, Reads, Turn
  <2>2. CASE program = "poll_server"
    <3>1. slots[k] \notin Joined
      BY <1>7, <2>1, <2>2 DEF Sound, Members, Places, Reached, Name
    <3>2. QED
      BY <1>2, <1>7, <2>1, <2>2, <3>1 DEF Name
  <2>3. CASE program # "poll_server"
    BY <1>1, <1>7, <2>3 DEF Name, history
  <2>4. QED
    BY <2>2, <2>3
<1>8. ASSUME NEW k \in DOMAIN slots, Speak(k) PROVE Goal
  <2>1. slots[k] \in Conns /\ slots[k] # NoConn
    BY <1>8, ReadySlot, ConstantsAssumption DEF Sound, Speak, Reads, Turn
  <2>2. k \in Reached
    BY <1>8, <2>1 DEF Speak, MaySpeak, Reached, Chats
  <2>3. Abstract!Publish(slots[k])
    BY <1>8, <2>2 DEF Speak, Sound, Members, Joined, Abstract!Publish
  <2>4. QED
    BY <2>1, <2>3 DEF Abstract!Next
<1>9. ASSUME NEW k \in DOMAIN slots, Send(k) PROVE Goal
  <2>1. /\ pc = "cast" /\ k \in Recipients /\ j <= k
        /\ got' = [got EXCEPT ![slots[k]] = Append(@, Len(log))] /\ UNCHANGED <<log, since>>
    BY <1>9 DEF Send, NextRecipient
  <2>2. program \in Chats
    BY <2>1 DEF Sound, IInv, Indices
  <2>3. slots[k] \in Conns /\ k \in Reached /\ k # i
    BY <2>1, <2>2, HistoryDomains DEF Recipients, Reached, Sound
  <2>4. since[slots[k]] # Abstract!Outside
    BY <2>3 DEF Sound, Members, Joined
  <2>5. Abstract!Pending(slots[k]) = {Len(log)}
    BY <2>1, <2>2, <2>3, <2>4, BehindMeansCaughtUp DEF Sound, CaughtUp, Reached
  <2>6. Len(log) <= Len(log)
    BY HistoryDomains DEF Sound
  <2>7. Abstract!Deliver(slots[k])
    BY <2>1, <2>4, <2>5, <2>6 DEF Abstract!Deliver
  <2>8. QED
    BY <2>3, <2>7 DEF Abstract!Next
<1>10. ASSUME NEW k \in DOMAIN slots, Prompt(k) \/ Login(k) \/ Reply(k) \/ Run(k) \/ Disconnected(k)
       PROVE  Goal
  BY <1>1, <1>10 DEF Prompt, Login, Reply, Run, Disconnected
<1>11. CASE SigPipe \/ SegFault \/ Overrun \/ NoFile
  BY <1>1, <1>11 DEF SigPipe, SegFault, Overrun, NoFile, Dies
<1>12. CASE UNCHANGED vars
  BY <1>1, <1>12 DEF vars
<1>13. QED
  BY <1>3, <1>4, <1>5, <1>6, <1>7, <1>8, <1>9, <1>10, <1>11, <1>12
  DEF Next, Server, Serving

\* Every run of a chat is a run of Broadcast: one order of messages, and every member
\* is sent those of the others after its joining, in order, without gap or repetition.
THEOREM ChatsImplementBroadcast == Spec => BroadcastSpec
<1>1. Init => Abstract!Init
  BY DEF Init, Abstract!Init
<1>2. Sound /\ [Next]_vars => [Abstract!Next]_(Abstract!vars)
  BY Implements
<1>3. QED
  BY SoundInductive, <1>1, <1>2, PTL DEF Spec, BroadcastSpec, Abstract!Spec
=============================================================================
