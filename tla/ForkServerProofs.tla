-------------------------- MODULE ForkServerProofs --------------------------
(***************************************************************************)
(* Theorems about the forking servers, for any number of processes,        *)
(* workers, connections, requests and failures.                            *)
(***************************************************************************)
EXTENDS ForkServerProps, FiniteSetTheorems, TLAPS

States == {"none", "other", "accept", "recv", "system", "answer", "again", "content",
           "zombie"}

\* The processes and the signals, and who has any: only a parent that handles SIGCHLD
\* and has not exited.
SignalTypes ==
  /\ program \in AllPrograms
  /\ proc \in [Procs -> States]
  /\ handling \in BOOLEAN /\ pending \in BOOLEAN /\ lost \in Nat
  /\ handling \/ pending => Up /\ Handles
  /\ parent = "return" => program = "http"

IInv == SignalTypes /\ ZombiesAreMergedSignals

-----------------------------------------------------------------------------
(* Zombies *)

LEMMA FiniteZombies == IsFiniteSet(Zombies) /\ Cardinality(Zombies) \in Nat
<1>1. Zombies \in SUBSET Procs
  BY DEF Zombies
<1>2. IsFiniteSet(Zombies)
  BY <1>1, FS_Subset, ConstantsAssumption
<1>3. QED
  BY <1>2, FS_CardinalityType

\* What a process's new state l makes of the zombies.
LEMMA ZombiesAfter ==
  ASSUME SignalTypes, NEW p \in Procs, NEW l \in States, proc' = [proc EXCEPT ![p] = l]
  PROVE  /\ proc' \in [Procs -> States]
         /\ (proc[p] # "zombie" /\ l # "zombie") => Zombies' = Zombies
         /\ (proc[p] # "zombie" /\ l = "zombie") =>
              Cardinality(Zombies') = Cardinality(Zombies) + 1
         /\ (proc[p] = "zombie" /\ l # "zombie") =>
              Cardinality(Zombies') = Cardinality(Zombies) - 1
<1>1. /\ proc' \in [Procs -> States] /\ proc'[p] = l
      /\ \A q \in Procs : q # p => proc'[q] = proc[q]
  BY DEF SignalTypes
<1>2. CASE proc[p] # "zombie" /\ l # "zombie"
  BY <1>1, <1>2 DEF Zombies
<1>3. CASE proc[p] # "zombie" /\ l = "zombie"
  <2>1. Zombies' = Zombies \cup {p} /\ p \notin Zombies
    BY <1>1, <1>3 DEF Zombies
  <2>2. QED
    BY <1>1, <1>3, <2>1, FS_AddElement, FiniteZombies
<1>4. CASE proc[p] = "zombie" /\ l # "zombie"
  <2>1. Zombies' = Zombies \ {p} /\ p \in Zombies
    BY <1>1, <1>4 DEF Zombies
  <2>2. QED
    BY <1>1, <1>4, <2>1, FS_RemoveElement, FiniteZombies
<1>5. QED
  BY <1>1, <1>2, <1>3, <1>4

-----------------------------------------------------------------------------
(* Kinds of steps *)

\* Steps that leave signals and zombies alone.
LEMMA Undisturbed ==
  ASSUME IInv, UNCHANGED <<program, signalVars>>, Zombies' = Zombies,
         proc' \in [Procs -> States], Up' <=> Up,
         parent' = "return" <=> parent = "return"
  PROVE  IInv'
<1>1. SignalTypes'
  BY DEF IInv, SignalTypes, Handles, signalVars
<1>2. Due' = Due
  BY DEF Due, signalVars
<1>3. ZombiesAreMergedSignals'
  BY <1>2, FiniteZombies DEF IInv, ZombiesAreMergedSignals, Handles, Up
<1>4. QED
  BY <1>1, <1>3 DEF IInv

LEMMA GoingKeeps ==
  ASSUME IInv, NEW p \in Procs, NEW l \in States \ {"zombie"}, proc[p] # "zombie",
         ChildGoes(p, l), UNCHANGED <<program, parent>>
  PROVE  IInv'
<1>1. proc' \in [Procs -> States] /\ Zombies' = Zombies
  BY ZombiesAfter DEF ChildGoes, IInv
<1>2. QED
  BY <1>1, Undisturbed DEF ChildGoes, Up

\* A child that ends leaves a zombie and a signal, pending or merged.
LEMMA EndingKeeps ==
  ASSUME IInv, NEW p \in Procs, proc[p] # "zombie", Ends(p), UNCHANGED <<program, parent>>
  PROVE  IInv'
<1>1. SignalTypes
  BY DEF IInv
<1> DEFINE l == IF Up THEN "zombie" ELSE "none"
<1>2. l \in States /\ proc' = [proc EXCEPT ![p] = l]
  BY DEF Ends, States
<1>3. /\ proc' \in [Procs -> States]
      /\ Up => Cardinality(Zombies') = Cardinality(Zombies) + 1
  BY <1>1, <1>2, ZombiesAfter
<1>4. SignalTypes'
  BY <1>1, <1>3 DEF SignalTypes, Ends, Up, Handles
<1>5. (Up /\ Handles) => Due' = Due + 1
  <2> SUFFICES ASSUME Up, Handles PROVE Due' = Due + 1
    OBVIOUS
  <2>1. pending' /\ handling' = handling /\ lost' = IF pending THEN lost + 1 ELSE lost
    BY DEF Ends
  <2>2. QED
    BY <1>1, <2>1 DEF Due, SignalTypes
<1>6. Due \in Int /\ Cardinality(Zombies) \in Int
  BY <1>1, FiniteZombies DEF Due, SignalTypes
<1>7. ZombiesAreMergedSignals'
  BY <1>3, <1>5, <1>6 DEF IInv, ZombiesAreMergedSignals, Up, Handles
<1>8. QED
  BY <1>4, <1>7 DEF IInv

LEMMA ParentEndingKeeps == ASSUME IInv, ParentEnds PROVE IInv'
<1>1. proc' \in [Procs -> States]
  BY DEF ParentEnds, IInv, SignalTypes, States
<1>2. QED
  BY <1>1 DEF ParentEnds, IInv, SignalTypes, ZombiesAreMergedSignals, Up

-----------------------------------------------------------------------------
(* The invariant *)

LEMMA InitIInv == Init => IInv
<1> SUFFICES ASSUME Init PROVE IInv
  OBVIOUS
<1>1. SignalTypes
  BY ConstantsAssumption DEF Init, SignalTypes, States
<1>2. Zombies = {} /\ Due = 0
  BY DEF Init, Zombies, Due
<1>3. QED
  BY <1>1, <1>2, FS_EmptySet DEF IInv, ZombiesAreMergedSignals

LEMMA ClientSteps ==
  ASSUME IInv, NEW c \in Conns, Connect(c) \/ Ask(c) \/ Hangup(c) \/ Reset(c) \/ BackgroundEnds(c)
  PROVE  IInv'
<1>1. UNCHANGED <<program, signalVars, proc, parent>>
  BY DEF Connect, Ask, Hangup, Reset, BackgroundEnds, Client, signalVars, parentVars
<1>2. QED
  BY <1>1, Undisturbed DEF Zombies, Up, IInv, SignalTypes

LEMMA HandlerSteps == ASSUME IInv, Signalled \/ HandlerWait PROVE IInv'
<1>1. SignalTypes /\ Cardinality(Zombies) \in Nat
  BY FiniteZombies DEF IInv
<1>2. CASE Signalled
  <2>1. Due' = Due /\ Zombies' = Zombies
    BY <1>1, <1>2 DEF Signalled, Due, Zombies, SignalTypes
  <2>2. SignalTypes'
    BY <1>1, <1>2 DEF Signalled, SignalTypes, Up, Handles, parentVars
  <2>3. QED
    BY <1>2, <2>1, <2>2 DEF IInv, ZombiesAreMergedSignals, Signalled, Up, Handles, parentVars
<1>3. CASE HandlerWait
  <2>1. UNCHANGED <<program, parent, pending, lost>> /\ handling' = FALSE /\ handling
    BY <1>3 DEF HandlerWait, WaitsOnce, parentVars
  <2>2. Due' = Due - 1
    BY <1>1, <2>1 DEF Due, SignalTypes
  <2>3. Due' \in Nat
    BY <1>1, <2>1 DEF Due, SignalTypes
  <2>4. ASSUME NEW p \in Zombies, Reap(p) PROVE IInv'
    <3>1. p \in Procs /\ proc[p] = "zombie" /\ "none" \in States
      BY DEF Zombies, States
    <3>2. proc' \in [Procs -> States] /\ Cardinality(Zombies') = Cardinality(Zombies) - 1
      BY <1>1, <2>4, <3>1, ZombiesAfter DEF Reap
    <3>3. SignalTypes'
      BY <1>1, <2>1, <3>2 DEF SignalTypes, Up, Handles
    <3>4. Due \in Int
      BY <1>1 DEF Due, SignalTypes
    <3>5. ZombiesAreMergedSignals'
      BY <1>1, <2>1, <2>2, <3>2, <3>4 DEF IInv, ZombiesAreMergedSignals, Up, Handles
    <3>6. QED
      BY <3>3, <3>5 DEF IInv
  \* A wait that finds no child: main has taken the one it was called for.
  <2>5. ASSUME NoChildren, UNCHANGED proc PROVE IInv'
    <3>1. Zombies = {} /\ Zombies' = {}
      BY <2>5 DEF NoChildren, Zombies
    <3>2. Cardinality(Zombies) = 0 /\ Cardinality(Zombies') = 0
      BY <3>1, FS_EmptySet
    <3>3. SignalTypes'
      BY <1>1, <2>1, <2>5 DEF SignalTypes, Up, Handles
    <3>4. Due # 0 /\ Due \in Nat
      BY <1>1, <2>1 DEF Due, SignalTypes
    <3>5. ZombiesAreMergedSignals'
      BY <2>1, <2>3, <3>2, <3>4 DEF IInv, ZombiesAreMergedSignals, Up, Handles
    <3>6. QED
      BY <3>3, <3>5 DEF IInv
  <2>6. QED
    BY <1>3, <2>4, <2>5 DEF HandlerWait
<1>4. QED
  BY <1>2, <1>3

LEMMA MainSteps ==
  ASSUME IInv,
         Accept \/ AcceptFails \/ AcceptFailsAndExits \/ Greet \/ GreetFails \/ GreetSigPipe
         \/ Fork \/ ForkFails \/ ForkFailsAndExits \/ Close
  PROVE  IInv'
<1>1. SignalTypes
  BY DEF IInv
<1>2. CASE Accept \/ AcceptFails \/ Greet \/ GreetFails \/ ForkFails \/ Close
  <2>1. /\ UNCHANGED <<program, signalVars, proc>> /\ Up /\ Up' /\ "return" \notin {parent, parent'}
    BY <1>2
    DEF Accept, AcceptFails, Greet, GreetFails, ForkFails, Close, Parent, ParentSame, Up, signalVars
  <2>2. QED
    BY <1>1, <2>1, Undisturbed DEF Zombies, SignalTypes
<1>3. CASE AcceptFailsAndExits \/ GreetSigPipe \/ ForkFailsAndExits
  BY <1>3, ParentEndingKeeps DEF AcceptFailsAndExits, GreetSigPipe, ForkFailsAndExits
<1>4. CASE Fork
  <2>1. PICK p \in Procs : proc[p] = "none" /\ proc' = [proc EXCEPT ![p] = "recv"]
    BY <1>4 DEF Fork
  <2>2. proc' \in [Procs -> States] /\ Zombies' = Zombies
    BY <1>1, <2>1, ZombiesAfter DEF States
  <2>3. UNCHANGED <<program, signalVars>> /\ Up /\ Up' /\ "return" \notin {parent, parent'}
    BY <1>4 DEF Fork, Parent, ParentSame, Up, signalVars
  <2>4. QED
    BY <2>2, <2>3, Undisturbed
<1>5. QED
  BY <1>2, <1>3, <1>4

LEMMA HttpMainSteps ==
  ASSUME IInv, ForkWorker \/ WorkersForked \/ MainWait \/ Return
  PROVE  IInv'
<1>1. SignalTypes /\ Cardinality(Zombies) \in Nat
  BY FiniteZombies DEF IInv
<1>2. CASE ForkWorker
  <2>1. UNCHANGED <<program, signalVars, parent>>
    BY <1>2 DEF ForkWorker, HttpSame, signalVars
  <2>2. proc' \in [Procs -> States] /\ Zombies' = Zombies
    <3>1. ASSUME NEW p \in Procs, proc[p] = "none", proc' = [proc EXCEPT ![p] = "accept"]
          PROVE  proc' \in [Procs -> States] /\ Zombies' = Zombies
      BY <1>1, <3>1, ZombiesAfter DEF States
    <3>2. ASSUME UNCHANGED proc PROVE proc' \in [Procs -> States] /\ Zombies' = Zombies
      BY <1>1, <3>2 DEF Zombies, SignalTypes
    <3>3. QED
      BY <1>2, <3>1, <3>2 DEF ForkWorker
  <2>3. QED
    BY <2>1, <2>2, Undisturbed DEF Up
<1>3. CASE WorkersForked
  <2>1. UNCHANGED <<program, signalVars, proc>> /\ Up /\ Up' /\ "return" \notin {parent, parent'}
    BY <1>3 DEF WorkersForked, HttpSame, Http, Up, signalVars
  <2>2. QED
    BY <1>1, <2>1, Undisturbed DEF Zombies, SignalTypes
<1>4. CASE MainWait
  <2>1. /\ UNCHANGED <<program, handling, pending, lost>> /\ Up /\ Up'
        /\ parent = "wait" /\ parent' = "return" /\ program = "http"
    BY <1>4 DEF MainWait, HttpSame, Http, Up, signalVars
  <2>2. Due' = Due /\ Due \in Nat
    BY <1>1, <2>1 DEF Due, SignalTypes
  <2>3. proc' \in [Procs -> States] /\ Cardinality(Zombies') <= Cardinality(Zombies)
    <3>1. ASSUME NEW p \in Zombies, Reap(p)
          PROVE  proc' \in [Procs -> States] /\ Cardinality(Zombies') <= Cardinality(Zombies)
      <4>1. p \in Procs /\ proc[p] = "zombie" /\ "none" \in States
        BY DEF Zombies, States
      <4>2. proc' \in [Procs -> States] /\ Cardinality(Zombies') = Cardinality(Zombies) - 1
        BY <1>1, <3>1, <4>1, ZombiesAfter DEF Reap
      <4>3. QED
        BY <1>1, <4>2
    <3>2. ASSUME UNCHANGED proc
          PROVE  proc' \in [Procs -> States] /\ Cardinality(Zombies') <= Cardinality(Zombies)
      BY <1>1, <3>2 DEF Zombies, SignalTypes
    <3>3. QED
      BY <1>4, <3>1, <3>2 DEF MainWait
  <2>4. Cardinality(Zombies') \in Nat
    <3>1. Zombies' \in SUBSET Procs
      BY DEF Zombies
    <3>2. QED
      BY <3>1, FS_Subset, FS_CardinalityType, ConstantsAssumption
  <2>5. SignalTypes'
    BY <1>1, <2>1, <2>3 DEF SignalTypes, Up, Handles
  <2>6. ZombiesAreMergedSignals'
    BY <1>1, <2>1, <2>2, <2>3, <2>4 DEF IInv, ZombiesAreMergedSignals, Handles
  <2>7. QED
    BY <2>5, <2>6 DEF IInv
<1>5. CASE Return
  BY <1>5, ParentEndingKeeps DEF Return
<1>6. QED
  BY <1>2, <1>3, <1>4, <1>5

LEMMA ChildrenSteps == ASSUME IInv, NEW p \in Procs, ChildSteps(p) PROVE IInv'
<1>1. SignalTypes
  BY DEF IInv
<1>2. CASE WorkerAccept(p)
  BY <1>2, GoingKeeps DEF WorkerAccept, Child, parentVars, States
<1>3. CASE Hear(p)
  BY <1>3, GoingKeeps DEF Hear, Child, parentVars, States
<1>4. CASE HearEnd(p)
  BY <1>4, EndingKeeps DEF HearEnd, Over, InError, AtEnd, Child, parentVars
<1>5. CASE HearNothing(p)
  BY <1>5, GoingKeeps DEF HearNothing, AtEnd, Child, parentVars, States
<1>6. CASE HearLeak(p)
  BY <1>6, GoingKeeps DEF HearLeak, InError, AtEnd, Child, parentVars, States
<1>7. CASE Answer(p)
  <2>1. NextAfterAnswer \subseteq States \ {"zombie"}
    BY <1>1 DEF NextAfterAnswer, SignalTypes, AllPrograms, States
  <2>2. PICK l \in NextAfterAnswer : ChildGoes(p, l)
    BY <1>7 DEF Answer
  <2>3. QED
    BY <1>7, <2>1, <2>2, GoingKeeps DEF Answer, Child, parentVars
<1>8. CASE AnswerAgain(p)
  BY <1>8, GoingKeeps DEF AnswerAgain, Child, parentVars, States
<1>9. CASE Content(p)
  BY <1>9, GoingKeeps DEF Content, Child, parentVars, States
<1>10. CASE ChildSigPipe(p)
  BY <1>10, EndingKeeps DEF ChildSigPipe, Child, parentVars
<1>11. CASE NoFile(p)
  BY <1>11, EndingKeeps DEF NoFile, Child, parentVars
<1>12. CASE CommandEnds(p)
  BY <1>12, GoingKeeps DEF CommandEnds, Child, parentVars, States
<1>13. CASE CommandStays(p)
  <2>1. /\ proc[p] = "system" /\ proc' = [proc EXCEPT ![p] = "answer"]
        /\ UNCHANGED <<program, parent, signalVars>>
    BY <1>13 DEF CommandStays, Child, parentVars
  <2>2. proc' \in [Procs -> States] /\ Zombies' = Zombies
    BY <1>1, <2>1, ZombiesAfter DEF States
  <2>3. QED
    BY <2>1, <2>2, Undisturbed DEF Up
<1>14. QED
  BY <1>2, <1>3, <1>4, <1>5, <1>6, <1>7, <1>8, <1>9, <1>10, <1>11, <1>12, <1>13 DEF ChildSteps

LEMMA NextIInv == IInv /\ [Next]_vars => IInv'
<1> SUFFICES ASSUME IInv, [Next]_vars PROVE IInv'
  OBVIOUS
<1>1. CASE UNCHANGED vars
  <2>1. UNCHANGED <<program, signalVars, proc, parent>>
    BY <1>1 DEF vars, signalVars, parentVars
  <2>2. QED
    BY <2>1, Undisturbed DEF Zombies, Up, IInv, SignalTypes
<1>2. QED
  BY <1>1, ClientSteps, HandlerSteps, MainSteps, HttpMainSteps, ChildrenSteps
  DEF Next, ParentSteps

LEMMA Invariant == Spec => []IInv
BY InitIInv, NextIInv, PTL DEF Spec

-----------------------------------------------------------------------------
\* The zombies are as many as the signals that are pending, being handled or merged
\* with one pending (signalHandler of telnet_server.c:15 and http_server.c:15).
THEOREM ZombiesAreCounted == Spec => []ZombiesAreMergedSignals
<1>1. IInv => ZombiesAreMergedSignals
  BY DEF IInv
<1>2. QED
  BY <1>1, Invariant, PTL

\* The wait in telnet's handler always finds a zombie, so that it never holds up the
\* accept that the signal came in (telnet_server.c:17, 54).
HandlerFindsZombie == (program = "telnet" /\ handling) => Zombies # {}
THEOREM HandlerNeverBlocks == Spec => []HandlerFindsZombie
<1>1. IInv => HandlerFindsZombie
  <2> SUFFICES ASSUME IInv, program = "telnet", handling PROVE Zombies # {}
    BY DEF HandlerFindsZombie
  <2>1. Up /\ Handles /\ parent # "return"
    BY DEF IInv, SignalTypes
  <2>2. Cardinality(Zombies) = Due
    BY <2>1 DEF IInv, ZombiesAreMergedSignals
  <2>3. Due # 0
    BY DEF IInv, SignalTypes, Due
  <2>4. QED
    BY <2>2, <2>3, FS_EmptySet
<1>2. QED
  BY <1>1, Invariant, PTL
=============================================================================
