-------------------------- MODULE SharedOutputProofs --------------------------
(***************************************************************************)
(* Theorems about the threads of telnet_server.c, for any number of        *)
(* threads, users, lines and blocks of output.  Logins and Outputs are the *)
(* inductive invariants of the two properties of SharedOutputProps: where  *)
(* strtok's place is during a login that no other thread has disturbed,    *)
(* and what out.txt can hold while a thread may yet read it.               *)
(***************************************************************************)
EXTENDS SharedOutputProps, TLAPS

Pcs == {"recv", "pass", "check", "second", "system", "write", "fopen", "fread", "send"}
Commanding == {"system", "write", "fopen", "fread", "send"}

Types ==
  /\ up \in BOOLEAN /\ lines \in Nat /\ pc \in [Threads -> Pcs]
  /\ mixed \in [Threads -> BOOLEAN] /\ failed \in [Threads -> BOOLEAN]

LoginTypes ==
  /\ user \in [Threads -> Tokens] /\ given \in [Threads -> Tokens]
  /\ pass \in [Threads -> Tokens \cup {Alien}] /\ k \in [Threads -> Nat \ {0}]
  /\ accepted \in [Threads -> BOOLEAN] /\ rest \in Tokens

\* A login that nobody has disturbed: strtok's place is in the thread's own buffer, and
\* the loop over the lines has not passed the user's.
Undisturbed(t) == pc[t] \in LoggingIn /\ ~mixed[t]
Place(t) ==
  /\ save = t
  /\ pc[t] = "pass" => rest = given[t]
  /\ pc[t] # "pass" => pass[t] = given[t]
  /\ pc[t] = "second" => user[t] = k[t] /\ rest = k[t] /\ k[t] \in User
  /\ (pc[t] = "check" /\ user[t] \in User /\ given[t] = user[t]) => k[t] <= user[t]
Logins ==
  /\ Types /\ LoginTypes /\ LoginHonest
  /\ \A t \in Threads :
       /\ Undisturbed(t) => Place(t)
       /\ pc[t] # "recv" => ~accepted[t]
       /\ pc[t] \in Commanding => user[t] = Null

\* The command's numbers, and what may be in out.txt while t may yet read it: all that
\* t wrote, if no command ran beside its own.
OutputTypes ==
  /\ cmd \in [Threads -> Nat] /\ left \in [Threads -> Nat] /\ at \in [Threads -> Nat \ {0}]
  /\ behind \subseteq [cmd : Nat, left : Nat, at : Nat \ {0}] /\ file \in Seq(Nat)
  /\ DOMAIN met = Threads /\ DOMAIN text = Threads /\ error \in [Threads -> BOOLEAN]
Numbered ==
  \A t \in Threads :
    /\ cmd[t] <= lines
    /\ pc[t] \in Commanding => cmd[t] # 0
    /\ pc[t] \in LoggingIn => cmd[t] = 0
    /\ \A u \in Threads : u # t => cmd[t] # cmd[u] \/ cmd[t] = 0
Own(t) == [p \in 1..at[t] - 1 |-> cmd[t]]
Taken(t) == [p \in {q \in 1..MaxRead : q < at[t]} |-> cmd[t]]
\* What ConcurrentOutput says of one thread.
Faithful(t) ==
  /\ ~failed[t] => \A p \in DOMAIN text[t] : text[t][p] \in {cmd[t]} \cup met[t]
  /\ (Answered(t) /\ met[t] = {}) => text[t] = Taken(t) /\ (error[t] <=> at[t] = 1)
Readable(t) ==
  /\ \A u \in Writing : cmd[u] \in {cmd[t]} \cup met[t]
  /\ \A b \in behind : b.cmd \in {cmd[t]} \cup met[t]
  /\ \A p \in DOMAIN file : file[p] \in {0, cmd[t]} \cup met[t]
  /\ met[t] = {} => file = Own(t) /\ behind = {}
  /\ (met[t] = {} /\ pc[t] = "send") => text[t] = Taken(t)
Outputs ==
  /\ Types /\ OutputTypes /\ Numbered /\ \A t \in Threads : Faithful(t)
  /\ \A t \in Threads : pc[t] = "system" => at[t] = 1 /\ DOMAIN text[t] = {}
  /\ \A t \in Looking : ~failed[t] => Readable(t)

-----------------------------------------------------------------------------
(* Logins is inductive *)

LEMMA InitLogins == Init => Logins
<1> SUFFICES ASSUME Init PROVE Logins
  OBVIOUS
<1>1. Types /\ LoginTypes
  BY ConstantsAssumption DEF Init, Types, LoginTypes, Pcs, Tokens
<1>2. QED
  BY <1>1 DEF Init, Logins, LoginHonest, Undisturbed, LoggingIn, Commanding, User, Null

\* Steps outside a login, that receive no line.
LEMMA LoginsKept ==
  ASSUME Logins, NEW t \in Threads, UNCHANGED <<lines, loginVars>>, up' \in BOOLEAN,
         NEW l \in Pcs \ LoggingIn, pc[t] \notin LoggingIn, pc' = [pc EXCEPT ![t] = l],
         failed' \in [Threads -> BOOLEAN], \A u \in Threads : u # t => failed'[u] = failed[u],
         pc[t] \in Commanding
  PROVE  Logins'
<1> USE DEF Logins, Types, LoginTypes, loginVars
<1>1. Types' /\ LoginTypes'
  OBVIOUS
<1>2. \A u \in Threads : Undisturbed(u)' <=> Undisturbed(u)
  BY DEF Undisturbed
<1>3. \A u \in Threads : Undisturbed(u) => Place(u)'
  BY DEF Undisturbed, Place, LoggingIn
<1>4. user[t] \notin User
  BY DEF Null, User
<1>5. LoginHonest'
  BY <1>4 DEF LoginHonest, Commanding
<1>6. QED
  BY <1>1, <1>2, <1>3, <1>5 DEF Commanding

LEMMA Calls ==
  ASSUME Types, NEW t \in Threads, NEW place, NEW token, Strtok(t, place, token)
  PROVE  /\ mixed' \in [Threads -> BOOLEAN] /\ mixed'[t] = mixed[t]
         /\ \A u \in Threads \ {t} : mixed'[u] = (mixed[u] \/ pc[u] \in LoggingIn)
<1>1. \A u \in Threads : mixed'[u] \in BOOLEAN
  BY DEF Strtok, Types
<1>2. QED
  BY <1>1 DEF Strtok, Types

LEMMA LoginsNext == Logins /\ [Next]_vars => Logins'
<1> SUFFICES ASSUME Logins, [Next]_vars PROVE Logins'
  OBVIOUS
<1> USE DEF Logins, Types, LoginTypes
<1>1. ASSUME NEW t \in Threads, UserName(t) PROVE Logins'
  <2>1. PICK name \in Tokens, word \in Tokens :
          /\ user' = [user EXCEPT ![t] = name] /\ given' = [given EXCEPT ![t] = word]
          /\ save' = t /\ rest' = word
    BY <1>1 DEF UserName
  <2>2. Types' /\ LoginTypes'
    BY <1>1, <2>1 DEF UserName, Receive, Pcs, Tokens
  <2>3. /\ pc'[t] = "pass" /\ ~accepted'[t]
        /\ \A u \in Threads \ {t} :
             /\ pc'[u] = pc[u] /\ accepted'[u] = accepted[u] /\ failed'[u] = failed[u]
             /\ user'[u] = user[u] /\ given'[u] = given[u]
             /\ mixed'[u] = (mixed[u] \/ pc[u] \in LoggingIn)
    BY <1>1, <2>1 DEF UserName, Receive
  <2>4. LoginHonest'
    BY <2>2, <2>3 DEF LoginHonest
  <2>5. \A u \in Threads : Undisturbed(u)' => Place(u)'
    BY <2>1, <2>2, <2>3 DEF Undisturbed, Place
  <2>6. QED
    BY <2>2, <2>3, <2>4, <2>5 DEF Commanding
<1>2. ASSUME NEW t \in Threads, Password(t) PROVE Logins'
  <2>1. PICK token \in Found(t) : pass' = [pass EXCEPT ![t] = token]
    BY <1>2 DEF Password
  <2>2. Types' /\ LoginTypes'
    <3>1. token \in Tokens \cup {Alien} /\ Null \in Tokens
      BY DEF Found, Tokens
    <3>2. mixed' \in [Threads -> BOOLEAN]
      BY <1>2, Calls DEF Password
    <3>3. /\ pc' \in [Threads -> Pcs] /\ failed' \in [Threads -> BOOLEAN]
          /\ UNCHANGED <<up, lines, user, given, accepted>>
      BY <1>2 DEF Password, Goto, Pcs
    <3>4. /\ pass' \in [Threads -> Tokens \cup {Alien}] /\ k' \in [Threads -> Nat \ {0}]
          /\ rest' \in Tokens
      BY <1>2, <2>1, <3>1 DEF Password, Strtok
    <3>5. QED
      BY <3>2, <3>3, <3>4
  <2>3. \A u \in Threads \ {t} :
          /\ pc'[u] = pc[u] /\ pass'[u] = pass[u] /\ k'[u] = k[u] /\ accepted'[u] = accepted[u]
          /\ failed'[u] = failed[u] /\ mixed'[u] = (mixed[u] \/ pc[u] \in LoggingIn)
    BY <1>2, <2>1 DEF Password, Strtok, Goto, Login
  <2>4. \A u \in Threads \ {t} : ~Undisturbed(u)'
    BY <2>3 DEF Undisturbed
  <2>5. /\ pc[t] = "pass" /\ pc'[t] \in {"check", "recv"} /\ (pc'[t] = "recv" => failed'[t])
        /\ save' = save /\ pass'[t] = token /\ k'[t] = 1 /\ mixed'[t] = mixed[t]
        /\ UNCHANGED <<user, given, accepted>>
    BY <1>2, <2>1, Calls DEF Password, Strtok, Goto, At
  <2>6. Undisturbed(t)' => Place(t)'
    <3>1. SUFFICES ASSUME ~mixed[t], pc'[t] = "check" PROVE Place(t)'
      BY <2>5 DEF Undisturbed, LoggingIn
    <3>2. save = t /\ rest = given[t]
      BY <2>5, <3>1 DEF Undisturbed, Place, LoggingIn
    <3>3. QED
      BY <2>2, <2>5, <3>1, <3>2 DEF Place, Found, User
  <2>7. LoginHonest'
    BY <2>2, <2>3, <2>5 DEF LoginHonest
  <2>8. QED
    BY <2>2, <2>3, <2>4, <2>5, <2>6, <2>7 DEF Commanding
<1>3. ASSUME NEW t \in Threads, NextLine(t) PROVE Logins'
  <2>1. k[t] \in User /\ k[t] \in Tokens
    BY <1>3 DEF NextLine, Tokens
  <2>2. Types' /\ LoginTypes'
    BY <1>3, <2>1, Calls DEF NextLine, Strtok, Goto, Pcs, Login
  <2>3. \A u \in Threads \ {t} :
          /\ pc'[u] = pc[u] /\ pass'[u] = pass[u] /\ k'[u] = k[u] /\ accepted'[u] = accepted[u]
          /\ failed'[u] = failed[u] /\ mixed'[u] = (mixed[u] \/ pc[u] \in LoggingIn)
    BY <1>3, <2>1 DEF NextLine, Strtok, Goto, Login
  <2>4. \A u \in Threads \ {t} : ~Undisturbed(u)'
    BY <2>3 DEF Undisturbed
  <2>5. Undisturbed(t)' => Place(t)'
    <3>1. /\ pc[t] = "check" /\ save' = t /\ rest' = k[t] /\ user[t] \in Tokens
          /\ mixed'[t] = mixed[t] /\ UNCHANGED <<user, pass, given>>
          /\ \/ pc'[t] = "second" /\ k' = k /\ user[t] = k[t]
             \/ pc'[t] = "check" /\ k'[t] = k[t] + 1 /\ user[t] # k[t]
      BY <1>3, Calls DEF NextLine, Strtok, Goto, At
    <3>2. ~mixed[t] =>
            /\ pass[t] = given[t]
            /\ (user[t] \in User /\ given[t] = user[t]) => k[t] <= user[t]
      BY <3>1 DEF Undisturbed, Place, LoggingIn
    <3>3. QED
      BY <2>1, <2>2, <3>1, <3>2 DEF Undisturbed, Place, User
  <2>6. LoginHonest'
    BY <1>3, <2>1, <2>2, <2>3 DEF LoginHonest, NextLine, Strtok, Goto, At
  <2>7. QED
    BY <1>3, <2>2, <2>3, <2>4, <2>5, <2>6 DEF NextLine, Goto, At, Commanding
<1>4. ASSUME NEW t \in Threads, NoMoreLines(t) PROVE Logins'
  <2>1. Types' /\ LoginTypes'
    BY <1>4 DEF NoMoreLines, Goto, Pcs, Login, loginVars
  \* The loop has passed every line, the user's, too.
  <2>2. ~(Undisturbed(t) /\ user[t] \in User /\ given[t] = user[t])
    BY <1>4, ConstantsAssumption DEF NoMoreLines, At, Undisturbed, Place, LoggingIn, User
  <2>3. LoginHonest'
    BY <1>4, <2>1, <2>2
    DEF LoginHonest, NoMoreLines, Goto, At, Login, loginVars, Undisturbed, LoggingIn
  <2>4. \A u \in Threads : Undisturbed(u)' => Place(u)'
    BY <1>4, <2>1 DEF Undisturbed, Place, NoMoreLines, Goto, At, loginVars, LoggingIn
  <2>5. QED
    BY <1>4, <2>1, <2>3, <2>4 DEF NoMoreLines, Goto, At, Commanding, loginVars
<1>5. ASSUME NEW t \in Threads, PassLine(t) PROVE Logins'
  <2>1. PICK token \in Found(t), match \in BOOLEAN :
          /\ match \in IF token = Null THEN {FALSE} ELSE Matches(token, pass[t])
          /\ accepted' = [accepted EXCEPT ![t] = match]
          /\ Goto(t, IF match THEN "recv" ELSE "check")
          /\ k' = [k EXCEPT ![t] = IF match THEN @ ELSE @ + 1]
    BY <1>5 DEF PassLine, Matches
  <2>2. Types' /\ LoginTypes'
    <3>1. Null \in Tokens
      BY DEF Tokens
    <3>2. QED
      BY <1>5, <2>1, <3>1, Calls DEF PassLine, Strtok, Goto, Pcs, Login
  <2>3. \A u \in Threads \ {t} :
          /\ pc'[u] = pc[u] /\ pass'[u] = pass[u] /\ k'[u] = k[u] /\ accepted'[u] = accepted[u]
          /\ failed'[u] = failed[u] /\ mixed'[u] = (mixed[u] \/ pc[u] \in LoggingIn)
    BY <1>5, <2>1 DEF PassLine, Strtok, Goto, Login
  <2>4. \A u \in Threads \ {t} : ~Undisturbed(u)'
    BY <2>3 DEF Undisturbed
  \* strtok finds the password in the line, and strcmp compares it to the client's.
  <2>5. ~mixed[t] => (match <=> given[t] = user[t]) /\ user[t] = k[t] /\ user[t] \in User
    <3>1. SUFFICES ASSUME ~mixed[t]
                   PROVE  (match <=> given[t] = user[t]) /\ user[t] = k[t] /\ user[t] \in User
      OBVIOUS
    <3>2. /\ save = t /\ rest = k[t] /\ user[t] = k[t] /\ k[t] \in User
          /\ pass[t] = given[t] /\ given[t] \in Tokens
      BY <1>5, <3>1 DEF PassLine, At, Undisturbed, Place, LoggingIn
    <3>3. token = k[t] /\ Alien \notin {token, given[t]} /\ token # Null
      BY <3>2, ConstantsAssumption DEF Found, User, Null, Alien, Tokens, Wrong
    <3>4. QED
      BY <2>1, <3>2, <3>3 DEF Matches
  <2>6. Undisturbed(t)' => Place(t)'
    <3>1. SUFFICES ASSUME ~mixed[t], ~match PROVE Place(t)'
      BY <1>5, <2>1, <2>2 DEF Undisturbed, PassLine, Strtok, Goto, LoggingIn
    <3>2. save = t /\ pass[t] = given[t] /\ given[t] # user[t]
      BY <1>5, <2>5, <3>1 DEF PassLine, At, Undisturbed, Place, LoggingIn
    <3>3. QED
      BY <1>5, <2>1, <3>1, <3>2 DEF Place, PassLine, Strtok, Goto
  <2>7. LoginHonest'
    BY <1>5, <2>1, <2>2, <2>3, <2>5 DEF LoginHonest, PassLine, Strtok, Goto, At, Login
  <2>8. QED
    BY <1>5, <2>1, <2>2, <2>3, <2>4, <2>6, <2>7 DEF PassLine, Goto, At, Commanding
<1>6. ASSUME NEW t \in Threads, Command(t) PROVE Logins'
  <2>1. Types' /\ LoginTypes'
    <3>1. Null \in Tokens
      BY DEF Tokens
    <3>2. QED
      BY <1>6, <3>1 DEF Command, Receive, Pcs
  <2>2. /\ pc'[t] = "system" /\ user'[t] = Null /\ ~accepted'[t]
        /\ \A u \in Threads \ {t} :
             /\ pc'[u] = pc[u] /\ accepted'[u] = accepted[u] /\ failed'[u] = failed[u]
             /\ user'[u] = user[u] /\ given'[u] = given[u] /\ mixed'[u] = mixed[u]
             /\ pass'[u] = pass[u] /\ k'[u] = k[u]
    BY <1>6 DEF Command, Receive
  <2>3. LoginHonest'
    BY <2>1, <2>2 DEF LoginHonest
  <2>4. \A u \in Threads : Undisturbed(u)' => Place(u)'
    BY <1>6, <2>1, <2>2 DEF Undisturbed, Place, LoggingIn, Command
  <2>5. QED
    BY <2>1, <2>2, <2>3, <2>4 DEF Commanding
<1>7. ASSUME NEW t \in Threads, Write(t) PROVE Logins'
  BY <1>7 DEF Write, loginVars, LoginHonest, Undisturbed, Place
<1>8. ASSUME NEW t \in Threads,
             Shell(t) \/ SystemFails(t) \/ CommandEnds(t) \/ CommandStays(t) \/ Open(t)
             \/ OpenFails(t) \/ Read(t) \/ LooksAtEnd(t)
      PROVE  Logins'
  <2>1. /\ UNCHANGED <<up, lines, loginVars>> /\ pc[t] \in Commanding
        /\ \E l \in Pcs \ LoggingIn : pc' = [pc EXCEPT ![t] = l]
        /\ \/ failed' = failed
           \/ failed' = [failed EXCEPT ![t] = TRUE]
    BY <1>8 DEF Shell, SystemFails, CommandEnds, CommandStays, Open, OpenFails, Read, LooksAtEnd,
                At, Goto, Pcs, LoggingIn, Commanding, loginVars
  <2>2. pc[t] \notin LoggingIn
    BY <2>1 DEF LoggingIn, Commanding
  <2>3. PICK l \in Pcs \ LoggingIn : pc' = [pc EXCEPT ![t] = l]
    BY <2>1
  <2>4. /\ up' \in BOOLEAN /\ failed' \in [Threads -> BOOLEAN]
        /\ \A u \in Threads : u # t => failed'[u] = failed[u]
    BY <2>1
  <2>5. QED
    BY <2>1, <2>2, <2>3, <2>4, LoginsKept
<1>9. CASE SegFault \/ UNCHANGED vars \/ \E b \in behind : WriteBehind(b)
  BY <1>9 DEF SegFault, WriteBehind, vars, loginVars, LoginHonest, Undisturbed, Place
<1>10. QED
  BY <1>1, <1>2, <1>3, <1>4, <1>5, <1>6, <1>7, <1>8, <1>9 DEF Next, Thread

-----------------------------------------------------------------------------
(* Sequences *)

LEMMA EmptySeq == \A S : <<>> \in Seq(S) /\ DOMAIN <<>> = {}
OBVIOUS

LEMMA WrittenIs ==
  ASSUME file \in Seq(Nat), NEW n \in Nat \ {0}, NEW id \in Nat
  PROVE  /\ Written(n, id) \in Seq(Nat)
         /\ \A p \in DOMAIN Written(n, id) :
              Written(n, id)[p] \in {0, id} \cup {file[q] : q \in DOMAIN file}
         /\ n = Len(file) + 1 =>
              Written(n, id) = [p \in 1..n |-> IF p = n THEN id ELSE file[p]]
<1> DEFINE m == IF n > Len(file) THEN n ELSE Len(file)
<1>1. m \in Nat /\ Len(file) \in Nat /\ DOMAIN file = 1..Len(file)
  OBVIOUS
<1>2. /\ DOMAIN Written(n, id) = 1..m
      /\ \A p \in 1..m :
           Written(n, id)[p] = IF p = n THEN id ELSE IF p <= Len(file) THEN file[p] ELSE 0
  BY DEF Written
<1>3. \A p \in 1..m : Written(n, id)[p] \in Nat
  BY <1>1, <1>2
<1>4. Written(n, id) \in [1..m -> Nat]
  BY <1>2, <1>3 DEF Written
<1>5. Written(n, id) \in Seq(Nat)
  BY <1>1, <1>4
<1>6. ASSUME NEW p \in 1..m
      PROVE  Written(n, id)[p] \in {0, id} \cup {file[q] : q \in DOMAIN file}
  <2>1. CASE p = n
    BY <1>2, <2>1
  <2>2. CASE p # n /\ p <= Len(file)
    BY <1>1, <1>2, <2>2
  <2>3. CASE p # n /\ ~(p <= Len(file))
    BY <1>2, <2>3
  <2>4. QED
    BY <2>1, <2>2, <2>3
<1>7. n = Len(file) + 1 => Written(n, id) = [p \in 1..n |-> IF p = n THEN id ELSE file[p]]
  BY <1>1 DEF Written
<1>8. QED
  BY <1>2, <1>5, <1>6, <1>7

-----------------------------------------------------------------------------
(* Outputs is inductive *)

LEMMA OthersFaithful ==
  ASSUME NEW u \in Threads, Faithful(u), pc'[u] = pc[u], cmd'[u] = cmd[u], at'[u] = at[u],
         text'[u] = text[u], error'[u] = error[u], failed'[u] = failed[u],
         met[u] \subseteq met'[u], pc[u] = "recv" => met'[u] = met[u]
  PROVE  Faithful(u)'
<1>1. Taken(u)' = Taken(u) /\ (Answered(u)' <=> Answered(u))
  BY DEF Taken, Answered
<1>2. QED
  BY <1>1 DEF Faithful, Answered

LEMMA InitOutputs == Init => Outputs
<1> SUFFICES ASSUME Init PROVE Outputs
  OBVIOUS
<1>1. Types /\ OutputTypes
  BY EmptySeq DEF Init, Types, OutputTypes, Pcs
<1>2. Looking = {}
  BY DEF Init, Looking
<1>3. Numbered /\ \A t \in Threads : Faithful(t)
  BY EmptySeq DEF Init, Faithful, Answered, Numbered, Commanding, LoggingIn
<1>4. QED
  BY <1>1, <1>2, <1>3 DEF Init, Outputs

\* Steps of a login.
LEMMA OutputsKept ==
  ASSUME Outputs, NEW t \in Threads, UNCHANGED <<up, lines, outputVars>>,
         NEW l \in {"recv", "check", "second"}, pc[t] \in LoggingIn,
         pc' = [pc EXCEPT ![t] = l], Types', failed[t] => failed'[t],
         \A u \in Threads : u # t => failed'[u] = failed[u]
  PROVE  Outputs'
<1> USE DEF Outputs, Types, OutputTypes, outputVars
<1>1. OutputTypes' /\ Numbered'
  BY DEF Numbered, Commanding, LoggingIn
<1>2. cmd[t] = 0
  BY DEF Numbered
<1>3. \A u \in Threads : Faithful(u)'
  BY <1>2, OthersFaithful DEF Faithful, Answered
<1>4. Looking' = Looking /\ Writing' = Writing /\ t \notin Looking
  BY DEF Looking, Writing, LoggingIn
<1>5. \A u \in Looking : u \in Threads /\ u # t
  BY <1>4 DEF Looking
<1>6. \A u \in Looking : Readable(u)' <=> Readable(u)
  <2> SUFFICES ASSUME NEW u \in Looking PROVE Readable(u)' <=> Readable(u)
    OBVIOUS
  <2>1. pc'[u] = pc[u]
    BY <1>5
  <2>2. UNCHANGED <<cmd, met, behind, file, text>> /\ Own(u)' = Own(u) /\ Taken(u)' = Taken(u)
    BY DEF Own, Taken
  <2>3. QED
    BY <1>4, <2>1, <2>2 DEF Readable
<1>7. QED
  BY <1>1, <1>3, <1>4, <1>5, <1>6

\* Steps that receive a line: t is neither writing nor looking.
LEMMA OutputsReceived ==
  ASSUME Outputs, NEW t \in Threads, NEW l \in {"pass", "system"}, Receive(t, l), Types',
         cmd' = [cmd EXCEPT ![t] = IF l = "system" THEN lines' ELSE 0],
         left' \in [Threads -> Nat]
  PROVE  Outputs'
<1> USE DEF Outputs, Types, OutputTypes
<1>1. /\ pc[t] = "recv" /\ pc'[t] = l /\ lines' = lines + 1 /\ UNCHANGED <<behind, file>>
      /\ text'[t] = <<>> /\ at'[t] = 1 /\ cmd'[t] = IF l = "system" THEN lines' ELSE 0
      /\ \A u \in Threads \ {t} :
           /\ pc'[u] = pc[u] /\ cmd'[u] = cmd[u] /\ at'[u] = at[u] /\ met'[u] = met[u]
           /\ text'[u] = text[u] /\ error'[u] = error[u] /\ failed'[u] = failed[u]
  BY DEF Receive, At
<1>2. OutputTypes'
  <2>1. lines' \in Nat /\ cmd' \in [Threads -> Nat] /\ at' \in [Threads -> Nat \ {0}]
    BY <1>1 DEF Receive
  <2>2. DOMAIN met' = Threads /\ DOMAIN text' = Threads /\ error' \in [Threads -> BOOLEAN]
    BY DEF Receive
  <2>3. QED
    BY <1>1, <2>1, <2>2
<1>3. Numbered'
  BY <1>1 DEF Numbered, Commanding, LoggingIn
<1>4. \A u \in Threads : Faithful(u)'
  <2>1. Faithful(t)'
    BY <1>1, EmptySeq DEF Faithful, Answered
  <2>2. \A u \in Threads \ {t} : Faithful(u)'
    BY <1>1, OthersFaithful
  <2>3. QED
    BY <2>1, <2>2
<1>5. Looking' = Looking /\ Writing' = Writing /\ t \notin Looking /\ t \notin Writing
  BY <1>1 DEF Looking, Writing
<1>6. ASSUME NEW u \in Looking PROVE Readable(u)' <=> Readable(u)
  <2>1. u \in Threads \ {t} /\ \A v \in Writing : v \in Threads \ {t}
    BY <1>5 DEF Looking, Writing
  <2>2. Own(u)' = Own(u) /\ Taken(u)' = Taken(u)
    BY <1>1, <2>1 DEF Own, Taken
  <2>3. QED
    BY <1>1, <1>5, <2>1, <2>2 DEF Readable
<1>7. ASSUME NEW u \in Looking', ~failed'[u] PROVE Readable(u)'
  <2>1. u \in Looking /\ u \in Threads \ {t}
    BY <1>5, <1>7 DEF Looking
  <2>2. Readable(u)
    BY <1>1, <1>7, <2>1
  <2>3. QED
    BY <1>6, <2>1, <2>2
<1>8. \A u \in Threads : pc'[u] = "system" => at'[u] = 1 /\ DOMAIN text'[u] = {}
  <2>1. at'[t] = 1 /\ DOMAIN text'[t] = {}
    <3>1. DOMAIN <<>> = {}
      BY EmptySeq
    <3>2. QED
      BY <1>1, <3>1
  <2>2. \A u \in Threads \ {t} : pc'[u] = pc[u] /\ at'[u] = at[u] /\ text'[u] = text[u]
    BY <1>1
  <2>3. QED
    BY <2>1, <2>2
<1>9. QED
  BY <1>2, <1>3, <1>4, <1>7, <1>8

\* Steps of a command that leave the file and the history alone.
LEMMA OutputsRead ==
  ASSUME Outputs, NEW t \in Threads, UNCHANGED <<up, lines, cmd, left, at, behind, file, met>>,
         Types',
         NEW l \in {"recv", "fopen", "fread", "send"}, pc[t] \in Commanding,
         pc' = [pc EXCEPT ![t] = l], l # "recv" => pc[t] # "system" \/ failed'[t],
         failed[t] => failed'[t], \A u \in Threads : u # t => failed'[u] = failed[u],
         DOMAIN text' = Threads, error' \in [Threads -> BOOLEAN],
         \A u \in Threads : u # t => text'[u] = text[u] /\ error'[u] = error[u],
         ~failed'[t] =>
           /\ \A p \in DOMAIN text'[t] : text'[t][p] \in {cmd[t]} \cup met[t]
           /\ met[t] = {} =>
                /\ l = "recv" => text'[t] = Taken(t) /\ (error'[t] <=> at[t] = 1)
                /\ l = "send" => text'[t] = Taken(t)
  PROVE  Outputs'
<1> USE DEF Outputs, Types, OutputTypes
<1>1. OutputTypes' /\ Numbered'
  BY DEF Numbered, Commanding, LoggingIn
<1>2. \A u \in Threads : Faithful(u)'
  <2>1. Taken(t)' = Taken(t)
    BY DEF Taken
  <2>2. Faithful(t)'
    BY <2>1 DEF Faithful, Answered
  <2>3. \A u \in Threads \ {t} : Faithful(u)'
    BY OthersFaithful
  <2>4. QED
    BY <2>2, <2>3
<1>3. /\ \A u \in Writing' : u \in Writing
      /\ \A u \in Looking' : ~failed'[u] => u \in Looking /\ ~failed[u]
  BY DEF Looking, Writing, Commanding
<1>4. ASSUME NEW u \in Looking', ~failed'[u] PROVE Readable(u)'
  <2>1. u \in Threads /\ Readable(u) /\ Own(u)' = Own(u) /\ Taken(u)' = Taken(u)
    BY <1>3, <1>4 DEF Looking, Own, Taken
  <2>2. (met[u] = {} /\ pc'[u] = "send") => text'[u] = Taken(u)
    BY <1>4, <2>1 DEF Readable
  <2>3. QED
    BY <1>3, <2>1, <2>2 DEF Readable
<1>5. QED
  BY <1>1, <1>2, <1>4

\* The command that starts finds the file empty, and meets those that write or are read.
LEMMA ShellKeeps == ASSUME Outputs, NEW t \in Threads, Shell(t), Types' PROVE Outputs'
<1> USE DEF Outputs, Types, OutputTypes
<1>1. /\ pc[t] = "system" /\ pc' = [pc EXCEPT ![t] = "write"] /\ file' = <<>> /\ at[t] = 1
      /\ UNCHANGED <<lines, cmd, left, at, behind, text, error, failed>>
      /\ DOMAIN met' = Threads
      /\ met'[t] = {cmd[v] : v \in Writing \ {t}} \cup {b.cmd : b \in behind}
      /\ \A u \in Threads \ {t} :
           met'[u] = IF u \in Looking THEN met[u] \cup {cmd[t]} ELSE met[u]
  BY DEF Shell, Goto, At, Redirected
<1>2. OutputTypes'
  BY <1>1, EmptySeq
<1>3. Numbered'
  BY <1>1 DEF Numbered, Commanding, LoggingIn
<1>4. Looking' = Looking \cup {t} /\ Writing' = Writing \cup {t}
  BY <1>1 DEF Looking, Writing
<1>5. \A u \in Threads : Faithful(u)'
  <2>1. Faithful(t)'
    BY <1>1 DEF Faithful, Answered
  <2>2. \A u \in Threads \ {t} : pc[u] = "recv" => met'[u] = met[u]
    BY <1>1 DEF Looking
  <2>3. \A u \in Threads \ {t} : Faithful(u)'
    BY <1>1, <2>2, OthersFaithful
  <2>4. QED
    BY <2>1, <2>3
<1>6. Readable(t)'
  <2>1. \A u \in Writing' : cmd'[u] \in {cmd'[t]} \cup met'[t]
    BY <1>1, <1>4
  <2>2. Own(t)' = <<>>
    BY <1>1 DEF Own
  <2>3. (\A b \in behind : b.cmd \in met'[t]) /\ (met'[t] = {} => behind = {})
    <3>1. \A b \in behind : b.cmd \in {c.cmd : c \in behind}
      OBVIOUS
    <3>2. {c.cmd : c \in behind} \subseteq met'[t]
      BY <1>1
    <3>3. QED
      BY <3>1, <3>2
  <2>4. QED
    BY <1>1, <2>1, <2>2, <2>3, EmptySeq DEF Readable
<1>7. ASSUME NEW u \in Looking, u # t, ~failed[u] PROVE Readable(u)'
  <2>1. u \in Threads \ {t} /\ Readable(u)
    BY <1>7 DEF Looking
  <2>2. met'[u] = met[u] \cup {cmd[t]}
    BY <1>1, <1>7, <2>1
  <2>3. \A v \in Writing' : cmd'[v] \in {cmd'[u]} \cup met'[u]
    BY <1>1, <1>4, <2>1, <2>2 DEF Readable
  <2>4. \A b \in behind : b.cmd \in {cmd'[u]} \cup met'[u]
    BY <1>1, <2>1, <2>2 DEF Readable
  <2>5. behind' = behind /\ file' = <<>> /\ met'[u] # {}
    BY <1>1, <2>2
  <2>6. QED
    BY <2>3, <2>4, <2>5, EmptySeq DEF Readable
<1>8. QED
  BY <1>1, <1>2, <1>3, <1>4, <1>5, <1>6, <1>7

\* A block goes to the file that others may be reading: they have met its command.
LEMMA WriteKeeps == ASSUME Outputs, NEW t \in Threads, Write(t), Types' PROVE Outputs'
<1> USE DEF Outputs, Types, OutputTypes
<1>1. /\ pc[t] = "write" /\ file' = Written(at[t], cmd[t]) /\ at' = [at EXCEPT ![t] = @ + 1]
      /\ UNCHANGED <<lines, pc, cmd, behind, text, error, met, failed>> /\ left[t] > 0
      /\ left' = [left EXCEPT ![t] = @ - 1]
  BY DEF Write, At
<1>2. OutputTypes'
  <2>1. file' \in Seq(Nat)
    BY <1>1, WrittenIs
  <2>2. at' \in [Threads -> Nat \ {0}] /\ left' \in [Threads -> Nat]
    BY <1>1
  <2>3. QED
    BY <1>1, <2>1, <2>2
<1>3. Numbered'
  BY <1>1 DEF Numbered
<1>4. Looking' = Looking /\ Writing' = Writing /\ t \in Writing
  BY <1>1 DEF Looking, Writing
<1>5. \A u \in Threads : Faithful(u)'
  <2>1. Faithful(t)'
    BY <1>1 DEF Faithful, Answered
  <2>2. \A u \in Threads \ {t} : Faithful(u)'
    BY <1>1, OthersFaithful
  <2>3. QED
    BY <2>1, <2>2
<1>6. ASSUME NEW u \in Looking, ~failed[u] PROVE Readable(u)'
  <2>1. u \in Threads /\ Readable(u) /\ cmd[t] \in {cmd[u]} \cup met[u]
    BY <1>4, <1>6 DEF Looking, Readable
  <2>2. \A p \in DOMAIN file' : file'[p] \in {0, cmd[u]} \cup met[u]
    <3>1. \A p \in DOMAIN file' : file'[p] \in {0, cmd[t]} \cup {file[q] : q \in DOMAIN file}
      BY <1>1, WrittenIs
    <3>2. QED
      BY <2>1, <3>1 DEF Readable
  <2>3. ASSUME met[u] = {} PROVE u = t
    <3>1. cmd[u] # 0 /\ cmd[t] = cmd[u]
      BY <1>1, <2>1, <2>3 DEF Looking, Numbered, Commanding
    <3>2. QED
      BY <2>1, <3>1 DEF Numbered
  <2>4. ASSUME met[u] = {} PROVE file' = Own(u)'
    <3>1. u = t /\ file = Own(t)
      BY <2>1, <2>3, <2>4 DEF Readable
    <3>2. at[t] \in Nat \ {0} /\ Len(file) + 1 = at[t]
      BY <3>1 DEF Own
    <3>3. file' = [p \in 1..at[t] |-> IF p = at[t] THEN cmd[t] ELSE file[p]]
      BY <1>1, <3>2, WrittenIs
    <3>4. \A p \in 1..at[t] : p # at[t] => file[p] = cmd[t]
      BY <3>1, <3>2 DEF Own
    <3>5. Own(u)' = [p \in 1..at[t] |-> cmd[t]]
      BY <1>1, <3>1, <3>2 DEF Own
    <3>6. QED
      BY <3>3, <3>4, <3>5
  <2>5. (met[u] = {} /\ pc[u] = "send") => FALSE
    BY <1>1, <2>3
  <2>6. QED
    BY <1>1, <1>4, <2>1, <2>2, <2>4, <2>5 DEF Readable
<1>7. QED
  BY <1>1, <1>2, <1>3, <1>4, <1>5, <1>6

\* A command that goes on in the background is counted among those its client met.
LEMMA StaysKeeps == ASSUME Outputs, NEW t \in Threads, CommandStays(t), Types' PROVE Outputs'
<1> USE DEF Outputs, Types, OutputTypes
<1>1. /\ pc[t] = "write" /\ pc' = [pc EXCEPT ![t] = "fopen"]
      /\ behind' = behind \cup {[cmd |-> cmd[t], left |-> left[t], at |-> at[t]]}
      /\ DOMAIN met' = Threads /\ met'[t] = met[t] \cup {cmd[t]}
      /\ \A u \in Threads \ {t} : met'[u] = met[u]
      /\ UNCHANGED <<lines, cmd, left, at, file, text, error, failed>>
  BY DEF CommandStays, Goto, At
<1>2. OutputTypes'
  BY <1>1
<1>3. Numbered'
  BY <1>1 DEF Numbered, Commanding, LoggingIn
<1>4. Looking' = Looking /\ Writing' \subseteq Writing /\ t \in Writing
  BY <1>1 DEF Looking, Writing
<1>5. \A u \in Threads : Faithful(u)'
  <2>1. Faithful(t)'
    BY <1>1 DEF Faithful, Answered
  <2>2. \A u \in Threads \ {t} : Faithful(u)'
    BY <1>1, OthersFaithful
  <2>3. QED
    BY <2>1, <2>2
<1>6. ASSUME NEW u \in Looking, ~failed[u] PROVE Readable(u)'
  <2>1. u \in Threads /\ Readable(u) /\ cmd[t] \in {cmd[u]} \cup met[u]
    BY <1>4, <1>6 DEF Looking, Readable
  <2>2. \A b \in behind' : b.cmd \in {cmd[u]} \cup met[u]
    BY <1>1, <2>1 DEF Readable
  <2>3. met[u] \subseteq met'[u]
    BY <1>1, <2>1
  \* Only the client of the command itself can have met nobody.
  <2>4. met'[u] # {}
    <3>1. CASE u = t
      BY <1>1, <3>1
    <3>2. CASE u # t /\ met[u] = {}
      <4>1. cmd[u] # 0 /\ cmd[t] = cmd[u]
        BY <2>1, <3>2, <1>6 DEF Looking, Numbered, Commanding
      <4>2. QED
        BY <2>1, <3>2, <4>1 DEF Numbered
    <3>3. QED
      BY <2>3, <3>1, <3>2
  <2>5. QED
    BY <1>1, <1>4, <2>1, <2>2, <2>3, <2>4 DEF Readable
<1>7. QED
  BY <1>1, <1>2, <1>3, <1>4, <1>5, <1>6

\* A writer in the background is one that everybody who looks at the file has met.
LEMMA BehindKeeps == ASSUME Outputs, NEW b \in behind, WriteBehind(b), Types' PROVE Outputs'
<1> USE DEF Outputs, Types, OutputTypes
<1>1. /\ file' = Written(b.at, b.cmd)
      /\ \A c \in behind' :
           \/ c \in behind
           \/ c = [cmd |-> b.cmd, left |-> b.left - 1, at |-> b.at + 1] /\ c.left > 0
      /\ UNCHANGED <<lines, pc, cmd, left, at, text, error, met, failed>>
  BY DEF WriteBehind
<1>2. b.cmd \in Nat /\ b.left \in Nat /\ b.at \in Nat \ {0}
  OBVIOUS
<1>3. OutputTypes'
  <2>1. file' \in Seq(Nat)
    BY <1>1, <1>2, WrittenIs
  <2>2. ASSUME NEW c \in behind' PROVE c \in [cmd : Nat, left : Nat, at : Nat \ {0}]
    <3>1. CASE c \in behind
      BY <3>1
    <3>2. CASE c = [cmd |-> b.cmd, left |-> b.left - 1, at |-> b.at + 1] /\ c.left > 0
      <4>1. b.left - 1 \in Nat /\ b.at + 1 \in Nat \ {0}
        BY <1>2, <3>2
      <4>2. QED
        BY <1>2, <3>2, <4>1
    <3>3. QED
      BY <1>1, <2>2, <3>1, <3>2
  <2>3. QED
    BY <1>1, <2>1, <2>2
<1>4. Numbered'
  BY <1>1 DEF Numbered
<1>5. Looking' = Looking /\ Writing' = Writing
  BY <1>1 DEF Looking, Writing
<1>6. \A u \in Threads : Faithful(u)'
  BY <1>1, OthersFaithful
<1>7. ASSUME NEW u \in Looking, ~failed[u] PROVE Readable(u)'
  <2>1. Readable(u) /\ met[u] # {} /\ b.cmd \in {cmd[u]} \cup met[u]
    BY <1>7 DEF Readable
  <2>2. \A c \in behind' : c.cmd \in {cmd[u]} \cup met[u]
    BY <1>1, <2>1 DEF Readable
  <2>3. \A p \in DOMAIN file' : file'[p] \in {0, b.cmd} \cup {file[q] : q \in DOMAIN file}
    BY <1>1, <1>2, WrittenIs
  <2>4. \A p \in DOMAIN file' : file'[p] \in {0, cmd[u]} \cup met[u]
    BY <2>1, <2>3 DEF Readable
  <2>5. QED
    BY <1>1, <1>5, <2>1, <2>2, <2>4 DEF Readable
<1>8. QED
  BY <1>1, <1>3, <1>4, <1>5, <1>6, <1>7

LEMMA OutputsNext == Outputs /\ [Next]_vars /\ Types' => Outputs'
<1> SUFFICES ASSUME Outputs, [Next]_vars, Types' PROVE Outputs'
  OBVIOUS
<1> USE DEF Outputs, Types, OutputTypes
<1>1. ASSUME NEW t \in Threads, UserName(t) PROVE Outputs'
  <2>1. left' \in [Threads -> Nat] /\ Receive(t, "pass") /\ cmd' = [cmd EXCEPT ![t] = 0]
    BY <1>1 DEF UserName
  <2>2. QED
    BY <2>1, OutputsReceived
<1>2. ASSUME NEW t \in Threads, Command(t) PROVE Outputs'
  <2>1. left' \in [Threads -> Nat] /\ Receive(t, "system") /\ cmd' = [cmd EXCEPT ![t] = lines']
    BY <1>2, ConstantsAssumption DEF Command
  <2>2. QED
    BY <2>1, OutputsReceived
<1>3. ASSUME NEW t \in Threads,
             Password(t) \/ NextLine(t) \/ NoMoreLines(t) \/ PassLine(t)
      PROVE  Outputs'
  <2>1. PICK l \in {"recv", "check", "second"} : pc' = [pc EXCEPT ![t] = l]
    BY <1>3 DEF Password, NextLine, NoMoreLines, PassLine, Goto
  <2>2. /\ UNCHANGED <<up, lines, outputVars>> /\ pc[t] \in LoggingIn
        /\ failed[t] => failed'[t]
        /\ \A u \in Threads : u # t => failed'[u] = failed[u]
    BY <1>3 DEF Password, NextLine, NoMoreLines, PassLine, Goto, Login, At, LoggingIn
  <2>3. QED
    BY <2>1, <2>2, OutputsKept
<1>4. ASSUME NEW t \in Threads, SystemFails(t) PROVE Outputs'
  <2>1. /\ pc[t] = "system" /\ pc' = [pc EXCEPT ![t] = "fopen"] /\ UNCHANGED <<up, lines>>
        /\ failed' = [failed EXCEPT ![t] = TRUE] /\ UNCHANGED outputVars
    BY <1>4 DEF SystemFails, Goto, At
  <2>2. QED
    BY <2>1, OutputsRead DEF outputVars, Commanding
<1>5. ASSUME NEW t \in Threads, CommandEnds(t) \/ Open(t) PROVE Outputs'
  <2>1. PICK l \in {"fopen", "fread"} : pc' = [pc EXCEPT ![t] = l]
    BY <1>5 DEF CommandEnds, Open, Goto
  <2>2. /\ pc[t] \in Commanding /\ pc[t] # "system" /\ UNCHANGED <<up, lines, outputVars, failed>>
    BY <1>5 DEF CommandEnds, Open, Goto, At, Commanding
  <2>3. QED
    BY <2>1, <2>2, OutputsRead DEF outputVars, Faithful
<1>6. ASSUME NEW t \in Threads, OpenFails(t) PROVE Outputs'
  <2>1. /\ pc[t] = "fopen" /\ pc' = [pc EXCEPT ![t] = "recv"] /\ UNCHANGED <<up, lines>>
        /\ failed' = [failed EXCEPT ![t] = TRUE] /\ UNCHANGED outputVars
    BY <1>6 DEF OpenFails, Goto, At
  <2>2. QED
    BY <2>1, OutputsRead DEF outputVars, Commanding
<1>7. ASSUME NEW t \in Threads, Read(t) PROVE Outputs'
  <2>1. /\ pc[t] = "fread" /\ pc' = [pc EXCEPT ![t] = "send"]
        /\ text' = [text EXCEPT ![t] = [p \in Beginning(file) |-> file[p]]]
        /\ UNCHANGED <<up, lines, cmd, left, at, behind, file, error, met, failed>>
    BY <1>7 DEF Read, Goto, At
  <2>2. ASSUME ~failed[t]
        PROVE  /\ \A p \in DOMAIN text'[t] : text'[t][p] \in {cmd[t]} \cup met[t]
               /\ met[t] = {} => text'[t] = Taken(t)
    <3>1. Readable(t) /\ cmd[t] # 0
      BY <2>1, <2>2 DEF Looking, Numbered, Commanding
    <3>2. \A p \in Beginning(file) : p \in DOMAIN file /\ file[p] # 0
      <4>1. DOMAIN file = 1..Len(file) /\ Len(file) \in Nat
        OBVIOUS
      <4>2. QED
        BY <4>1 DEF Beginning
    <3>3. ASSUME met[t] = {}
          PROVE  Beginning(file) = {q \in 1..MaxRead : q < at[t]} /\ file = Own(t)
      BY <3>1, <3>3, ConstantsAssumption DEF Readable, Own, Beginning
    <3>4. /\ DOMAIN text'[t] = Beginning(file)
          /\ \A p \in Beginning(file) : text'[t][p] = file[p]
      BY <2>1
    <3>5. \A p \in DOMAIN text'[t] : text'[t][p] \in {cmd[t]} \cup met[t]
      BY <3>1, <3>2, <3>4 DEF Readable
    <3>6. ASSUME met[t] = {} PROVE text'[t] = Taken(t)
      <4>1. \A p \in {q \in 1..MaxRead : q < at[t]} : file[p] = cmd[t]
        BY <3>3, <3>6 DEF Own
      <4>2. QED
        BY <2>1, <3>3, <3>6, <4>1 DEF Taken
    <3>7. QED
      BY <3>5, <3>6
  <2>3. QED
    BY <2>1, <2>2, OutputsRead DEF Commanding
<1>8. ASSUME NEW t \in Threads, LooksAtEnd(t) PROVE Outputs'
  <2>1. /\ pc[t] = "send" /\ pc' = [pc EXCEPT ![t] = "recv"]
        /\ error' = [error EXCEPT ![t] = (file = <<>>)]
        /\ UNCHANGED <<up, lines, cmd, left, at, behind, file, text, met, failed>>
    BY <1>8 DEF LooksAtEnd, NothingWritten, Goto, At
  <2>2. ASSUME ~failed[t], met[t] = {}
        PROVE  text[t] = Taken(t) /\ (error'[t] <=> at[t] = 1)
    <3>1. file = Own(t) /\ text[t] = Taken(t)
      BY <2>1, <2>2 DEF Looking, Readable
    <3>2. file = <<>> <=> Len(file) = 0
      OBVIOUS
    <3>3. Len(file) = at[t] - 1
      BY <3>1 DEF Own
    <3>4. Len(file) = 0 <=> at[t] = 1
      BY <3>3
    <3>5. error'[t] <=> file = <<>>
      BY <2>1
    <3>6. QED
      BY <3>1, <3>2, <3>4, <3>5
  <2>3. QED
    BY <2>1, <2>2, OutputsRead DEF Commanding, Faithful
<1>9. CASE SegFault \/ UNCHANGED vars
  <2>1. UNCHANGED <<lines, pc, outputVars, failed>>
    BY <1>9 DEF SegFault, vars
  <2>2. Looking' = Looking /\ Writing' = Writing
    BY <2>1 DEF Looking, Writing
  <2>3. \A u \in Threads :
          (Faithful(u)' <=> Faithful(u)) /\ (Readable(u)' <=> Readable(u))
    <3> SUFFICES ASSUME NEW u \in Threads
                 PROVE  (Faithful(u)' <=> Faithful(u)) /\ (Readable(u)' <=> Readable(u))
      OBVIOUS
    <3>1. Own(u)' = Own(u) /\ Taken(u)' = Taken(u)
      BY <2>1 DEF outputVars, Own, Taken
    <3>2. Faithful(u)' <=> Faithful(u)
      BY <2>1, <3>1 DEF outputVars, Faithful, Answered
    <3>3. Readable(u)' <=> Readable(u)
      BY <2>1, <2>2, <3>1 DEF outputVars, Readable
    <3>4. QED
      BY <3>1, <3>2, <3>3
  <2>4. QED
    BY <2>1, <2>2, <2>3 DEF outputVars, Numbered, Looking
<1>10. QED
  BY <1>1, <1>2, <1>3, <1>4, <1>5, <1>6, <1>7, <1>8, <1>9, ShellKeeps, WriteKeeps,
     StaysKeeps, BehindKeeps DEF Next, Thread

-----------------------------------------------------------------------------
(* The properties *)

LEMMA Invariant == Spec => [](Logins /\ Outputs)
<1>1. Logins => Types
  BY DEF Logins
<1>2. Logins /\ Outputs /\ [Next]_vars => (Logins /\ Outputs)'
  BY <1>1, LoginsNext, OutputsNext, PTL
<1>3. QED
  BY <1>2, InitLogins, InitOutputs, PTL DEF Spec

\* A login succeeds exactly with the password of the user, whatever other clients do, as
\* long as no other thread calls strtok meanwhile (telnet_server.c:13-44, 75-91).
THEOREM LoginsAreHonest == Spec => []LoginHonest
<1>1. Logins => LoginHonest
  BY DEF Logins
<1>2. QED
  BY <1>1, Invariant, PTL

\* A client is sent output of its own command or of one that ran beside it, and if none
\* did, in the background either, its own and nothing else up to what one fread takes,
\* although every thread writes to and reads the same out.txt (telnet_server.c:94-115).
THEOREM OutputIsConcurrent == Spec => []ConcurrentOutput
<1>1. Outputs => ConcurrentOutput
  BY DEF Outputs, Faithful, ConcurrentOutput, Taken
<1>2. QED
  BY <1>1, Invariant, PTL
=============================================================================
