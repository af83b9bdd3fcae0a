---------------------------- MODULE SharedOutput ----------------------------
(***************************************************************************)
(* What the threads of BT11-6-2023/telnet_server/telnet_server.c do with   *)
(* the lines of their clients.  A line that begins with userpass: is       *)
(* checked against credentials.txt with strtok, whose place is one for the *)
(* whole process.  Any other line is a command: system() runs it with its  *)
(* output in out.txt, one file for all threads, which is then read back    *)
(* and sent.                                                               *)
(*                                                                         *)
(* The threads' connections are those of ThreadServer, with nobody handed  *)
(* another's and nobody hanging up.  A command may leave a process in the  *)
(* background that writes on after system() returned.                      *)
(*                                                                         *)
(* Abstracted: texts; the output of a command is as many blocks as it      *)
(* writes, each carrying the command's number and none a byte 0, and       *)
(* MaxRead of them are the BUFFER_SIZE - 1 bytes that one fread takes.     *)
(***************************************************************************)
EXTENDS Integers, Sequences

CONSTANTS
  Threads,
  Users,        \* credentials.txt has lines 1..Users: user u's password is u
  MaxRead,      \* the blocks that one fread takes
  MaxOutput,    \* bound: blocks that a command writes
  MaxLines      \* bound: lines sent by all clients

ASSUME ConstantsAssumption == {Users, MaxRead, MaxOutput, MaxLines} \subseteq Nat

User == 1..Users
Wrong == 0            \* a password, or a name, that is not in the file
Null == -1            \* a NULL pointer: strtok found nothing
Tokens == User \cup {Wrong, Null}
Alien == -2           \* a pointer into another thread's buffer
NoThread == "none"

VARIABLES
  up,        \* FALSE once the process has died
  lines,     \* lines received so far; the number of the last one
  pc,        \* per thread: control
  user, pass,     \* its username and password
  given,     \* history: the password of its line
  k,         \* the line of credentials.txt that it is at
  save, rest,     \* strtok's place: in a buffer of thread save, before token rest
  cmd,       \* the number of its command, 0 in a login
  left, at,  \* the blocks that the command has yet to write, and where
  behind,    \* the writers that commands left in the background: number, left and at
  file,      \* out.txt: each block is the number of a command, or 0 in a hole
  text, error,    \* what it sends back: the output, and perhaps an error message
  accepted,  \* history: whether its last login succeeded
  mixed,     \* history: another thread called strtok during its login
  met,       \* history: the commands that ran beside its own, and its own if it
             \* went on in the background
  failed     \* history: system() or fopen failed for it

loginVars == <<user, pass, given, k, save, rest, accepted, mixed>>
outputVars == <<cmd, left, at, behind, file, text, error, met>>
vars == <<up, lines, pc, loginVars, outputVars, failed>>

At(t, l) == up /\ pc[t] = l
Goto(t, l) == pc' = [pc EXCEPT ![t] = l] /\ UNCHANGED <<up, lines>>

\* recv returns a line: the buffers on the stack are used anew.
Receive(t, l) ==
  /\ At(t, "recv") /\ lines < MaxLines
  /\ lines' = lines + 1 /\ pc' = [pc EXCEPT ![t] = l]
  /\ pass' = [pass EXCEPT ![t] = Null] /\ k' = [k EXCEPT ![t] = 1]
  /\ accepted' = [accepted EXCEPT ![t] = FALSE] /\ failed' = [failed EXCEPT ![t] = FALSE]
  /\ at' = [at EXCEPT ![t] = 1] /\ met' = [met EXCEPT ![t] = {}]
  /\ text' = [text EXCEPT ![t] = <<>>] /\ error' = [error EXCEPT ![t] = FALSE]
  /\ UNCHANGED <<up, behind, file>>

-----------------------------------------------------------------------------
(* userpass: and the credentials *)

LoggingIn == {"pass", "check", "second"}
\* A call of strtok in thread t.
Strtok(t, place, token) ==
  /\ save' = place /\ rest' = token
  /\ mixed' = [u \in Threads |-> IF u = t THEN mixed[t] ELSE mixed[u] \/ pc[u] \in LoggingIn]
Login(t) == UNCHANGED <<outputVars, failed>>

\* strtok(buffer + 9, " ").  Without a name it returns NULL.
UserName(t) ==
  /\ Receive(t, "pass")
  /\ \E name, word \in Tokens :
       /\ name = Null => word = Null
       /\ user' = [user EXCEPT ![t] = name] /\ given' = [given EXCEPT ![t] = word]
       /\ save' = t /\ rest' = word
  /\ mixed' = [u \in Threads |-> u # t /\ (mixed[u] \/ pc[u] \in LoggingIn)]
  /\ cmd' = [cmd EXCEPT ![t] = 0] /\ left' = [left EXCEPT ![t] = 0]

\* What strtok(NULL, ...) finds: another thread's buffer holds anything by then, and
\* does not keep it.
Found(t) == IF save = t THEN {rest} ELSE {Null, Alien}
Password(t) ==
  /\ At(t, "pass")
  /\ \E token \in Found(t) : pass' = [pass EXCEPT ![t] = token]
  /\ Strtok(t, save, Null)
  /\ k' = [k EXCEPT ![t] = 1]
  /\ \/ Goto(t, "check") /\ UNCHANGED failed
     \/ Goto(t, "recv") /\ failed' = [failed EXCEPT ![t] = TRUE]     \* no credentials.txt
  /\ UNCHANGED <<user, given, accepted, outputVars>>

\* fgets, strtok(line, " "), and strcmp of the name.
NextLine(t) ==
  /\ At(t, "check") /\ k[t] \in User /\ user[t] # Null
  /\ Strtok(t, t, k[t])
  /\ IF user[t] = k[t] THEN Goto(t, "second") /\ UNCHANGED k
     ELSE k' = [k EXCEPT ![t] = @ + 1] /\ Goto(t, "check")
  /\ UNCHANGED <<user, pass, given, accepted>> /\ Login(t)

NoMoreLines(t) ==
  /\ At(t, "check") /\ k[t] \notin User /\ Goto(t, "recv")
  /\ UNCHANGED loginVars /\ Login(t)

\* strcmp(token, password) == 0, with a pointer that may lead anywhere.
MatchesNoWord(token, word) == {token # Null}   \* mutant: a name is enough
Matches(token, word) ==
  IF Alien \in {token, word} THEN BOOLEAN ELSE {token = word}
PassLine(t) ==
  /\ At(t, "second")
  /\ \E token \in Found(t) :
       /\ token # Null => pass[t] # Null
       /\ \E match \in IF token = Null THEN {FALSE} ELSE Matches(token, pass[t]) :
            /\ accepted' = [accepted EXCEPT ![t] = match]
            /\ Goto(t, IF match THEN "recv" ELSE "check")
            /\ k' = [k EXCEPT ![t] = IF match THEN @ ELSE @ + 1]
  /\ Strtok(t, save, Null)
  /\ UNCHANGED <<user, pass, given>> /\ Login(t)

\* strcmp with a NULL pointer.
SegFault ==
  /\ \E t \in Threads :
       \/ At(t, "check") /\ k[t] \in User /\ user[t] = Null
       \/ At(t, "second") /\ pass[t] = Null /\ Found(t) # {Null}
  /\ up' = FALSE
  /\ UNCHANGED <<lines, pc, loginVars, outputVars, failed>>

-----------------------------------------------------------------------------
(* A command and its output *)

\* Commands that may yet write, and threads that may yet look at the file.
Writing == {u \in Threads : pc[u] = "write"}
Looking == {u \in Threads : pc[u] \in {"write", "fopen", "fread", "send"}}

Command(t) ==
  /\ Receive(t, "system")
  /\ cmd' = [cmd EXCEPT ![t] = lines']
  /\ \E n \in 0..MaxOutput : left' = [left EXCEPT ![t] = n]
  /\ user' = [user EXCEPT ![t] = Null] /\ given' = [given EXCEPT ![t] = Null]
  /\ mixed' = [mixed EXCEPT ![t] = FALSE]
  /\ UNCHANGED <<save, rest>>

\* What the shell's > leaves of the file.
RedirectedAppending == file               \* mutant: >> for >
Redirected == <<>>
Shell(t) ==
  /\ At(t, "system") /\ Goto(t, "write")
  /\ file' = Redirected
  /\ met' = [u \in Threads |->
               IF u = t THEN {cmd[v] : v \in Writing \ {t}} \cup {b.cmd : b \in behind}
               ELSE IF u \in Looking THEN met[u] \cup {cmd[t]} ELSE met[u]]
  /\ UNCHANGED <<cmd, left, at, behind, text, error, loginVars, failed>>

\* system() could not fork: out.txt is what it was.
SystemFails(t) ==
  /\ At(t, "system") /\ Goto(t, "fopen")
  /\ failed' = [failed EXCEPT ![t] = TRUE]
  /\ UNCHANGED <<outputVars, loginVars>>

\* The command writes where it is in the file, which may have been cut short meanwhile.
Written(n, id) ==
  [p \in 1..(IF n > Len(file) THEN n ELSE Len(file)) |->
     IF p = n THEN id ELSE IF p <= Len(file) THEN file[p] ELSE 0]
Write(t) ==
  /\ At(t, "write") /\ left[t] > 0
  /\ file' = Written(at[t], cmd[t])
  /\ at' = [at EXCEPT ![t] = @ + 1] /\ left' = [left EXCEPT ![t] = @ - 1]
  /\ UNCHANGED <<up, lines, pc, cmd, behind, text, error, met, loginVars, failed>>
CommandEnds(t) ==
  /\ At(t, "write") /\ left[t] = 0 /\ Goto(t, "fopen")
  /\ UNCHANGED <<outputVars, loginVars, failed>>

\* The shell ends and leaves a process that has the file open and more to write.
CommandStays(t) ==
  /\ At(t, "write") /\ left[t] > 0 /\ Goto(t, "fopen")
  /\ behind' = behind \cup {[cmd |-> cmd[t], left |-> left[t], at |-> at[t]]}
  /\ met' = [met EXCEPT ![t] = @ \cup {cmd[t]}]
  /\ UNCHANGED <<cmd, left, at, file, text, error, loginVars, failed>>
WriteBehind(b) ==
  /\ up /\ file' = Written(b.at, b.cmd)
  /\ behind' = (behind \ {b}) \cup
                 {c \in {[cmd |-> b.cmd, left |-> b.left - 1, at |-> b.at + 1]} : c.left > 0}
  /\ UNCHANGED <<up, lines, pc, cmd, left, at, text, error, met, loginVars, failed>>

Open(t) ==
  /\ At(t, "fopen") /\ Goto(t, "fread")
  /\ UNCHANGED <<outputVars, loginVars, failed>>
OpenFails(t) ==
  /\ At(t, "fopen") /\ Goto(t, "recv")
  /\ failed' = [failed EXCEPT ![t] = TRUE]
  /\ UNCHANGED <<outputVars, loginVars>>

\* One fread, and send of what strlen finds in it: the blocks before the first hole.
Beginning(f) == {p \in DOMAIN f : p <= MaxRead /\ \A q \in 1..p : f[q] # 0}
Read(t) ==
  /\ At(t, "fread") /\ Goto(t, "send")
  /\ text' = [text EXCEPT ![t] = [p \in Beginning(file) |-> file[p]]]
  /\ UNCHANGED <<cmd, left, at, behind, file, error, met, loginVars, failed>>

\* fseek and ftell look at the file again.
NothingWritten(t) == file = <<>>
LooksAtEnd(t) ==
  /\ At(t, "send") /\ Goto(t, "recv")
  /\ error' = [error EXCEPT ![t] = NothingWritten(t)]
  /\ UNCHANGED <<cmd, left, at, behind, file, text, met, loginVars, failed>>

-----------------------------------------------------------------------------
Init ==
  /\ up = TRUE /\ lines = 0 /\ pc = [t \in Threads |-> "recv"]
  /\ user = [t \in Threads |-> Null] /\ pass = user /\ given = user
  /\ k = [t \in Threads |-> 1] /\ save = NoThread /\ rest = Null
  /\ accepted = [t \in Threads |-> FALSE] /\ mixed = accepted /\ failed = accepted
  /\ cmd = [t \in Threads |-> 0] /\ left = cmd /\ at = [t \in Threads |-> 1]
  /\ behind = {} /\ file = <<>> /\ text = [t \in Threads |-> <<>>] /\ error = accepted
  /\ met = [t \in Threads |-> {}]

Thread(t) ==
  \/ UserName(t) \/ Password(t) \/ NextLine(t) \/ NoMoreLines(t) \/ PassLine(t)
  \/ Command(t) \/ Shell(t) \/ SystemFails(t) \/ Write(t) \/ CommandEnds(t)
  \/ CommandStays(t) \/ Open(t) \/ OpenFails(t) \/ Read(t) \/ LooksAtEnd(t)
Next ==
  \/ SegFault
  \/ \E t \in Threads : Thread(t)
  \/ \E b \in behind : WriteBehind(b)

Spec == Init /\ [][Next]_vars
=============================================================================
