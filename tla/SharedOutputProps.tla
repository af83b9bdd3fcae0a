-------------------------- MODULE SharedOutputProps --------------------------
(***************************************************************************)
(* Whose output and whose password a client of the threaded telnet server  *)
(* gets, and up to which overlap.                                          *)
(***************************************************************************)
EXTENDS SharedOutput

\* A client is sent output of its own command or of one that ran at the same time,
\* never what an earlier command left in the file, as long as system() can fork.  If
\* none ran at the same time, in the background either, it is sent its own output and
\* nothing else, all of it that one fread takes (106), and the error message exactly if
\* there was none.
Answered(t) == pc[t] = "recv" /\ cmd[t] > 0 /\ ~failed[t]
ConcurrentOutput ==
  \A t \in Threads :
    /\ ~failed[t] => \A p \in DOMAIN text[t] : text[t][p] \in {cmd[t]} \cup met[t]
    /\ (Answered(t) /\ met[t] = {}) =>
         /\ text[t] = [p \in {q \in 1..MaxRead : q < at[t]} |-> cmd[t]]
         /\ error[t] <=> at[t] = 1

\* A login succeeds exactly if the line had a user's name and that user's password,
\* unless another thread called strtok meanwhile or the file could not be read.
LoginHonest ==
  \A t \in Threads :
    ~mixed[t] =>
      /\ accepted[t] => user[t] \in User /\ given[t] = user[t]
      /\ (pc[t] = "recv" /\ user[t] \in User /\ given[t] = user[t] /\ ~failed[t]) => accepted[t]
=============================================================================
