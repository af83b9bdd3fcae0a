------------------------- MODULE ThreadServerProps -------------------------
(***************************************************************************)
(* What the thread-per-connection servers guarantee: whose answer a client *)
(* gets, who closes which descriptor, and who is answered at all.          *)
(***************************************************************************)
EXTENDS ThreadServer

Running(t) == pc[t] \notin {"none", "ended"}

TypeOK ==
  /\ program \in Programs /\ up \in BOOLEAN /\ limit \in MinFd..MaxFd /\ badLen \in BOOLEAN
  /\ mainPc \in {"accept", "create"} /\ cell \in Fd \cup {0, NoFd}
  /\ accepted \in Conns \cup {NoConn} /\ index \in 0..NUM_THREADS - 1
  /\ taken \in 0..MaxConns /\ fdt \in [Fd -> Conns \cup {NoConn, File}]
  /\ peer \in [Conns -> {"none", "open", "gone"}] /\ inbox \in [Conns -> 0..MaxSends]
  /\ sent \in 0..MaxSends
  /\ pc \in [Threads -> {"none", "start", "greet", "recv", "hear", "answer", "close", "ended",
                         "fopen", "fclose", "opendir", "body", "error", "closefile"}]
  /\ sock \in [Threads -> Fd \cup {0, NoFd}]
  /\ wait \in [Threads -> Conns \cup {NoConn}] /\ from \in [Threads -> Conns \cup {NoConn}]
  /\ path \in [Threads -> Paths] /\ handle \in [Threads -> Fd \cup {0}]
  /\ robbed \in BOOLEAN /\ refused \subseteq Conns \cup {NoConn}
  /\ got \in [Conns -> Seq(Conns \cup {NoConn})]

-----------------------------------------------------------------------------
\* While every thread reads `client' before the next accept returns, a client gets
\* answers to its own requests only, or http's answer to none when it left: no thread
\* answers on a descriptor that has been closed and given to somebody else.
OwnAnswers ==
  ~robbed => \A c \in Conns : \A n \in DOMAIN got[c] :
    got[c][n] = c \/ (got[c][n] = NoConn /\ program = "http" /\ peer[c] = "gone")

\* On the same condition every descriptor has exactly one who will close it: main, or
\* one running thread -- but for those that files forgets, of a client that left
\* without a request (94), or for which it could not start a thread (60).
Keepers(f) ==
  {t \in Threads : \/ pc[t] = "start" /\ cell = f
                   \/ Running(t) /\ f \in {sock[t], handle[t]}}
Forgotten(c) == program = "files" /\ (peer[c] = "gone" \/ c \in refused)
EveryDescriptorKept ==
  ~robbed => \A f \in Fd : fdt[f] # NoConn =>
    \/ mainPc = "create" /\ cell = f /\ Keepers(f) = {}
    \/ \E t \in Threads : Keepers(f) = {t}
    \/ fdt[f] \in Conns /\ Forgotten(fdt[f])

-----------------------------------------------------------------------------
\* A client that sends a request is answered, whoever else is connected, unless the
\* hand-over went wrong, the process died, the client left, every thread was in use when
\* it came, http was built to a client_len that accept refuses, or accept has not taken
\* it and there is no descriptor for it any more.  A client that has its thread is not
\* excused by others that use up threads or descriptors.  Threads that have ended are in
\* use in http only, where nothing joins or detaches them.  "Answered" is that the server
\* sends: it may still wait for the client itself to read.
Excused(c) == robbed \/ ~up \/ badLen \/ peer[c] = "gone" \/ c \in refused
Outside(c) == c > taken /\ LowestFree = {}
Answered ==
  \A c \in Conns : (inbox[c] > 0 ~> (got[c] # <<>> \/ Excused(c))) \/ <>[]Outside(c)
=============================================================================
