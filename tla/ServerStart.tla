---------------------------- MODULE ServerStart ----------------------------
(***************************************************************************)
(* The life of the process of a server (loadtest/server.cc), up to the     *)
(* loop that module Server is about: create_listener goes through the      *)
(* addresses, listens, and only then are the poller, the threads and the   *)
(* TLS context made.  Every call may fail: the exception leaves main().    *)
(***************************************************************************)
EXTENDS Integers

CONSTANT NListenAddrs   \* addresses getaddrinfo() lists to bind to

ASSUME ServerStartAssumption == NListenAddrs \in Nat

VARIABLES
  proc,       \* the process: "none", where its main() is, or "dead"
  addr,       \* index of the address p points to, 0 outside the process
  sockets,    \* the sockets it has open, by the address they are for
  doomed,     \* a signal, or TerminateProcess, is on its way to it
  foreign     \* another process listens on the port

serverVars == <<proc, addr, sockets, doomed, foreign>>

ServerStartInit ==
  /\ proc = "none" /\ addr = 0 /\ sockets = {} /\ doomed = FALSE
  /\ foreign \in BOOLEAN

Alive == proc \notin {"none", "dead"}

\* The kernel completes handshakes from listen() on.
Accepting == foreign \/ proc \in {"setup", "up"}

Serving == foreign \/ proc = "up"

\* The end of a process closes what it has open.
Dies ==
  /\ proc' = "dead"
  /\ addr' = 0
  /\ sockets' = {}
  /\ UNCHANGED <<doomed, foreign>>

\* execlp() and getaddrinfo().
Exec ==
  /\ proc = "exec"
  /\ \/ proc' = "socket" /\ addr' = 1 /\ UNCHANGED <<sockets, doomed, foreign>>
     \/ Dies

\* socket() and setsockopt() for one address after the other: a failure of
\* either, and the end of the list ("failed to bind"), throws.
OpenListener ==
  /\ proc = "socket"
  /\ \/ /\ addr <= NListenAddrs
        /\ sockets' = sockets \cup {addr}
        /\ proc' = "bind"
        /\ UNCHANGED <<addr, doomed, foreign>>
     \/ Dies

\* Fault: the socket of a failed bind() is not closed.
AfterBindFails_open == sockets

\* close_socket().
AfterBindFails == sockets \ {addr}

\* bind(): a failure, certain if the port is taken, goes on to the next
\* address.
Bind ==
  /\ proc = "bind"
  /\ \/ ~foreign /\ proc' = "listen" /\ UNCHANGED <<addr, sockets>>
     \/ proc' = "socket" /\ addr' = addr + 1 /\ sockets' = AfterBindFails
  /\ UNCHANGED <<doomed, foreign>>

Listen ==
  /\ proc = "listen"
  /\ \/ proc' = "setup" /\ UNCHANGED <<addr, sockets, doomed, foreign>>
     \/ Dies

\* Poller, ThreadManager and, for an SSLServer, the context with its
\* certificate and key, of which each may be refused.
SetUp ==
  /\ proc = "setup"
  /\ \/ proc' = "up" /\ UNCHANGED <<addr, sockets, doomed, foreign>>
     \/ Dies

\* An exception out of run(), or the signal.
Crash == proc = "up" /\ Dies

Killed == Alive /\ doomed /\ Dies

ServerStep == Exec \/ OpenListener \/ Bind \/ Listen \/ SetUp \/ Crash \/ Killed

============================================================================
