------------------------------- MODULE Thread ------------------------------
(***************************************************************************)
(* What the interface Thread (thread.hh) promises to ThreadManager: calls  *)
(* take effect at once, one descriptor of the queue is served at a time,   *)
(* and no call changes the sessions while one of them is iterating.        *)
(* ThreadManager is written against this specification; ThreadMulti        *)
(* implements it with a mutex, a condition variable and a worker.          *)
(***************************************************************************)
EXTENDS Integers, Sequences

CONSTANTS
  Fd,         \* the descriptors routed to this thread
  NoFd        \* "no session is iterating"

VARIABLES
  sessions,   \* descriptors with a session
  queue,      \* descriptors with data
  busy,       \* the descriptor whose session is iterating, or NoFd
  over        \* destroyed

threadVars == <<sessions, queue, busy, over>>

ThreadInit ==
  /\ sessions = {}
  /\ queue = <<>>
  /\ busy = NoFd
  /\ over = FALSE

Idle == ~over /\ busy = NoFd

add_session(fd) ==
  /\ Idle
  /\ sessions' = sessions \cup {fd}
  /\ UNCHANGED <<queue, busy, over>>

remove_session(fd) ==
  /\ Idle
  /\ sessions' = sessions \ {fd}
  /\ UNCHANGED <<queue, busy, over>>

data_available(fd) ==
  /\ Idle
  /\ queue' = Append(queue, fd)
  /\ UNCHANGED <<sessions, busy, over>>

\* A queued descriptor that has lost its session is dropped.
Take ==
  /\ Idle
  /\ queue # <<>>
  /\ queue' = Tail(queue)
  /\ busy' = IF Head(queue) \in sessions THEN Head(queue) ELSE NoFd
  /\ UNCHANGED <<sessions, over>>

Finish ==
  /\ busy # NoFd
  /\ busy' = NoFd
  /\ UNCHANGED <<sessions, queue, over>>

Destroy ==
  /\ Idle
  /\ over' = TRUE
  /\ sessions' = {}
  /\ queue' = <<>>
  /\ UNCHANGED busy

ThreadNext ==
  \/ \E fd \in Fd : add_session(fd) \/ remove_session(fd) \/ data_available(fd)
  \/ Take \/ Finish \/ Destroy

ThreadSpec == ThreadInit /\ [][ThreadNext]_threadVars

============================================================================
