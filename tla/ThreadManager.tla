--------------------------- MODULE ThreadManager ---------------------------
(***************************************************************************)
(* ThreadManager with its threads: ThreadMulti, whose worker drains a      *)
(* queue under the thread's mutex, or one ThreadSingle, which runs the     *)
(* session inside data_available().  Each session is a Session             *)
(* (session.cc) over a Connection.                                         *)
(*                                                                         *)
(* The mutex of a ThreadMulti is held for the whole of iteration(), so     *)
(* "locked" is "some session is iterating".  The condition variable, the   *)
(* lock operations and the worker's loop are in module ThreadMulti.        *)
(***************************************************************************)
EXTENDS Sockets, Sequences

CONSTANTS
  NThreads,   \* threads_.size()
  Single,     \* TRUE: Threads::Single, one ThreadSingle and no worker
  MaxQueue    \* model bound on the length of queue_

ASSUME ThreadManagerAssumption ==
  /\ NThreads \in Nat \ {0}
  /\ Single \in BOOLEAN
  /\ Single => NThreads = 1
  /\ MaxQueue \in Nat \ {0}

VARIABLES
  sessions,   \* sessions_: per thread, descriptor -> client it was made for
  queue,      \* queue_: per thread, descriptors with data
  busy,       \* per thread, the descriptor whose session is iterating
  got,        \* units read by that iteration and not answered yet
  pos         \* pos of its send(): what the ::send calls so far returned

threadVars == <<sessions, queue, busy, got, pos>>

Thread == 0 .. NThreads - 1

ThreadOf(fd) == fd % NThreads

ThreadTypeOK ==
  /\ sessions \in [Thread -> [Fd -> Conn \cup {NoConn}]]
  /\ queue \in [Thread -> Seq(Fd)]
  /\ busy \in [Thread -> Fd \cup {INVALID_SOCKET}]
  /\ got \in [Thread -> Nat]
  /\ pos \in [Thread -> Nat]

ThreadInit ==
  /\ sessions = [t \in Thread |-> [fd \in Fd |-> NoConn]]
  /\ queue = [t \in Thread |-> <<>>]
  /\ busy = [t \in Thread |-> INVALID_SOCKET]
  /\ got = [t \in Thread |-> 0]
  /\ pos = [t \in Thread |-> 0]

Unlocked(t) == busy[t] = INVALID_SOCKET

HasSession(fd) == sessions[ThreadOf(fd)][fd] # NoConn

----------------------------------------------------------------------------
(* Calls of the server's thread. *)

add_session(fd) ==
  LET t == ThreadOf(fd) IN
  /\ Unlocked(t)
  /\ sessions' = [sessions EXCEPT ![t][fd] = conn[fd]]
  /\ UNCHANGED <<queue, busy, got, pos>>

\* Fault: the descriptor is closed and the session stays in the map.
Erased_none(t, fd) == sessions[t]

\* sessions_.erase(fd).
Erased(t, fd) == [sessions[t] EXCEPT ![fd] = NoConn]

\* Fault: ~Connection does not close its descriptor.
Closed_none(t, fds) == conn

\* Fault: sessions_.clear() for sessions_.erase(fd).
Closed_all(t, fds) ==
  [fd \in Fd |-> IF sessions[t][fd] # NoConn THEN NoConn ELSE conn[fd]]

\* Destroying the sessions of t for fds destroys their Connections, which
\* close the descriptors.
Closed(t, fds) ==
  [fd \in Fd |-> IF fd \in fds /\ sessions[t][fd] # NoConn
                 THEN NoConn ELSE conn[fd]]

\* Fault: remove_session() does not lock the thread's mutex.
MayErase_unlocked(t) == TRUE

MayErase(t) == Unlocked(t)

remove_session(fd) ==
  LET t == ThreadOf(fd) IN
  /\ MayErase(t)
  /\ sessions' = [sessions EXCEPT ![t] = Erased(t, fd)]
  /\ conn' = Closed(t, {fd})
  /\ UNCHANGED <<queue, busy, got, pos, peer, backlog, sent, rcvd, replied, written>>

\* ThreadMulti pushes the descriptor even if it has no session any more;
\* ThreadSingle looks the session up and iterates it there and then.
data_available(fd) ==
  LET t == ThreadOf(fd) IN
  /\ Unlocked(t)
  /\ UNCHANGED <<sessions, got, pos>>
  /\ \/ /\ ~Single
        /\ Len(queue[t]) < MaxQueue
        /\ queue' = [queue EXCEPT ![t] = Append(@, fd)]
        /\ UNCHANGED busy
     \/ /\ Single
        /\ busy' = IF HasSession(fd) THEN [busy EXCEPT ![t] = fd] ELSE busy
        /\ UNCHANGED queue

\* ~ThreadMulti and ~ThreadSingle: the worker has ended its iteration and
\* is joined, then the sessions are destroyed.
DestroyThread(t) ==
  /\ Unlocked(t)
  /\ sessions' = [sessions EXCEPT ![t] = [fd \in Fd |-> NoConn]]
  /\ conn' = Closed(t, Fd)
  /\ queue' = [queue EXCEPT ![t] = <<>>]
  /\ UNCHANGED <<busy, got, pos, peer, backlog, sent, rcvd, replied, written>>

----------------------------------------------------------------------------
(* Steps of thread t: the worker of a ThreadMulti, or the server's thread  *)
(* inside ThreadSingle::data_available.                                    *)

\* Fault: the worker empties the queue after it has looked at its front.
Rest_clear(q) == <<>>

Rest(q) == Tail(q)

\* The worker pops one descriptor and looks its session up.
Pop(t) ==
  /\ Unlocked(t)
  /\ queue[t] # <<>>
  /\ queue' = [queue EXCEPT ![t] = Rest(@)]
  /\ busy' = IF sessions[t][Head(queue[t])] # NoConn
             THEN [busy EXCEPT ![t] = Head(queue[t])]
             ELSE busy
  /\ UNCHANGED <<sessions, got, pos>>

\* Session::iteration: recv().  An empty request ends the iteration.
IterationRecv(t) ==
  /\ ~Unlocked(t)
  /\ got[t] = 0
  /\ LET c == conn[busy[t]] IN
     /\ rcvd' = [rcvd EXCEPT ![c] = @ + Chunk(c)]
     /\ got' = [got EXCEPT ![t] = Delivered(c)]
     /\ busy' = IF Delivered(c) = 0 THEN [busy EXCEPT ![t] = INVALID_SOCKET] ELSE busy
  /\ UNCHANGED <<sessions, queue, pos, peer, backlog, conn, sent, replied, written>>

\* Fault: send() stops at the first ::send that took something.
SendDone_first(t, m) == m > 0

\* The loop of send() ends: pos has reached the size of the response.
SendDone(t, m) == pos[t] + m >= got[t]

\* Session::iteration: process(), an echo that answers unit for unit, then one
\* turn of the loop of send().  Each ::send is given the whole response, from
\* its start, whatever pos is.
IterationSend(t) ==
  /\ ~Unlocked(t)
  /\ got[t] > 0
  /\ LET c == conn[busy[t]] IN
     \E m \in SendReturns(c, got[t]) \ {-1} :
       /\ written' = [written EXCEPT ![c] = @ + m]
       /\ IF SendDone(t, m)
          THEN /\ replied' = [replied EXCEPT ![c] = @ + got[t]]
               /\ got' = [got EXCEPT ![t] = 0]
               /\ pos' = [pos EXCEPT ![t] = 0]
               /\ busy' = [busy EXCEPT ![t] = INVALID_SOCKET]
          ELSE /\ pos' = [pos EXCEPT ![t] = @ + m]
               /\ UNCHANGED <<replied, got, busy>>
  /\ UNCHANGED <<sessions, queue, peer, backlog, conn, sent, rcvd>>

\* recv() or send() throws std::runtime_error inside iteration().
IterationThrows(t) ==
  /\ ~Unlocked(t)
  /\ IF got[t] = 0 THEN RecvFails(busy[t])
                   ELSE -1 \in SendReturns(conn[busy[t]], got[t])

============================================================================
