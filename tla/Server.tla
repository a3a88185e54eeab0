------------------------------- MODULE Server ------------------------------
(***************************************************************************)
(* The server: Server::run calls iterate(), which waits on the poller and  *)
(* hands each event to the thread manager.  The module composes the        *)
(* clients and the kernel (Sockets), the Poller and the ThreadManager.     *)
(***************************************************************************)
EXTENDS Poller, ThreadManager

VARIABLES
  pc,         \* where the server's thread is
  batch,      \* events of the current iterate() not handled yet
  cur,        \* the descriptor just accepted
  running,    \* running_
  joined,     \* threads destroyed by ~ThreadManager
  alive       \* FALSE: an uncaught exception (or SIGPIPE) ended the process

mainVars == <<pc, batch, cur, running, joined, alive>>

vars == <<sockVars, pollVars, threadVars, mainVars>>

\* "wait": in Poller::wait; "dispatch": in iterate's loop over the events;
\* "add_session", "add_client": inside the NewClient case; "teardown": run()
\* has returned and ~Server is running.
Pc == {"wait", "dispatch", "add_session", "add_client", "teardown", "stopped"}

TypeOK ==
  /\ SockTypeOK
  /\ PollTypeOK
  /\ ThreadTypeOK
  /\ pc \in Pc
  /\ batch \subseteq Event
  /\ cur \in Fd \cup {INVALID_SOCKET}
  /\ running \in BOOLEAN
  /\ joined \subseteq Thread
  /\ alive \in BOOLEAN

Init ==
  /\ SockInit
  /\ PollInit
  /\ ThreadInit
  /\ pc = "wait"
  /\ batch = {}
  /\ cur = INVALID_SOCKET
  /\ running = TRUE
  /\ joined = {}
  /\ alive = TRUE

----------------------------------------------------------------------------
(* The clients. *)

\* The listener is open until ~Server closes it, or the process ends.
Listening == alive /\ pc \notin {"teardown", "stopped"}

ClientConnect(c) ==
  /\ Listening
  /\ Connect(c)
  /\ UNCHANGED <<pollVars, threadVars, mainVars>>

ClientSend(c) ==
  /\ Transmit(c)
  /\ Edge(c)
  /\ UNCHANGED <<threadVars, mainVars>>

ClientLeave(c) ==
  /\ \E how \in {"fin", "rst"} : Leave(c, how)
  /\ Edge(c)
  /\ UNCHANGED <<threadVars, mainVars>>

----------------------------------------------------------------------------
(* The server's thread.  With Threads::Single it is also the thread that   *)
(* iterates the sessions, and does nothing else meanwhile.                 *)

MainAt(l) ==
  /\ alive
  /\ pc = l
  /\ Single => Unlocked(0)

\* A wait() that times out or is interrupted returns no event: a stutter.
Iterate ==
  /\ MainAt("wait")
  /\ running
  /\ \E fds \in SUBSET Reportable, evs \in SUBSET ListenerEvents :
       /\ wait(fds, evs)
       /\ batch' = evs \cup UNION {EventsOf(fd) : fd \in fds}
  /\ batch' # {}
  /\ pc' = "dispatch"
  /\ UNCHANGED <<sockVars, threadVars, cur, running, joined, alive>>

\* accept() and create_connection(): the Connection owns the descriptor.
AcceptClient ==
  /\ MainAt("dispatch")
  /\ NewClient \in batch
  /\ \E c \in Conn, fd \in Fd : accept(c, fd) /\ cur' = fd
  /\ batch' = batch \ {NewClient}
  /\ pc' = "add_session"
  /\ UNCHANGED <<pollVars, threadVars, running, joined, alive>>

\* NonRecoverableException out of accept() ends run() and the process.
AcceptThrows ==
  /\ MainAt("dispatch")
  /\ NewClient \in batch
  /\ AcceptFails
  /\ alive' = FALSE
  /\ UNCHANGED <<sockVars, pollVars, threadVars, pc, batch, cur, running, joined>>

AddSession ==
  /\ MainAt("add_session")
  /\ add_session(cur)
  /\ pc' = "add_client"
  /\ UNCHANGED <<sockVars, pollVars, batch, cur, running, joined, alive>>

AddClient ==
  /\ MainAt("add_client")
  /\ add_client(cur)
  /\ pc' = "dispatch"
  /\ cur' = INVALID_SOCKET
  /\ UNCHANGED <<sockVars, threadVars, batch, running, joined, alive>>

HandleDataReady(fd) ==
  /\ MainAt("dispatch")
  /\ ClientDataReady(fd) \in Front(batch)
  /\ data_available(fd)
  /\ batch' = batch \ {ClientDataReady(fd)}
  /\ UNCHANGED <<sockVars, pollVars, pc, cur, running, joined, alive>>

HandleDisconnected(fd) ==
  /\ MainAt("dispatch")
  /\ ClientDisconnected(fd) \in Front(batch)
  /\ remove_session(fd)
  /\ Forget({fd})
  /\ batch' = batch \ {ClientDisconnected(fd)}
  /\ UNCHANGED <<pc, cur, running, joined, alive>>

\* Fault: run() sets running_ on every turn, and a stop() is lost.
Rearm_always == running' = TRUE

\* run() leaves running_ alone between two iterate().
Rearm == UNCHANGED running

EndIterate ==
  /\ MainAt("dispatch")
  /\ batch = {}
  /\ pc' = "wait"
  /\ Rearm
  /\ UNCHANGED <<sockVars, pollVars, threadVars, batch, cur, joined, alive>>

\* stop(), from the SIGINT handler or another thread, at any moment.
Stop ==
  /\ alive
  /\ running
  /\ running' = FALSE
  /\ UNCHANGED <<sockVars, pollVars, threadVars, pc, batch, cur, joined, alive>>

\* run() sees running_ false and returns; ~Server closes the listener, and
\* with it the connections nobody accepted, before the members go.
RunReturns ==
  /\ MainAt("wait")
  /\ ~running
  /\ backlog' = {}
  /\ pc' = "teardown"
  /\ UNCHANGED <<peer, conn, sent, rcvd, replied, written, pollVars, threadVars,
                 batch, cur, running, joined, alive>>

JoinThread(t) ==
  /\ MainAt("teardown")
  /\ t \notin joined
  /\ DestroyThread(t)
  /\ Forget({fd \in Fd : sessions[t][fd] # NoConn})
  /\ joined' = joined \cup {t}
  /\ UNCHANGED <<pc, batch, cur, running, alive>>

Exit ==
  /\ MainAt("teardown")
  /\ joined = Thread
  /\ pc' = "stopped"
  /\ UNCHANGED <<sockVars, pollVars, threadVars, batch, cur, running, joined, alive>>

----------------------------------------------------------------------------
(* The threads. *)

WorkerPop(t) ==
  /\ alive
  /\ t \notin joined
  /\ Pop(t)
  /\ UNCHANGED <<sockVars, pollVars, mainVars>>

WorkerRecv(t) ==
  /\ alive
  /\ IterationRecv(t)
  /\ UNCHANGED <<pollVars, mainVars>>

WorkerSend(t) ==
  /\ alive
  /\ IterationSend(t)
  /\ UNCHANGED <<pollVars, mainVars>>

\* Nothing catches the exception: std::terminate in a worker, the end of
\* main() in the server's thread.
WorkerThrows(t) ==
  /\ alive
  /\ IterationThrows(t)
  /\ alive' = FALSE
  /\ UNCHANGED <<sockVars, pollVars, threadVars, pc, batch, cur, running, joined>>

----------------------------------------------------------------------------
MainStep ==
  \/ Iterate \/ AcceptClient \/ AcceptThrows \/ AddSession \/ AddClient
  \/ \E fd \in Fd : HandleDataReady(fd) \/ HandleDisconnected(fd)
  \/ EndIterate \/ RunReturns \/ Exit
  \/ \E t \in Thread : JoinThread(t)

WorkerStep(t) ==
  WorkerPop(t) \/ WorkerRecv(t) \/ WorkerSend(t) \/ WorkerThrows(t)

ClientStep(c) == ClientConnect(c) \/ ClientSend(c) \/ ClientLeave(c)

\* The process is over: not a deadlock.
Over ==
  /\ ~alive \/ pc = "stopped"
  /\ UNCHANGED vars

Next ==
  \/ MainStep
  \/ Stop
  \/ \E t \in Thread : WorkerStep(t)
  \/ \E c \in Conn : ClientStep(c)
  \/ Over

Spec == Init /\ [][Next]_vars

\* The scheduler runs the server's thread and the workers; wait_for's 10 ms
\* timeout makes a worker look at its queue again and again.
FairSpec == /\ Spec
            /\ WF_vars(MainStep)
            /\ \A t \in Thread : WF_vars(WorkerStep(t))

----------------------------------------------------------------------------
(* Safety. *)

\* A session talks to the client it was created for: the descriptor it holds
\* has not been closed and handed to another client, and it is in the thread
\* to which ThreadManager routes that descriptor's events.
SessionOwnsFd ==
  \A t \in Thread, fd \in Fd :
    sessions[t][fd] # NoConn =>
      /\ ThreadOf(fd) = t
      /\ conn[fd] = sessions[t][fd]

\* No descriptor is lost: an open one belongs to a session (or to the one
\* being created), and a session's descriptor is registered with the poller,
\* or about to be, or its ClientDisconnected event is about to be handled.
NoLeakedDescriptor ==
  \A fd \in Fd :
    /\ Open(fd) => HasSession(fd) \/ (pc = "add_session" /\ cur = fd)
    /\ HasSession(fd) => \/ fd \in interest
                         \/ ClientDisconnected(fd) \in batch
                         \/ pc = "add_client" /\ cur = fd

\* iteration() runs on a session that stays in the map until it returns,
\* though the server's thread erases sessions concurrently.
IteratingSessionExists ==
  \A t \in Thread : ~Unlocked(t) => sessions[t][busy[t]] # NoConn

\* A descriptor with unread data, or whose client has left, will be looked at
\* again: an edge is still to be reported, or the event, the queue entry or
\* the recv() that answers it is still to come.
EdgeOutstanding(fd) ==
  LET t == ThreadOf(fd) IN
  \/ fd \in ready
  \/ ClientDataReady(fd) \in batch
  \/ \E i \in DOMAIN queue[t] : queue[t][i] = fd
  \/ busy[t] = fd /\ got[t] = 0

NoMissedEdge ==
  EdgeTriggered =>
    \A fd \in interest :
      /\ Readable(fd) => EdgeOutstanding(fd)
      /\ HangUp(fd) => fd \in ready

\* After the destructors every accepted descriptor is closed and no worker
\* is inside a session.
CleanExit ==
  pc = "stopped" => \A fd \in Fd, t \in Thread : ~Open(fd) /\ Unlocked(t)

\* While the server serves, a descriptor is closed only because its own
\* client has left: a stale event never ends a client that took over the
\* number.
OnlyLeaversClosed ==
  [][\A fd \in Fd : Open(fd) /\ conn'[fd] # conn[fd] /\ pc # "teardown"
       => HasLeft(conn[fd])]_vars

----------------------------------------------------------------------------
(* What the clients see. *)

StatusOf(c) ==
  IF peer[c] = "none" THEN "away"
  ELSE IF c \in backlog THEN "queued"
  ELSE IF \E fd \in Fd : conn[fd] = c THEN "served" ELSE "done"

ToClients == INSTANCE Service WITH
  status <- [c \in Conn |-> StatusOf(c)],
  asked <- sent,
  answered <- replied,
  written <- written,
  left <- [c \in Conn |-> HasLeft(c)],
  up <- pc \notin {"teardown", "stopped"}

\* iterate() and the threads together do for each client what Service says:
\* one accept(), no answer to what was not asked or after the close, less than
\* twice that in all however often ::send is partial, and no close before the
\* client left.
ImplementsService == ToClients!ServiceSpec

----------------------------------------------------------------------------
(* Liveness, under FairSpec. *)

Over_or_stopping == ~running \/ ~alive

\* The Windows poller's stale ClientDisconnected closed the descriptor of a
\* client that is still there.
Dropped(c) ==
  /\ backend = "wsapoll"
  /\ c \notin backlog
  /\ \A fd \in Fd : conn[fd] # c

\* A client that stays, and speaks the server's TLS, gets an answer to
\* everything it sends.
RequestAnswered ==
  \A c \in Conn \ Plain : \A k \in 1 .. MaxSend :
    sent[c] >= k ~> \/ replied[c] >= k
                    \/ peer[c] # "open" \/ Dropped(c) \/ Over_or_stopping

\* The session and the descriptor of a client that left are released, even
\* if it left before it was accepted.
LeaverReaped ==
  \A c \in Conn :
    HasLeft(c) ~> \/ c \notin backlog /\ \A fd \in Fd : conn[fd] # c
                  \/ Over_or_stopping

\* stop() ends the process: no worker and no lock keeps it.
StopEnds == ~running ~> pc = "stopped" \/ ~alive

============================================================================
