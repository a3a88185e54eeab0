---------------------------- MODULE ThreadMulti ----------------------------
(***************************************************************************)
(* ThreadMulti (threadmulti.cc): the worker's loop, the mutex, the         *)
(* condition variable it waits on for at most 10 ms, and the destructor,   *)
(* which destroys the members before it joins the worker (thread_ is       *)
(* declared first, so it is destroyed last).                               *)
(*                                                                         *)
(* The server's thread holds the mutex only inside its lock_guard blocks,  *)
(* which are single steps here; the worker holds it across iteration().    *)
(***************************************************************************)
EXTENDS Integers, Sequences

CONSTANTS
  Fd,         \* the descriptors routed to this thread
  NoFd,       \* "no session is iterating"
  MaxQueue    \* model bound on the length of queue_

ASSUME ThreadMultiAssumption ==
  /\ NoFd \notin Fd
  /\ MaxQueue \in Nat \ {0}

VARIABLES
  sessions,   \* sessions_: descriptors with a session
  queue,      \* queue_
  mutex,      \* mutex_: "free" or "worker"
  notified,   \* cond_: a notify_one() reached the waiting worker
  stop,       \* the stop_token's state
  wpc,        \* where the worker is
  it,         \* the descriptor whose session is iterating
  mpc,        \* where the server's thread is
  gone        \* members destroyed

vars == <<sessions, queue, mutex, notified, stop, wpc, it, mpc, gone>>

workerVars == <<wpc, it>>

Members == {"cond_", "queue_", "mutex_", "sessions_"}

\* "check": at the while; "lock": in the unique_lock; "enter": calling
\* wait_for; "wait": waiting; "relock": wait_for takes the mutex back;
\* "locked": after wait_for; "iterate": in iteration(); "done": returned.
WorkerPc ==
  {"check", "lock", "enter", "wait", "relock", "locked", "iterate", "done"}

\* "serve": the server is running; the others are inside ~ThreadMulti.
MainPc == {"serve", "sleep", "lock", "members", "join", "base", "destroyed"}

TypeOK ==
  /\ sessions \subseteq Fd
  /\ queue \in Seq(Fd)
  /\ mutex \in {"free", "worker"}
  /\ notified \in BOOLEAN
  /\ stop \in BOOLEAN
  /\ wpc \in WorkerPc
  /\ it \in Fd \cup {NoFd}
  /\ mpc \in MainPc
  /\ gone \subseteq Members

Init ==
  /\ sessions = {}
  /\ queue = <<>>
  /\ mutex = "free"
  /\ notified = FALSE
  /\ stop = FALSE
  /\ wpc = "check"
  /\ it = NoFd
  /\ mpc = "serve"
  /\ gone = {}

----------------------------------------------------------------------------
(* Calls of the server's thread. *)

\* cond_.notify_one() is lost unless the worker is waiting.
notify_one == notified' = (notified \/ wpc = "wait")

add_session(fd) ==
  /\ mpc = "serve"
  /\ mutex = "free"
  /\ sessions' = sessions \cup {fd}
  /\ UNCHANGED <<queue, mutex, notified, stop, workerVars, mpc, gone>>

\* Fault: no lock_guard in remove_session().
remove_session_unlocked(fd) ==
  /\ mpc = "serve"
  /\ sessions' = sessions \ {fd}
  /\ UNCHANGED <<queue, mutex, notified, stop, workerVars, mpc, gone>>

remove_session(fd) ==
  /\ mpc = "serve"
  /\ mutex = "free"
  /\ sessions' = sessions \ {fd}
  /\ UNCHANGED <<queue, mutex, notified, stop, workerVars, mpc, gone>>

data_available(fd) ==
  /\ mpc = "serve"
  /\ mutex = "free"
  /\ Len(queue) < MaxQueue
  /\ queue' = Append(queue, fd)
  /\ notify_one
  /\ UNCHANGED <<sessions, mutex, stop, workerVars, mpc, gone>>

----------------------------------------------------------------------------
(* ~ThreadMulti, then the members, then ~Thread. *)

RequestStop ==
  /\ mpc = "serve"
  /\ stop' = TRUE
  /\ mpc' = "sleep"
  /\ UNCHANGED <<sessions, queue, mutex, notified, workerVars, gone>>

\* Fault: the destructor does not sleep.
SleepEnds_no_sleep ==
  /\ mpc = "sleep"
  /\ mpc' = "lock"
  /\ UNCHANGED <<sessions, queue, mutex, notified, stop, workerVars, gone>>

\* The destructor sleeps 15 ms; the worker's wait_for lasts at most 10 ms.
\* Assumed of the scheduler: in the 5 ms between, a worker that was on its
\* way into the wait, or in it, gets as far as holding the mutex again.
SleepEnds ==
  /\ mpc = "sleep"
  /\ wpc \notin {"lock", "enter", "wait", "relock"}
  /\ mpc' = "lock"
  /\ UNCHANGED <<sessions, queue, mutex, notified, stop, workerVars, gone>>

LockAndNotify ==
  /\ mpc = "lock"
  /\ mutex = "free"
  /\ notify_one
  /\ mpc' = "members"
  /\ UNCHANGED <<sessions, queue, mutex, stop, workerVars, gone>>

\* The members below thread_ are destroyed, the last declared first.
DestroyMembers ==
  /\ mpc = "members"
  /\ \/ gone = {}                  /\ gone' = {"cond_"}
     \/ gone = {"cond_"}           /\ gone' = gone \cup {"queue_"}
     \/ gone = {"cond_", "queue_"} /\ gone' = gone \cup {"mutex_"}
  /\ mpc' = IF "mutex_" \in gone' THEN "join" ELSE "members"
  /\ UNCHANGED <<sessions, queue, mutex, notified, stop, workerVars>>

\* ~jthread joins the worker.
JoinWorker ==
  /\ mpc = "join"
  /\ wpc = "done"
  /\ mpc' = "base"
  /\ UNCHANGED <<sessions, queue, mutex, notified, stop, workerVars, gone>>

DestroySessions ==
  /\ mpc = "base"
  /\ sessions' = {}
  /\ gone' = gone \cup {"sessions_"}
  /\ mpc' = "destroyed"
  /\ UNCHANGED <<queue, mutex, notified, stop, workerVars>>

----------------------------------------------------------------------------
(* The worker. *)

Check ==
  /\ wpc = "check"
  /\ wpc' = IF stop THEN "done" ELSE "lock"
  /\ UNCHANGED <<sessions, queue, mutex, notified, stop, it, mpc, gone>>

Lock ==
  /\ wpc = "lock"
  /\ mutex = "free"
  /\ mutex' = "worker"
  /\ wpc' = "enter"
  /\ UNCHANGED <<sessions, queue, notified, stop, it, mpc, gone>>

\* wait_for releases the mutex and starts to wait in one step.
StartWait ==
  /\ wpc = "enter"
  /\ mutex' = "free"
  /\ notified' = FALSE
  /\ wpc' = "wait"
  /\ UNCHANGED <<sessions, queue, stop, it, mpc, gone>>

\* Fault: wait() for wait_for(): only a notification ends it.
Wake_notified_only ==
  /\ wpc = "wait"
  /\ notified
  /\ wpc' = "relock"
  /\ UNCHANGED <<sessions, queue, mutex, notified, stop, it, mpc, gone>>

\* A notification, the 10 ms, or a spurious wake-up: there is no predicate.
Wake ==
  /\ wpc = "wait"
  /\ wpc' = "relock"
  /\ UNCHANGED <<sessions, queue, mutex, notified, stop, it, mpc, gone>>

Relock ==
  /\ wpc = "relock"
  /\ mutex = "free"
  /\ mutex' = "worker"
  /\ wpc' = "locked"
  /\ UNCHANGED <<sessions, queue, notified, stop, it, mpc, gone>>

\* Fault: the loop goes back to its test without unlocking.
BailOut_locked ==
  /\ wpc = "locked"
  /\ queue = <<>>
  /\ wpc' = "check"
  /\ UNCHANGED <<sessions, queue, mutex, notified, stop, it, mpc, gone>>

\* `continue' unlocks; so does the end of the loop's body.
BailOut ==
  /\ wpc = "locked"
  /\ queue = <<>>
  /\ mutex' = "free"
  /\ wpc' = "check"
  /\ UNCHANGED <<sessions, queue, notified, stop, it, mpc, gone>>

PopFront ==
  /\ wpc = "locked"
  /\ queue # <<>>
  /\ queue' = Tail(queue)
  /\ IF Head(queue) \in sessions
     THEN it' = Head(queue) /\ wpc' = "iterate" /\ UNCHANGED mutex
     ELSE mutex' = "free" /\ wpc' = "check" /\ UNCHANGED it
  /\ UNCHANGED <<sessions, notified, stop, mpc, gone>>

EndIteration ==
  /\ wpc = "iterate"
  /\ it' = NoFd
  /\ mutex' = "free"
  /\ wpc' = "check"
  /\ UNCHANGED <<sessions, queue, notified, stop, mpc, gone>>

----------------------------------------------------------------------------
Calls ==
  \E fd \in Fd : add_session(fd) \/ remove_session(fd) \/ data_available(fd)

Destructor ==
  \/ SleepEnds \/ LockAndNotify \/ DestroyMembers \/ JoinWorker \/ DestroySessions

Worker ==
  \/ Check \/ Lock \/ StartWait \/ Wake \/ Relock \/ BailOut \/ PopFront
  \/ EndIteration

Destroyed == mpc = "destroyed" /\ UNCHANGED vars

Next == Calls \/ RequestStop \/ Destructor \/ Worker \/ Destroyed

Spec == Init /\ [][Next]_vars

\* Both threads are scheduled; nothing makes the server call or stop.
FairSpec == Spec /\ WF_vars(Worker) /\ WF_vars(Destructor)

----------------------------------------------------------------------------
\* The members the worker's next step uses.  (finished_ is written at the
\* end, maybe after its trivial destructor, and never read.)
Uses ==
  CASE wpc = "lock"                          -> {"mutex_"}
    [] wpc \in {"enter", "wait", "relock"}   -> {"mutex_", "cond_"}
    [] wpc = "locked"                        -> {"mutex_", "queue_", "sessions_"}
    [] wpc = "iterate"                       -> {"mutex_", "sessions_"}
    [] OTHER                                 -> {}

\* The worker uses no member that ~ThreadMulti has destroyed, though the
\* members go before the worker is joined.
NoUseAfterDestroy == Uses \cap gone = {}

\* ThreadMulti does what ThreadManager expects of a Thread.
T == INSTANCE Thread WITH
       queue <- IF mpc = "destroyed" THEN <<>> ELSE queue,
       busy  <- it,
       over  <- (mpc = "destroyed")

Implements == T!ThreadSpec

\* A queued descriptor is taken, even if its notify_one() was lost because
\* the worker was not waiting when it came.
QueueServed == queue # <<>> ~> (wpc = "locked" /\ queue # <<>>) \/ stop

\* The destructor ends: the worker sees the stop request and is joined.
DestructorEnds == stop ~> mpc = "destroyed"

============================================================================
