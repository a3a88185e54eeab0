------------------------------- MODULE Poller ------------------------------
(***************************************************************************)
(* Poller (poller.hh) over epoll (poller.linux.cpp), which registers the   *)
(* clients edge-triggered, over kqueue (poller.bsd.cpp) or over WSAPoll    *)
(* (poller.win32.cpp), which are level-triggered.  The listener is         *)
(* level-triggered in all three.                                           *)
(*                                                                         *)
(* WSAPoll is given the vector fds on every wait().  No entry is ever      *)
(* erased, so a closed descriptor stays in it and is reported (POLLNVAL).  *)
(* A number that was reused is there twice and has its events twice, with  *)
(* no accept() between them: a set of descriptors says the same.           *)
(***************************************************************************)
EXTENDS Sockets

CONSTANTS
  Backends,         \* the pollers a server may be built with
  EVENT_BUFFER_SZ   \* events one wait() returns at most

ASSUME PollerAssumption ==
  /\ Backends \subseteq {"epoll", "kqueue", "wsapoll"}
  /\ EVENT_BUFFER_SZ \in Nat \ {0}

VARIABLES
  backend,    \* which of the three files was compiled
  interest,   \* client descriptors registered with the kernel, or in fds
  ready       \* epoll's ready list: edges not reported yet

pollVars == <<backend, interest, ready>>

PollTypeOK ==
  /\ backend \in Backends
  /\ interest \subseteq Fd
  /\ ready \subseteq Fd

PollInit ==
  /\ backend \in Backends
  /\ interest = {}
  /\ ready = {}

EdgeTriggered == backend = "epoll"

\* Poller::Event.  The listener's event carries no client descriptor.
NewClient == [type |-> "NewClient", fd |-> INVALID_SOCKET]

ClientDataReady(fd) == [type |-> "ClientDataReady", fd |-> fd]

ClientDisconnected(fd) == [type |-> "ClientDisconnected", fd |-> fd]

Event == {NewClient} \cup [type : {"ClientDataReady", "ClientDisconnected"},
                           fd : Fd]

\* EPOLLRDHUP, EPOLLHUP or EPOLLERR; EV_EOF; POLLHUP, POLLERR or POLLNVAL,
\* the last for a descriptor that was closed.
HangUp(fd) == ~Open(fd) \/ HasLeft(conn[fd])

Readable(fd) == Open(fd) /\ Unread(conn[fd]) > 0

Pending(fd) == HangUp(fd) \/ Readable(fd)

\* The clients the kernel would report now: epoll looks only at those with an
\* edge since they were last reported, the others at all that are registered.
Reportable == {fd \in IF EdgeTriggered THEN ready ELSE interest : Pending(fd)}

ListenerEvents == IF backlog = {} THEN {} ELSE {NewClient}

\* Data or an end of stream arriving for c is an edge on its descriptor.
Edge(c) ==
  /\ ready' = IF EdgeTriggered
              THEN ready \cup {fd \in interest : conn[fd] = c}
              ELSE ready
  /\ UNCHANGED <<backend, interest>>

\* Fault: the test for readable data comes before the one for a hang-up.
EventOf_data_first(fd) ==
  IF Readable(fd) THEN ClientDataReady(fd) ELSE ClientDisconnected(fd)

\* epoll and kqueue: a hang-up hides the data before it.
EventOf(fd) ==
  IF HangUp(fd) THEN ClientDisconnected(fd) ELSE ClientDataReady(fd)

\* WSAPoll: one entry may give both events.
WsaEventsOf(fd) ==
  {e \in {ClientDataReady(fd), ClientDisconnected(fd)} :
     IF e = ClientDataReady(fd) THEN Readable(fd) ELSE HangUp(fd)}

EventsOf(fd) == IF backend = "wsapoll" THEN WsaEventsOf(fd) ELSE {EventOf(fd)}

\* The vector of events is a set, for the kernel lists them in any order;
\* poller.win32.cpp puts NewClient first, and data before the hang-up.
Precedes(d, e) ==
  /\ backend = "wsapoll"
  /\ d = NewClient \/ (d = ClientDataReady(e.fd) /\ e = ClientDisconnected(e.fd))

Front(events) == {e \in events : \A d \in events \ {e} : ~Precedes(d, e)}

\* EPOLL_CTL_DEL, EV_DELETE, or the kernel at the close of a descriptor.
Unregister(fds) == IF backend = "wsapoll" THEN interest ELSE interest \ fds

\* Fault: clients are registered with EPOLLONESHOT or EV_ONESHOT.
Finished_oneshot(fds) == fds

\* Of the reported descriptors, the ones wait() itself unregisters.
Finished(fds) == {fd \in fds : HangUp(fd)}

\* How many of n events a wait() returns.
Fits(n) ==
  IF n < EVENT_BUFFER_SZ \/ backend = "wsapoll" THEN n ELSE EVENT_BUFFER_SZ

\* wait(): the kernel reports the descriptors fds and the listener evs.
wait(fds, evs) ==
  /\ fds \subseteq Reportable
  /\ evs \subseteq ListenerEvents
  /\ Cardinality(fds) + Cardinality(evs) =
       Fits(Cardinality(Reportable) + Cardinality(ListenerEvents))
  /\ interest' = Unregister(Finished(fds))
  /\ ready' = ready \ fds
  /\ UNCHANGED backend

\* epoll puts a descriptor that is ready already on its list.
add_client(fd) ==
  /\ interest' = interest \cup {fd}
  /\ ready' = IF EdgeTriggered /\ Pending(fd) THEN ready \cup {fd} ELSE ready
  /\ UNCHANGED backend

\* The kernel forgets a registered descriptor when it is closed.
Forget(fds) ==
  /\ interest' = Unregister(fds)
  /\ ready' = ready \ fds
  /\ UNCHANGED backend

============================================================================
