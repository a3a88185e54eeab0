---------------------------- MODULE ServerProofs ---------------------------
(***************************************************************************)
(* The safety properties of Server, proved for any number of clients,      *)
(* descriptors and threads, and for the three pollers.  TypeOK is not      *)
(* inductive (recv() of a closed descriptor has no type), so everything    *)
(* is carried by one inductive invariant, IInv.                            *)
(***************************************************************************)
EXTENDS Server, TLAPS

\* The open-file table is a matching of descriptors and accepted clients.
Matching ==
  /\ \A f, g \in Fd : Open(f) /\ conn[f] = conn[g] => f = g
  /\ \A fd \in Fd : conn[fd] \notin backlog
  /\ \A c \in Conn : peer[c] = "none" =>
       c \notin backlog /\ \A fd \in Fd : conn[fd] # c

\* epoll and kqueue forget a descriptor that is closed; WSAPoll does not.
Posix == backend # "wsapoll"

\* What the poller and the pending events know is about live sessions.
Tracked ==
  /\ ready \subseteq interest
  /\ Posix =>
       /\ \A fd \in interest : HasSession(fd)
       /\ \A fd \in Fd : ClientDisconnected(fd) \in batch =>
            HasSession(fd) /\ fd \notin interest /\ HangUp(fd)

\* The client being set up by the NewClient case of iterate().
Joining ==
  /\ pc = "add_session" =>
       cur \in Fd /\ Open(cur) /\ ~HasSession(cur)
  /\ pc = "add_client" =>
       /\ cur \in Fd
       /\ HasSession(cur)
       /\ Posix => cur \notin interest /\ ClientDisconnected(cur) \notin batch

\* Phases: no event survives an iterate(); the destructors run after it.
Phases ==
  /\ pc \in {"wait", "teardown", "stopped"} => batch = {}
  /\ joined # {} => pc \in {"teardown", "stopped"}
  /\ \A t \in joined : Unlocked(t) /\ \A fd \in Fd : sessions[t][fd] = NoConn
  /\ pc = "stopped" => joined = Thread

\* Nothing is answered before it was received, or received before it was sent.
Counts ==
  /\ \A c \in Conn : /\ replied[c] <= rcvd[c]
                     /\ rcvd[c] <= sent[c]
                     /\ sent[c] - replied[c] <= Window
  /\ \A t \in Thread :
       IF Unlocked(t) THEN got[t] = 0
       ELSE replied[conn[busy[t]]] + got[t] <= rcvd[conn[busy[t]]]

Core ==
  /\ TypeOK
  /\ SessionOwnsFd
  /\ IteratingSessionExists
  /\ Matching
  /\ NoLeakedDescriptor
  /\ Tracked
  /\ Joining
  /\ Phases
  /\ Counts

IInv == Core /\ (Window <= RecvMax => NoMissedEdge)

USE DEF EdgeTriggered, Posix

----------------------------------------------------------------------------
\* Every descriptor is routed to one of the threads.
LEMMA RoutedToThread == \A fd \in Fd : ThreadOf(fd) \in Thread
  BY SocketsAssumption, ThreadManagerAssumption DEF ThreadOf, Thread

\* No two events of different kinds or descriptors are equal.
LEMMA EventFacts ==
  /\ NewClient \in Event
  /\ \A fd \in Fd : ClientDataReady(fd) \in Event /\ ClientDisconnected(fd) \in Event
  /\ \A f, g : ClientDisconnected(f) = ClientDisconnected(g) => f = g
  /\ \A f, g : ClientDataReady(f) = ClientDataReady(g) => f = g
  /\ \A f, g : ClientDataReady(f) # ClientDisconnected(g)
  /\ \A f : NewClient # ClientDisconnected(f) /\ NewClient # ClientDataReady(f)
  <1>1. \A f, g : ClientDisconnected(f) = ClientDisconnected(g) => f = g
    BY DEF ClientDisconnected
  <1>2. \A f, g : ClientDataReady(f) = ClientDataReady(g) => f = g
    BY DEF ClientDataReady
  <1>3. \A f, g : ClientDataReady(f) # ClientDisconnected(g)
    BY DEF ClientDataReady, ClientDisconnected
  <1>4. \A f : NewClient # ClientDisconnected(f) /\ NewClient # ClientDataReady(f)
    BY DEF NewClient, ClientDisconnected, ClientDataReady
  <1> QED
    BY <1>1, <1>2, <1>3, <1>4
    DEF Event, NewClient, ClientDataReady, ClientDisconnected

\* A client descriptor is never the -1 that stands for "none".
LEMMA FdIsNat == \A fd \in Fd : fd \in Nat /\ fd # INVALID_SOCKET
  BY SocketsAssumption DEF INVALID_SOCKET

----------------------------------------------------------------------------
(* The initial state. *)

\* The constructor of Server establishes the invariant.
LEMMA InitIInv == Init => IInv
  <1> SUFFICES ASSUME Init PROVE IInv
    OBVIOUS
  <1> USE SocketsAssumption DEF Init, SockInit, PollInit, ThreadInit
  <1>1. TypeOK
    BY DEF TypeOK, SockTypeOK, PollTypeOK, ThreadTypeOK, PeerState, Pc
  <1>2. Matching /\ Tracked /\ Joining /\ Phases
    BY DEF Matching, Tracked, Joining, Phases, Open
  <1>3. SessionOwnsFd /\ IteratingSessionExists /\ NoLeakedDescriptor
    BY RoutedToThread DEF SessionOwnsFd, IteratingSessionExists,
      NoLeakedDescriptor, Open, HasSession, Unlocked
  <1>4. Counts
    BY DEF Counts, Unlocked
  <1>5. NoMissedEdge
    BY DEF NoMissedEdge
  <1> QED
    BY <1>1, <1>2, <1>3, <1>4, <1>5 DEF IInv, Core

----------------------------------------------------------------------------
(* The clients. *)

\* A handshake the kernel completes only adds to the listen queue.
LEMMA ConnectIInv == ASSUME IInv, NEW c \in Conn, ClientConnect(c) PROVE IInv'
  <1> USE DEF IInv, Core, ClientConnect, Connect, pollVars, threadVars, mainVars
  <1>1. TypeOK'
    BY DEF TypeOK, SockTypeOK, PollTypeOK, ThreadTypeOK, PeerState
  <1>2. Matching'
    BY SocketsAssumption DEF Matching, Open, TypeOK, SockTypeOK
  <1>3. SessionOwnsFd' /\ IteratingSessionExists'
    BY DEF SessionOwnsFd, IteratingSessionExists, Unlocked
  <1>4. NoLeakedDescriptor' /\ Joining' /\ Phases'
    BY DEF NoLeakedDescriptor, Joining, Phases, Open, HasSession, Unlocked
  <1>5. \A fd \in Fd : HangUp(fd) => HangUp(fd)'
    BY DEF HangUp, HasLeft, Open, TypeOK, SockTypeOK
  <1>6. Tracked'
    BY <1>5 DEF Tracked, HasSession
  <1>7. Counts'
    BY DEF Counts, Unlocked
  <1>8. ASSUME NoMissedEdge PROVE NoMissedEdge'
    <2>1. \A fd \in interest : conn[fd] # c
      BY DEF Matching, TypeOK, PollTypeOK
    <2>2. \A fd \in interest : HangUp(fd)' => HangUp(fd)
      BY <2>1 DEF HangUp, HasLeft, Open, TypeOK, SockTypeOK, PollTypeOK
    <2> QED
      BY <1>8, <2>2 DEF NoMissedEdge, EdgeOutstanding, Readable, Unread, Open
  <1> QED
    BY <1>1, <1>2, <1>3, <1>4, <1>6, <1>7, <1>8

\* What a client's data or end of stream does, apart from its own counters.
LEMMA EdgeFacts ==
  ASSUME IInv, NEW c \in Conn, Edge(c),
         UNCHANGED <<backlog, conn, rcvd, replied, written, threadVars, mainVars>>,
         sent' \in [Conn -> Nat], peer' \in [Conn -> PeerState],
         \A d \in Conn : HasLeft(d) => HasLeft(d)',
         \A d \in Conn : peer'[d] = "none" => peer[d] = "none",
         \A d \in Conn \ {c} : sent'[d] = sent[d] /\ peer'[d] = peer[d],
         \A d \in Conn : sent[d] <= sent'[d] /\ sent'[d] - replied[d] <= Window
  PROVE  IInv'
  <1> USE DEF IInv, Core, Edge, threadVars, mainVars
  <1>1. TypeOK'
    BY DEF TypeOK, SockTypeOK, PollTypeOK, ThreadTypeOK, PeerState
  <1>2. Matching'
    BY DEF Matching, Open, TypeOK, SockTypeOK
  <1>3. SessionOwnsFd' /\ IteratingSessionExists'
    BY DEF SessionOwnsFd, IteratingSessionExists, Unlocked
  <1>4. NoLeakedDescriptor' /\ Joining' /\ Phases'
    BY DEF NoLeakedDescriptor, Joining, Phases, Open, HasSession, Unlocked
  <1>5. \A fd \in Fd : HasSession(fd) => conn[fd] \in Conn
    BY RoutedToThread DEF SessionOwnsFd, HasSession, TypeOK, SockTypeOK
  <1>6. Tracked'
    BY <1>5 DEF Tracked, HasSession, HangUp, Open, TypeOK, PollTypeOK
  <1>7. Counts'
    BY DEF Counts, Unlocked, TypeOK, SockTypeOK
  <1>8. ASSUME NoMissedEdge PROVE NoMissedEdge'
    <2> SUFFICES ASSUME EdgeTriggered, NEW fd \in interest
                 PROVE  /\ Readable(fd)' => EdgeOutstanding(fd)'
                        /\ HangUp(fd)' => fd \in ready'
      BY DEF NoMissedEdge
    <2>1. conn[fd] \in Conn /\ fd \in Fd
      BY <1>5 DEF Tracked, TypeOK, PollTypeOK
    <2>2. CASE conn[fd] = c
      BY <2>2, <2>1 DEF EdgeOutstanding
    <2>3. CASE conn[fd] # c
      <3>1. Readable(fd)' => Readable(fd)
        BY <2>1, <2>3 DEF Readable, Unread, Open
      <3>2. HangUp(fd)' => HangUp(fd)
        BY <2>1, <2>3 DEF HangUp, HasLeft, Open
      <3> QED
        BY <3>1, <3>2, <1>8 DEF NoMissedEdge, EdgeOutstanding
    <2> QED
      BY <2>2, <2>3
  <1> QED
    BY <1>1, <1>2, <1>3, <1>4, <1>6, <1>7, <1>8

\* Data keep it: they are an edge on their own descriptor, if registered.
LEMMA SendIInv == ASSUME IInv, NEW c \in Conn, ClientSend(c) PROVE IInv'
  <1> USE DEF IInv, Core, ClientSend, Transmit, TypeOK, SockTypeOK
  <1>1. sent' \in [Conn -> Nat] /\ peer' \in [Conn -> PeerState]
    OBVIOUS
  <1>2. \A d \in Conn : HasLeft(d) => HasLeft(d)'
    BY DEF HasLeft
  <1>3. \A d \in Conn : sent[d] <= sent'[d] /\ sent'[d] - replied[d] <= Window
    BY SocketsAssumption DEF Counts
  <1> QED
    BY <1>1, <1>2, <1>3, EdgeFacts

\* A client's end keeps it: a hang-up only adds an edge.
LEMMA LeaveIInv == ASSUME IInv, NEW c \in Conn, ClientLeave(c) PROVE IInv'
  <1> USE DEF IInv, Core, ClientLeave, Leave, TypeOK, SockTypeOK
  <1>1. sent' \in [Conn -> Nat] /\ peer' \in [Conn -> PeerState]
    BY DEF PeerState
  <1>2. \A d \in Conn : HasLeft(d) => HasLeft(d)'
    BY DEF HasLeft
  <1>3. \A d \in Conn : sent[d] <= sent'[d] /\ sent'[d] - replied[d] <= Window
    BY DEF Counts
  <1>4. \A d \in Conn : peer'[d] = "none" => peer[d] = "none"
    OBVIOUS
  <1> QED
    BY <1>1, <1>2, <1>3, <1>4, EdgeFacts

----------------------------------------------------------------------------
(* The server's thread. *)

\* A live session's descriptor is open, and is the session's own.
LEMMA SessionConn ==
  ASSUME IInv, NEW fd \in Fd, HasSession(fd)
  PROVE  conn[fd] \in Conn /\ conn[fd] = sessions[ThreadOf(fd)][fd]
  BY RoutedToThread
  DEF IInv, Core, SessionOwnsFd, HasSession, TypeOK, SockTypeOK

\* Poller::wait keeps it: what it unregisters is in the batch it returns.
LEMMA IterateIInv == ASSUME IInv, Iterate PROVE IInv'
  <1> USE DEF IInv, Core, Iterate, MainAt, sockVars, threadVars
  <1> PICK fds \in SUBSET Reportable, evs \in SUBSET ListenerEvents :
        /\ wait(fds, evs)
        /\ batch' = evs \cup UNION {EventsOf(fd) : fd \in fds}
    OBVIOUS
  <1>1. /\ fds \subseteq interest
        /\ interest' = IF Posix THEN interest \ {fd \in fds : HangUp(fd)} ELSE interest
        /\ ready' = ready \ fds
        /\ UNCHANGED backend
    BY DEF wait, Reportable, Unregister, Finished, Tracked
  <1>2. fds \subseteq Fd /\ interest \subseteq Fd
    BY <1>1 DEF TypeOK, PollTypeOK
  <1>3. evs \subseteq {NewClient}
    BY DEF ListenerEvents
  <1>4. \A fd \in Fd : ClientDisconnected(fd) \in batch' <=> fd \in fds /\ HangUp(fd)
    <2>1. \A f \in fds, fd \in Fd :
            ClientDisconnected(fd) \in EventsOf(f) <=> f = fd /\ HangUp(fd)
      BY <1>2, EventFacts DEF EventsOf, EventOf, WsaEventsOf
    <2>2. \A fd \in Fd : ClientDisconnected(fd) \notin evs
      BY <1>3, EventFacts
    <2>3. \A fd \in Fd : ClientDisconnected(fd) \in batch'
                         <=> \E f \in fds : ClientDisconnected(fd) \in EventsOf(f)
      BY <2>2
    <2> QED
      BY <2>1, <2>3
  <1>5. TypeOK'
    <2>1. batch' \subseteq Event
      BY <1>2, <1>3, EventFacts DEF EventsOf, EventOf, WsaEventsOf
    <2> QED
      BY <1>1, <2>1 DEF TypeOK, SockTypeOK, PollTypeOK, ThreadTypeOK, Pc
  <1>6. Matching' /\ SessionOwnsFd' /\ IteratingSessionExists'
    BY DEF Matching, Open, SessionOwnsFd, IteratingSessionExists, Unlocked
  <1>7. NoLeakedDescriptor'
    <2>1. batch = {}
      BY DEF Phases
    <2> QED
      BY <2>1, <1>1, <1>4 DEF NoLeakedDescriptor, Open, HasSession
  <1>8. Tracked'
    BY <1>1, <1>2, <1>4 DEF Tracked, HasSession, HangUp, HasLeft, Open
  <1>9. Joining' /\ Phases'
    BY DEF Joining, Phases, Unlocked
  <1>10. Counts'
    BY DEF Counts, Unlocked
  <1>11. ASSUME NoMissedEdge PROVE NoMissedEdge'
    <2> SUFFICES ASSUME EdgeTriggered, NEW fd \in interest'
                 PROVE  /\ Readable(fd)' => EdgeOutstanding(fd)'
                        /\ HangUp(fd)' => fd \in ready'
      BY <1>1 DEF NoMissedEdge
    <2>1. fd \in interest /\ (Readable(fd)' = Readable(fd)) /\ (HangUp(fd)' = HangUp(fd))
      BY <1>1 DEF Readable, Unread, Open, HangUp, HasLeft
    <2>2. CASE fd \in fds
      <3>1. ~HangUp(fd)
        BY <1>1, <2>2
      <3>2. ClientDataReady(fd) \in batch'
        BY <3>1, <2>2 DEF EventsOf, EventOf
      <3> QED
        BY <3>1, <3>2, <2>1 DEF EdgeOutstanding
    <2>3. CASE fd \notin fds
      <3>1. batch = {}
        BY DEF Phases
      <3> QED
        BY <2>1, <2>3, <3>1, <1>1, <1>11 DEF NoMissedEdge, EdgeOutstanding
    <2> QED
      BY <2>2, <2>3
  <1> QED
    BY <1>5, <1>6, <1>7, <1>8, <1>9, <1>10, <1>11

\* accept() keeps it: the descriptor it returns was closed, so no session,
\* no registration and no pending ClientDisconnected event refers to it.
LEMMA AcceptIInv == ASSUME IInv, AcceptClient PROVE IInv'
  <1> USE DEF IInv, Core, AcceptClient, MainAt, pollVars, threadVars
  <1> PICK c \in Conn, fd \in Fd : accept(c, fd) /\ cur' = fd
    OBVIOUS
  <1> USE DEF accept
  <1>1. ~HasSession(fd) /\ conn[fd] = NoConn
    BY SessionConn, SocketsAssumption DEF Open
  <1>2. /\ conn'[fd] = c
        /\ \A f \in Fd \ {fd} : conn'[f] = conn[f]
    BY DEF TypeOK, SockTypeOK
  <1>3. \A f \in Fd : ClientDisconnected(f) \in batch' <=> ClientDisconnected(f) \in batch
    BY EventFacts
  <1>4. TypeOK'
    BY DEF TypeOK, SockTypeOK, PollTypeOK, ThreadTypeOK, Pc
  <1>5. Matching'
    BY <1>2, SocketsAssumption DEF Matching, Open, TypeOK, SockTypeOK
  <1>6. SessionOwnsFd'
    BY <1>1, <1>2, RoutedToThread DEF SessionOwnsFd, HasSession
  <1>7. IteratingSessionExists' /\ Phases'
    BY DEF IteratingSessionExists, Phases, Unlocked
  <1>8. NoLeakedDescriptor'
    BY <1>1, <1>2, <1>3 DEF NoLeakedDescriptor, Open, HasSession
  <1>9. Tracked'
    BY <1>1, <1>2, <1>3 DEF Tracked, HasSession, HangUp, HasLeft, Open, TypeOK, PollTypeOK
  <1>10. Joining'
    BY <1>1, <1>2, SocketsAssumption DEF Joining, Open, HasSession
  <1>11. Counts'
    <2>1. \A t \in Thread : ~Unlocked(t) => conn'[busy[t]] = conn[busy[t]]
      BY <1>1, <1>2 DEF IteratingSessionExists, SessionOwnsFd, HasSession,
        Unlocked, TypeOK, ThreadTypeOK
    <2> QED
      BY <2>1 DEF Counts, Unlocked
  <1>12. ASSUME NoMissedEdge PROVE NoMissedEdge'
    <2> SUFFICES ASSUME EdgeTriggered PROVE NoMissedEdge'
      BY DEF NoMissedEdge
    <2>1. \A f \in interest : f \in Fd /\ f # fd
      BY <1>1 DEF Tracked, TypeOK, PollTypeOK
    <2>2. \A f \in interest : ClientDataReady(f) \in batch' <=> ClientDataReady(f) \in batch
      BY EventFacts
    <2> QED
      BY <2>1, <2>2, <1>2, <1>12
      DEF NoMissedEdge, EdgeOutstanding, Readable, Unread, HangUp, HasLeft, Open
  <1> QED
    BY <1>4, <1>5, <1>6, <1>7, <1>8, <1>9, <1>10, <1>11, <1>12

\* add_session() keeps it: the new session holds its own descriptor.
LEMMA AddSessionIInv == ASSUME IInv, AddSession PROVE IInv'
  <1> USE DEF IInv, Core, AddSession, add_session, MainAt, sockVars, pollVars
  <1> DEFINE t == ThreadOf(cur)
  <1>1. cur \in Fd /\ t \in Thread /\ conn[cur] \in Conn /\ ~HasSession(cur)
    BY RoutedToThread DEF Joining, Open, TypeOK, SockTypeOK
  <1>2. /\ sessions'[t][cur] = conn[cur]
        /\ \A u \in Thread, f \in Fd :
             u # t \/ f # cur => sessions'[u][f] = sessions[u][f]
    BY <1>1 DEF TypeOK, ThreadTypeOK
  <1>3. TypeOK'
    BY <1>1 DEF TypeOK, SockTypeOK, PollTypeOK, ThreadTypeOK, Pc
  <1>4. Matching'
    BY DEF Matching, Open
  <1>5. SessionOwnsFd'
    BY <1>1, <1>2 DEF SessionOwnsFd
  <1>6. IteratingSessionExists'
    BY <1>1, <1>2 DEF IteratingSessionExists, Unlocked, TypeOK, ThreadTypeOK
  <1>7. \A f \in Fd : HasSession(f)' <=> HasSession(f) \/ f = cur
    BY <1>1, <1>2, RoutedToThread, SocketsAssumption DEF HasSession
  <1>8. NoLeakedDescriptor'
    BY <1>1, <1>7 DEF NoLeakedDescriptor, Open
  <1>9. Tracked'
    BY <1>7 DEF Tracked, HangUp, HasLeft, Open, TypeOK, PollTypeOK
  <1>10. Joining'
    BY <1>1, <1>7 DEF Joining, Tracked
  <1>11. Phases'
    BY DEF Phases, Unlocked
  <1>12. Counts'
    BY DEF Counts, Unlocked
  <1>13. NoMissedEdge => NoMissedEdge'
    BY DEF NoMissedEdge, EdgeOutstanding, Readable, Unread, HangUp, HasLeft, Open
  <1> QED
    BY <1>3, <1>4, <1>5, <1>6, <1>8, <1>9, <1>10, <1>11, <1>12, <1>13

\* add_client() keeps it: data that came before it are on the ready list.
LEMMA AddClientIInv == ASSUME IInv, AddClient PROVE IInv'
  <1> USE DEF IInv, Core, AddClient, add_client, MainAt,
    sockVars, threadVars
  <1>1. cur \in Fd /\ HasSession(cur)
    BY DEF Joining
  <1>2. TypeOK'
    BY <1>1 DEF TypeOK, SockTypeOK, PollTypeOK, ThreadTypeOK, Pc
  <1>3. Matching' /\ SessionOwnsFd' /\ IteratingSessionExists' /\ Phases' /\ Counts'
    BY DEF Matching, Open, SessionOwnsFd, IteratingSessionExists, Unlocked, Phases, Counts
  <1>4. NoLeakedDescriptor'
    BY <1>1 DEF NoLeakedDescriptor, Open, HasSession
  <1>5. Tracked'
    BY <1>1 DEF Tracked, Joining, HasSession, HangUp, HasLeft, Open
  <1>6. Joining'
    BY DEF Joining
  <1>7. NoMissedEdge => NoMissedEdge'
    BY DEF NoMissedEdge, EdgeOutstanding, Pending, Readable, Unread, HangUp, HasLeft, Open
  <1> QED
    BY <1>2, <1>3, <1>4, <1>5, <1>6, <1>7

\* data_available() keeps it: the edge in the batch becomes a queue entry, or
\* an iteration of the ThreadSingle.
LEMMA DataReadyIInv ==
  ASSUME IInv, NEW fd \in Fd, HandleDataReady(fd) PROVE IInv'
  <1> USE DEF IInv, Core, HandleDataReady, data_available, MainAt, sockVars, pollVars
  <1> DEFINE t == ThreadOf(fd)
  <1>1. t \in Thread /\ Unlocked(t)
    BY RoutedToThread
  <1>2. \A f \in Fd : ClientDisconnected(f) \in batch' <=> ClientDisconnected(f) \in batch
    BY EventFacts
  <1>3. \A u \in Thread : \/ busy'[u] = busy[u]
                          \/ u = t /\ busy'[u] = fd /\ HasSession(fd)
    BY <1>1 DEF TypeOK, ThreadTypeOK
  <1>queue. queue' = queue \/ queue' = [queue EXCEPT ![t] = Append(queue[t], fd)]
    OBVIOUS
  <1>push. \A u \in Thread : \/ queue'[u] = queue[u]
                             \/ u = t /\ queue'[u] = Append(queue[u], fd)
    BY <1>1, <1>queue DEF TypeOK, ThreadTypeOK
  <1>4. TypeOK'
    <2>1. queue' \in [Thread -> Seq(Fd)]
      <3>1. queue \in [Thread -> Seq(Fd)] /\ queue[t] \in Seq(Fd)
        BY <1>1 DEF TypeOK, ThreadTypeOK
      <3>2. Append(queue[t], fd) \in Seq(Fd)
        BY <3>1
      <3> QED
        BY <3>1, <3>2, <1>queue
    <2>2. busy' \in [Thread -> Fd \cup {INVALID_SOCKET}]
      BY <1>1 DEF TypeOK, ThreadTypeOK
    <2> QED
      BY <2>1, <2>2 DEF TypeOK, SockTypeOK, PollTypeOK, ThreadTypeOK
  <1>5. Matching' /\ SessionOwnsFd' /\ Joining'
    BY <1>2 DEF Matching, Open, SessionOwnsFd, Joining, HasSession
  <1>6. IteratingSessionExists'
    BY <1>3 DEF IteratingSessionExists, Unlocked, HasSession
  <1>7. NoLeakedDescriptor' /\ Tracked'
    BY <1>2 DEF NoLeakedDescriptor, Tracked, Open, HasSession, HangUp, HasLeft
  <1>8. Phases'
    BY DEF Phases
  <1>9. Counts'
    <2>1. got[t] = 0 /\ (HasSession(fd) => conn[fd] \in Conn)
      BY <1>1, SessionConn DEF Counts
    <2> QED
      BY <2>1, <1>1, <1>3, FdIsNat DEF Counts, Unlocked, TypeOK, SockTypeOK
  <1>10. ASSUME NoMissedEdge PROVE NoMissedEdge'
    <2> SUFFICES ASSUME EdgeTriggered, NEW f \in interest, Readable(f)
                 PROVE  EdgeOutstanding(f)'
      BY <1>10 DEF NoMissedEdge, Readable, Unread, HangUp, HasLeft, Open
    <2>1. f \in Fd /\ ThreadOf(f) \in Thread /\ HasSession(f) /\ EdgeOutstanding(f)
      BY <1>10, RoutedToThread DEF NoMissedEdge, Tracked, TypeOK, PollTypeOK
    <2>2. CASE f = fd
      <3>1. CASE Single
        BY <2>1, <2>2, <3>1, <1>1
        DEF EdgeOutstanding, Counts, TypeOK, ThreadTypeOK
      <3>2. CASE ~Single
        <4>1. queue[t] \in Seq(Fd) /\ queue'[t] = Append(queue[t], fd)
          BY <3>2, <1>1 DEF TypeOK, ThreadTypeOK
        <4>2. /\ Len(queue[t]) + 1 \in DOMAIN queue'[t]
              /\ queue'[t][Len(queue[t]) + 1] = fd
          BY <4>1
        <4> QED
          BY <4>2, <2>2 DEF EdgeOutstanding
      <3> QED
        BY <3>1, <3>2
    <2>3. CASE f # fd
      <3>1. ClientDataReady(f) \in batch => ClientDataReady(f) \in batch'
        BY <2>3, EventFacts
      <3>2. \A u \in Thread : \A i \in DOMAIN queue[u] :
              i \in DOMAIN queue'[u] /\ queue'[u][i] = queue[u][i]
        <4> SUFFICES ASSUME NEW u \in Thread, NEW i \in DOMAIN queue[u]
                     PROVE  i \in DOMAIN queue'[u] /\ queue'[u][i] = queue[u][i]
          OBVIOUS
        <4>1. queue[u] \in Seq(Fd)
          BY DEF TypeOK, ThreadTypeOK
        <4>2. CASE queue'[u] = queue[u]
          BY <4>2
        <4>3. CASE queue'[u] = Append(queue[u], fd)
          BY <4>1, <4>3
        <4> QED
          BY <4>2, <4>3, <1>push
      <3>3. busy[ThreadOf(f)] = f => busy'[ThreadOf(f)] = f
        BY <1>1, <1>3, <2>1, FdIsNat DEF Unlocked
      <3> QED
        BY <2>1, <3>1, <3>2, <3>3 DEF EdgeOutstanding
    <2> QED
      BY <2>2, <2>3
  <1> QED
    BY <1>4, <1>5, <1>6, <1>7, <1>8, <1>9, <1>10

\* remove_session() keeps it: it waits for the worker, and closes the client's
\* own descriptor.
LEMMA DisconnectedIInv ==
  ASSUME IInv, NEW fd \in Fd, HandleDisconnected(fd) PROVE IInv'
  <1> USE DEF IInv, Core, HandleDisconnected, remove_session, MayErase, Erased,
    Closed, Forget, Unregister, MainAt
  <1> DEFINE t == ThreadOf(fd)
  <1>1. t \in Thread /\ Unlocked(t) /\ (HasSession(fd) \/ conn[fd] = NoConn)
    BY RoutedToThread DEF NoLeakedDescriptor, Open
  <1>2. /\ sessions'[t][fd] = NoConn
        /\ \A u \in Thread, f \in Fd :
             u # t \/ f # fd => sessions'[u][f] = sessions[u][f]
    BY <1>1 DEF TypeOK, ThreadTypeOK
  <1>3. conn'[fd] = NoConn /\ \A f \in Fd \ {fd} : conn'[f] = conn[f]
    BY <1>1 DEF HasSession
  <1>4. \A f \in Fd : HasSession(f)' <=> HasSession(f) /\ f # fd
    BY <1>1, <1>2, RoutedToThread DEF HasSession
  <1>5. \A f \in Fd : ClientDisconnected(f) \in batch'
                        <=> ClientDisconnected(f) \in batch /\ f # fd
    BY EventFacts
  <1>6. TypeOK'
    BY <1>1 DEF TypeOK, SockTypeOK, PollTypeOK, ThreadTypeOK
  <1>7. Matching'
    BY <1>3, SocketsAssumption DEF Matching, Open, TypeOK, SockTypeOK
  <1>8. SessionOwnsFd'
    BY <1>1, <1>2, <1>3 DEF SessionOwnsFd
  <1>9. \A u \in Thread : ~Unlocked(u) => busy[u] \in Fd /\ busy[u] # fd
    BY <1>1 DEF IteratingSessionExists, SessionOwnsFd, Unlocked, TypeOK, ThreadTypeOK
  <1>10. IteratingSessionExists'
    BY <1>9, <1>2 DEF IteratingSessionExists, Unlocked
  <1>11. NoLeakedDescriptor'
    BY <1>3, <1>4, <1>5 DEF NoLeakedDescriptor, Open
  <1>12. Tracked'
    BY <1>3, <1>4, <1>5 DEF Tracked, HangUp, HasLeft, Open, TypeOK, PollTypeOK
  <1>13. Joining' /\ Phases'
    BY DEF Joining, Phases
  <1>14. Counts'
    BY <1>3, <1>9 DEF Counts, Unlocked
  <1>15. ASSUME NoMissedEdge PROVE NoMissedEdge'
    <2> SUFFICES ASSUME EdgeTriggered PROVE NoMissedEdge'
      BY DEF NoMissedEdge
    <2>1. \A f \in interest' : /\ f \in interest /\ f \in Fd /\ f # fd
                               /\ conn'[f] = conn[f]
      BY <1>3 DEF TypeOK, PollTypeOK
    <2>2. \A f : ClientDataReady(f) \in batch => ClientDataReady(f) \in batch'
      BY EventFacts
    <2> QED
      BY <2>1, <2>2, <1>15
      DEF NoMissedEdge, EdgeOutstanding, Readable, Unread, HangUp, HasLeft, Open
  <1> QED
    BY <1>6, <1>7, <1>8, <1>10, <1>11, <1>12, <1>13, <1>14, <1>15

\* The steps that only move the server's thread, or end the process.
LEMMA ControlIInv ==
  ASSUME IInv,
         \/ AcceptThrows \/ EndIterate \/ Stop \/ Exit \/ RunReturns
         \/ \E t \in Thread : WorkerThrows(t)
         \/ Over
  PROVE  IInv'
  <1> USE DEF IInv, Core
  <1>1. /\ UNCHANGED <<peer, conn, sent, rcvd, replied, written, pollVars, threadVars,
                       batch, cur, joined>>
        /\ backlog' \subseteq backlog
        /\ \/ pc' = pc
           \/ pc = "dispatch" /\ batch = {} /\ pc' = "wait"
           \/ pc = "wait" /\ pc' = "teardown"
           \/ pc = "teardown" /\ joined = Thread /\ pc' = "stopped"
        /\ running' \in BOOLEAN /\ alive' \in BOOLEAN
    BY DEF AcceptThrows, EndIterate, Rearm, Stop, Exit, RunReturns, WorkerThrows, Over,
      MainAt, vars, sockVars, mainVars, TypeOK
  <1> USE <1>1 DEF pollVars, threadVars
  <1>2. TypeOK'
    BY DEF TypeOK, SockTypeOK, PollTypeOK, ThreadTypeOK, Pc
  <1>3. Matching' /\ SessionOwnsFd' /\ IteratingSessionExists'
    BY DEF Matching, Open, SessionOwnsFd, IteratingSessionExists, Unlocked
  <1>4. NoLeakedDescriptor'
    BY DEF NoLeakedDescriptor, Open, HasSession
  <1>5. Tracked' /\ Joining' /\ Phases'
    BY DEF Tracked, Joining, Phases, Open, HasSession, HangUp, HasLeft, Unlocked
  <1>6. Counts'
    BY DEF Counts, Unlocked
  <1>7. NoMissedEdge => NoMissedEdge'
    BY DEF NoMissedEdge, EdgeOutstanding, Readable, Unread, HangUp, HasLeft, Open
  <1> QED
    BY <1>2, <1>3, <1>4, <1>5, <1>6, <1>7

\* The destructor of a thread keeps it: sessions and descriptors go together.
LEMMA JoinThreadIInv ==
  ASSUME IInv, NEW t \in Thread, JoinThread(t) PROVE IInv'
  <1> USE DEF IInv, Core, JoinThread, DestroyThread, Closed, Forget, Unregister, MainAt
  <1>1. \A u \in Thread, f \in Fd :
          sessions'[u][f] = IF u = t THEN NoConn ELSE sessions[u][f]
    BY DEF TypeOK, ThreadTypeOK
  <1>2. \A f \in Fd : conn'[f] = IF sessions[t][f] # NoConn THEN NoConn ELSE conn[f]
    OBVIOUS
  <1>3. \A f \in Fd : HasSession(f)' <=> HasSession(f) /\ sessions[t][f] = NoConn
    BY <1>1, RoutedToThread DEF HasSession, SessionOwnsFd
  <1>4. TypeOK'
    BY DEF TypeOK, SockTypeOK, PollTypeOK, ThreadTypeOK
  <1>5. Matching'
    BY <1>2, SocketsAssumption DEF Matching, Open, TypeOK, SockTypeOK
  <1>6. SessionOwnsFd'
    BY <1>1, <1>2 DEF SessionOwnsFd
  <1>7. \A u \in Thread : ~Unlocked(u) =>
          u # t /\ busy[u] \in Fd /\ sessions[t][busy[u]] = NoConn
    BY DEF IteratingSessionExists, SessionOwnsFd, Unlocked, TypeOK, ThreadTypeOK
  <1>8. IteratingSessionExists'
    BY <1>1, <1>7 DEF IteratingSessionExists, Unlocked
  <1>9. batch = {} /\ batch' = {}
    BY DEF Phases
  <1>10. NoLeakedDescriptor'
    BY <1>2, <1>3, <1>9 DEF NoLeakedDescriptor, Open
  <1>11. Tracked'
    BY <1>3, <1>9 DEF Tracked, TypeOK, PollTypeOK
  <1>12. Joining'
    BY DEF Joining
  <1>13. Phases'
    BY <1>1, <1>9 DEF Phases, Unlocked, TypeOK
  <1>14. Counts'
    BY <1>2, <1>7 DEF Counts, Unlocked
  <1>15. ASSUME NoMissedEdge PROVE NoMissedEdge'
    <2> SUFFICES ASSUME EdgeTriggered, NEW f \in interest'
                 PROVE  /\ Readable(f)' => EdgeOutstanding(f)'
                        /\ HangUp(f)' => f \in ready'
      BY DEF NoMissedEdge
    <2>1. f \in interest /\ f \in Fd /\ sessions[t][f] = NoConn /\ conn'[f] = conn[f]
      BY <1>2 DEF TypeOK, PollTypeOK
    <2>2. ThreadOf(f) \in Thread /\ ThreadOf(f) # t
      BY <2>1, RoutedToThread DEF Tracked, HasSession
    <2>3. queue'[ThreadOf(f)] = queue[ThreadOf(f)]
      BY <2>2 DEF TypeOK, ThreadTypeOK
    <2> QED
      BY <2>1, <2>3, <1>9, <1>15
      DEF NoMissedEdge, EdgeOutstanding, Readable, Unread, HangUp, HasLeft, Open
  <1> QED
    BY <1>4, <1>5, <1>6, <1>8, <1>10, <1>11, <1>12, <1>13, <1>14, <1>15

----------------------------------------------------------------------------
(* The threads. *)

\* What is left of a queue after its front was taken.
LEMMA TailKeeps ==
  ASSUME NEW q \in Seq(Fd), q # <<>>, NEW i \in DOMAIN q, q[i] # Head(q)
  PROVE  \E j \in DOMAIN Tail(q) : Tail(q)[j] = q[i]
  <1>1. i # 1 /\ i \in 1 .. Len(q)
    OBVIOUS
  <1>2. i - 1 \in DOMAIN Tail(q) /\ Tail(q)[i - 1] = q[i]
    BY <1>1
  <1> QED
    BY <1>2

\* The worker taking a queue entry keeps it: the entry becomes an iteration,
\* or belonged to a session that is gone.
LEMMA PopIInv == ASSUME IInv, NEW t \in Thread, WorkerPop(t) PROVE IInv'
  <1> USE DEF IInv, Core, WorkerPop, Pop, Rest, sockVars, pollVars, mainVars
  <1> DEFINE fd == Head(queue[t])
  <1>1. queue[t] \in Seq(Fd) /\ fd \in Fd /\ Tail(queue[t]) \in Seq(Fd)
    BY DEF TypeOK, ThreadTypeOK
  <1>2. /\ \A u \in Thread \ {t} : queue'[u] = queue[u] /\ busy'[u] = busy[u]
        /\ queue'[t] = Tail(queue[t])
        /\ busy'[t] = IF sessions[t][fd] # NoConn THEN fd ELSE busy[t]
    BY DEF TypeOK, ThreadTypeOK
  <1>3. TypeOK'
    <2>1. queue' \in [Thread -> Seq(Fd)]
      BY <1>1 DEF TypeOK, ThreadTypeOK
    <2>2. busy' \in [Thread -> Fd \cup {INVALID_SOCKET}]
      BY <1>1 DEF TypeOK, ThreadTypeOK
    <2> QED
      BY <2>1, <2>2 DEF TypeOK, SockTypeOK, PollTypeOK, ThreadTypeOK
  <1>4. Matching' /\ SessionOwnsFd' /\ Joining'
    BY DEF Matching, Open, SessionOwnsFd, Joining, HasSession
  <1>5. IteratingSessionExists'
    BY <1>2 DEF IteratingSessionExists, Unlocked
  <1>6. NoLeakedDescriptor' /\ Tracked'
    BY DEF NoLeakedDescriptor, Tracked, Open, HasSession, HangUp, HasLeft
  <1>7. Phases'
    BY <1>2 DEF Phases, Unlocked, TypeOK
  <1>8. Counts'
    <2>1. got[t] = 0 /\ (sessions[t][fd] # NoConn => conn[fd] \in Conn)
      BY <1>1 DEF Counts, SessionOwnsFd, TypeOK, SockTypeOK
    <2>2. sessions[t][fd] # NoConn => replied[conn[fd]] + 0 <= rcvd[conn[fd]]
      BY <2>1 DEF Counts, TypeOK, SockTypeOK
    <2>3. \A u \in Thread : u # t => busy'[u] = busy[u]
      BY <1>2
    <2>4. ASSUME NEW u \in Thread
          PROVE  IF Unlocked(u)' THEN got'[u] = 0
                 ELSE replied'[conn'[busy'[u]]] + got'[u] <= rcvd'[conn'[busy'[u]]]
      BY <2>1, <2>2, <2>3, <1>2 DEF Counts, Unlocked
    <2> QED
      BY <2>4 DEF Counts
  <1>9. ASSUME NoMissedEdge PROVE NoMissedEdge'
    <2> SUFFICES ASSUME EdgeTriggered, NEW f \in interest, Readable(f)
                 PROVE  EdgeOutstanding(f)'
      BY <1>9 DEF NoMissedEdge, Readable, Unread, HangUp, HasLeft, Open
    <2>1. f \in Fd /\ ThreadOf(f) \in Thread /\ HasSession(f) /\ EdgeOutstanding(f)
      BY <1>9, RoutedToThread DEF NoMissedEdge, Tracked, TypeOK, PollTypeOK
    <2>2. CASE ThreadOf(f) = t /\ fd = f
      BY <2>1, <2>2, <1>2 DEF EdgeOutstanding, HasSession, Counts
    <2>3. CASE ThreadOf(f) = t /\ fd # f
      <3>1. busy[t] # f
        BY <2>1, FdIsNat DEF Unlocked
      <3>2. (\E i \in DOMAIN queue[t] : queue[t][i] = f)
              => \E i \in DOMAIN queue'[t] : queue'[t][i] = f
        <4>1. queue[t] # <<>> /\ f # Head(queue[t]) /\ queue'[t] = Tail(queue[t])
          BY <2>3, <1>2
        <4> QED
          BY <4>1, <1>1, TailKeeps
      <3> QED
        BY <2>1, <2>3, <3>1, <3>2 DEF EdgeOutstanding
    <2>4. CASE ThreadOf(f) # t
      BY <2>1, <2>4, <1>2 DEF EdgeOutstanding
    <2> QED
      BY <2>2, <2>3, <2>4
  <1> QED
    BY <1>3, <1>4, <1>5, <1>6, <1>7, <1>8, <1>9

\* The session that is iterating, its client, and no other iteration has it.
LEMMA Iterating ==
  ASSUME IInv, NEW t \in Thread, ~Unlocked(t)
  PROVE  /\ busy[t] \in Fd
         /\ ThreadOf(busy[t]) = t
         /\ conn[busy[t]] \in Conn
         /\ \A f \in Fd : conn[f] = conn[busy[t]] => f = busy[t]
         /\ \A u \in Thread \ {t} : ~Unlocked(u) => conn[busy[u]] # conn[busy[t]]
  <1> USE DEF IInv, Core
  <1>1. \A u \in Thread : ~Unlocked(u) =>
          busy[u] \in Fd /\ ThreadOf(busy[u]) = u /\ conn[busy[u]] \in Conn
    BY DEF Unlocked, IteratingSessionExists, SessionOwnsFd, TypeOK, SockTypeOK,
      ThreadTypeOK
  <1>2. \A f \in Fd : conn[f] = conn[busy[t]] => f = busy[t]
    BY <1>1, SocketsAssumption DEF Matching, Open
  <1> QED
    BY <1>1, <1>2

\* recv() keeps it: the edge is used up only if it took all there was.
LEMMA RecvIInv == ASSUME IInv, NEW t \in Thread, WorkerRecv(t) PROVE IInv'
  <1> USE DEF IInv, Core, WorkerRecv, IterationRecv, pollVars, mainVars
  <1> DEFINE c == conn[busy[t]]
  <1>1. /\ busy[t] \in Fd /\ ThreadOf(busy[t]) = t /\ c \in Conn
        /\ \A f \in Fd : conn[f] = c => f = busy[t]
        /\ \A u \in Thread \ {t} : ~Unlocked(u) => conn[busy[u]] # c
    BY Iterating
  <1>2. /\ Unread(c) \in Nat /\ Chunk(c) \in Nat /\ Chunk(c) <= Unread(c)
        /\ Delivered(c) \in Nat /\ Delivered(c) <= Chunk(c)
    BY <1>1, SocketsAssumption DEF Delivered, Chunk, Unread, Counts, TypeOK, SockTypeOK
  <1>3. /\ rcvd'[c] = rcvd[c] + Chunk(c)
        /\ \A d \in Conn \ {c} : rcvd'[d] = rcvd[d]
        /\ got'[t] = Delivered(c)
        /\ \A u \in Thread \ {t} : got'[u] = got[u] /\ busy'[u] = busy[u]
        /\ busy'[t] = IF Delivered(c) = 0 THEN INVALID_SOCKET ELSE busy[t]
    BY <1>1 DEF TypeOK, SockTypeOK, ThreadTypeOK
  <1>4. TypeOK'
    <2>1. rcvd' \in [Conn -> Nat]
      BY <1>1, <1>2 DEF TypeOK, SockTypeOK
    <2>2. got' \in [Thread -> Nat]
      BY <1>2 DEF TypeOK, ThreadTypeOK
    <2>3. busy' \in [Thread -> Fd \cup {INVALID_SOCKET}]
      BY <1>1 DEF TypeOK, ThreadTypeOK
    <2> QED
      BY <2>1, <2>2, <2>3 DEF TypeOK, SockTypeOK, PollTypeOK, ThreadTypeOK
  <1>5. Matching' /\ SessionOwnsFd' /\ Joining'
    BY DEF Matching, Open, SessionOwnsFd, Joining, HasSession
  <1>6. IteratingSessionExists'
    BY <1>3 DEF IteratingSessionExists, Unlocked
  <1>7. NoLeakedDescriptor' /\ Tracked'
    BY DEF NoLeakedDescriptor, Tracked, Open, HasSession, HangUp, HasLeft
  <1>8. Phases'
    BY <1>3 DEF Phases, Unlocked, TypeOK
  <1>9. Counts'
    <2>1. \A d \in Conn : /\ replied'[d] <= rcvd'[d]
                          /\ rcvd'[d] <= sent'[d]
                          /\ sent'[d] - replied'[d] <= Window
      BY <1>1, <1>2, <1>3 DEF Counts, Unread, TypeOK, SockTypeOK
    <2>2. replied[c] + Delivered(c) <= rcvd'[c]
      BY <1>1, <1>2, <1>3 DEF Counts, TypeOK, SockTypeOK
    <2>3. \A u \in Thread \ {t} : ~Unlocked(u) => conn[busy[u]] \in Conn
      BY Iterating
    <2>4. IF Unlocked(t)' THEN got'[t] = 0
          ELSE replied'[conn'[busy'[t]]] + got'[t] <= rcvd'[conn'[busy'[t]]]
      BY <1>3, <2>2 DEF Unlocked
    <2>5. ASSUME NEW u \in Thread \ {t}
          PROVE  IF Unlocked(u)' THEN got'[u] = 0
                 ELSE replied'[conn'[busy'[u]]] + got'[u] <= rcvd'[conn'[busy'[u]]]
      <3>1. CASE Unlocked(u)
        BY <1>3, <3>1 DEF Counts, Unlocked
      <3>2. CASE ~Unlocked(u)
        <4>1. conn[busy[u]] \in Conn \ {c}
          BY <1>1, <2>3, <3>2
        <4> QED
          BY <1>3, <3>2, <4>1 DEF Counts, Unlocked
      <3> QED
        BY <3>1, <3>2
    <2> QED
      BY <2>1, <2>4, <2>5 DEF Counts
  <1>10. ASSUME Window <= RecvMax, NoMissedEdge PROVE NoMissedEdge'
    <2>1. Chunk(c) = Unread(c)
      BY <1>1, <1>2, <1>10, SocketsAssumption
      DEF Chunk, Unread, Counts, TypeOK, SockTypeOK
    <2> SUFFICES ASSUME EdgeTriggered, NEW f \in interest, Readable(f)'
                 PROVE  EdgeOutstanding(f)'
      BY <1>10 DEF NoMissedEdge, HangUp, HasLeft, Open
    <2>2. f \in Fd /\ conn[f] \in Conn
      BY SessionConn DEF Tracked, TypeOK, PollTypeOK
    <2>3. f # busy[t]
      BY <2>1, <1>1, <1>3 DEF Readable, Unread, Open, TypeOK, SockTypeOK
    <2>4. Readable(f)
      BY <2>2, <2>3, <1>1, <1>3 DEF Readable, Unread, Open
    <2>5. EdgeOutstanding(f)
      BY <2>4, <1>10 DEF NoMissedEdge
    <2> QED
      BY <2>2, <2>3, <2>5, <1>3, RoutedToThread DEF EdgeOutstanding
  <1> QED
    BY <1>4, <1>5, <1>6, <1>7, <1>8, <1>9, <1>10

\* send() keeps it, after each ::send: what is answered had been received.
LEMMA SendBackIInv == ASSUME IInv, NEW t \in Thread, WorkerSend(t) PROVE IInv'
  <1> USE DEF IInv, Core, WorkerSend, IterationSend, pollVars, mainVars
  <1> DEFINE c == conn[busy[t]]
  <1>1. /\ busy[t] \in Fd /\ ThreadOf(busy[t]) = t /\ c \in Conn
        /\ \A u \in Thread \ {t} : ~Unlocked(u) => conn[busy[u]] # c
        /\ got[t] \in Nat \ {0} /\ pos[t] \in Nat
    BY Iterating DEF TypeOK, ThreadTypeOK
  <1> PICK m \in SendReturns(c, got[t]) \ {-1} :
        /\ written' = [written EXCEPT ![c] = @ + m]
        /\ IF SendDone(t, m)
           THEN /\ replied' = [replied EXCEPT ![c] = @ + got[t]]
                /\ got' = [got EXCEPT ![t] = 0]
                /\ pos' = [pos EXCEPT ![t] = 0]
                /\ busy' = [busy EXCEPT ![t] = INVALID_SOCKET]
           ELSE /\ pos' = [pos EXCEPT ![t] = @ + m]
                /\ UNCHANGED <<replied, got, busy>>
    OBVIOUS
  <1>m. m \in Nat
    BY <1>1 DEF SendReturns
  <1>2. /\ \/ replied'[c] = replied[c] + got[t] /\ got'[t] = 0 /\ busy'[t] = INVALID_SOCKET
           \/ replied'[c] = replied[c] /\ got'[t] = got[t] /\ busy'[t] = busy[t]
        /\ \A d \in Conn \ {c} : replied'[d] = replied[d]
        /\ \A u \in Thread \ {t} : got'[u] = got[u] /\ busy'[u] = busy[u]
    BY <1>1 DEF TypeOK, SockTypeOK, ThreadTypeOK
  <1>3. TypeOK'
    <2>1. written' \in [Conn -> Nat] /\ replied' \in [Conn -> Nat]
      BY <1>1, <1>m DEF TypeOK, SockTypeOK
    <2>2. got' \in [Thread -> Nat] /\ pos' \in [Thread -> Nat]
      <3>1. got \in [Thread -> Nat] /\ pos \in [Thread -> Nat] /\ pos[t] + m \in Nat
        BY <1>1, <1>m DEF TypeOK, ThreadTypeOK
      <3>2. \/ got' = got
            \/ got' = [got EXCEPT ![t] = 0]
        OBVIOUS
      <3>3. \/ pos' = [pos EXCEPT ![t] = 0]
            \/ pos' = [pos EXCEPT ![t] = pos[t] + m]
        OBVIOUS
      <3> QED
        BY <3>1, <3>2, <3>3
    <2>3. busy' \in [Thread -> Fd \cup {INVALID_SOCKET}]
      BY <1>1 DEF TypeOK, ThreadTypeOK
    <2> QED
      BY <2>1, <2>2, <2>3 DEF TypeOK, SockTypeOK, PollTypeOK, ThreadTypeOK
  <1>4. Matching' /\ SessionOwnsFd' /\ Joining'
    BY DEF Matching, Open, SessionOwnsFd, Joining, HasSession
  <1>5. IteratingSessionExists'
    BY <1>2 DEF IteratingSessionExists, Unlocked
  <1>6. NoLeakedDescriptor' /\ Tracked'
    BY DEF NoLeakedDescriptor, Tracked, Open, HasSession, HangUp, HasLeft
  <1>7. Phases'
    BY <1>2 DEF Phases, Unlocked, TypeOK
  <1>8. Counts'
    <2>1. \A d \in Conn : /\ replied'[d] <= rcvd'[d]
                          /\ rcvd'[d] <= sent'[d]
                          /\ sent'[d] - replied'[d] <= Window
      <3>1. \A d \in Conn : /\ replied[d] <= rcvd[d]
                            /\ rcvd[d] <= sent[d]
                            /\ sent[d] - replied[d] <= Window
                            /\ {replied[d], rcvd[d], sent[d]} \subseteq Nat
        BY DEF Counts, TypeOK, SockTypeOK
      <3>2. replied[c] + got[t] <= rcvd[c]
        BY DEF Counts
      <3>3. replied'[c] \in {replied[c], replied[c] + got[t]}
        BY <1>2
      <3>4. /\ replied'[c] <= rcvd[c]
            /\ sent[c] - replied'[c] <= Window
        BY <1>1, <3>1, <3>2, <3>3, SocketsAssumption
      <3> QED
        BY <1>2, <3>1, <3>4
    <2>2. \A u \in Thread \ {t} : ~Unlocked(u) => conn[busy[u]] \in Conn
      BY Iterating
    <2>3. ASSUME NEW u \in Thread \ {t}
          PROVE  IF Unlocked(u)' THEN got'[u] = 0
                 ELSE replied'[conn'[busy'[u]]] + got'[u] <= rcvd'[conn'[busy'[u]]]
      BY <2>2, <1>1, <1>2 DEF Counts, Unlocked
    <2>4. IF Unlocked(t)' THEN got'[t] = 0
          ELSE replied'[conn'[busy'[t]]] + got'[t] <= rcvd'[conn'[busy'[t]]]
      BY <1>1, <1>2 DEF Counts, Unlocked
    <2> QED
      BY <2>1, <2>3, <2>4 DEF Counts
  <1>9. ASSUME NoMissedEdge PROVE NoMissedEdge'
    <2>1. \A f \in interest : f \in Fd /\ ThreadOf(f) \in Thread
      BY RoutedToThread DEF TypeOK, PollTypeOK
    <2>2. \A f \in interest : busy[ThreadOf(f)] = f /\ got[ThreadOf(f)] = 0 =>
            busy'[ThreadOf(f)] = f /\ got'[ThreadOf(f)] = 0
      BY <2>1, <1>1, <1>2
    <2> QED
      BY <2>2, <1>9 DEF NoMissedEdge, EdgeOutstanding, Readable, Unread, HangUp, HasLeft, Open
  <1> QED
    BY <1>3, <1>4, <1>5, <1>6, <1>7, <1>8, <1>9

----------------------------------------------------------------------------
(* The theorems. *)

\* Every step keeps the invariant.
LEMMA NextIInv == IInv /\ [Next]_vars => IInv'
  <1> SUFFICES ASSUME IInv, [Next]_vars PROVE IInv'
    OBVIOUS
  <1>1. CASE MainStep
    BY <1>1, IterateIInv, AcceptIInv, AddSessionIInv, AddClientIInv,
      DataReadyIInv, DisconnectedIInv, ControlIInv, JoinThreadIInv DEF MainStep
  <1>2. CASE \E t \in Thread : WorkerStep(t)
    BY <1>2, PopIInv, RecvIInv, SendBackIInv, ControlIInv DEF WorkerStep
  <1>3. CASE \E c \in Conn : ClientStep(c)
    BY <1>3, ConnectIInv, SendIInv, LeaveIInv DEF ClientStep
  <1>4. CASE Stop \/ Over
    BY <1>4, ControlIInv
  <1>5. CASE UNCHANGED vars
    <2>1. IInv' <=> IInv
      BY <1>5 DEF vars, sockVars, pollVars, threadVars, mainVars, IInv, Core, TypeOK,
        SockTypeOK, PollTypeOK, ThreadTypeOK, SessionOwnsFd, IteratingSessionExists,
        Matching, NoLeakedDescriptor, Tracked, Joining, Phases, Counts, NoMissedEdge,
        EdgeOutstanding, Readable, Unread, HangUp, HasLeft, Open, Open, HasSession, Unlocked
    <2> QED
      BY <2>1
  <1> QED
    BY <1>1, <1>2, <1>3, <1>4, <1>5 DEF Next

\* The inductive invariant.
THEOREM Inductive == Spec => []IInv
  BY InitIInv, NextIInv, PTL DEF Spec

\* Every variable keeps its type; in particular recv() is never called for a
\* descriptor that is not open, and never counts a negative number of units.
THEOREM TypeCorrect == Spec => []TypeOK
  <1>1. IInv => TypeOK
    BY DEF IInv, Core
  <1> QED
    BY <1>1, Inductive, PTL

\* However descriptor numbers are reused, a session in sessions_ talks to the
\* client it was created for, in the thread its events are routed to.
THEOREM SessionsOwnTheirFd == Spec => []SessionOwnsFd
  <1>1. IInv => SessionOwnsFd
    BY DEF IInv, Core
  <1> QED
    BY <1>1, Inductive, PTL

\* No accepted descriptor is leaked, and no session is out of the poller's
\* reach, whatever the order of the events of a wait().
THEOREM NoDescriptorLost == Spec => []NoLeakedDescriptor
  <1>1. IInv => NoLeakedDescriptor
    BY DEF IInv, Core
  <1> QED
    BY <1>1, Inductive, PTL

\* The server's thread never erases a session under a worker's iteration().
THEOREM NoIterationOnErased == Spec => []IteratingSessionExists
  <1>1. IInv => IteratingSessionExists
    BY DEF IInv, Core
  <1> QED
    BY <1>1, Inductive, PTL

\* Edge-triggered epoll with one recv() per event loses no data and no hang-up
\* if everything a client sends ahead of its replies fits in one recv().
THEOREM EdgesNotMissed == Window <= RecvMax /\ Spec => []NoMissedEdge
  <1>1. Window <= RecvMax /\ IInv => NoMissedEdge
    BY DEF IInv
  <1>2. CASE Window <= RecvMax
    <2>1. IInv => NoMissedEdge
      BY <1>1, <1>2
    <2> QED
      BY <2>1, Inductive, PTL
  <1>3. CASE ~(Window <= RecvMax)
    BY <1>3
  <1> QED
    BY <1>2, <1>3

\* After ~Server every accepted descriptor is closed and no worker is inside a
\* session.
THEOREM ExitIsClean == Spec => []CleanExit
  <1>1. IInv => CleanExit
    BY RoutedToThread DEF IInv, Core, CleanExit, NoLeakedDescriptor, Phases, HasSession
  <1> QED
    BY <1>1, Inductive, PTL

\* While the server serves, it closes the descriptor of a client only after
\* that client has left.
THEOREM ClosedOnlyByLeaving ==
  Backends \subseteq {"epoll", "kqueue"} /\ Spec => OnlyLeaversClosed
  <1> SUFFICES ASSUME Backends \subseteq {"epoll", "kqueue"}
               PROVE  Spec => OnlyLeaversClosed
    OBVIOUS
  <1> DEFINE Closes(fd) == Open(fd) /\ conn'[fd] # conn[fd] /\ pc # "teardown"
  <1>1. ASSUME IInv, Next, NEW fd \in Fd, Closes(fd) PROVE HasLeft(conn[fd])
    <2>1. CASE AcceptClient
      BY <1>1, <2>1 DEF AcceptClient, accept, IInv, Core, TypeOK, SockTypeOK
    <2>2. CASE \E f \in Fd : HandleDisconnected(f)
      <3> PICK f \in Fd : HandleDisconnected(f)
        BY <2>2
      <3>1. Posix /\ ClientDisconnected(f) \in batch
        BY <1>1 DEF HandleDisconnected, Front, IInv, Core, TypeOK, PollTypeOK
      <3>2. HangUp(f)
        BY <1>1, <3>1 DEF IInv, Core, Tracked
      <3>3. f = fd
        BY <1>1 DEF HandleDisconnected, remove_session, Closed
      <3> QED
        BY <1>1, <3>2, <3>3 DEF HangUp
    <2>3. CASE UNCHANGED conn
      BY <1>1, <2>3
    <2> QED
      BY <1>1, <2>1, <2>2, <2>3 DEF Next, MainStep, WorkerStep, ClientStep, Iterate,
        AcceptThrows, AddSession, AddClient, HandleDataReady, EndIterate, Rearm, RunReturns,
        Exit, JoinThread, MainAt, Stop, WorkerPop, WorkerRecv, IterationRecv,
        WorkerSend, IterationSend, WorkerThrows, ClientConnect, Connect, ClientSend,
        Transmit, ClientLeave, Leave, Over, vars, sockVars
  <1>2. IInv /\ [Next]_vars => [\A fd \in Fd : Closes(fd) => HasLeft(conn[fd])]_vars
    BY <1>1
  <1> QED
    BY <1>2, Inductive, PTL DEF Spec, OnlyLeaversClosed

============================================================================
