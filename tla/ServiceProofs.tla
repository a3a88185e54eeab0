--------------------------- MODULE ServiceProofs ---------------------------
(***************************************************************************)
(* Server implements Service, with the pollers that forget a closed        *)
(* descriptor: every step of Server is a step of Service or changes        *)
(* nothing that a client sees.  The inductive invariant of ServerProofs    *)
(* supplies what each step needs to know, but for the units send() has     *)
(* written: Wire says how many they may be.                                *)
(***************************************************************************)
EXTENDS ServerProofs

Status == [c \in Conn |-> StatusOf(c)]

Left == [c \in Conn |-> HasLeft(c)]

Up == pc \notin {"teardown", "stopped"}

\* Nothing of what Service speaks of has changed.
Unseen == UNCHANGED <<Status, sent, replied, written, Left, Up>>

Simulates == [ToClients!ServiceNext]_(ToClients!serviceVars)

\* Stuttering steps of Service.
LEMMA UnseenSimulates == ASSUME Unseen PROVE Simulates
  BY DEF Unseen, Simulates, ToClients!serviceVars, Status, Left, Up

\* The status of a client depends on its socket only.
LEMMA SameSockets ==
  ASSUME UNCHANGED <<peer, backlog, conn>> PROVE UNCHANGED <<Status, Left>>
  BY DEF Status, StatusOf, Left, HasLeft

\* The status of a client whose own socket does not change.
LEMMA SameStatus ==
  ASSUME NEW c \in Conn, peer'[c] = peer[c], c \in backlog' <=> c \in backlog,
         \A fd \in Fd : conn'[fd] = c <=> conn[fd] = c
  PROVE  StatusOf(c)' = StatusOf(c)
  BY DEF StatusOf

----------------------------------------------------------------------------
(* What is on the wire. *)

\* c is being answered: the send() of its session has called ::send.
MidSend(c) == \E t \in Thread : pos[t] > 0 /\ conn[busy[t]] = c

\* Between two send() everything written is answers, no unit more than twice;
\* during one, its first pos units are on the wire as well.
Wire ==
  /\ \A t \in Thread : pos[t] > 0 =>
       /\ ~Unlocked(t)
       /\ pos[t] < got[t]
       /\ replied[conn[busy[t]]] + pos[t] <= written[conn[busy[t]]]
       /\ written[conn[busy[t]]] <= 2 * replied[conn[busy[t]]] + pos[t]
  /\ \A c \in Conn : ~MidSend(c) =>
       replied[c] <= written[c] /\ written[c] <= 2 * replied[c]

\* Nobody interferes with an iteration that is in its send().
LEMMA SendUndisturbed ==
  ASSUME IInv, [Next]_vars, NEW t \in Thread, ~Unlocked(t), got[t] > 0, ~WorkerSend(t)
  PROVE  got'[t] = got[t] /\ busy'[t] = busy[t] /\ conn'[busy[t]] = conn[busy[t]]
  <1>1. /\ busy[t] \in Fd /\ ThreadOf(busy[t]) = t /\ conn[busy[t]] \in Conn
        /\ HasSession(busy[t])
    BY Iterating DEF IInv, Core, IteratingSessionExists, HasSession
  <1>2. got \in [Thread -> Nat] /\ busy \in [Thread -> Fd \cup {INVALID_SOCKET}]
    BY DEF IInv, Core, TypeOK, ThreadTypeOK
  <1>3. CASE AcceptClient
    BY <1>1, <1>3, SocketsAssumption DEF AcceptClient, accept, Open, threadVars, IInv, Core,
      TypeOK, SockTypeOK
  <1>4. CASE \E fd \in Fd : HandleDisconnected(fd)
    <2> PICK fd \in Fd : HandleDisconnected(fd)
      BY <1>4
    <2>1. fd # busy[t]
      BY <1>1 DEF HandleDisconnected, remove_session, MayErase
    <2> QED
      BY <1>1, <2>1 DEF HandleDisconnected, remove_session, Closed
  <1>5. CASE \E u \in Thread : JoinThread(u)
    <2> PICK u \in Thread : JoinThread(u)
      BY <1>5
    <2>1. u # t /\ sessions[u][busy[t]] = NoConn
      BY <1>1 DEF JoinThread, DestroyThread, IInv, Core, SessionOwnsFd
    <2> QED
      BY <1>1, <2>1 DEF JoinThread, DestroyThread, Closed
  <1>6. CASE \E fd \in Fd : HandleDataReady(fd)
    <2> PICK fd \in Fd : HandleDataReady(fd)
      BY <1>6
    <2>1. ThreadOf(fd) # t
      BY DEF HandleDataReady, data_available
    <2> QED
      BY <1>2, <2>1, RoutedToThread DEF HandleDataReady, data_available, sockVars
  <1>7. CASE \E u \in Thread : WorkerPop(u) \/ WorkerRecv(u) \/ WorkerSend(u)
    <2> PICK u \in Thread : WorkerPop(u) \/ WorkerRecv(u) \/ WorkerSend(u)
      BY <1>7
    <2>1. u # t
      BY DEF WorkerPop, Pop, WorkerRecv, IterationRecv
    <2>2. CASE WorkerPop(u)
      BY <1>2, <2>1, <2>2 DEF WorkerPop, Pop, sockVars
    <2>3. CASE WorkerRecv(u)
      BY <1>2, <2>1, <2>3 DEF WorkerRecv, IterationRecv
    <2>4. CASE WorkerSend(u)
      BY <1>2, <2>1, <2>4 DEF WorkerSend, IterationSend
    <2> QED
      BY <2>2, <2>3, <2>4
  <1>8. CASE UNCHANGED <<conn, busy, got>>
    BY <1>8
  <1> QED
    BY <1>3, <1>4, <1>5, <1>6, <1>7, <1>8
    DEF Next, MainStep, WorkerStep, ClientStep, Iterate, AcceptThrows, AddSession, add_session,
      AddClient, EndIterate, RunReturns, Exit, Stop, WorkerThrows, ClientConnect, Connect,
      ClientSend, Transmit, ClientLeave, Leave, Over, vars, sockVars, threadVars, mainVars

\* Only send() writes, and only its end completes an answer.
LEMMA OnlySendWrites ==
  ASSUME [Next]_vars, \A t \in Thread : ~WorkerSend(t)
  PROVE  UNCHANGED <<written, replied, pos>>
  BY DEF Next, MainStep, WorkerStep, ClientStep, Iterate, AcceptClient, accept, AcceptThrows,
    AddSession, add_session, AddClient, HandleDataReady, data_available, HandleDisconnected,
    remove_session, EndIterate, RunReturns, JoinThread, DestroyThread, Exit, Stop, WorkerPop,
    Pop, WorkerRecv, IterationRecv, WorkerThrows, ClientConnect, Connect, ClientSend,
    Transmit, ClientLeave, Leave, Over, vars, sockVars, threadVars, mainVars

\* One turn of the loop of send() by t: what it writes, and what it completes.
LEMMA OneSend ==
  ASSUME IInv, Wire, NEW t \in Thread, WorkerSend(t)
  PROVE  LET c == conn[busy[t]] IN
         /\ busy[t] \in Fd /\ c \in Conn
         /\ replied[c] + pos[t] <= written[c] /\ written[c] <= 2 * replied[c] + pos[t]
         /\ replied[c] + got[t] <= sent[c]
         /\ pos[t] < got[t]
         /\ \E m \in 1 .. got[t] :
              /\ written' = [written EXCEPT ![c] = @ + m]
              /\ \/ /\ pos[t] + m >= got[t]
                    /\ replied' = [replied EXCEPT ![c] = @ + got[t]]
                    /\ pos' = [pos EXCEPT ![t] = 0]
                 \/ /\ pos[t] + m < got[t]
                    /\ pos' = [pos EXCEPT ![t] = @ + m]
                    /\ UNCHANGED <<replied, got, busy>>
  <1> USE DEF WorkerSend, IterationSend
  <1> DEFINE c == conn[busy[t]]
  <1>1. /\ busy[t] \in Fd /\ c \in Conn
        /\ \A u \in Thread \ {t} : ~Unlocked(u) => conn[busy[u]] # c
    BY Iterating
  <1>2. got[t] \in Nat \ {0} /\ pos[t] \in Nat
    BY DEF IInv, Core, TypeOK, ThreadTypeOK
  <1>3. {replied[c], written[c], rcvd[c], sent[c]} \subseteq Nat
    BY <1>1 DEF IInv, Core, TypeOK, SockTypeOK
  <1>4. replied[c] + got[t] <= rcvd[c] /\ rcvd[c] <= sent[c]
    BY <1>1 DEF IInv, Core, Counts
  <1>5. pos[t] = 0 => ~MidSend(c)
    BY <1>1 DEF MidSend, Wire
  <1>6. replied[c] + pos[t] <= written[c] /\ written[c] <= 2 * replied[c] + pos[t]
    BY <1>1, <1>2, <1>3, <1>5 DEF Wire
  <1>7. pos[t] < got[t]
    BY <1>2 DEF Wire
  <1>8. PICK m \in SendReturns(c, got[t]) \ {-1} :
          /\ written' = [written EXCEPT ![c] = @ + m]
          /\ IF SendDone(t, m)
             THEN /\ replied' = [replied EXCEPT ![c] = @ + got[t]]
                  /\ pos' = [pos EXCEPT ![t] = 0]
             ELSE /\ pos' = [pos EXCEPT ![t] = @ + m]
                  /\ UNCHANGED <<replied, got, busy>>
    OBVIOUS
  <1>9. m \in 1 .. got[t] /\ (SendDone(t, m) <=> ~(pos[t] + m < got[t]))
    BY <1>2 DEF SendReturns, SendDone
  <1>10. \/ /\ pos[t] + m >= got[t]
            /\ replied' = [replied EXCEPT ![c] = @ + got[t]]
            /\ pos' = [pos EXCEPT ![t] = 0]
         \/ /\ pos[t] + m < got[t]
            /\ pos' = [pos EXCEPT ![t] = @ + m]
            /\ UNCHANGED <<replied, got, busy>>
    BY <1>2, <1>8, <1>9
  <1>11. replied[c] + got[t] <= sent[c]
    BY <1>2, <1>3, <1>4
  <1>12. \E k \in 1 .. got[t] :
           /\ written' = [written EXCEPT ![c] = @ + k]
           /\ \/ /\ pos[t] + k >= got[t]
                 /\ replied' = [replied EXCEPT ![c] = @ + got[t]]
                 /\ pos' = [pos EXCEPT ![t] = 0]
              \/ /\ pos[t] + k < got[t]
                 /\ pos' = [pos EXCEPT ![t] = @ + k]
                 /\ UNCHANGED <<replied, got, busy>>
    BY <1>8, <1>9, <1>10
  <1> QED
    BY <1>1, <1>6, <1>7, <1>11, <1>12

\* A turn of send() keeps what Wire says of every client.
LEMMA SendKeepsWire ==
  ASSUME IInv, IInv', Wire, [Next]_vars, NEW t \in Thread, WorkerSend(t) PROVE Wire'
  <1> DEFINE c == conn[busy[t]]
  <1>1. /\ busy[t] \in Fd /\ c \in Conn
        /\ replied[c] + pos[t] <= written[c] /\ written[c] <= 2 * replied[c] + pos[t]
        /\ pos[t] < got[t]
        /\ UNCHANGED conn
    BY OneSend DEF WorkerSend, IterationSend
  <1>2. PICK m \in 1 .. got[t] :
          /\ written' = [written EXCEPT ![c] = @ + m]
          /\ \/ /\ pos[t] + m >= got[t]
                /\ replied' = [replied EXCEPT ![c] = @ + got[t]]
                /\ pos' = [pos EXCEPT ![t] = 0]
             \/ /\ pos[t] + m < got[t]
                /\ pos' = [pos EXCEPT ![t] = @ + m]
                /\ UNCHANGED <<replied, got, busy>>
    BY OneSend
  <1>3. /\ pos \in [Thread -> Nat] /\ written \in [Conn -> Nat]
        /\ replied \in [Conn -> Nat] /\ got[t] \in Nat
    BY DEF IInv, Core, TypeOK, SockTypeOK, ThreadTypeOK
  <1>4. /\ written'[c] = written[c] + m
        /\ \A d \in Conn \ {c} : written'[d] = written[d] /\ replied'[d] = replied[d]
        /\ \A u \in Thread \ {t} : pos'[u] = pos[u]
    BY <1>1, <1>2, <1>3
  <1>5. \A u \in Thread \ {t} : pos[u] > 0 =>
          /\ ~Unlocked(u)
          /\ conn[busy[u]] \in Conn \ {c}
          /\ got'[u] = got[u] /\ busy'[u] = busy[u]
    <2> SUFFICES ASSUME NEW u \in Thread \ {t}, pos[u] > 0
                 PROVE  /\ ~Unlocked(u)
                        /\ conn[busy[u]] \in Conn \ {c}
                        /\ got'[u] = got[u] /\ busy'[u] = busy[u]
      OBVIOUS
    <2>1. ~Unlocked(u)
      BY DEF Wire
    <2>2. conn[busy[u]] \in Conn \ {c}
      <3>1. ~Unlocked(t)
        BY DEF WorkerSend, IterationSend
      <3> QED
        BY <2>1, <3>1, Iterating
    <2>3. got'[u] = got[u] /\ busy'[u] = busy[u]
      BY <1>1 DEF WorkerSend, IterationSend, IInv, Core, TypeOK, ThreadTypeOK
    <2> QED
      BY <2>1, <2>2, <2>3
  <1>6. ASSUME NEW u \in Thread \ {t}, pos'[u] > 0
        PROVE  /\ ~Unlocked(u)'
               /\ pos'[u] < got'[u]
               /\ replied'[conn'[busy'[u]]] + pos'[u] <= written'[conn'[busy'[u]]]
               /\ written'[conn'[busy'[u]]] <= 2 * replied'[conn'[busy'[u]]] + pos'[u]
    <2>1. pos[u] > 0 /\ pos'[u] = pos[u]
      BY <1>4, <1>6
    <2>2. conn'[busy'[u]] = conn[busy[u]] /\ conn[busy[u]] \in Conn \ {c}
      BY <2>1, <1>1, <1>5
    <2> QED
      BY <2>1, <2>2, <1>4, <1>5 DEF Wire, Unlocked
  <1>7. CASE pos'[t] = 0
    <2>1. replied'[c] = replied[c] + got[t] /\ pos[t] + m >= got[t]
      BY <1>1, <1>2, <1>3, <1>7
    <2>2. replied'[c] <= written'[c] /\ written'[c] <= 2 * replied'[c]
      BY <1>1, <1>3, <1>4, <2>1
    <2>3. \A d \in Conn \ {c} : ~MidSend(d)' => ~MidSend(d)
      BY <1>1, <1>4, <1>5 DEF MidSend
    <2>4. \A d \in Conn : ~MidSend(d)' => replied'[d] <= written'[d] /\ written'[d] <= 2 * replied'[d]
      <3>1. \A d \in Conn \ {c} : ~MidSend(d)' => replied[d] <= written[d] /\ written[d] <= 2 * replied[d]
        BY <2>3 DEF Wire
      <3> QED
        BY <2>2, <3>1, <1>4
    <2> QED
      BY <1>6, <1>7, <2>4 DEF Wire
  <1>8. CASE pos'[t] # 0
    <2>1. pos[t] + m < got[t] /\ pos'[t] = pos[t] + m /\ UNCHANGED <<replied, got, busy>>
      BY <1>1, <1>2, <1>3, <1>8
    <2>2. \A d \in Conn : d = c => MidSend(d)'
      BY <1>1, <1>3, <2>1 DEF MidSend
    <2>3. /\ ~Unlocked(t)' /\ pos'[t] < got'[t]
          /\ replied'[c] + pos'[t] <= written'[c] /\ written'[c] <= 2 * replied'[c] + pos'[t]
      <3>1. ~Unlocked(t)
        BY DEF WorkerSend, IterationSend
      <3>2. ~Unlocked(t)' /\ pos'[t] < got'[t]
        BY <2>1, <3>1 DEF Unlocked
      <3>3. {replied[c], written[c], pos[t], m} \subseteq Nat
        BY <1>1, <1>3
      <3> QED
        BY <1>1, <1>4, <2>1, <3>2, <3>3
    <2>4. \A d \in Conn \ {c} : ~MidSend(d)' => ~MidSend(d)
      BY <1>1, <1>4, <1>5, <2>1 DEF MidSend
    <2>5. \A d \in Conn : ~MidSend(d)' => replied'[d] <= written'[d] /\ written'[d] <= 2 * replied'[d]
      <3>1. \A d \in Conn \ {c} : ~MidSend(d)' => replied[d] <= written[d] /\ written[d] <= 2 * replied[d]
        BY <2>4 DEF Wire
      <3> QED
        BY <2>2, <3>1, <1>4
    <2>6. conn'[busy'[t]] = c
      BY <1>1, <2>1
    <2> QED
      BY <1>6, <2>3, <2>5, <2>6 DEF Wire
  <1> QED
    BY <1>7, <1>8

\* The other steps write nothing, and leave alone whoever is in its send().
LEMMA OthersKeepWire ==
  ASSUME IInv, Wire, [Next]_vars, \A t \in Thread : ~WorkerSend(t) PROVE Wire'
  <1>1. UNCHANGED <<written, replied, pos>>
    BY OnlySendWrites
  <1>2. ASSUME NEW t \in Thread, pos[t] > 0
        PROVE  /\ ~Unlocked(t) /\ ~Unlocked(t)'
               /\ got'[t] = got[t] /\ conn'[busy'[t]] = conn[busy[t]]
    <2>1. ~Unlocked(t) /\ got[t] > 0
      BY <1>2 DEF Wire, IInv, Core, TypeOK, ThreadTypeOK
    <2>2. got'[t] = got[t] /\ busy'[t] = busy[t] /\ conn'[busy[t]] = conn[busy[t]]
      BY <2>1, SendUndisturbed
    <2> QED
      BY <2>1, <2>2 DEF Unlocked
  <1>3. \A c \in Conn : MidSend(c)' <=> MidSend(c)
    BY <1>1, <1>2 DEF MidSend
  <1> QED
    BY <1>1, <1>2, <1>3 DEF Wire

\* send() writes at least what it completes, and each unit at most twice.
LEMMA WireInvariant == Spec => [](IInv /\ Wire)
  <1>1. Init => Wire
    BY DEF Init, SockInit, ThreadInit, Wire
  <1>2. IInv /\ Wire /\ [Next]_vars => Wire'
    BY NextIInv, SendKeepsWire, OthersKeepWire
  <1> QED
    BY <1>1, <1>2, InitIInv, NextIInv, PTL DEF Spec

----------------------------------------------------------------------------
(* The steps of Service. *)

\* A server that has just started has no client.
LEMMA InitSimulates == Init => ToClients!ServiceInit
  <1> SUFFICES ASSUME Init PROVE ToClients!ServiceInit
    OBVIOUS
  <1>1. \A c \in Conn : StatusOf(c) = "away" /\ HasLeft(c) = FALSE
    BY DEF Init, SockInit, StatusOf, HasLeft
  <1> QED
    BY <1>1 DEF Init, SockInit, ToClients!ServiceInit

\* A client that connects is queued.
LEMMA ConnectSimulates ==
  ASSUME IInv, NEW c \in Conn, ClientConnect(c) PROVE Simulates
  <1> USE DEF ClientConnect, Connect, mainVars
  <1>1. peer \in [Conn -> PeerState]
    BY DEF IInv, Core, TypeOK, SockTypeOK
  <1>2. StatusOf(c) = "away" /\ StatusOf(c)' = "queued"
    BY <1>1 DEF StatusOf
  <1>3. \A d \in Conn \ {c} : StatusOf(d)' = StatusOf(d)
    BY <1>1, SameStatus
  <1>4. \A d \in Conn : HasLeft(d)' = HasLeft(d)
    BY <1>1 DEF HasLeft
  <1>5. Status' = [Status EXCEPT ![c] = "queued"]
    BY <1>2, <1>3 DEF Status
  <1>6. ToClients!Arrive(c)
    BY <1>2, <1>4, <1>5 DEF ToClients!Arrive, ToClients!Becomes, Listening, Status
  <1> QED
    BY <1>6 DEF Simulates, ToClients!ServiceNext

\* A client that sends has asked one unit more.
LEMMA SendSimulates ==
  ASSUME IInv, NEW c \in Conn, ClientSend(c) PROVE Simulates
  <1> USE DEF ClientSend, Transmit, mainVars
  <1>1. UNCHANGED <<Status, Left>>
    BY SameSockets
  <1>2. StatusOf(c) # "away" /\ ~HasLeft(c)
    BY DEF StatusOf, HasLeft
  <1>3. ToClients!Ask(c)
    BY <1>1, <1>2 DEF ToClients!Ask, Status, Left
  <1> QED
    BY <1>3 DEF Simulates, ToClients!ServiceNext

\* A client that closes or resets has left, whatever the server holds of it.
LEMMA LeaveSimulates ==
  ASSUME IInv, NEW c \in Conn, ClientLeave(c) PROVE Simulates
  <1> USE DEF ClientLeave, Leave, mainVars
  <1>1. peer \in [Conn -> PeerState]
    BY DEF IInv, Core, TypeOK, SockTypeOK
  <1>2. StatusOf(c) # "away" /\ StatusOf(c)' = StatusOf(c) /\ HasLeft(c)'
    BY <1>1 DEF StatusOf, HasLeft
  <1>3. \A d \in Conn \ {c} : StatusOf(d)' = StatusOf(d) /\ HasLeft(d)' = HasLeft(d)
    BY <1>1, SameStatus DEF HasLeft
  <1>4. Status' = Status /\ Left' = [Left EXCEPT ![c] = TRUE]
    BY <1>2, <1>3 DEF Status, Left
  <1>5. ToClients!Depart(c)
    BY <1>2, <1>4 DEF ToClients!Depart, Status, Left
  <1> QED
    BY <1>5 DEF Simulates, ToClients!ServiceNext

\* accept() begins to serve one queued client.
LEMMA AcceptSimulates == ASSUME IInv, AcceptClient PROVE Simulates
  <1> USE DEF AcceptClient, MainAt
  <1> PICK c \in Conn, fd \in Fd : accept(c, fd)
    OBVIOUS
  <1> USE DEF accept
  <1>1. /\ conn \in [Fd -> Conn \cup {NoConn}] /\ conn[fd] = NoConn /\ c \in backlog
        /\ peer[c] # "none"
    BY DEF Open, IInv, Core, TypeOK, SockTypeOK, Matching
  <1>2. StatusOf(c) = "queued" /\ StatusOf(c)' = "served"
    BY <1>1 DEF StatusOf
  <1>3. \A d \in Conn \ {c} : StatusOf(d)' = StatusOf(d)
    BY <1>1, SameStatus, SocketsAssumption
  <1>4. Status' = [Status EXCEPT ![c] = "served"] /\ Left' = Left
    BY <1>2, <1>3 DEF Status, Left, HasLeft
  <1>5. ToClients!Serve(c)
    BY <1>2, <1>4 DEF ToClients!Serve, ToClients!Becomes, Status, Left
  <1> QED
    BY <1>5 DEF Simulates, ToClients!ServiceNext

\* send() writes to a client that is being served and still has an answer to
\* get, and completes no answer that it has not written.
LEMMA SendBackSimulates ==
  ASSUME IInv, Wire, NEW t \in Thread, WorkerSend(t) PROVE Simulates
  <1> DEFINE c == conn[busy[t]]
  <1>1. /\ busy[t] \in Fd /\ c \in Conn
        /\ replied[c] + pos[t] <= written[c] /\ written[c] <= 2 * replied[c] + pos[t]
        /\ replied[c] + got[t] <= sent[c]
        /\ pos[t] < got[t]
    BY OneSend
  <1>2. PICK m \in 1 .. got[t] :
          /\ written' = [written EXCEPT ![c] = @ + m]
          /\ \/ /\ pos[t] + m >= got[t]
                /\ replied' = [replied EXCEPT ![c] = @ + got[t]]
             \/ /\ pos[t] + m < got[t]
                /\ UNCHANGED replied
    BY OneSend
  <1>3. /\ {got[t], pos[t], replied[c], written[c], sent[c]} \subseteq Nat
        /\ replied \in [Conn -> Nat]
    BY <1>1 DEF IInv, Core, TypeOK, SockTypeOK, ThreadTypeOK
  <1>4. m \in 1 .. sent[c] - replied[c] /\ written[c] + m < 2 * sent[c]
    BY <1>1, <1>3
  <1>5. PICK n \in 0 .. sent[c] - replied[c] :
          /\ replied' = [replied EXCEPT ![c] = @ + n]
          /\ replied[c] + n <= written[c] + m
    <2>1. CASE pos[t] + m >= got[t]
      BY <1>1, <1>2, <1>3, <2>1
    <2>2. CASE pos[t] + m < got[t]
      <3>1. replied' = replied
        BY <1>2, <1>3, <2>2
      <3>2. replied' = [replied EXCEPT ![c] = @ + 0]
        BY <1>1, <1>3, <3>1
      <3>3. replied[c] + 0 <= written[c] + m /\ 0 \in 0 .. sent[c] - replied[c]
        BY <1>1, <1>3
      <3> QED
        BY <3>2, <3>3
    <2> QED
      BY <1>2, <2>1, <2>2
  <1>6. StatusOf(c) = "served"
    BY <1>1 DEF StatusOf, IInv, Core, Matching
  <1>7. UNCHANGED <<Status, Left, sent, Up>>
    BY SameSockets DEF WorkerSend, IterationSend, mainVars, Up
  <1>8. ToClients!Answer(c)
    BY <1>1, <1>2, <1>4, <1>5, <1>6, <1>7 DEF ToClients!Answer, Status, Left, Up
  <1> QED
    BY <1>1, <1>8 DEF Simulates, ToClients!ServiceNext

\* remove_session() lets go of the client that left, and of no other.
LEMMA DisconnectedSimulates ==
  ASSUME IInv, Posix, NEW fd \in Fd, HandleDisconnected(fd) PROVE Simulates
  <1> USE DEF HandleDisconnected, remove_session, MainAt
  <1>1. HasSession(fd) /\ HangUp(fd)
    BY DEF IInv, Core, Tracked, Front
  <1>2. PICK c \in Conn : c = conn[fd]
    BY <1>1, SessionConn
  <1>3. HasLeft(c) /\ peer[c] # "none" /\ c \notin backlog
    BY <1>1, <1>2, SocketsAssumption DEF HangUp, Open, IInv, Core, Matching
  <1>4. \A f \in Fd : conn'[f] = IF f = fd THEN NoConn ELSE conn[f]
    BY <1>1 DEF Closed, HasSession
  <1>5. \A f \in Fd : conn[f] = c => f = fd
    BY <1>2, SocketsAssumption DEF IInv, Core, Matching, Open
  <1>6. StatusOf(c) = "served" /\ StatusOf(c)' = "done"
    BY <1>2, <1>3, <1>4, <1>5, SocketsAssumption DEF StatusOf
  <1>7. \A d \in Conn \ {c} : StatusOf(d)' = StatusOf(d)
    BY <1>2, <1>4, SameStatus, SocketsAssumption
  <1>8. Status' = [Status EXCEPT ![c] = "done"] /\ Left' = Left
    BY <1>2, <1>6, <1>7 DEF Status, Left, HasLeft
  <1>9. ToClients!Release(c)
    BY <1>2, <1>3, <1>6, <1>8 DEF ToClients!Release, ToClients!Becomes, Status, Left
  <1> QED
    BY <1>2, <1>9 DEF Simulates, ToClients!ServiceNext

\* Closing the listener refuses the queued clients.
LEMMA RunReturnsSimulates == ASSUME IInv, RunReturns PROVE Simulates
  <1> USE DEF RunReturns, MainAt
  <1>1. \A c \in Conn : StatusOf(c)' = IF StatusOf(c) = "queued" THEN "done" ELSE StatusOf(c)
    BY DEF StatusOf, IInv, Core, Matching
  <1>2. Left' = Left
    BY DEF Left, HasLeft
  <1>3. Status' = [c \in Conn |-> IF Status[c] = "queued" THEN "done" ELSE Status[c]]
    BY <1>1 DEF Status
  <1>4. ToClients!Close
    BY <1>2, <1>3 DEF ToClients!Close, Status, Left
  <1> QED
    BY <1>4 DEF Simulates, ToClients!ServiceNext

\* The destructor of a thread lets go of the clients of its sessions.
LEMMA JoinThreadSimulates ==
  ASSUME IInv, NEW t \in Thread, JoinThread(t) PROVE Simulates
  <1> USE DEF JoinThread, DestroyThread, MainAt
  <1> DEFINE cs == {c \in Conn : \E fd \in Fd : conn[fd] = c /\ sessions[t][fd] # NoConn}
  <1>1. conn \in [Fd -> Conn \cup {NoConn}]
    BY DEF IInv, Core, TypeOK, SockTypeOK
  <1>2. \A fd \in Fd : conn'[fd] = IF sessions[t][fd] # NoConn THEN NoConn ELSE conn[fd]
    BY DEF Closed
  <1>3. \A f, g \in Fd : conn[f] # NoConn /\ conn[f] = conn[g] => f = g
    BY DEF IInv, Core, Matching, Open
  <1>4. \A c \in cs : StatusOf(c) = "served" /\ StatusOf(c)' = "done"
    BY <1>1, <1>2, <1>3, SocketsAssumption DEF StatusOf, IInv, Core, Matching
  <1>5. \A c \in Conn \ cs : StatusOf(c)' = StatusOf(c)
    BY <1>2, SameStatus, SocketsAssumption
  <1>6. Status' = [c \in Conn |-> IF c \in cs THEN "done" ELSE Status[c]] /\ Left' = Left
    BY <1>4, <1>5 DEF Status, Left, HasLeft
  <1>7. ToClients!ShutDown(cs)
    BY <1>4, <1>6 DEF ToClients!ShutDown, Status, Left
  <1> QED
    BY <1>7 DEF Simulates, ToClients!ServiceNext

\* The other steps are not seen by the clients.
LEMMA OtherSteps ==
  ASSUME \/ Iterate \/ AcceptThrows \/ AddSession \/ AddClient \/ EndIterate \/ Exit
         \/ Stop \/ Over \/ UNCHANGED vars
         \/ \E fd \in Fd : HandleDataReady(fd)
         \/ \E t \in Thread : WorkerPop(t) \/ WorkerRecv(t) \/ WorkerThrows(t)
  PROVE  Simulates
  <1>1. UNCHANGED <<peer, backlog, conn, sent, replied, written>> /\ Up' = Up
    BY DEF Iterate, AcceptThrows, AddSession, AddClient, EndIterate, Exit, Stop, Over,
      HandleDataReady, WorkerPop, WorkerRecv, IterationRecv, WorkerThrows, MainAt,
      vars, sockVars, mainVars, Up
  <1> QED
    BY <1>1, SameSockets, UnseenSimulates DEF Unseen

----------------------------------------------------------------------------
\* With epoll or kqueue, and any number of clients, descriptors and threads,
\* the server keeps the promises of Service to each client.
THEOREM ServerImplementsService ==
  Backends \subseteq {"epoll", "kqueue"} /\ Spec => ImplementsService
  <1> SUFFICES ASSUME Backends \subseteq {"epoll", "kqueue"}
               PROVE  Spec => ImplementsService
    OBVIOUS
  <1>1. ASSUME IInv, Wire, [Next]_vars PROVE Simulates
    <2>1. Posix
      BY <1>1 DEF Posix, IInv, Core, TypeOK, PollTypeOK
    <2> QED
      BY <1>1, <2>1, ConnectSimulates, SendSimulates, LeaveSimulates, AcceptSimulates,
        SendBackSimulates, DisconnectedSimulates, RunReturnsSimulates,
        JoinThreadSimulates, OtherSteps
      DEF Next, MainStep, WorkerStep, ClientStep
  <1>2. IInv /\ Wire /\ [Next]_vars => [ToClients!ServiceNext]_(ToClients!serviceVars)
    BY <1>1 DEF Simulates
  <1> QED
    BY <1>2, InitSimulates, WireInvariant, PTL DEF Spec, ImplementsService, ToClients!ServiceSpec

============================================================================
