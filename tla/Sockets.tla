------------------------------ MODULE Sockets ------------------------------
(***************************************************************************)
(* The operating system's side of the accepted sockets, modelled from how  *)
(* src/ uses it, with the three library calls the server makes on them:    *)
(* TCPServer::accept, Connection::recv and send, and ~Connection's close.  *)
(*                                                                         *)
(* A connection c is one lifetime of a client's TCP connection; a file     *)
(* descriptor is a small number that the kernel reuses as soon as it is    *)
(* closed.  Stream contents are counted, not stored: TCP delivers in       *)
(* order, so "the first rcvd[c] of the sent[c] units" says which ones.     *)
(* On the way back the counts are two: send() repeats its data from the    *)
(* start after a partial ::send (module Transfer), so what is on the wire  *)
(* (written) may be more than what has been answered (replied).            *)
(* A unit is a byte for a TCPConnection and a TLS record for an            *)
(* SSLConnection, whose SSL_read returns at most one record.               *)
(***************************************************************************)
EXTENDS Integers, FiniteSets

CONSTANTS
  Conn,       \* the client connections
  NoConn,     \* "no connection": what a closed descriptor refers to
  Fd,         \* descriptors accept() may return (RLIMIT_NOFILE bounds them)
  RecvMax,    \* RECV_BUF_SZ: the most units one recv() returns
  Window,     \* a client is at most Window units ahead of complete replies
  MaxSend,    \* model bound: units one client sends in its life
  MayReset,   \* the clients that may reset (RST) instead of closing (FIN)
  Plain       \* the clients that do not speak the server's TLS

ASSUME SocketsAssumption ==
  /\ NoConn \notin Conn
  /\ Fd \subseteq Nat
  /\ RecvMax \in Nat \ {0}
  /\ Window \in Nat
  /\ MaxSend \in Nat
  /\ MayReset \subseteq Conn
  /\ Plain \subseteq Conn

VARIABLES
  peer,       \* the client's side: "none", "open", "fin" (closed) or "rst"
  backlog,    \* established connections waiting in the listen queue
  conn,       \* the open-file table: descriptor -> connection
  sent,       \* units the client has sent
  rcvd,       \* units the server has taken out of the receive buffer
  replied,    \* units whose answer is complete: their send() has returned
  written     \* units ::send has put on the wire, repeated ones included

sockVars == <<peer, backlog, conn, sent, rcvd, replied, written>>

INVALID_SOCKET == -1

PeerState == {"none", "open", "fin", "rst"}

SockTypeOK ==
  /\ peer \in [Conn -> PeerState]
  /\ backlog \subseteq Conn
  /\ conn \in [Fd -> Conn \cup {NoConn}]
  /\ sent \in [Conn -> Nat]
  /\ rcvd \in [Conn -> Nat]
  /\ replied \in [Conn -> Nat]
  /\ written \in [Conn -> Nat]

SockInit ==
  /\ peer = [c \in Conn |-> "none"]
  /\ backlog = {}
  /\ conn = [fd \in Fd |-> NoConn]
  /\ sent = [c \in Conn |-> 0]
  /\ rcvd = [c \in Conn |-> 0]
  /\ replied = [c \in Conn |-> 0]
  /\ written = [c \in Conn |-> 0]

Open(fd) == conn[fd] # NoConn

Unread(c) == sent[c] - rcvd[c]

HasLeft(c) == peer[c] \in {"fin", "rst"}

----------------------------------------------------------------------------
(* The client's side. *)

\* The kernel completes the handshake; the server has not accepted yet.
Connect(c) ==
  /\ peer[c] = "none"
  /\ peer' = [peer EXCEPT ![c] = "open"]
  /\ backlog' = backlog \cup {c}
  /\ UNCHANGED <<conn, sent, rcvd, replied, written>>

Transmit(c) ==
  /\ peer[c] = "open"
  /\ sent[c] < MaxSend
  /\ sent[c] - replied[c] < Window
  /\ sent' = [sent EXCEPT ![c] = @ + 1]
  /\ UNCHANGED <<peer, backlog, conn, rcvd, replied, written>>

\* The client closes or resets; one that has closed may still answer a late
\* reply with a reset.
Leave(c, how) ==
  /\ peer[c] = "open" \/ (peer[c] = "fin" /\ how = "rst")
  /\ how = "rst" => c \in MayReset
  /\ peer' = [peer EXCEPT ![c] = how]
  /\ UNCHANGED <<backlog, conn, sent, rcvd, replied, written>>

----------------------------------------------------------------------------
(* The server's side. *)

\* ::accept returns some closed descriptor, marked non-blocking.
accept(c, fd) ==
  /\ c \in backlog
  /\ ~Open(fd)
  /\ backlog' = backlog \ {c}
  /\ conn' = [conn EXCEPT ![fd] = c]
  /\ UNCHANGED <<peer, sent, rcvd, replied, written>>

\* ::accept fails, with every descriptor in use (EMFILE) or a client that
\* reset its connection while it was queued (ECONNABORTED); or the SSL_accept
\* of the new connection finds something other than TLS, and throws.
AcceptFails ==
  /\ backlog # {}
  /\ \/ \A fd \in Fd : Open(fd)
     \/ \E c \in backlog : peer[c] = "rst" \/ (c \in Plain /\ Unread(c) > 0)

\* Fault: recv() does not look for r < 0, and an EAGAIN counts as -1.
Chunk_unchecked(c) ==
  IF Unread(c) = 0 THEN -1
  ELSE IF Unread(c) < RecvMax THEN Unread(c) ELSE RecvMax

\* Fault: recv() keeps the last place of its buffer for a terminator.
Chunk_terminated(c) == IF Unread(c) < RecvMax THEN Unread(c) ELSE RecvMax - 1

\* What one ::recv takes: all that is there, up to the buffer's size.
Chunk(c) == IF Unread(c) < RecvMax THEN Unread(c) ELSE RecvMax

\* Fault: recv() returns its buffer without buf.resize(r).
Delivered_unresized(c) == RecvMax

\* What recv() returns of it: nothing, if the handshake it continues fails.
Delivered(c) == IF c \in Plain THEN 0 ELSE Chunk(c)

\* recv() throws on any error but EAGAIN: the client has reset.  A failed
\* handshake leaves in errno whatever was there.
RecvFails(fd) ==
  LET c == conn[fd] IN peer[c] = "rst" \/ (c \in Plain /\ Unread(c) > 0)

\* What one ::send of n units may return: how many it took, or -1, once the
\* client has reset, or with EAGAIN while the send buffer is full.  The room
\* in that buffer is not tracked.
SendReturns(c, n) == IF peer[c] = "rst" THEN {-1} ELSE {-1} \cup 1 .. n

============================================================================
