---------------------------- MODULE ClientSetup ----------------------------
(***************************************************************************)
(* The constructors of TCPClient and SSLClient, run by several threads:    *)
(* open_connection goes through the addresses of the host and marks the    *)
(* socket it connected as non-blocking, the TLS context is made once for   *)
(* all clients under a mutex, then the handshake.  Every system call may   *)
(* fail.                                                                   *)
(***************************************************************************)
EXTENDS Integers

CONSTANTS
  Thread,     \* the threads that make clients, one at a time each
  NoThread,   \* "nobody holds the mutex"
  NAddrs      \* addresses getaddrinfo() lists for the host

ASSUME ClientSetupAssumption ==
  /\ NoThread \notin Thread
  /\ NAddrs \in Nat

VARIABLES
  cpc,        \* per thread: where its client's constructor is
  p,          \* per thread: index of the address p points to, 0 outside
  open,       \* per thread: sockets open
  leaked,     \* history, per thread: connected sockets no Client came to own
  ctx,        \* SSLClient::ctx_: "null", "bare" (made) or "loaded"
  ctxOwner,   \* holder of initialize_ctx()'s mutex
  noStore     \* history: the CA store could not be loaded

ctxVars == <<ctx, ctxOwner, noStore>>
setupVars == <<cpc, p, open, leaked, ctxVars>>

SetupInit ==
  /\ cpc = [t \in Thread |-> "none"]
  /\ p = [t \in Thread |-> 0]
  /\ open = [t \in Thread |-> 0]
  /\ leaked = [t \in Thread |-> 0]
  /\ ctx = "null"
  /\ ctxOwner = NoThread
  /\ noStore = FALSE

\* From one place of the constructor to another, with p at address i.
Goto(t, l, i) == cpc' = [cpc EXCEPT ![t] = l] /\ p' = [p EXCEPT ![t] = i]

Opened(t) == [open EXCEPT ![t] = @ + 1]

Closed(t) == [open EXCEPT ![t] = @ - 1]

\* getaddrinfo() answers or open_connection throws.
Resolve(t) ==
  /\ cpc[t] = "resolve"
  /\ Goto(t, "socket", 1) \/ Goto(t, "thrown", 0)
  /\ UNCHANGED <<open, leaked, ctxVars>>

\* socket(); an address whose family is not supported is passed over.
OpenSocket(t) ==
  /\ cpc[t] = "socket"
  /\ p[t] <= NAddrs
  /\ \/ Goto(t, "connect", p[t]) /\ open' = Opened(t)
     \/ Goto(t, "socket", p[t] + 1) /\ UNCHANGED open
  /\ UNCHANGED <<leaked, ctxVars>>

\* The list is at its end: "client: Failed to connect."
NoAddressLeft(t) ==
  /\ cpc[t] = "socket"
  /\ p[t] > NAddrs
  /\ Goto(t, "thrown", 0)
  /\ UNCHANGED <<open, leaked, ctxVars>>

\* connect() and socket_mark_as_nonblocking(): the base Client is made of the
\* socket, and an SSLClient goes on with initialize_ctx(); if the latter call
\* throws there is no Client yet, and nothing closes sockfd.
ConnectSocket(t, tls) ==
  /\ cpc[t] = "connect"
  /\ \/ Goto(t, IF tls THEN "ctx" ELSE "ready", 0) /\ UNCHANGED leaked
     \/ Goto(t, "thrown", 0) /\ leaked' = [leaked EXCEPT ![t] = @ + 1]
  /\ UNCHANGED <<open, ctxVars>>

\* Fault: the socket of a failed connect() is not closed.
AfterConnectFails_open(t) == open

AfterConnectFails(t) == Closed(t)

ConnectFails(t) ==
  /\ cpc[t] = "connect"
  /\ open' = AfterConnectFails(t)
  /\ Goto(t, "socket", p[t] + 1)
  /\ UNCHANGED <<leaked, ctxVars>>

\* Fault: initialize_ctx() looks at ctx_ without the mutex.
CtxFree_unlocked == TRUE

CtxFree == ctxOwner = NoThread

\* initialize_ctx(): the first client makes the context.
LockCtx(t) ==
  /\ cpc[t] = "ctx"
  /\ CtxFree
  /\ \/ ctx = "null" /\ ctx' = "bare" /\ ctxOwner' = t /\ Goto(t, "load", 0)
     \/ ctx # "null" /\ Goto(t, "handshake", 0) /\ UNCHANGED <<ctx, ctxOwner>>
  /\ UNCHANGED <<open, leaked, noStore>>

\* ... and loads the CA store into it.  A failure throws: the lock_guard unlocks
\* the mutex and ~Client closes the socket, but ctx_ stays set and later clients
\* do not load the store.
LoadStore(t) ==
  /\ cpc[t] = "load"
  /\ \/ /\ ctx' = "loaded" /\ ctxOwner' = NoThread /\ Goto(t, "handshake", 0)
        /\ UNCHANGED <<open, noStore>>
     \/ /\ noStore' = TRUE /\ ctxOwner' = NoThread /\ Goto(t, "thrown", 0)
        /\ open' = Closed(t)
        /\ UNCHANGED ctx
  /\ UNCHANGED leaked

\* SSL_connect is called again for as long as it wants to read.  Nothing
\* looks at a failure: it shows in the first SSL_write.
Handshake(t) ==
  /\ cpc[t] = "handshake"
  /\ Goto(t, "ready", 0)
  /\ UNCHANGED <<open, leaked, ctxVars>>

\* What a constructor does by itself; connect() needs a listener.
SetupStep(t, tls, listener) ==
  \/ Resolve(t) \/ OpenSocket(t) \/ NoAddressLeft(t)
  \/ (listener /\ ConnectSocket(t, tls)) \/ ConnectFails(t)
  \/ LockCtx(t) \/ LoadStore(t)

============================================================================
