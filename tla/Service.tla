------------------------------ MODULE Service ------------------------------
(***************************************************************************)
(* What the server promises its clients, whatever poller and threads it is *)
(* built from: each connection is taken from the listen queue once, is     *)
(* answered only while it is served and only what it asked, and is let go  *)
(* only after its client has left, or when the server shuts down.  An      *)
(* answer may come to the client in pieces of which some are repeated, but *)
(* nothing is written to a client that has its answers, and always less    *)
(* than twice what it asked.  A server that crashed takes no more steps.   *)
(***************************************************************************)
EXTENDS Integers

CONSTANT Conn     \* the client connections

VARIABLES
  status,     \* "away", "queued", "served" or "done"
  asked,      \* units each client has sent
  answered,   \* units of it the server has done with answering
  written,    \* units each client has been sent, repeated ones included
  left,       \* the client has closed or reset its connection
  up          \* the listener is open

serviceVars == <<status, asked, answered, written, left, up>>

ServiceInit ==
  /\ status = [c \in Conn |-> "away"]
  /\ asked = [c \in Conn |-> 0]
  /\ answered = [c \in Conn |-> 0]
  /\ written = [c \in Conn |-> 0]
  /\ left = [c \in Conn |-> FALSE]
  /\ up = TRUE

Becomes(c, s) == status' = [status EXCEPT ![c] = s]

Arrive(c) ==
  /\ up
  /\ status[c] = "away"
  /\ Becomes(c, "queued")
  /\ UNCHANGED <<asked, answered, written, left, up>>

Ask(c) ==
  /\ status[c] # "away"
  /\ ~left[c]
  /\ asked' = [asked EXCEPT ![c] = @ + 1]
  /\ UNCHANGED <<status, answered, written, left, up>>

Depart(c) ==
  /\ status[c] # "away"
  /\ left' = [left EXCEPT ![c] = TRUE]
  /\ UNCHANGED <<status, asked, answered, written, up>>

Serve(c) ==
  /\ up
  /\ status[c] = "queued"
  /\ Becomes(c, "served")
  /\ UNCHANGED <<asked, answered, written, left, up>>

\* Some of what is still to be answered is written, and with that the server
\* is done with some (or none) of it.
Answer(c) ==
  /\ status[c] = "served"
  /\ \E m \in 1 .. asked[c] - answered[c], n \in 0 .. asked[c] - answered[c] :
       /\ written' = [written EXCEPT ![c] = @ + m]
       /\ answered' = [answered EXCEPT ![c] = @ + n]
       /\ answered[c] + n <= written[c] + m
       /\ written[c] + m < 2 * asked[c]
  /\ UNCHANGED <<status, asked, left, up>>

Release(c) ==
  /\ status[c] = "served"
  /\ left[c]
  /\ Becomes(c, "done")
  /\ UNCHANGED <<asked, answered, written, left, up>>

\* Closing the listener refuses the clients in its queue.
Close ==
  /\ up
  /\ up' = FALSE
  /\ status' = [c \in Conn |-> IF status[c] = "queued" THEN "done" ELSE status[c]]
  /\ UNCHANGED <<asked, answered, written, left>>

\* The destructors let go of served clients, some at a time.
ShutDown(cs) ==
  /\ ~up
  /\ \A c \in cs : status[c] = "served"
  /\ status' = [c \in Conn |-> IF c \in cs THEN "done" ELSE status[c]]
  /\ UNCHANGED <<asked, answered, written, left, up>>

ServiceNext ==
  \/ \E c \in Conn : \/ Arrive(c) \/ Ask(c) \/ Depart(c)
                     \/ Serve(c) \/ Answer(c) \/ Release(c)
  \/ Close
  \/ \E cs \in SUBSET Conn : ShutDown(cs)

ServiceSpec == ServiceInit /\ [][ServiceNext]_serviceVars

============================================================================
