------------------------------ MODULE Transfer -----------------------------
(***************************************************************************)
(* Responses on their way from Connection::send to Client::recv_spinlock:  *)
(* the loop of TCPConnection::send (which TCPClient::send repeats), the    *)
(* one of SSLConnection::send, the kernel's buffers between the two ends,  *)
(* and the client's spin loop with its timeout.  A byte is the pair of its *)
(* response's number and its offset, so that every byte is distinct.       *)
(***************************************************************************)
EXTENDS Integers, Sequences, FiniteSetsExt

CONSTANTS
  Size,          \* bytes in a response
  Capacity,      \* bytes the kernel buffers between the two sockets
  MaxResponses,  \* model bound: responses sent
  NBytes,        \* the n_bytes a client asks for
  MaxCalls       \* model bound: calls of recv_spinlock

ASSUME TransferAssumption ==
  /\ Size \in Nat \ {0}
  /\ Capacity \in Nat \ {0}
  /\ MaxResponses \in Nat
  /\ NBytes \subseteq Nat
  /\ MaxCalls \in Nat

VARIABLES
  kind,       \* "tcp" or "tls": which Connection it is
  spc,        \* the sender: "idle", "send" (in the loop) or "thrown"
  sentCount,  \* responses whose send() has returned
  pos,        \* the local pos of send()
  partial,    \* history: some ::send took a part of the data
  wire,       \* bytes sent and not received
  rpc,        \* the client: "idle" or "spin" (in recv_spinlock)
  n_bytes,    \* its argument
  buffer,     \* its local buffer
  calls,      \* history: calls made
  consumed,   \* history: all bytes recv() has returned
  returned,   \* history: n_bytes and value of the calls that returned one
  discarded   \* history: some call timed out with bytes in its buffer

sendVars == <<spc, sentCount, pos, partial>>
recvVars == <<rpc, n_bytes, buffer, calls, consumed, returned, discarded>>
vars == <<kind, sendVars, wire, recvVars>>

Response(k) == [o \in 1 .. Size |-> <<k, o>>]

Init ==
  /\ kind \in {"tcp", "tls"}
  /\ spc = "idle" /\ sentCount = 0 /\ pos = 0 /\ partial = FALSE
  /\ wire = <<>>
  /\ rpc = "idle" /\ n_bytes = 0 /\ buffer = <<>> /\ calls = 0
  /\ consumed = <<>> /\ returned = <<>> /\ discarded = FALSE

----------------------------------------------------------------------------
(* Connection::send. *)

Free == Capacity - Len(wire)

\* A non-blocking ::send takes what fits.
TcpTaken == IF Free < Size THEN Free ELSE Size

\* Fault: SSL_MODE_ENABLE_PARTIAL_WRITE is set.
TlsTaken_partial == IF Free < Size THEN Free ELSE Size

\* SSL_write reports success once the whole data is written.
TlsTaken == IF Free < Size THEN 0 ELSE Size

Taken == IF kind = "tcp" THEN TcpTaken ELSE TlsTaken

StartSend ==
  /\ spc = "idle"
  /\ sentCount < MaxResponses
  /\ spc' = "send"
  /\ pos' = 0
  /\ UNCHANGED <<kind, sentCount, partial, wire, recvVars>>

\* Every call is given data.data() and data.size(), whatever pos is.
SendCall ==
  /\ spc = "send"
  /\ pos < Size
  /\ Taken > 0
  /\ wire' = wire \o SubSeq(Response(sentCount + 1), 1, Taken)
  /\ pos' = pos + Taken
  /\ partial' = (partial \/ Taken < Size)
  /\ UNCHANGED <<kind, spc, sentCount, recvVars>>

\* The buffers are full: r < 0 (EAGAIN) is an error like any other.
SendThrows ==
  /\ spc = "send"
  /\ pos < Size
  /\ Taken = 0
  /\ spc' = "thrown"
  /\ UNCHANGED <<kind, sentCount, pos, partial, wire, recvVars>>

SendReturns ==
  /\ spc = "send"
  /\ pos >= Size
  /\ sentCount' = sentCount + 1
  /\ pos' = 0
  /\ spc' = "idle"
  /\ UNCHANGED <<kind, partial, wire, recvVars>>

----------------------------------------------------------------------------
(* Client::recv_spinlock.  recv_future calls it with 16 K, which may be    *)
(* more than ever comes.                                                   *)

CallSpinlock(n) ==
  /\ rpc = "idle"
  /\ calls < MaxCalls
  /\ calls' = calls + 1
  /\ n_bytes' = n
  /\ buffer' = <<>>
  /\ rpc' = "spin"
  /\ UNCHANGED <<kind, sendVars, wire, consumed, returned, discarded>>

\* Fault: recv() is asked for n_bytes every time.
Wanted_all == n_bytes

Wanted == n_bytes - Len(buffer)

\* Fault: the first bytes end the call.
Complete_early(bytes) == bytes # <<>>

Complete(bytes) == Len(bytes) >= n_bytes

\* What is left of the TLS record at the front.
Record == Cardinality({j \in DOMAIN wire : wire[j][1] = wire[1][1]})

\* How much a recv() may return: of a TCP stream what has arrived of it, of a
\* TLS stream the next record up to its end.
RecvSizes ==
  IF kind = "tcp" THEN 1 .. Min({Wanted, Len(wire)})
                  ELSE {Min({Wanted, Record})} \ {0}

\* recv() returns m bytes; an empty one leaves the loop where it is.
RecvSome(m) ==
  /\ rpc = "spin"
  /\ m \in RecvSizes
  /\ LET bytes == buffer \o SubSeq(wire, 1, m) IN
     IF Complete(bytes)
     THEN /\ returned' = Append(returned, [n_bytes |-> n_bytes, value |-> bytes])
          /\ rpc' = "idle"
          /\ buffer' = <<>>
     ELSE /\ buffer' = bytes
          /\ UNCHANGED <<returned, rpc>>
  /\ wire' = SubSeq(wire, m + 1, Len(wire))
  /\ consumed' = consumed \o SubSeq(wire, 1, m)
  /\ UNCHANGED <<kind, sendVars, n_bytes, calls, discarded>>

\* The call ends without a value and its buffer is gone.
GiveUp ==
  /\ rpc = "spin"
  /\ rpc' = "idle"
  /\ buffer' = <<>>
  /\ discarded' = (discarded \/ buffer # <<>>)
  /\ UNCHANGED <<kind, sendVars, wire, n_bytes, calls, consumed, returned>>

\* The deadline has passed: {} is returned ("" by recv_future).
TimedOut == GiveUp

\* The server is gone: recv() throws out of the loop.
RecvThrows == spc = "thrown" /\ GiveUp

----------------------------------------------------------------------------
Finished ==
  /\ spc = "thrown" \/ (spc = "idle" /\ sentCount = MaxResponses)
  /\ rpc = "idle" /\ calls = MaxCalls
  /\ UNCHANGED vars

Next ==
  \/ StartSend \/ SendCall \/ SendThrows \/ SendReturns
  \/ \E n \in NBytes : CallSpinlock(n)
  \/ \E m \in 1 .. Capacity : RecvSome(m)
  \/ TimedOut \/ RecvThrows
  \/ Finished

Spec == Init /\ [][Next]_vars

----------------------------------------------------------------------------
\* Where byte o of response k belongs in the stream.
Index(k, o) == Size * (k - 1) + o

\* What has left send() is each response once, byte after byte.
SentOnce ==
  LET stream == consumed \o wire IN
  /\ Len(stream) = Size * sentCount + pos
  /\ \A k \in 1 .. sentCount + 1, o \in 1 .. Size :
       Index(k, o) <= Len(stream) => stream[Index(k, o)] = <<k, o>>

\* ... over TLS, and over TCP as long as ::send takes each response whole.
SentOnceUnlessPartial == kind = "tls" \/ ~partial => SentOnce

\* recv_spinlock returns a value of the length it was asked for, however the
\* stream was cut, and whatever the calls before it left behind.
ExactLength ==
  \A j \in DOMAIN returned : Len(returned[j].value) = returned[j].n_bytes

\* A client that asks for whole responses is given them one by one, until a
\* call times out with a part of one in hand.
WholeResponses ==
  /\ kind = "tls" \/ ~partial
  /\ ~discarded
  /\ \A j \in DOMAIN returned : returned[j].n_bytes = Size
  => \A j \in DOMAIN returned : returned[j].value = Response(j)

============================================================================
