--------------------------- MODULE TransferProofs --------------------------
(***************************************************************************)
(* The invariants of the transfer of responses, for any size of response,  *)
(* any room in the kernel's buffers and any lengths asked for.  What was   *)
(* received and what is on the wire are one stream; a step of the receiver *)
(* moves the cut and a step of the sender adds to the end.                 *)
(***************************************************************************)
EXTENDS Transfer, FiniteSetTheorems, SequenceTheorems, TLAPS

Byte == Nat \X Nat

Value == [n_bytes : Nat, value : Seq(Byte)]

Types ==
  /\ kind \in {"tcp", "tls"}
  /\ spc \in {"idle", "send", "thrown"}
  /\ sentCount \in Nat
  /\ pos \in Nat
  /\ partial \in BOOLEAN
  /\ wire \in Seq(Byte)
  /\ rpc \in {"idle", "spin"}
  /\ n_bytes \in Nat
  /\ buffer \in Seq(Byte)
  /\ consumed \in Seq(Byte)
  /\ returned \in Seq(Value)
  /\ discarded \in BOOLEAN

\* No call of send() has taken a part of its data.
Whole == kind = "tls" \/ ~partial

stream == consumed \o wire

\* A response in the loop is not begun or complete, and each byte in the
\* stream is in its place.
Streamed ==
  Whole =>
    /\ pos \in {0, Size}
    /\ spc = "idle" => pos = 0
    /\ Len(stream) = Size * sentCount + pos
    /\ \A k \in Nat \ {0}, o \in 1 .. Size :
         Index(k, o) <= Len(stream) => stream[Index(k, o)] = <<k, o>>

\* The buffer never outgrows the request.
Requested ==
  /\ rpc = "idle" => buffer = <<>>
  /\ Len(buffer) <= n_bytes
  /\ ExactLength

\* Every call that ended has returned its bytes, and each was for a response.
Aligned == ~discarded /\ \A j \in DOMAIN returned : returned[j].n_bytes = Size

\* What was received is the values one after the other, then the buffer.
Split ==
  Aligned =>
    /\ Len(consumed) = Size * Len(returned) + Len(buffer)
    /\ \A j \in 1 .. Len(returned), o \in 1 .. Size :
         returned[j].value[o] = consumed[Index(j, o)]
    /\ \A i \in 1 .. Len(buffer) :
         buffer[i] = consumed[Size * Len(returned) + i]

IInv == Types /\ Streamed /\ Requested /\ Split

----------------------------------------------------------------------------
(* Arithmetic of the places in the stream. *)

LEMMA TimesMonotone ==
  ASSUME NEW a \in Nat, NEW b \in Nat, a <= b
  PROVE  Size * a <= Size * b
  <1>1. PICK d \in Nat : b = a + d
    BY b - a \in Nat, b = a + (b - a)
  <1>2. Size * b = Size * a + Size * d /\ Size * d \in Nat /\ Size * a \in Nat
    BY <1>1, TransferAssumption
  <1> QED
    BY <1>2

LEMMA TimesNext ==
  ASSUME NEW n \in Nat
  PROVE  Size * n \in Nat /\ Size * (n + 1) = Size * n + Size
  BY TransferAssumption

\* The first n responses are the first Size * n places.
LEMMA IndexPlace ==
  ASSUME NEW k \in Nat \ {0}, NEW o \in 1 .. Size, NEW n \in Nat
  PROVE  /\ Index(k, o) \in Nat \ {0}
         /\ Index(k, o) <= Size * n <=> k <= n
  <1>1. /\ k - 1 \in Nat /\ Size * n \in Nat
        /\ Size * (k - 1) \in Nat /\ Size * k = Size * (k - 1) + Size
    BY TransferAssumption
  <1>2. CASE k <= n
    <2>1. Size * k <= Size * n
      BY <1>2, TimesMonotone
    <2> QED
      BY <1>1, <1>2, <2>1, TransferAssumption DEF Index
  <1>3. CASE n <= k - 1
    <2>1. Size * n <= Size * (k - 1)
      BY <1>1, <1>3, TimesMonotone
    <2> QED
      BY <1>1, <1>3, <2>1, TransferAssumption DEF Index
  <1> QED
    BY <1>2, <1>3

LEMMA MinOfTwo ==
  ASSUME NEW a \in Int, NEW b \in Int
  PROVE  /\ Min({a, b}) \in {a, b} /\ Min({a, b}) \in Int
         /\ Min({a, b}) <= a /\ Min({a, b}) <= b
  <1>1. \E x \in {a, b} : \A y \in {a, b} : x <= y
    <2>1. CASE a <= b
      BY <2>1
    <2>2. CASE b <= a
      BY <2>2
    <2> QED
      BY <2>1, <2>2
  <1> QED
    BY <1>1 DEF Min

\* What is left of a record is on the wire.
LEMMA RecordOnWire ==
  ASSUME wire \in Seq(Byte) PROVE Record \in Nat /\ Record <= Len(wire)
  <1>1. DOMAIN wire = 1 .. Len(wire) /\ Len(wire) \in Nat
    BY LenProperties
  <1>2. /\ IsFiniteSet(1 .. Len(wire))
        /\ Cardinality(1 .. Len(wire)) = Len(wire)
    BY <1>1, FS_Interval, SMTT(30)
  <1> DEFINE R == {j \in DOMAIN wire : wire[j][1] = wire[1][1]}
  <1>3. R \subseteq 1 .. Len(wire)
    BY <1>1
  <1>4. IsFiniteSet(R) /\ Cardinality(R) <= Len(wire)
    BY <1>2, <1>3, FS_Subset
  <1> QED
    BY <1>4, FS_CardinalityType DEF Record

\* recv() returns no more than it was asked for, and no more than there is.
LEMMA RecvBounded ==
  ASSUME Types, Requested, NEW m \in RecvSizes
  PROVE  m \in Nat \ {0} /\ m <= n_bytes - Len(buffer) /\ m <= Len(wire)
  <1>1. /\ Wanted \in Nat /\ Len(wire) \in Nat
        /\ Record \in Nat /\ Record <= Len(wire)
    BY RecordOnWire, LenProperties DEF Types, Requested, Wanted
  <1>4. Wanted \in Int /\ Len(wire) \in Int /\ Record \in Int
    BY <1>1
  <1>2. CASE kind = "tcp"
    <2>1. m \in 1 .. Min({Wanted, Len(wire)})
      BY <1>2 DEF RecvSizes
    <2>2. /\ Min({Wanted, Len(wire)}) \in Int
          /\ Min({Wanted, Len(wire)}) <= Wanted
          /\ Min({Wanted, Len(wire)}) <= Len(wire)
      BY <1>4, MinOfTwo, Zenon
    <2> QED
      BY <1>1, <2>1, <2>2 DEF Wanted
  <1>3. CASE kind = "tls"
    <2>1. m = Min({Wanted, Record}) /\ m # 0
      BY <1>3 DEF RecvSizes
    <2>2. m \in {Wanted, Record} /\ m <= Wanted /\ m <= Record
      BY <1>4, <2>1, MinOfTwo, Zenon
    <2> QED
      BY <1>1, <2>1, <2>2 DEF Wanted
  <1> QED
    BY <1>2, <1>3 DEF Types

----------------------------------------------------------------------------
LEMMA InitIInv == Init => IInv
  <1> SUFFICES ASSUME Init PROVE IInv
    OBVIOUS
  <1> USE TransferAssumption DEF Init
  <1>1. Types
    BY EmptySeq DEF Types
  <1>2. stream = <<>>
    BY DEF stream
  <1>3. Streamed
    BY <1>2, IndexPlace, EmptySeq DEF Streamed
  <1>4. Requested /\ Split
    BY DEF Requested, ExactLength, Split
  <1> QED
    BY <1>1, <1>3, <1>4 DEF IInv

\* A step of the sender does not concern the receiver, and the other way
\* round a step that leaves the stream whole does not concern the sender.
LEMMA OtherSide ==
  ASSUME IInv
  PROVE  /\ UNCHANGED recvVars => Requested' /\ Split'
         /\ UNCHANGED <<kind, sendVars>> /\ stream' = stream => Streamed'
  <1>1. UNCHANGED recvVars => Requested' /\ Split'
    BY DEF IInv, recvVars, Requested, ExactLength, Split, Aligned
  <1>2. UNCHANGED <<kind, sendVars>> /\ stream' = stream => Streamed'
    BY DEF IInv, sendVars, Streamed, Whole
  <1> QED
    BY <1>1, <1>2

----------------------------------------------------------------------------
(* The sender. *)

\* The start and the end of send().
LEMMA SendIInv ==
  ASSUME IInv, StartSend \/ SendThrows \/ SendReturns PROVE IInv'
  <1> USE TransferAssumption DEF IInv, StartSend, SendThrows, SendReturns
  <1>1. Types'
    BY DEF Types, recvVars
  <1>2. stream' = stream
    BY DEF stream, recvVars
  <1>3. Streamed'
    <2> SUFFICES ASSUME Whole'
                 PROVE  /\ pos' \in {0, Size}
                        /\ spc' = "idle" => pos' = 0
                        /\ Len(stream) = Size * sentCount' + pos'
      BY <1>2 DEF Streamed, Whole
    <2>1. /\ pos \in {0, Size} /\ (spc = "idle" => pos = 0)
          /\ Len(stream) = Size * sentCount + pos
      BY DEF Streamed, Whole
    <2>2. Size * (sentCount + 1) = Size * sentCount + Size /\ Size * sentCount \in Nat
      BY TimesNext DEF Types
    <2> QED
      BY <2>1, <2>2
  <1>4. Requested' /\ Split'
    BY OtherSide
  <1> QED
    BY <1>1, <1>3, <1>4

\* A call of ::send or SSL_write: the start of the response goes to the end of
\* the stream.
LEMMA SendCallIInv == ASSUME IInv, SendCall PROVE IInv'
  <1> DEFINE k0 == sentCount + 1
             base == Size * sentCount
             X == SubSeq(Response(k0), 1, Taken)
  <1>1. Taken \in 1 .. Size
    BY TransferAssumption, LenProperties
    DEF IInv, Types, SendCall, Taken, TcpTaken, TlsTaken, Free
  <1>2. /\ X \in Seq(Byte) /\ Len(X) = Taken
        /\ \A i \in 1 .. Taken : X[i] = <<k0, i>>
    <2>1. \A i \in 1 .. Taken : Response(k0)[i] \in Byte /\ Response(k0)[i] = <<k0, i>>
      BY <1>1, TransferAssumption DEF IInv, Types, Response, Byte
    <2> HIDE DEF k0
    <2> QED
      BY <1>1, <2>1, SubSeqProperties
  <1>3. wire' = wire \o X /\ UNCHANGED recvVars /\ consumed' = consumed
    BY DEF SendCall, recvVars
  <1> HIDE DEF X
  <1>4. wire \in Seq(Byte) /\ consumed \in Seq(Byte) /\ sentCount \in Nat /\ pos \in Nat
    BY DEF IInv, Types
  <1>5. stream \in Seq(Byte) /\ stream' = stream \o X
    <2>1. stream \in Seq(Byte)
      BY <1>4, ConcatProperties DEF stream
    <2>2. stream' = consumed \o (wire \o X)
      BY <1>3 DEF stream
    <2>3. (consumed \o wire) \o X = consumed \o (wire \o X)
      BY <1>2, <1>4, ConcatAssociative
    <2> QED
      BY <2>1, <2>2, <2>3 DEF stream
  <1>6. Types'
    <2>1. wire' \in Seq(Byte)
      BY <1>2, <1>3, <1>4, ConcatProperties
    <2>2. pos' \in Nat /\ partial' \in BOOLEAN
      BY <1>1, <1>4 DEF SendCall, IInv, Types
    <2> QED
      BY <2>1, <2>2 DEF SendCall, IInv, Types, recvVars
  <1>7. base \in Nat /\ Size * k0 = base + Size
    BY <1>4, TimesNext
  <1>8. Streamed'
    <2> SUFFICES ASSUME Whole'
                 PROVE  /\ pos' = Size
                        /\ spc' # "idle"
                        /\ Len(stream') = Size * sentCount' + pos'
                        /\ \A k \in Nat \ {0}, o \in 1 .. Size :
                             Index(k, o) <= Len(stream')
                               => stream'[Index(k, o)] = <<k, o>>
      BY DEF Streamed
    <2>1. Taken = Size /\ Whole
      <3>1. kind = "tls" \/ (~partial /\ ~(Taken < Size))
        BY DEF Whole, SendCall
      <3> QED
        BY <1>1, <3>1, TransferAssumption DEF Whole, SendCall, Taken, TlsTaken
    <2>2. /\ pos = 0 /\ Len(stream) = base
          /\ \A k \in Nat \ {0}, o \in 1 .. Size :
               Index(k, o) <= Len(stream) => stream[Index(k, o)] = <<k, o>>
      <3>1. pos \in {0, Size} /\ pos < Size /\ Len(stream) = base + pos
        BY <2>1 DEF IInv, Streamed, SendCall
      <3> HIDE DEF base
      <3>2. pos = 0 /\ Len(stream) = base
        BY <1>7, <3>1, TransferAssumption
      <3> QED
        BY <2>1, <3>2 DEF IInv, Streamed
    <2>3. Len(stream') = base + Size
      <3>1. Len(stream \o X) = Len(stream) + Len(X)
        BY <1>2, <1>5, ConcatProperties
      <3> HIDE DEF base
      <3> QED
        BY <1>2, <1>5, <2>1, <2>2, <3>1
    <2>4. ASSUME NEW k \in Nat \ {0}, NEW o \in 1 .. Size,
                 Index(k, o) <= Len(stream')
          PROVE  stream'[Index(k, o)] = <<k, o>>
      <3>1. /\ Index(k, o) \in Nat \ {0}
            /\ Index(k, o) <= Size * k0 <=> k <= k0
            /\ Index(k, o) <= base <=> k <= sentCount
        BY <1>4, IndexPlace
      <3>2. k <= k0
        BY <1>7, <2>3, <2>4, <3>1
      <3>3. k = k0 => Index(k, o) = base + o
        BY <1>4 DEF Index
      <3> HIDE DEF base
      <3>4. stream'[Index(k, o)] = IF Index(k, o) <= Len(stream)
                                   THEN stream[Index(k, o)]
                                   ELSE X[Index(k, o) - Len(stream)]
        <4>1. Index(k, o) \in 1 .. Len(stream) + Len(X)
          BY <1>2, <1>7, <2>1, <2>2, <2>3, <2>4, <3>1
        <4> QED
          BY <1>2, <1>5, <4>1, ConcatProperties
      <3>5. CASE k <= sentCount
        BY <2>2, <3>1, <3>4, <3>5
      <3>6. CASE k = k0
        <4>1. Index(k, o) = base + o /\ ~(Index(k, o) <= base)
          BY <1>4, <3>1, <3>3, <3>6
        <4>2. stream'[Index(k, o)] = X[o]
          BY <1>7, <2>2, <3>4, <4>1
        <4> QED
          BY <1>2, <2>1, <3>6, <4>2
      <3> QED
        BY <1>4, <3>2, <3>5, <3>6
    <2>5. pos' = Size /\ spc' # "idle" /\ sentCount' = sentCount
      BY <1>4, <2>1, <2>2, TransferAssumption DEF SendCall
    <2> QED
      BY <2>3, <2>4, <2>5
  <1>9. Requested' /\ Split'
    BY <1>3, OtherSide
  <1> QED
    BY <1>6, <1>8, <1>9 DEF IInv

----------------------------------------------------------------------------
(* The receiver. *)

\* The start of recv_spinlock(), and its end without a value.
LEMMA CallIInv ==
  ASSUME IInv, (\E n \in NBytes : CallSpinlock(n)) \/ GiveUp PROVE IInv'
  <1> USE TransferAssumption DEF IInv, CallSpinlock, GiveUp
  <1>1. Types'
    BY EmptySeq DEF Types, sendVars
  <1>2. stream' = stream /\ UNCHANGED <<kind, sendVars>>
    BY DEF stream
  <1>3. Streamed'
    BY <1>2, OtherSide
  <1>4. Requested'
    BY EmptySeq DEF Types, Requested, ExactLength
  <1>5. Split'
    <2>1. CASE \E n \in NBytes : CallSpinlock(n)
      BY <2>1, EmptySeq DEF Types, Requested, Split, Aligned
    <2>2. CASE GiveUp
      BY <2>2, EmptySeq DEF Types, Requested, Split, Aligned
    <2> QED
      BY <2>1, <2>2
  <1> QED
    BY <1>1, <1>3, <1>4, <1>5

\* recv() moves the cut of the stream by m bytes.
LEMMA RecvMoves ==
  ASSUME Types, Requested, NEW m \in RecvSizes
  PROVE  LET X == SubSeq(wire, 1, m)
             Y == SubSeq(wire, m + 1, Len(wire))
         IN  /\ X \in Seq(Byte) /\ Len(X) = m
             /\ Y \in Seq(Byte)
             /\ (consumed \o X) \o Y = stream
  <1> DEFINE X == SubSeq(wire, 1, m)
             Y == SubSeq(wire, m + 1, Len(wire))
  <1>1. /\ m \in Nat \ {0} /\ m <= Len(wire) /\ Len(wire) \in Nat
        /\ wire \in Seq(Byte) /\ consumed \in Seq(Byte)
        /\ \A i \in 1 .. Len(wire) : wire[i] \in Byte
    BY RecvBounded, LenProperties, ElementOfSeq DEF Types
  <1>2. X \in Seq(Byte) /\ Len(X) = m
    BY <1>1, SubSeqProperties
  <1>3. Y \in Seq(Byte)
    BY <1>1, SubSeqProperties
  <1>4. X \o Y = wire
    <2>1. 1 \in 1 .. Len(wire) + 1 /\ m \in 1 - 1 .. Len(wire) /\ Len(wire) \in m .. Len(wire)
      BY <1>1
    <2>2. X \o Y = SubSeq(wire, 1, Len(wire))
      BY <1>1, <2>1, ConcatAdjacentSubSeq, Zenon
    <2> QED
      BY <1>1, <2>2, SubSeqFull, Zenon
  <1> HIDE DEF X, Y
  <1>5. (consumed \o X) \o Y = stream
    <2>1. consumed \in Seq(Byte)
      BY <1>1
    <2>2. (consumed \o X) \o Y = consumed \o (X \o Y)
      BY <1>2, <1>3, <2>1, ConcatAssociative, SMTT(30)
    <2> QED
      BY <1>4, <2>2 DEF stream
  <1> QED
    BY <1>2, <1>3, <1>5 DEF X, Y

\* A recv() that returned m bytes: they go to the end of the buffer and of
\* what was received.  The call that has all it asked for returns exactly that.
LEMMA RecvIInv ==
  ASSUME IInv, NEW m, RecvSome(m) PROVE IInv'
  <1> DEFINE X == SubSeq(wire, 1, m)
             bytes == buffer \o X
             v == [n_bytes |-> n_bytes, value |-> bytes]
  <1>1. Types /\ Requested /\ m \in RecvSizes
    BY DEF IInv, RecvSome
  <1>2. /\ m \in Nat \ {0} /\ m <= n_bytes - Len(buffer)
        /\ X \in Seq(Byte) /\ Len(X) = m
    BY <1>1, RecvBounded, RecvMoves
  <1>3. /\ consumed' = consumed \o X
        /\ wire' \in Seq(Byte)
        /\ stream' = stream
    <2>1. consumed' = consumed \o X /\ wire' = SubSeq(wire, m + 1, Len(wire))
      BY DEF RecvSome
    <2> QED
      BY <1>1, <2>1, RecvMoves DEF stream
  <1>4. UNCHANGED <<kind, sendVars, n_bytes, calls, discarded>>
    BY DEF RecvSome
  <1>5. \/ /\ Len(bytes) >= n_bytes
           /\ returned' = Append(returned, v) /\ rpc' = "idle" /\ buffer' = <<>>
        \/ /\ ~(Len(bytes) >= n_bytes)
           /\ buffer' = bytes /\ rpc' = rpc /\ returned' = returned
    BY DEF RecvSome, Complete
  <1> HIDE DEF X
  <1>6. /\ buffer \in Seq(Byte) /\ consumed \in Seq(Byte)
        /\ returned \in Seq(Value) /\ n_bytes \in Nat
        /\ Len(buffer) \in Nat /\ Len(consumed) \in Nat /\ Len(returned) \in Nat
    BY <1>1, LenProperties DEF Types
  <1>7. /\ bytes \in Seq(Byte) /\ Len(bytes) = Len(buffer) + m
        /\ \A i \in 1 .. Len(buffer) + m :
             bytes[i] = IF i <= Len(buffer) THEN buffer[i] ELSE X[i - Len(buffer)]
    BY <1>2, <1>6, ConcatProperties
  <1>8. /\ consumed' \in Seq(Byte) /\ Len(consumed') = Len(consumed) + m
        /\ \A i \in 1 .. Len(consumed) + m :
             consumed'[i] = IF i <= Len(consumed) THEN consumed[i]
                                                  ELSE X[i - Len(consumed)]
    BY <1>2, <1>3, <1>6, ConcatProperties
  <1> HIDE DEF bytes
  <1>9. Len(bytes) >= n_bytes => Len(bytes) = n_bytes
    <2>1. Len(bytes) = Len(buffer) + m
      BY <1>7
    <2>2. m \in Nat /\ m <= n_bytes - Len(buffer)
      BY <1>2
    <2>3. n_bytes \in Nat /\ Len(buffer) \in Nat
      BY <1>6
    <2> QED
      BY <2>1, <2>2, <2>3
  <1>10. /\ v \in Value
        /\ Append(returned, v) \in Seq(Value)
        /\ Len(Append(returned, v)) = Len(returned) + 1
        /\ \A j \in 1 .. Len(returned) : Append(returned, v)[j] = returned[j]
        /\ Append(returned, v)[Len(returned) + 1] = v
    <2>1. v \in Value
      BY <1>6, <1>7 DEF Value
    <2> HIDE DEF v
    <2> QED
      BY <1>6, <2>1, AppendProperties
  <1>11. Types'
    <2>1. returned' \in Seq(Value) /\ buffer' \in Seq(Byte) /\ rpc' \in {"idle", "spin"}
      BY <1>1, <1>5, <1>6, <1>7, <1>10, EmptySeq DEF Types
    <2> QED
      BY <1>1, <1>3, <1>4, <1>8, <2>1 DEF Types, sendVars
  <1>12. Streamed'
    BY <1>3, <1>4, OtherSide
  <1>13. DOMAIN returned = 1 .. Len(returned)
    BY <1>6, LenProperties
  <1>14. Requested'
    <2>1. rpc' = "idle" => buffer' = <<>>
      BY <1>5 DEF RecvSome
    <2>2. Len(buffer') <= n_bytes'
      BY <1>2, <1>4, <1>5, <1>6, <1>7, EmptySeq
    <2>3. ExactLength'
      <3>1. CASE returned' = returned
        BY <1>1, <3>1 DEF Requested, ExactLength
      <3>2. CASE returned' = Append(returned, v) /\ Len(bytes) >= n_bytes
        <4>1. Len(bytes) = n_bytes
          BY <1>9, <3>2
        <4>2. DOMAIN returned' = 1 .. Len(returned) + 1
          BY <1>10, <3>2, LenProperties
        <4>3. ASSUME NEW j \in 1 .. Len(returned) + 1
              PROVE  Len(returned'[j].value) = returned'[j].n_bytes
          <5>1. CASE j \in 1 .. Len(returned)
            BY <1>1, <1>10, <1>13, <3>2, <5>1 DEF Requested, ExactLength
          <5>2. CASE j = Len(returned) + 1
            BY <1>10, <3>2, <4>1, <5>2
          <5> QED
            BY <1>6, <5>1, <5>2
        <4> QED
          BY <4>2, <4>3 DEF ExactLength
      <3> QED
        BY <1>5, <3>1, <3>2
    <2> QED
      BY <2>1, <2>2, <2>3 DEF Requested
  <1>15. Split'
    <2> DEFINE base == Size * Len(returned)
    <2> SUFFICES ASSUME Aligned'
                 PROVE  /\ Len(consumed') = Size * Len(returned') + Len(buffer')
                        /\ \A j \in 1 .. Len(returned'), o \in 1 .. Size :
                             returned'[j].value[o] = consumed'[Index(j, o)]
                        /\ \A i \in 1 .. Len(buffer') :
                             buffer'[i] = consumed'[Size * Len(returned') + i]
      BY DEF Split
    <2>1. base \in Nat /\ Size * (Len(returned) + 1) = base + Size
      BY <1>6, TimesNext
    <2>2. Aligned
      <3>1. ASSUME NEW j \in 1 .. Len(returned) PROVE returned[j].n_bytes = Size
        <4>1. j \in DOMAIN returned' /\ returned'[j] = returned[j]
          <5>1. DOMAIN returned' = 1 .. Len(returned')
            BY <1>11, LenProperties DEF Types
          <5>2. returned'[j] = returned[j]
            BY <1>5, <1>10
          <5>3. Len(returned') \in {Len(returned), Len(returned) + 1}
            BY <1>5, <1>10
          <5>4. j \in 1 .. Len(returned')
            BY <1>6, <5>3
          <5> QED
            BY <5>1, <5>2, <5>4
        <4> QED
          BY <4>1 DEF Aligned
      <3> QED
        BY <1>4, <1>13, <3>1 DEF Aligned
    <2>3. /\ Len(consumed) = base + Len(buffer)
          /\ \A j \in 1 .. Len(returned), o \in 1 .. Size :
               returned[j].value[o] = consumed[Index(j, o)]
          /\ \A i \in 1 .. Len(buffer) : buffer[i] = consumed[base + i]
      BY <2>2 DEF IInv, Split
    <2>4. \A j \in 1 .. Len(returned), o \in 1 .. Size :
            Index(j, o) \in Nat \ {0} /\ Index(j, o) <= base
      BY <1>6, IndexPlace
    <2>5. \A o \in 1 .. Size : Index(Len(returned) + 1, o) = base + o
      BY <1>6, TransferAssumption DEF Index
    <2>6. \A n \in Nat : Size * n \in Nat
      BY TransferAssumption
    <2> HIDE DEF base
    <2>7. \A i \in 1 .. Len(bytes) : bytes[i] = consumed'[base + i]
      <3> SUFFICES ASSUME NEW i \in 1 .. Len(bytes) PROVE bytes[i] = consumed'[base + i]
        OBVIOUS
      <3>1. /\ i \in 1 .. Len(buffer) + m
            /\ base + i \in 1 .. Len(consumed) + m
            /\ base + i <= Len(consumed) <=> i <= Len(buffer)
            /\ (base + i) - Len(consumed) = i - Len(buffer)
        BY <1>2, <1>6, <1>7, <2>1, <2>3
      <3>2. bytes[i] = IF i <= Len(buffer) THEN buffer[i] ELSE X[i - Len(buffer)]
        BY <1>7, <3>1
      <3>3. consumed'[base + i] = IF i <= Len(buffer) THEN consumed[base + i]
                                                      ELSE X[i - Len(buffer)]
        BY <1>8, <3>1
      <3>4. i <= Len(buffer) => buffer[i] = consumed[base + i]
        BY <2>3
      <3> QED
        BY <3>2, <3>3, <3>4
    <2>8. ASSUME NEW j \in 1 .. Len(returned), NEW o \in 1 .. Size
          PROVE  returned[j].value[o] = consumed'[Index(j, o)]
      <3>1. Index(j, o) \in 1 .. Len(consumed)
        BY <1>6, <2>1, <2>3, <2>4
      <3>2. consumed'[Index(j, o)] = consumed[Index(j, o)]
        BY <1>2, <1>6, <1>8, <3>1
      <3> QED
        BY <2>3, <3>2
    <2>9. Len(consumed') = base + Len(bytes)
      <3>1. Len(consumed') = Len(consumed) + m /\ Len(bytes) = Len(buffer) + m
        BY <1>7, <1>8
      <3> QED
        BY <1>2, <1>6, <2>1, <2>3, <3>1
    <2>10. CASE returned' = returned /\ buffer' = bytes
      BY <2>7, <2>8, <2>10, <2>9 DEF base
    <2>11. CASE /\ returned' = Append(returned, v) /\ buffer' = <<>>
                /\ Len(bytes) >= n_bytes
      <3>1. Len(returned') = Len(returned) + 1 /\ returned'[Len(returned) + 1] = v
        BY <1>10, <2>11
      <3>2. n_bytes = Size
        <4>1. Len(returned) + 1 \in DOMAIN returned'
          BY <1>6, <1>11, <3>1, LenProperties DEF Types
        <4> QED
          BY <3>1, <4>1 DEF Aligned
      <3>3. Len(bytes) = Size
        BY <1>9, <2>11, <3>2
      <3>4. Len(consumed') = base + Size
        BY <2>9, <3>3
      <3>5. Len(consumed') = Size * Len(returned') + Len(buffer')
        BY <2>1, <2>11, <3>1, <3>4, TransferAssumption, EmptySeq
      <3>6. ASSUME NEW j \in 1 .. Len(returned'), NEW o \in 1 .. Size
            PROVE  returned'[j].value[o] = consumed'[Index(j, o)]
        <4>1. CASE j \in 1 .. Len(returned)
          BY <1>10, <2>8, <2>11, <4>1
        <4>2. CASE j = Len(returned) + 1
          <5>1. returned'[j].value = bytes
            BY <3>1, <4>2
          <5>2. bytes[o] = consumed'[base + o]
            BY <2>7, <3>3
          <5> QED
            BY <2>5, <4>2, <5>1, <5>2
        <4> QED
          BY <1>6, <3>1, <4>1, <4>2
      <3> QED
        BY <2>11, <3>5, <3>6, EmptySeq
    <2> QED
      BY <1>5, <2>10, <2>11
  <1> QED
    BY <1>11, <1>12, <1>14, <1>15 DEF IInv

----------------------------------------------------------------------------
\* IInv holds in every state of the transfer.
THEOREM Inductive == Spec => []IInv
  <1>1. IInv /\ [Next]_vars => IInv'
    <2> SUFFICES ASSUME IInv, [Next]_vars PROVE IInv'
      OBVIOUS
    <2>1. CASE StartSend \/ SendThrows \/ SendReturns
      BY <2>1, SendIInv
    <2>2. CASE SendCall
      BY <2>2, SendCallIInv
    <2>3. CASE (\E n \in NBytes : CallSpinlock(n)) \/ TimedOut \/ RecvThrows
      BY <2>3, CallIInv DEF TimedOut, RecvThrows
    <2>4. ASSUME NEW m \in 1 .. Capacity, RecvSome(m) PROVE IInv'
      BY <2>4, RecvIInv
    <2>5. CASE UNCHANGED vars
      <3>1. Types' /\ stream' = stream /\ UNCHANGED <<kind, sendVars, recvVars>>
        BY <2>5 DEF vars, IInv, Types, sendVars, recvVars, stream
      <3> QED
        BY <3>1, OtherSide DEF IInv
    <2> QED
      BY <2>1, <2>2, <2>3, <2>4, <2>5 DEF Next, Finished
  <1> QED
    BY <1>1, InitIInv, PTL DEF Spec

\* ExactLength, for any way of cutting the stream.
THEOREM LengthAsAsked == Spec => []ExactLength
  <1>1. IInv => ExactLength
    BY DEF IInv, Requested
  <1> QED
    BY <1>1, Inductive, PTL

\* SentOnceUnlessPartial: the only way to spoil the stream is a ::send that
\* takes a part, for any size of response and of the kernel's buffers.
THEOREM NothingRepeated == Spec => []SentOnceUnlessPartial
  <1>1. IInv => SentOnceUnlessPartial
    <2> SUFFICES ASSUME IInv, Whole PROVE SentOnce
      BY DEF SentOnceUnlessPartial, Whole
    <2>1. \A k \in 1 .. sentCount + 1 : k \in Nat \ {0}
      BY DEF IInv, Types
    <2> QED
      BY <2>1 DEF IInv, Streamed, SentOnce, stream
  <1> QED
    BY <1>1, Inductive, PTL

\* WholeResponses: the spin loop needs no boundaries in the stream, if none of
\* its calls has dropped bytes.
THEOREM ResponsesInOrder == Spec => []WholeResponses
  <1>1. IInv => WholeResponses
    <2> SUFFICES ASSUME IInv, Whole, Aligned, NEW j \in DOMAIN returned
                 PROVE  returned[j].value = Response(j)
      BY DEF WholeResponses, Whole, Aligned
    <2>1. /\ returned \in Seq(Value) /\ Len(returned) \in Nat
          /\ DOMAIN returned = 1 .. Len(returned)
          /\ consumed \in Seq(Byte) /\ wire \in Seq(Byte)
          /\ Len(consumed) \in Nat /\ Len(wire) \in Nat /\ Len(buffer) \in Nat
      BY LenProperties DEF IInv, Types
    <2>2. j \in 1 .. Len(returned) /\ j \in Nat \ {0}
      BY <2>1
    <2>3. returned[j].value \in Seq(Byte) /\ Len(returned[j].value) = Size
      <3>1. returned[j] \in Value
        BY <2>1, <2>2, ElementOfSeq
      <3> QED
        BY <3>1 DEF Value, Aligned, IInv, Requested, ExactLength
    <2>4. ASSUME NEW o \in 1 .. Size PROVE returned[j].value[o] = <<j, o>>
      <3> DEFINE base == Size * Len(returned)
      <3>1. Index(j, o) \in Nat \ {0} /\ Index(j, o) <= base /\ base \in Nat
        <4>1. base \in Nat
          BY <2>1, TimesNext
        <4>2. Index(j, o) \in Nat \ {0} /\ (Index(j, o) <= base <=> j <= Len(returned))
          BY <2>1, <2>2, IndexPlace
        <4>3. j <= Len(returned)
          BY <2>2
        <4> QED
          BY <4>1, <4>2, <4>3
      <3>2. Len(consumed) = base + Len(buffer)
        BY DEF IInv, Split
      <3> HIDE DEF base
      <3>3. /\ Len(stream) = Len(consumed) + Len(wire)
            /\ stream[Index(j, o)] = consumed[Index(j, o)]
        <4>1. Index(j, o) \in 1 .. Len(consumed)
          BY <2>1, <3>1, <3>2
        <4>2. /\ Len(stream) = Len(consumed) + Len(wire)
              /\ \A i \in 1 .. Len(consumed) + Len(wire) :
                   stream[i] = IF i <= Len(consumed) THEN consumed[i]
                                                     ELSE wire[i - Len(consumed)]
          BY <2>1, ConcatProperties DEF stream
        <4> QED
          BY <2>1, <4>1, <4>2
      <3>4. Index(j, o) <= Len(stream)
        BY <2>1, <3>1, <3>2, <3>3
      <3>5. stream[Index(j, o)] = <<j, o>>
        BY <2>2, <3>4 DEF IInv, Streamed
      <3>6. returned[j].value[o] = consumed[Index(j, o)]
        BY <2>2 DEF IInv, Split
      <3> QED
        BY <3>3, <3>5, <3>6
    <2> QED
      BY <2>3, <2>4, LenProperties DEF Response
  <1> QED
    BY <1>1, Inductive, PTL

============================================================================
