---------------------------- MODULE LineSession ----------------------------
(***************************************************************************)
(* LineSession (linesession.cc) with the client that feeds it: iteration() *)
(* appends what recv() returned to buffer_, hands every line it finds to   *)
(* process(), and sends the responses at the end.  Framing is about bytes, *)
(* so the bytes are modelled: the separator's, and one that is in neither. *)
(***************************************************************************)
EXTENDS Integers, SequencesExt

CONSTANTS
  Byte,       \* the bytes a client sends
  separator,  \* separator_
  MaxBytes    \* model bound: bytes one client sends

ASSUME LineSessionAssumption ==
  /\ separator \in Seq(Byte) /\ separator # <<>>
  /\ MaxBytes \in Nat

VARIABLES
  include_separator,  \* include_separator_: process() sees the separator
  paced,      \* the client waits for the answer to a line before the next one
  inbox,      \* bytes sent and not received
  received,   \* history: every byte recv() has returned
  buffer,     \* buffer_
  i,          \* the local i of iteration()
  pc,         \* "idle", or "scan" inside iteration()'s loop
  processed,  \* history: the arguments of process(), in order
  answered    \* how many of them have been answered by send()

vars == <<include_separator, paced, inbox, received, buffer, i, pc,
          processed, answered>>

SepLen == Len(separator)

npos == -1

TypeOK ==
  /\ include_separator \in BOOLEAN
  /\ paced \in BOOLEAN
  /\ inbox \in Seq(Byte)
  /\ received \in Seq(Byte)
  /\ buffer \in Seq(Byte)
  /\ i \in Nat
  /\ pc \in {"idle", "scan"}
  /\ processed \in Seq(Seq(Byte))
  /\ answered \in Nat

Init ==
  /\ include_separator \in BOOLEAN
  /\ paced \in BOOLEAN
  /\ inbox = <<>> /\ received = <<>> /\ buffer = <<>>
  /\ i = 0
  /\ pc = "idle"
  /\ processed = <<>>
  /\ answered = 0

----------------------------------------------------------------------------
(* Reference: the lines of a byte stream, cut as its bytes come in. *)

\* <<lines, rest>> after one more byte.
Cut(acc, b) ==
  LET rest == Append(acc[2], b) IN
  IF IsSuffix(separator, rest) THEN <<Append(acc[1], rest), <<>>>>
                               ELSE <<acc[1], rest>>

Framed(bytes) ==
  LET cut[k \in 0 .. Len(bytes)] ==
        IF k = 0 THEN <<<<>>, <<>>>> ELSE Cut(cut[k - 1], bytes[k])
  IN  cut[Len(bytes)]

Lines(bytes) == Framed(bytes)[1]

\* A line as process() is given it, and back.
Payload(line) ==
  IF include_separator THEN line ELSE SubSeq(line, 1, Len(line) - SepLen)

Restored(data) == IF include_separator THEN data ELSE data \o separator

----------------------------------------------------------------------------
\* A paced client has at most one line without an answer.
MaySend == paced => Len(Lines(received \o inbox)) = answered

ClientSends(b) ==
  /\ Len(received \o inbox) < MaxBytes
  /\ MaySend
  /\ inbox' = Append(inbox, b)
  /\ UNCHANGED <<include_separator, paced, received, buffer, i, pc,
                 processed, answered>>

\* Fault: the search starts behind the bytes that were searched before.
SearchFrom_resumes == Len(buffer)

\* size_t i = 0
SearchFrom == 0

\* recv() may also return nothing: the event was stale, or came twice.
Recv ==
  /\ pc = "idle"
  /\ buffer' = buffer \o inbox
  /\ received' = received \o inbox
  /\ inbox' = <<>>
  /\ i' = SearchFrom
  /\ pc' = "scan"
  /\ UNCHANGED <<include_separator, paced, processed, answered>>

\* buffer_.find(separator_, from), positions counted from 0.
find(from) ==
  LET at == {j \in from .. Len(buffer) - SepLen :
               SubSeq(buffer, j + 1, j + SepLen) = separator}
  IN  IF at = {} THEN npos ELSE Min(at)

\* Fault: the precedence of `i + include_separator_ ? separator_len_ : 0'.
LineEnd_precedence(at) == IF at > 0 \/ include_separator THEN SepLen ELSE 0

\* Where the argument of process() ends.
LineEnd(at) == at + (IF include_separator THEN SepLen ELSE 0)

\* Fault: only the first byte of the separator is erased with the line.
Remaining_less(at) == SubSeq(buffer, at + SepLen, Len(buffer))

\* buffer_.erase(0, i + separator_len_).
Remaining(at) == SubSeq(buffer, at + SepLen + 1, Len(buffer))

\* Fault: the next search starts behind the separator, as if nothing had been
\* erased.
SearchNext_behind(at) == at + SepLen

\* The next search starts at i, where the line just erased ended.
SearchNext(at) == at

ProcessLine ==
  /\ pc = "scan"
  /\ find(i) # npos
  /\ processed' = Append(processed, SubSeq(buffer, 1, LineEnd(find(i))))
  /\ buffer' = Remaining(find(i))
  /\ i' = SearchNext(find(i))
  /\ UNCHANGED <<include_separator, paced, inbox, received, pc, answered>>

\* Nothing found: send() of the responses, one per processed line.  The local
\* i goes with the call.
SendResponse ==
  /\ pc = "scan"
  /\ find(i) = npos
  /\ answered' = Len(processed)
  /\ i' = 0
  /\ pc' = "idle"
  /\ UNCHANGED <<include_separator, paced, inbox, received, buffer, processed>>

Next ==
  \/ \E b \in Byte : ClientSends(b)
  \/ Recv \/ ProcessLine \/ SendResponse

Spec == Init /\ [][Next]_vars

----------------------------------------------------------------------------
\* No byte is lost, doubled or moved: what process() was given, with its
\* separators, and what is left in buffer_ make up what recv() returned.
Conservation ==
  FlattenSeq([k \in DOMAIN processed |-> Restored(processed[k])]) \o buffer
    = received

\* process() is given whole lines only: what has been consumed of the stream
\* always ends where a line of it ends, wherever recv() cut the stream.
WholeLines ==
  \A k \in DOMAIN processed :
    LET data == FlattenSeq([j \in 1 .. k |-> Restored(processed[j])])
    IN  Framed(data)[2] = <<>>

\* Length of the last line given to process(), its separator not counted.
LastLen ==
  IF processed = <<>> THEN 0
  ELSE Len(Last(processed)) - (IF include_separator THEN SepLen ELSE 0)

\* iteration() leaves a received line unprocessed only behind a longer one: in
\* what it leaves in buffer_, no separator is at or after the place where the
\* last processed line had its own, and before the first line there is none at
\* all, wherever recv() cut the stream.
OnlyShorterSkipped ==
  pc = "idle" =>
    \A j \in LastLen .. Len(buffer) - SepLen :
      \E k \in 1 .. SepLen : buffer[j + k] # separator[k]

\* After an iteration process() has been given exactly the lines received.
LineByLine ==
  pc = "idle" =>
    processed = [k \in DOMAIN Lines(received) |-> Payload(Lines(received)[k])]

\* ... for a client that waits for each answer, and so never has two lines in
\* one recv().
PacedLineByLine == paced => LineByLine

============================================================================
