------------------------------- MODULE Framing -------------------------------
(***************************************************************************)
(* ReceiverWorker::doRead (receiver_worker.cpp): cutting the bytes of a    *)
(* connection into messages.  Every message is preceded by its size.  The  *)
(* bytes come in arbitrary pieces; doRead runs when some have arrived,     *)
(* takes out of its buffer what is complete and keeps the rest for the     *)
(* next time.  Handled bytes stay in the buffer until MSG_PER_BUFFER       *)
(* messages have been handled.                                             *)
(*                                                                         *)
(* A byte is a record: the message it belongs to, its place in it, and,    *)
(* for the bytes of a size field, its value.                               *)
(***************************************************************************)
EXTENDS Integers, Sequences, SequencesExt

CONSTANTS
  MaxMsgs,      \* bound on the messages of the connection
  Sizes,        \* possible sizes of a message
  MsgPerBuffer  \* MSG_PER_BUFFER

MaxInt == 2147483647   \* of an int32_t

ASSUME SizesAssumption == Sizes \subseteq 1 .. MaxInt /\ MaxMsgs \in Nat
ASSUME MsgPerBufferAssumption == MsgPerBuffer \in Nat \ {0}

VARIABLES
  stream,       \* everything the solver sends
  available,    \* QTcpSocket::bytesAvailable
  arrived,      \* number of bytes of the stream that have arrived so far
  buffer,       \* m_buffer
  sizeRead, msgSize, msgProcessed, bytesRead,   \* m_state
  reading,      \* is doRead running?
  canReadMore,  \* can_read_more
  passed        \* the messages given to handleMessage (history)

readState == <<sizeRead, msgSize, msgProcessed, bytesRead>>
readerVars == <<stream, available, arrived, buffer, readState, reading, canReadMore, passed>>

FieldSize == 4   \* FIELD_SIZE_NBYTES

Weight == <<1, 256, 65536, 16777216>>   \* of each byte of a size field

\* The solver's side; sizes are sent in the order of the host, little-endian
SizeField(m, n) ==
  [i \in 1 .. FieldSize |->
     [msg |-> m, at |-> i - FieldSize, value |-> (n \div Weight[i]) % 256]]

Body(m, n) == [i \in 1 .. n |-> [msg |-> m, at |-> i, value |-> 0]]

Message(m, n) == SizeField(m, n) \o Body(m, n)

StreamOf(size) == FlattenSeq([m \in 1 .. MaxMsgs |-> Message(m, size[m])])

Streams == {StreamOf(size) : size \in [1 .. MaxMsgs -> Sizes]}

\* ArrayToInt: the four bytes as a number in the order of the host
ArrayToInt(bytes) ==
  bytes[1].value * Weight[1] + bytes[2].value * Weight[2]
    + bytes[3].value * Weight[3] + bytes[4].value * Weight[4]

-----------------------------------------------------------------------------
ReaderInit ==
  /\ stream \in Streams
  /\ available = 0 /\ arrived = 0
  /\ buffer = <<>>
  /\ sizeRead = FALSE /\ msgSize = 0 /\ msgProcessed = 0 /\ bytesRead = 0
  /\ reading = FALSE /\ canReadMore = FALSE
  /\ passed = <<>>

\* The event loop of the receiver thread reads k bytes off the network and
\* calls doRead on readyRead.
Arrive(k) ==
  /\ ~reading
  /\ arrived + k <= Len(stream)
  /\ available' = available + k
  /\ arrived' = arrived + k
  /\ reading' = TRUE
  /\ canReadMore' = TRUE
  /\ UNCHANGED <<stream, buffer, readState, passed>>

\* Faulty Filled: what is left in the buffer is overwritten.
FilledAfresh == SubSeq(stream, arrived - available + 1, arrived)

\* A round of the loop of doRead starts by moving what is available to m_buffer.
Filled == buffer \o SubSeq(stream, arrived - available + 1, arrived)

Round ==
  /\ reading
  /\ available > 0 \/ canReadMore
  /\ available' = 0
  /\ UNCHANGED <<stream, arrived, reading>>

ReadSize ==
  /\ Round
  /\ ~sizeRead
  /\ Len(Filled) >= bytesRead + FieldSize
  /\ msgSize' = ArrayToInt(SubSeq(Filled, bytesRead + 1, bytesRead + FieldSize))
  /\ bytesRead' = bytesRead + FieldSize
  /\ sizeRead' = TRUE
  /\ buffer' = Filled
  /\ canReadMore' = TRUE
  /\ UNCHANGED <<msgProcessed, passed>>

\* Have MSG_PER_BUFFER messages been handled, this one included?
Full == msgProcessed + 1 = MsgPerBuffer

ReadMessage ==
  LET end == bytesRead + msgSize IN
  /\ Round
  /\ sizeRead
  /\ Len(Filled) >= end
  /\ passed' = Append(passed, SubSeq(Filled, bytesRead + 1, end))
  /\ sizeRead' = FALSE
  /\ msgProcessed' = IF Full THEN 0 ELSE msgProcessed + 1
  /\ bytesRead' = IF Full THEN 0 ELSE end
  /\ buffer' = IF Full THEN SubSeq(Filled, end + 1, Len(Filled)) ELSE Filled
  /\ canReadMore' = TRUE
  /\ UNCHANGED msgSize

\* Faulty Wait: the loop is not told to stop.
WaitAgain ==
  /\ Round
  /\ Len(Filled) < bytesRead + (IF sizeRead THEN msgSize ELSE FieldSize)
  /\ buffer' = Filled
  /\ canReadMore' = TRUE
  /\ UNCHANGED <<readState, passed>>

\* Not enough bytes: need to wait for more.
Wait ==
  /\ Round
  /\ Len(Filled) < bytesRead + (IF sizeRead THEN msgSize ELSE FieldSize)
  /\ buffer' = Filled
  /\ canReadMore' = FALSE
  /\ UNCHANGED <<readState, passed>>

Return ==
  /\ reading
  /\ available = 0 /\ ~canReadMore
  /\ reading' = FALSE
  /\ UNCHANGED <<stream, available, arrived, buffer, readState, canReadMore, passed>>

DoRead == ReadSize \/ ReadMessage \/ Wait \/ Return

ReaderNext == DoRead \/ \E k \in 1 .. Len(stream) : Arrive(k)

ReaderSpec == ReaderInit /\ [][ReaderNext]_readerVars /\ WF_readerVars(DoRead)

-----------------------------------------------------------------------------
(* Properties *)

ReaderTypeOK ==
  /\ arrived \in 0 .. Len(stream) /\ available \in 0 .. arrived
  /\ sizeRead \in BOOLEAN /\ reading \in BOOLEAN /\ canReadMore \in BOOLEAN
  /\ msgSize \in Nat /\ bytesRead \in 0 .. Len(buffer)
  /\ msgProcessed \in 0 .. MsgPerBuffer - 1
  /\ Len(passed) <= MaxMsgs

\* However the bytes are cut into pieces, each message handed to handleMessage
\* is the next message the solver sent, whole and nothing but it.
HandledAsSent ==
  \A m \in DOMAIN passed :
    /\ passed[m] = Body(m, Len(passed[m]))
    /\ \A i \in DOMAIN stream : stream[i].msg = m => stream[i].at <= Len(passed[m])

\* When doRead goes back to waiting for the network it leaves no complete
\* message behind: the solver may have nothing more to send.
NoneLeftBehind ==
  ~reading => \A m \in 1 .. MaxMsgs :
    (\A i \in DOMAIN stream : stream[i].msg = m => i <= arrived) => m \in DOMAIN passed

\* The reset every MSG_PER_BUFFER messages keeps the buffer small: of the bytes
\* in it, those already handled belong to fewer than MSG_PER_BUFFER messages.
BufferTrimmed ==
  \A i \in DOMAIN buffer : buffer[i].msg > Len(passed) - MsgPerBuffer

\* The messages come out of the byte stream whole, in order and as soon as they
\* are complete, from a buffer that does not grow.
HandledInTime == ReaderTypeOK /\ HandledAsSent /\ NoneLeftBehind /\ BufferTrimmed

\* doRead comes to an end, it does not spin waiting for bytes.
DoReadReturns == reading ~> ~reading
=============================================================================
