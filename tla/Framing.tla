-------------------------------- MODULE Framing --------------------------------
(***************************************************************************)
(* SocketBase: messages over a byte stream, one direction of a connection. *)
(* send cuts a content longer than BUFFER_SIZE into chunks, each with a    *)
(* header of its own; asyncSendMessage sends whatever it is given under    *)
(* one header.  The reader reads a header, checks it (deserialize), and    *)
(* then reads exactly the bytes it announces; receive, receiveToBuffer and *)
(* asyncReadMessage do so alike and differ in whom they tell.              *)
(*                                                                         *)
(* The bytes of all contents are numbered 1, 2, 3, ... in the order they   *)
(* are given to send.  A header is one unit of the stream.                 *)
(*                                                                         *)
(* A definition introduced by "Mutant:" is no part of the model.           *)
(***************************************************************************)
EXTENDS Integers, Sequences, SequencesExt

CONSTANTS
  BUFFER_SIZE,             \* bytes of SocketBase's data_buffer
  FIRST_MESSAGE_MAX_SIZE,  \* max_message_size of the first read of a session
  MAX_VALUE,               \* the largest MessageType
  Window,                  \* units of the stream a connection holds in flight
  MaxSize,                 \* bound: bytes of a content
  MaxMessages              \* bound: messages sent

ASSUME SizesAssumption ==
  /\ BUFFER_SIZE \in Nat \ {0}
  /\ FIRST_MESSAGE_MAX_SIZE \in 0..BUFFER_SIZE
  /\ MAX_VALUE \in Nat
  /\ Window \in Nat \ {0}
  /\ MaxSize \in Nat
  /\ MaxMessages \in Nat

VARIABLES
  sent,      \* history: the messages given to send, in order
  sending,   \* message_length and ptr_cursor of the send in progress
  writing,   \* units of the chunk in progress that are still to be written
  wire,      \* units in flight
  reader,    \* where the reader is
  received   \* messages handed to the receiver

vars == <<sent, sending, writing, wire, reader, received>>

\* The types a header can carry; one above MAX_VALUE is not sent by this code.
Type == 0..(MAX_VALUE + 1)

Header(type, size) == [unit |-> "header", type |-> type, message_size |-> size]
Byte(n) == [unit |-> "byte", n |-> n]

NotSending == [active |-> FALSE, message_length |-> 0, ptr_cursor |-> 0]

Waiting == [step |-> "header", type |-> 0, message_size |-> 0, content |-> <<>>]

Init ==
  /\ sent = <<>>
  /\ sending = NotSending
  /\ writing = <<>>
  /\ wire = <<>>
  /\ reader = Waiting
  /\ received = <<>>
-----------------------------------------------------------------------------
(***************************************************************************)
(* The sender.  Its user starts a message when the one before is written:  *)
(* a blocking send has returned, or the completion handler has been called.*)
(***************************************************************************)
Numbers(first, size) == [i \in 1..size |-> first + i - 1]

\* The number of the first byte of the next message.
NextByte == IF sent = <<>> THEN 1 ELSE Last(sent).first + Last(sent).size

\* One header and size bytes from number first on.
Chunk(type, first, size) ==
  <<Header(type, size)>> \o [i \in 1..size |-> Byte(first + i - 1)]

NewMessage(type, size, how) ==
  /\ ~sending.active /\ writing = <<>>
  /\ Len(sent) < MaxMessages
  /\ sent' = Append(sent, [type |-> type, first |-> NextByte, size |-> size,
                           how |-> how])

\* Mutant: the loop that cuts is missing.
SendUncut(type, size) ==
  /\ NewMessage(type, size, "send")
  /\ writing' = Chunk(type, NextByte, size)
  /\ UNCHANGED <<sending, wire, reader, received>>

send(type, size) ==
  /\ NewMessage(type, size, "send")
  /\ sending' = [active |-> TRUE, message_length |-> size, ptr_cursor |-> 0]
  /\ UNCHANGED <<writing, wire, reader, received>>

asyncSendMessage(type, size) ==
  /\ NewMessage(type, size, "asyncSendMessage")
  /\ writing' = Chunk(type, NextByte, size)
  /\ UNCHANGED <<sending, wire, reader, received>>

sendChunk(length) ==
  LET message == Last(sent) IN
  writing' = Chunk(message.type, message.first + sending.ptr_cursor, length)

\* Mutant: a content of a whole number of buffers gets an empty chunk more.
CutFullChunkEagerly ==
  /\ sending.active /\ writing = <<>>
  /\ sending.message_length >= BUFFER_SIZE
  /\ sendChunk(BUFFER_SIZE)
  /\ sending' = [sending EXCEPT !.message_length = @ - BUFFER_SIZE,
                                !.ptr_cursor = @ + BUFFER_SIZE]
  /\ UNCHANGED <<sent, wire, reader, received>>

\* The body of the loop in send.
CutFullChunk ==
  /\ sending.active /\ writing = <<>>
  /\ sending.message_length > BUFFER_SIZE
  /\ sendChunk(BUFFER_SIZE)
  /\ sending' = [sending EXCEPT !.message_length = @ - BUFFER_SIZE,
                                !.ptr_cursor = @ + BUFFER_SIZE]
  /\ UNCHANGED <<sent, wire, reader, received>>

\* The chunk after the loop, which may be empty.
CutLastChunk ==
  /\ sending.active /\ writing = <<>>
  /\ sending.message_length \leq BUFFER_SIZE
  /\ sendChunk(sending.message_length)
  /\ sending' = NotSending
  /\ UNCHANGED <<sent, wire, reader, received>>

\* boost::asio::write and async_write: the connection takes a unit more.
WriteUnit ==
  /\ writing # <<>>
  /\ Len(wire) < Window
  /\ wire' = Append(wire, Head(writing))
  /\ writing' = Tail(writing)
  /\ UNCHANGED <<sent, sending, reader, received>>
-----------------------------------------------------------------------------
(***************************************************************************)
(* The reader.  A session's first read has a limit of its own; all others  *)
(* use the size of the buffer.                                             *)
(***************************************************************************)
max_message_size ==
  IF received = <<>> THEN FIRST_MESSAGE_MAX_SIZE ELSE BUFFER_SIZE

\* Mutant: a length is believed.
DeserializeAnyLength(header) == header.type \leq MAX_VALUE

deserialize(header) ==
  header.message_size \leq max_message_size /\ header.type \leq MAX_VALUE

\* A header that is refused ends the connection (safeDisconnect), or throws to
\* a caller of receiveToBuffer that does not read again.
ReadHeader ==
  /\ reader.step = "header"
  /\ wire # <<>>
  /\ LET header == Head(wire) IN
       reader' = IF deserialize(header)
                   THEN [step |-> "content", type |-> header.type,
                         message_size |-> header.message_size, content |-> <<>>]
                   ELSE [reader EXCEPT !.step = "closed"]
  /\ wire' = Tail(wire)
  /\ UNCHANGED <<sent, sending, writing, received>>

ReadByte ==
  /\ reader.step = "content"
  /\ Len(reader.content) < reader.message_size
  /\ wire # <<>>
  /\ reader' = [reader EXCEPT !.content = Append(@, Head(wire).n)]
  /\ wire' = Tail(wire)
  /\ UNCHANGED <<sent, sending, writing, received>>

\* Mutant: an empty content is waited for.
DeliverNonEmpty ==
  /\ reader.step = "content"
  /\ Len(reader.content) = reader.message_size
  /\ reader.message_size > 0
  /\ received' = Append(received, [type |-> reader.type, content |-> reader.content])
  /\ reader' = Waiting
  /\ UNCHANGED <<sent, sending, writing, wire>>

\* transfer_exactly(message_size) bytes have been read.
Deliver ==
  /\ reader.step = "content"
  /\ Len(reader.content) = reader.message_size
  /\ received' = Append(received, [type |-> reader.type, content |-> reader.content])
  /\ reader' = Waiting
  /\ UNCHANGED <<sent, sending, writing, wire>>
-----------------------------------------------------------------------------
Sender == CutFullChunk \/ CutLastChunk \/ WriteUnit
Reader == ReadHeader \/ ReadByte \/ Deliver

Next ==
  \/ \E type \in Type, size \in 0..MaxSize :
       send(type, size) \/ asyncSendMessage(type, size)
  \/ Sender
  \/ Reader

Spec == Init /\ [][Next]_vars

(***************************************************************************)
(* A write goes on while there is room, a read while something has come.   *)
(***************************************************************************)
FairSpec == Spec /\ WF_vars(Sender) /\ WF_vars(Reader)
-----------------------------------------------------------------------------
(***************************************************************************)
(* Properties.                                                             *)
(***************************************************************************)
\* The messages a receiver is to see for one that was sent: as many as it
\* takes, all but the last filling the buffer, and one if it is empty.
Pieces(m) ==
  LET full == IF m.how = "asyncSendMessage" THEN m.size ELSE BUFFER_SIZE
      count == IF m.size = 0 THEN 1 ELSE (m.size + full - 1) \div full
  IN  [i \in 1..count |->
         [type |-> m.type,
          content |-> Numbers(m.first + (i - 1) * full,
                              IF i < count THEN full
                                           ELSE m.size - (count - 1) * full)]]

Expected == FlattenSeq([i \in 1..Len(sent) |-> Pieces(sent[i])])

\* The receiver sees the chunks of what was sent and nothing else: no content
\* is lost, moved or joined with another's, wherever the byte stream happens
\* to be cut, and no chunk is larger than it need be to fit the buffer (send,
\* asyncReadHeader and asyncReadMessageImpl).
ReceivedAsSent == IsPrefix(received, Expected)

\* A header is refused only because of the message it heads: of unknown type,
\* sent in one piece by asyncSendMessage although it does not fit, or the
\* first and longer than a first message may be.  The stream never loses its
\* framing, so content is never taken for a header.
RefusedForCause ==
  reader.step = "closed" =>
    LET refused == Expected[Len(received) + 1] IN
      \/ refused.type > MAX_VALUE
      \/ Len(refused.content) > BUFFER_SIZE
      \/ received = <<>> /\ Len(refused.content) > FIRST_MESSAGE_MAX_SIZE

\* Everything sent arrives, however small the connection's window, unless the
\* reader has refused a header (a large content cannot block both ends).
Delivered ==
  \A k \in 1..MaxMessages :
    Len(sent) >= k ~>
      \/ reader.step = "closed"
      \/ /\ Len(sent) >= k
         /\ Len(received) >= Len(FlattenSeq([i \in 1..k |-> Pieces(sent[i])]))

\* The pieces that max_message_size leaves room for.
Fitting(max_size) ==
  {p \in [type : Nat, content : Seq(Nat)] :
     p.type \leq MAX_VALUE /\ Len(p.content) \leq max_size}

Messages == INSTANCE Channel
  WITH FitFirst <- Fitting(FIRST_MESSAGE_MAX_SIZE),
       Fit <- Fitting(BUFFER_SIZE),
       given <- Expected,
       taken <- received,
       open <- reader.step # "closed"

\* To its users a connection is a channel of messages: chunks come in order and
\* one at a time, none before it was given to send, and each is taken if and only
\* if the limits of deserialize leave room for it, so that none is ever written
\* beyond data_buffer (asyncReadMessage, receiveToBuffer).
ImplementsChannel == Messages!CSpec
=============================================================================
