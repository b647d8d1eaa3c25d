-------------------------------- MODULE Bridge --------------------------------
(***************************************************************************)
(* Bridge: relays bytes between two connected streams.  One read per       *)
(* stream is pending at any time, each into a buffer of its own; its       *)
(* handler writes what was read to the other stream, blocking the io       *)
(* thread until all of it is taken, and then reads again.  Any error ends  *)
(* in close().                                                             *)
(*                                                                         *)
(* handle_upstream_read, handle_downstream_write and the pair for the      *)
(* other direction are the same code with the peers swapped: p is the      *)
(* stream read from, Other(p) the one written to; peer_one is 1 and        *)
(* peer_two is 2.  The bytes a client sends are numbered 1, 2, 3, ...      *)
(*                                                                         *)
(* A definition introduced by "Mutant:" is no part of the model.           *)
(***************************************************************************)
EXTENDS Naturals, Sequences

CONSTANTS
  MaxBytes,         \* bound: bytes each client sends
  Window,           \* bytes a connection holds in flight, in one direction
  MAX_DATA_LENGTH   \* bytes a buffer of the bridge holds

ASSUME BoundsAssumption ==
  MaxBytes \in Nat /\ Window \in Nat \ {0} /\ MAX_DATA_LENGTH \in Nat \ {0}

Peer == {1, 2}
Other(p) == 3 - p

VARIABLES
  client,    \* each client's end: "up", closed ("gone") or reset
  sent,      \* how many bytes each client has sent
  inq,       \* bytes of each client that the bridge has not read
  buffer,    \* client_buffer and server_buffer, by the stream read into it
  reading,   \* is the async_read on the stream pending
  writing,   \* what the blocking write in progress has still to write
  outq,      \* bytes written to each client that it has not received
  received,  \* what each client has received
  sock,      \* the bridge's end of each connection
  server     \* "down" once close() threw out of io_context::run

clientVars == <<client, sent, received>>
vars == <<client, sent, inq, buffer, reading, writing, outq, received, sock, server>>

NotWriting == [from |-> 0, bytes |-> <<>>]

\* Bridge::start has been called on two connected streams.
Init ==
  /\ client = [p \in Peer |-> "up"]
  /\ sent = [p \in Peer |-> 0]
  /\ inq = [p \in Peer |-> <<>>]
  /\ buffer = [p \in Peer |-> <<>>]
  /\ reading = [p \in Peer |-> TRUE]
  /\ writing = NotWriting
  /\ outq = [p \in Peer |-> <<>>]
  /\ received = [p \in Peer |-> <<>>]
  /\ sock = [p \in Peer |-> "open"]
  /\ server = "running"
-----------------------------------------------------------------------------
(***************************************************************************)
(* The clients and the network.                                            *)
(***************************************************************************)
Send(p) ==
  /\ client[p] = "up"
  /\ sent[p] < MaxBytes
  /\ Len(inq[p]) < Window
  /\ sent' = [sent EXCEPT ![p] = @ + 1]
  /\ inq' = [inq EXCEPT ![p] = Append(@, sent[p] + 1)]
  /\ UNCHANGED <<client, buffer, reading, writing, outq, received, sock, server>>

Receive(p) ==
  /\ client[p] = "up"
  /\ outq[p] # <<>>
  /\ received' = [received EXCEPT ![p] = Append(@, Head(outq[p]))]
  /\ outq' = [outq EXCEPT ![p] = Tail(@)]
  /\ UNCHANGED <<client, sent, inq, buffer, reading, writing, sock, server>>

ClientLeaves(p) ==
  /\ client[p] = "up"
  /\ client' = [client EXCEPT ![p] = "gone"]
  /\ UNCHANGED <<sent, inq, buffer, reading, writing, outq, received, sock, server>>

ConnectionReset(p) ==
  /\ client[p] = "gone"
  /\ client' = [client EXCEPT ![p] = "reset"]
  /\ UNCHANGED <<sent, inq, buffer, reading, writing, outq, received, sock, server>>
-----------------------------------------------------------------------------
IoIdle == server = "running" /\ writing = NotWriting

\* Mutant: the whole buffer is written, not bytes_transferred bytes of it.
ReadCompletesWritesAll(p) ==
  /\ IoIdle
  /\ reading[p]
  /\ \E n \in 1..MAX_DATA_LENGTH :
       /\ n \leq Len(inq[p])
       /\ inq' = [inq EXCEPT ![p] = SubSeq(@, n + 1, Len(@))]
       /\ buffer' = [buffer EXCEPT
            ![p] = SubSeq(inq[p], 1, n) \o SubSeq(@, n + 1, Len(@))]
       /\ writing' = [from |-> p, bytes |-> buffer'[p]]
  /\ reading' = [reading EXCEPT ![p] = FALSE]
  /\ UNCHANGED <<clientVars, outq, sock, server>>

\* handle_upstream_read and handle_downstream_read without error: n bytes
\* replace the beginning of the buffer and are to be written to the other.
ReadCompletes(p) ==
  /\ IoIdle
  /\ reading[p]
  /\ \E n \in 1..MAX_DATA_LENGTH :
       /\ n \leq Len(inq[p])
       /\ inq' = [inq EXCEPT ![p] = SubSeq(@, n + 1, Len(@))]
       /\ buffer' = [buffer EXCEPT
            ![p] = SubSeq(inq[p], 1, n) \o SubSeq(@, n + 1, Len(@))]
       /\ writing' = [from |-> p, bytes |-> SubSeq(buffer'[p], 1, n)]
  /\ reading' = [reading EXCEPT ![p] = FALSE]
  /\ UNCHANGED <<clientVars, outq, sock, server>>

\* Mutant: the write does not wait for room.
WriteSomeAtOnce ==
  /\ server = "running"
  /\ writing.bytes # <<>>
  /\ LET q == Other(writing.from) IN
       /\ client[q] # "reset"
       /\ outq' = [outq EXCEPT ![q] = Append(@, Head(writing.bytes))]
  /\ writing' = [writing EXCEPT !.bytes = Tail(@)]
  /\ UNCHANGED <<clientVars, inq, buffer, reading, sock, server>>

\* The blocking write: the connection takes one more byte when it has room.
WriteSome ==
  /\ server = "running"
  /\ writing.bytes # <<>>
  /\ LET q == Other(writing.from) IN
       /\ client[q] # "reset"
       /\ Len(outq[q]) < Window
       /\ outq' = [outq EXCEPT ![q] = Append(@, Head(writing.bytes))]
  /\ writing' = [writing EXCEPT !.bytes = Tail(@)]
  /\ UNCHANGED <<clientVars, inq, buffer, reading, sock, server>>

\* Mutant: the read that follows the write is scheduled on the stream that
\* was written to.
ReadAgainFromOther ==
  /\ server = "running"
  /\ writing.from # 0
  /\ writing.bytes = <<>>
  /\ reading' = [reading EXCEPT ![Other(writing.from)] = TRUE]
  /\ writing' = NotWriting
  /\ UNCHANGED <<clientVars, inq, buffer, outq, sock, server>>

\* handle_downstream_write and handle_upstream_write without error.
ReadAgain ==
  /\ server = "running"
  /\ writing.from # 0
  /\ writing.bytes = <<>>
  /\ reading' = [reading EXCEPT ![writing.from] = TRUE]
  /\ writing' = NotWriting
  /\ UNCHANGED <<clientVars, inq, buffer, outq, sock, server>>
-----------------------------------------------------------------------------
(***************************************************************************)
(* close().  The throwing overload of shutdown is called, so a stream that *)
(* is closed already, or whose connection was reset, makes it throw out of *)
(* the handler; run() does not catch, and its thread ends the process.     *)
(* Both calls of shutdown name peer_one.                                   *)
(***************************************************************************)
ShutdownThrows(p, streams) == streams[p] = "closed" \/ client[p] = "reset"

close ==
  LET after_one == IF sock[1] = "open" THEN [sock EXCEPT ![1] = "closed"] ELSE sock
      one_throws == sock[1] = "open" /\ ShutdownThrows(1, sock)
      two_throws == after_one[2] = "open" /\ ShutdownThrows(1, after_one)
  IN  /\ sock' = IF one_throws THEN sock
                 ELSE IF two_throws THEN after_one
                 ELSE [p \in Peer |-> "closed"]
      /\ server' = IF one_throws \/ two_throws THEN "down" ELSE server

\* Mutant: the error of the read is not looked at, and what the buffer still holds is
\* written once more.
ReadFailsWrites(p) ==
  /\ IoIdle
  /\ reading[p]
  /\ \/ sock[p] = "closed"
     \/ client[p] = "gone" /\ inq[p] = <<>>
     \/ client[p] = "reset"
  /\ writing' = [from |-> p, bytes |-> buffer[p]]
  /\ reading' = [reading EXCEPT ![p] = FALSE]
  /\ UNCHANGED <<clientVars, inq, buffer, outq, sock, server>>

\* The pending read on p ends in an error.
ReadFails(p) ==
  /\ IoIdle
  /\ reading[p]
  /\ \/ sock[p] = "closed"
     \/ client[p] = "gone" /\ inq[p] = <<>>
     \/ client[p] = "reset"
  /\ close
  /\ reading' = [reading EXCEPT ![p] = FALSE]
  /\ UNCHANGED <<clientVars, inq, buffer, writing, outq>>

\* The blocking write ends in an error.
WriteFails ==
  /\ server = "running"
  /\ writing.bytes # <<>>
  /\ client[Other(writing.from)] = "reset"
  /\ close
  /\ writing' = NotWriting
  /\ UNCHANGED <<clientVars, inq, buffer, reading, outq>>
-----------------------------------------------------------------------------
IoStep ==
  \/ \E p \in Peer : ReadCompletes(p) \/ ReadFails(p)
  \/ WriteSome \/ ReadAgain \/ WriteFails

Next ==
  \/ \E p \in Peer : Send(p) \/ Receive(p) \/ ClientLeaves(p) \/ ConnectionReset(p)
  \/ IoStep

Spec == Init /\ [][Next]_vars

(***************************************************************************)
(* The io thread serves both pending reads as they complete, and the write *)
(* it blocks in goes on when there is room.  Nothing is assumed of the     *)
(* clients here.                                                           *)
(***************************************************************************)
Fairness ==
  /\ \A p \in Peer : SF_vars(ReadCompletes(p)) /\ SF_vars(ReadFails(p))
  /\ SF_vars(WriteSome)
  /\ WF_vars(ReadAgain)
  /\ WF_vars(WriteFails)

FairSpec == Spec /\ Fairness
-----------------------------------------------------------------------------
(***************************************************************************)
(* Properties.                                                             *)
(***************************************************************************)
Bytes == Seq(1..MaxBytes)

\* The values every variable takes.
TypeOK ==
  /\ client \in [Peer -> {"up", "gone", "reset"}]
  /\ sent \in [Peer -> 0..MaxBytes]
  /\ \A p \in Peer : /\ inq[p] \in Bytes /\ Len(inq[p]) \leq Window
                     /\ outq[p] \in Bytes /\ Len(outq[p]) \leq Window
                     /\ buffer[p] \in Bytes /\ Len(buffer[p]) \leq MAX_DATA_LENGTH
                     /\ received[p] \in Bytes
  /\ reading \in [Peer -> BOOLEAN]
  /\ writing.from \in Peer \cup {0} /\ writing.bytes \in Bytes
  /\ sock \in [Peer -> {"open", "closed"}]
  /\ server \in {"running", "down"}

Pending(p) == IF writing.from = p THEN writing.bytes ELSE <<>>

\* Every byte of p is in exactly one place and they are in order: received,
\* in flight, in the write of the io thread, or unread.  Nothing is lost,
\* repeated or reordered, although the buffer is used again for every read
\* and the two directions share the io thread.
NothingLostOrReordered ==
  server = "running" /\ (\A p \in Peer : sock[p] = "open") =>
    \A p \in Peer :
      received[Other(p)] \o outq[Other(p)] \o Pending(p) \o inq[p]
        = [i \in 1..sent[p] |-> i]

Left == \E p \in Peer : client[p] # "up"

\* When the clients keep receiving, every byte sent is passed on (of a bounded
\* supply), or a client leaves: a direction is not starved by the other although
\* they share one thread that blocks in its writes.
Relayed ==
  (\A q \in Peer : []<>(Len(outq[q]) < Window)) =>
    <>[](Left \/ \A p \in Peer :
           Len(received[Other(p)]) + Len(outq[Other(p)]) = sent[p])

\* What each client gives and the other takes, byte by byte; there is always room for
\* one more.
FromOne == INSTANCE Channel
  WITH FitFirst <- 1..MaxBytes, Fit <- 1..MaxBytes, open <- TRUE,
       given <- [i \in 1..sent[1] |-> i], taken <- received[2]

FromTwo == INSTANCE Channel
  WITH FitFirst <- 1..MaxBytes, Fit <- 1..MaxBytes, open <- TRUE,
       given <- [i \in 1..sent[2] |-> i], taken <- received[1]

\* To its clients a bridge is two channels, whatever ends it: what one receives next is
\* what the other has sent next, or nothing (the four handlers, which share a thread
\* and use their buffers again, and close).
ImplementsChannels == FromOne!CSpec /\ FromTwo!CSpec

\* What the tests take for granted of the thread that runs the server: a
\* client may leave its bridge without ending that thread.
ServerSurvives == server = "running"
=============================================================================
