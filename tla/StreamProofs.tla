------------------------------ MODULE StreamProofs ------------------------------
(***************************************************************************)
(* Theorems about Bridge and Stream, for any supply of bytes, any window   *)
(* and any size of the bridge's buffers: what arrives is what was sent, in *)
(* order, whoever is at the ends and whatever ends the bridge; and in what *)
(* way alone the two applications can wait for each other.                 *)
(***************************************************************************)
EXTENDS Stream, SequenceTheorems, TLAPS

\* TypeOK with the domains of the functions, which the proofs need, and with a
\* peer for every write in progress.
TypeInv ==
  /\ TypeOK
  /\ inq \in [Peer -> Bytes] /\ outq \in [Peer -> Bytes]
  /\ buffer \in [Peer -> Bytes] /\ received \in [Peer -> Bytes]
  /\ writing \in [from : Peer \cup {0}, bytes : Bytes]
  /\ writing.bytes # <<>> => writing.from \in Peer

\* The bytes of p, wherever they are.
Pipe(p) == received[Other(p)] \o outq[Other(p)] \o Pending(p) \o inq[p]

Intact == TypeInv /\ NothingLostOrReordered
-----------------------------------------------------------------------------
(***************************************************************************)
(* Sequences and peers.                                                    *)
(***************************************************************************)

\* There are two peers.
LEMMA Peers ==
  /\ \A p \in Peer : Other(p) \in Peer /\ Other(p) # p /\ Other(Other(p)) = p
  /\ \A p, q \in Peer : q # p => q = Other(p)
  /\ 0 \notin Peer
BY DEF Peer, Other

\* Taking the head of one sequence to the end of the one before moves nothing.
LEMMA HeadMoves ==
  ASSUME NEW S, NEW r \in Seq(S), NEW o \in Seq(S), o # <<>>
  PROVE  Append(r, Head(o)) \o Tail(o) = r \o o
<1>1. /\ Len(o) \in Nat \ {0} /\ Head(o) \in S /\ Tail(o) \in Seq(S)
      /\ Head(o) = o[1]
  BY EmptySeq, HeadTailProperties
<1>2. o = <<Head(o)>> \o Tail(o)
  BY <1>1, SubSeqFull, SubSeqRecursiveFirst, TailIsSubSeq
<1>3. Append(r, Head(o)) = r \o <<Head(o)>>
  BY <1>1, AppendIsConcat
<1>4. <<Head(o)>> \in Seq(S)
  BY <1>1
<1>5. QED
  BY <1>1, <1>2, <1>3, <1>4, ConcatAssociative

\* An element appended to the second of two sequences is appended to both.
LEMMA AppendToBoth ==
  ASSUME NEW S, NEW r \in Seq(S), NEW o \in Seq(S), NEW e \in S
  PROVE  r \o Append(o, e) = Append(r \o o, e)
<1>1. Append(o, e) = o \o <<e>> /\ <<e>> \in Seq(S)
  BY AppendIsConcat
<1>2. r \o o \in Seq(S)
  BY ConcatProperties
<1>3. Append(r \o o, e) = (r \o o) \o <<e>>
  BY <1>2, AppendIsConcat
<1>4. QED
  BY <1>1, <1>3, ConcatAssociative

\* Concatenation of bytes is associative.
LEMMA BytesAssociative ==
  ASSUME NEW r \in Bytes, NEW o \in Bytes, NEW q \in Bytes
  PROVE  (r \o o) \o q = r \o (o \o q)
<1>1. r \in Seq(1..MaxBytes) /\ o \in Seq(1..MaxBytes) /\ q \in Seq(1..MaxBytes)
  BY DEF Bytes
<1>2. \A s, t, u \in Seq(1..MaxBytes) : (s \o t) \o u = s \o (t \o u)
  BY ConcatAssociative
<1>3. QED
  BY <1>1, <1>2, Zenon

\* Cutting a sequence and putting the parts together gives it back.
LEMMA CutInTwo ==
  ASSUME NEW S, NEW q \in Seq(S), NEW n \in 1..Len(q)
  PROVE  /\ SubSeq(q, 1, n) \in Seq(S) /\ SubSeq(q, n + 1, Len(q)) \in Seq(S)
         /\ Len(SubSeq(q, 1, n)) = n
         /\ Len(SubSeq(q, n + 1, Len(q))) = Len(q) - n
         /\ SubSeq(q, 1, n) \o SubSeq(q, n + 1, Len(q)) = q
<1>1. Len(q) \in Nat /\ \A i \in 1..Len(q) : q[i] \in S
  BY LenProperties, ElementOfSeq
<1>2. SubSeq(q, 1, n) \in Seq(S) /\ Len(SubSeq(q, 1, n)) = n
  BY <1>1, SubSeqProperties
<1>3. /\ SubSeq(q, n + 1, Len(q)) \in Seq(S)
      /\ Len(SubSeq(q, n + 1, Len(q))) = Len(q) - n
  BY <1>1, SubSeqProperties
<1>4. SubSeq(q, 1, n) \o SubSeq(q, n + 1, Len(q)) = SubSeq(q, 1, Len(q))
  BY <1>1, ConcatAdjacentSubSeq
<1>5. QED
  BY <1>2, <1>3, <1>4, SubSeqFull

\* n bytes read into a buffer are its first n bytes, whatever else is in it.
LEMMA BufferPrefix ==
  ASSUME NEW S, NEW q \in Seq(S), NEW n \in 1..Len(q), NEW x \in Seq(S)
  PROVE  SubSeq(SubSeq(q, 1, n) \o x, 1, n) = SubSeq(q, 1, n)
<1>1. SubSeq(q, 1, n) \in Seq(S) /\ Len(SubSeq(q, 1, n)) = n /\ n \in Nat \ {0}
  BY CutInTwo
<1>2. SubSeq(SubSeq(q, 1, n) \o x, 1, n) = SubSeq(SubSeq(q, 1, n), 1, n)
  BY <1>1, SubSeqOfConcat1
<1>3. QED
  BY <1>1, <1>2, SubSeqFull

\* What is left of a buffer behind n bytes is shorter by n.
LEMMA BufferRest ==
  ASSUME NEW S, NEW b \in Seq(S), NEW n \in Nat \ {0}
  PROVE  /\ SubSeq(b, n + 1, Len(b)) \in Seq(S)
         /\ Len(SubSeq(b, n + 1, Len(b))) = IF n < Len(b) THEN Len(b) - n ELSE 0
<1>1. Len(b) \in Nat /\ \A i \in 1..Len(b) : b[i] \in S
  BY LenProperties, ElementOfSeq
<1>2. QED
  BY <1>1, SubSeqProperties

\* The numbers up to n + 1 are those up to n and n + 1.
LEMMA OneMore ==
  ASSUME NEW n \in Nat
  PROVE  Append([i \in 1..n |-> i], n + 1) = [i \in 1..(n + 1) |-> i]
<1> DEFINE s == [i \in 1..n |-> i]
           t == [i \in 1..(n + 1) |-> i]
<1>1. s \in Seq(Nat) /\ t \in Seq(Nat) /\ Len(s) = n /\ Len(t) = n + 1
  OBVIOUS
<1>2. /\ Append(s, n + 1) \in Seq(Nat) /\ Len(Append(s, n + 1)) = n + 1
      /\ \A i \in 1..n : Append(s, n + 1)[i] = i
      /\ Append(s, n + 1)[n + 1] = n + 1
  BY <1>1, AppendProperties
<1>3. \A i \in 1..(n + 1) : Append(s, n + 1)[i] = t[i]
  BY <1>2
<1> HIDE DEF s, t
<1>4. Append(s, n + 1) = t
  BY <1>1, <1>2, <1>3, SeqEqual
<1>5. QED
  BY <1>4 DEF s, t
-----------------------------------------------------------------------------
(***************************************************************************)
(* Typing.                                                                 *)
(***************************************************************************)

\* Init gives every variable a value of its type.
LEMMA TypeInit == Init => TypeInv
<1> SUFFICES ASSUME Init PROVE TypeInv
  OBVIOUS
<1>1. <<>> \in Bytes /\ Len(<<>>) = 0
  BY EmptySeq DEF Bytes
<1>2. NotWriting \in [from : Peer \cup {0}, bytes : Bytes] /\ NotWriting.bytes = <<>>
  BY <1>1 DEF NotWriting
<1>3. TypeOK
  BY <1>1, <1>2, BoundsAssumption DEF Init, TypeOK, NotWriting
<1>4. QED
  BY <1>1, <1>2, <1>3 DEF Init, TypeInv

\* A client's byte is counted and queued.
LEMMA SendType ==
  ASSUME TypeInv, NEW p \in Peer, Send(p)
  PROVE  TypeInv'
<1>1. sent[p] \in Nat /\ sent[p] + 1 \in 1..MaxBytes /\ inq[p] \in Bytes
  BY BoundsAssumption DEF TypeInv, TypeOK, Send
<1>2. /\ Append(inq[p], sent[p] + 1) \in Bytes
      /\ Len(Append(inq[p], sent[p] + 1)) = Len(inq[p]) + 1
  BY <1>1, AppendProperties DEF Bytes
<1>3. Len(inq[p]) + 1 \leq Window
  BY <1>1, BoundsAssumption, LenProperties DEF Send, Bytes
<1>4. QED
  BY <1>1, <1>2, <1>3 DEF Send, TypeInv, TypeOK

\* A byte changes from the connection to what the client has received.
LEMMA ReceiveType ==
  ASSUME TypeInv, NEW p \in Peer, Receive(p)
  PROVE  TypeInv'
<1>1. outq[p] \in Bytes /\ received[p] \in Bytes /\ outq[p] # <<>>
  BY DEF TypeInv, Receive
<1>2. /\ Head(outq[p]) \in 1..MaxBytes /\ Tail(outq[p]) \in Bytes
      /\ Len(Tail(outq[p])) = Len(outq[p]) - 1 /\ Len(outq[p]) \in Nat
  BY <1>1, HeadTailProperties, LenProperties DEF Bytes
<1>3. Append(received[p], Head(outq[p])) \in Bytes
  BY <1>1, <1>2, AppendProperties DEF Bytes
<1>4. Len(Tail(outq[p])) \leq Window
  BY <1>2, BoundsAssumption DEF TypeInv, TypeOK
<1>5. QED
  BY <1>2, <1>3, <1>4 DEF Receive, TypeInv, TypeOK

\* What a read puts into the buffer fits it, and what is written is what was read.
LEMMA ReadCompletesType ==
  ASSUME TypeInv, NEW p \in Peer, ReadCompletes(p)
  PROVE  /\ TypeInv'
         /\ writing'.from = p /\ writing'.bytes \o inq'[p] = inq[p]
         /\ \A q \in Peer \ {p} : inq'[q] = inq[q]
<1>1. PICK n \in 1..MAX_DATA_LENGTH :
        /\ n \leq Len(inq[p])
        /\ inq' = [inq EXCEPT ![p] = SubSeq(@, n + 1, Len(@))]
        /\ buffer' = [buffer EXCEPT
             ![p] = SubSeq(inq[p], 1, n) \o SubSeq(@, n + 1, Len(@))]
        /\ writing' = [from |-> p, bytes |-> SubSeq(buffer'[p], 1, n)]
  BY DEF ReadCompletes
<1> DEFINE taken == SubSeq(inq[p], 1, n)
           left  == SubSeq(inq[p], n + 1, Len(inq[p]))
           stale == SubSeq(buffer[p], n + 1, Len(buffer[p]))
<1>2. /\ inq[p] \in Seq(1..MaxBytes) /\ buffer[p] \in Seq(1..MaxBytes)
      /\ Len(inq[p]) \in Nat /\ Len(buffer[p]) \in Nat
      /\ Len(inq[p]) \leq Window /\ Len(buffer[p]) \leq MAX_DATA_LENGTH
      /\ n \in 1..Len(inq[p]) /\ n \in Nat \ {0} /\ n \leq MAX_DATA_LENGTH
  BY <1>1, BoundsAssumption, LenProperties DEF TypeInv, TypeOK, Bytes
<1>3. /\ taken \in Bytes /\ left \in Bytes /\ Len(taken) = n
      /\ Len(left) = Len(inq[p]) - n /\ taken \o left = inq[p]
  BY <1>2, CutInTwo DEF Bytes
<1>4. stale \in Bytes /\ Len(stale) = IF n < Len(buffer[p]) THEN Len(buffer[p]) - n ELSE 0
  BY <1>2, BufferRest DEF Bytes
<1>5. taken \o stale \in Bytes /\ Len(taken \o stale) = n + Len(stale)
  BY <1>3, <1>4, ConcatProperties DEF Bytes
<1>6. Len(taken \o stale) \leq MAX_DATA_LENGTH /\ Len(left) \leq Window
  BY <1>2, <1>3, <1>4, <1>5, BoundsAssumption
<1>7. SubSeq(taken \o stale, 1, n) = taken
  BY <1>2, <1>4, BufferPrefix DEF Bytes
<1> HIDE DEF taken, left, stale
<1>8. /\ inq' = [inq EXCEPT ![p] = left]
      /\ buffer' = [buffer EXCEPT ![p] = taken \o stale]
      /\ writing' = [from |-> p, bytes |-> taken]
  BY <1>1, <1>7 DEF TypeInv, taken, left, stale
<1>9. TypeInv'
  BY <1>3, <1>5, <1>6, <1>8 DEF ReadCompletes, clientVars, TypeInv, TypeOK
<1>10. QED
  BY <1>3, <1>8, <1>9 DEF TypeInv

\* A byte changes from the write in progress to the connection.
LEMMA WriteSomeType ==
  ASSUME TypeInv, WriteSome
  PROVE  /\ TypeInv'
         /\ writing.from \in Peer /\ writing'.from = writing.from
         /\ writing'.bytes = Tail(writing.bytes)
         /\ outq' = [outq EXCEPT
              ![Other(writing.from)] = Append(@, Head(writing.bytes))]
<1> DEFINE q == Other(writing.from)
<1>1. /\ writing.from \in Peer /\ q \in Peer
      /\ writing.bytes \in Bytes /\ writing.bytes # <<>>
  BY Peers DEF WriteSome, TypeInv
<1>2. Head(writing.bytes) \in 1..MaxBytes /\ Tail(writing.bytes) \in Bytes
  BY <1>1, HeadTailProperties DEF Bytes
<1>3. /\ Append(outq[q], Head(writing.bytes)) \in Bytes
      /\ Len(Append(outq[q], Head(writing.bytes))) = Len(outq[q]) + 1
      /\ Len(outq[q]) \in Nat
  BY <1>1, <1>2, AppendProperties, LenProperties DEF Bytes, TypeInv
<1>4. Len(outq[q]) + 1 \leq Window
  BY <1>3, BoundsAssumption DEF WriteSome
<1>5. /\ outq' = [outq EXCEPT ![q] = Append(@, Head(writing.bytes))]
      /\ writing' = [writing EXCEPT !.bytes = Tail(@)]
  BY DEF WriteSome
<1>6. /\ writing' \in [from : Peer \cup {0}, bytes : Bytes]
      /\ writing'.from = writing.from /\ writing'.bytes = Tail(writing.bytes)
  BY <1>2, <1>5 DEF TypeInv
<1> HIDE DEF q
<1>7. outq' \in [Peer -> Bytes] /\ \A p \in Peer : Len(outq'[p]) \leq Window
  BY <1>1, <1>3, <1>4, <1>5 DEF TypeInv, TypeOK
<1>8. UNCHANGED <<client, sent, received, inq, buffer, reading, sock, server>>
  BY DEF WriteSome, clientVars
<1>9. TypeOK'
  BY <1>6, <1>7, <1>8 DEF TypeInv, TypeOK
<1>10. TypeInv'
  BY <1>1, <1>6, <1>7, <1>8, <1>9 DEF TypeInv
<1>11. QED
  BY <1>1, <1>5, <1>6, <1>10 DEF q

\* close() leaves streams and server with a value of their type; if it does not
\* throw, both streams are closed.
LEMMA CloseType ==
  ASSUME TypeInv, close
  PROVE  /\ sock' \in [Peer -> {"open", "closed"}] /\ server' \in {"running", "down"}
         /\ server' = "running" => \A p \in Peer : sock'[p] = "closed"
BY DEF close, TypeInv, TypeOK, Peer

\* Every other step keeps the types.
LEMMA TypeStep ==
  ASSUME TypeInv, [Next]_vars
  PROVE  TypeInv'
<1>1. <<>> \in Bytes /\ NotWriting \in [from : Peer \cup {0}, bytes : Bytes]
  BY EmptySeq DEF NotWriting, Bytes
<1>2. CASE UNCHANGED vars
  BY <1>2 DEF vars, clientVars, TypeInv, TypeOK
<1>3. ASSUME NEW p \in Peer, Send(p) \/ Receive(p) \/ ReadCompletes(p)
      PROVE  TypeInv'
  BY <1>3, SendType, ReceiveType, ReadCompletesType
<1>4. ASSUME NEW p \in Peer, ClientLeaves(p) \/ ConnectionReset(p)
      PROVE  TypeInv'
  BY <1>4 DEF ClientLeaves, ConnectionReset, TypeInv, TypeOK
<1>5. ASSUME NEW p \in Peer, ReadFails(p)
      PROVE  TypeInv'
  <2>1. close
    BY <1>5 DEF ReadFails
  <2>2. QED
    BY <1>5, <2>1, CloseType DEF ReadFails, clientVars, TypeInv, TypeOK
<1>6. CASE WriteSome
  BY <1>6, WriteSomeType
<1>7. CASE ReadAgain
  BY <1>1, <1>7 DEF ReadAgain, NotWriting, clientVars, TypeInv, TypeOK
<1>8. CASE WriteFails
  <2>1. close
    BY <1>8 DEF WriteFails
  <2>2. QED
    BY <1>1, <1>8, <2>1, CloseType DEF WriteFails, NotWriting, clientVars, TypeInv, TypeOK
<1>9. QED
  BY <1>2, <1>3, <1>4, <1>5, <1>6, <1>7, <1>8 DEF Next, IoStep

\* Every variable of the bridge keeps its type: no queue outgrows its connection
\* and no read its buffer.
THEOREM BridgeTypeCorrect == Spec => []TypeOK
<1>1. TypeInv => TypeOK
  BY DEF TypeInv
<1>2. QED
  BY <1>1, TypeInit, TypeStep, PTL DEF Spec
-----------------------------------------------------------------------------
(***************************************************************************)
(* Nothing lost or reordered.                                              *)
(***************************************************************************)

\* The parts of a pipe are sequences of bytes.
LEMMA PipeParts ==
  ASSUME TypeInv, NEW p \in Peer
  PROVE  /\ received[Other(p)] \in Bytes /\ outq[Other(p)] \in Bytes
         /\ Pending(p) \in Bytes /\ inq[p] \in Bytes
         /\ received[Other(p)] \o outq[Other(p)] \in Bytes
         /\ received[Other(p)] \o outq[Other(p)] \o Pending(p) \in Bytes
         /\ Pipe(p) = (received[Other(p)] \o outq[Other(p)]) \o (Pending(p) \o inq[p])
<1>1. /\ received[Other(p)] \in Bytes /\ outq[Other(p)] \in Bytes
      /\ Pending(p) \in Bytes /\ inq[p] \in Bytes
  BY Peers, EmptySeq DEF TypeInv, Pending, Bytes
<1>2. received[Other(p)] \o outq[Other(p)] \in Bytes
  BY <1>1, ConcatProperties DEF Bytes
<1>3. received[Other(p)] \o outq[Other(p)] \o Pending(p) \in Bytes
  BY <1>1, <1>2, ConcatProperties DEF Bytes
<1>4. (received[Other(p)] \o outq[Other(p)] \o Pending(p)) \o inq[p]
        = (received[Other(p)] \o outq[Other(p)]) \o (Pending(p) \o inq[p])
  BY <1>1, <1>2, BytesAssociative, Zenon
<1>5. QED
  BY <1>1, <1>2, <1>3, <1>4, Zenon DEF Pipe

\* A pipe whose parts are untouched is the same.
LEMMA PipeUntouched ==
  ASSUME NEW p \in Peer, received'[Other(p)] = received[Other(p)],
         outq'[Other(p)] = outq[Other(p)], Pending(p)' = Pending(p), inq'[p] = inq[p]
  PROVE  Pipe(p)' = Pipe(p)
<1>1. Other(p)' = Other(p)
  BY DEF Other
<1>2. QED
  BY <1>1 DEF Pipe

\* A byte that a client sends comes at the end of its pipe.
LEMMA SendPipe ==
  ASSUME TypeInv, NEW p \in Peer, NEW q \in Peer, Send(q), Pipe(p) = [i \in 1..sent[p] |-> i]
  PROVE  Pipe(p)' = [i \in 1..sent'[p] |-> i]
<1>1. /\ \A r \in Peer : received'[r] = received[r] /\ outq'[r] = outq[r]
      /\ Pending(p)' = Pending(p) /\ Other(p)' = Other(p) /\ Other(p) \in Peer
  BY Peers DEF Send, Pending, Other
<1>2. CASE p # q
  <2>1. inq'[p] = inq[p] /\ sent'[p] = sent[p]
    BY <1>2 DEF Send, TypeInv, TypeOK
  <2>2. QED
    BY <1>1, <2>1, PipeUntouched
<1>3. CASE p = q
  <2> DEFINE front == received[Other(p)] \o outq[Other(p)] \o Pending(p)
             n == sent[p] + 1
  <2>1. /\ inq'[p] = Append(inq[p], n) /\ sent'[p] = n
        /\ n \in 1..MaxBytes /\ sent[p] \in Nat
    BY <1>3, BoundsAssumption DEF Send, TypeInv, TypeOK
  <2>2. front \in Bytes /\ inq[p] \in Bytes /\ Pipe(p) = front \o inq[p]
    BY PipeParts DEF Pipe
  <2>3. Pipe(p)' = front \o Append(inq[p], n)
    BY <1>1, <2>1 DEF Pipe
  <2> HIDE DEF front, n
  <2>4. front \o Append(inq[p], n) = Append(front \o inq[p], n)
    <3>1. /\ front \in Seq(1..MaxBytes) /\ inq[p] \in Seq(1..MaxBytes)
          /\ n \in 1..MaxBytes
      BY <2>1, <2>2 DEF Bytes
    <3>2. \A r, o \in Seq(1..MaxBytes) : \A e \in 1..MaxBytes :
            r \o Append(o, e) = Append(r \o o, e)
      BY AppendToBoth
    <3>3. QED
      BY <3>1, <3>2, Zenon
  <2>5. Pipe(p)' = Append([i \in 1..sent[p] |-> i], n)
    BY <2>2, <2>3, <2>4
  <2>6. QED
    BY <2>1, <2>5, OneMore DEF n
<1>4. QED
  BY <1>2, <1>3

\* A byte received moves within the pipe of the other client.
LEMMA ReceivePipe ==
  ASSUME TypeInv, NEW p \in Peer, NEW q \in Peer, Receive(q)
  PROVE  Pipe(p)' = Pipe(p)
<1>1. Pending(p)' = Pending(p) /\ inq'[p] = inq[p] /\ Other(p)' = Other(p)
  BY DEF Receive, Pending, Other
<1>2. CASE q # Other(p)
  <2>1. received'[Other(p)] = received[Other(p)] /\ outq'[Other(p)] = outq[Other(p)]
    BY <1>2, Peers DEF Receive, TypeInv
  <2>2. QED
    BY <1>1, <2>1, PipeUntouched
<1>3. CASE q = Other(p)
  <2>1. /\ received'[q] = Append(received[q], Head(outq[q]))
        /\ outq'[q] = Tail(outq[q]) /\ outq[q] # <<>>
        /\ received[q] \in Bytes /\ outq[q] \in Bytes
    BY DEF Receive, TypeInv
  <2>2. received'[q] \o outq'[q] = received[q] \o outq[q]
    BY <2>1, HeadMoves DEF Bytes
  <2>3. QED
    BY <1>1, <1>3, <2>2 DEF Pipe
<1>4. QED
  BY <1>2, <1>3

\* What a read takes is what is going to be written: stale bytes of the buffer
\* are not part of it.
LEMMA ReadCompletesPipe ==
  ASSUME TypeInv, NEW p \in Peer, NEW q \in Peer, ReadCompletes(q)
  PROVE  Pipe(p)' = Pipe(p)
<1>1. /\ UNCHANGED <<received, outq>> /\ writing = NotWriting /\ Other(p)' = Other(p)
      /\ Other(p) \in Peer
  BY Peers DEF ReadCompletes, IoIdle, clientVars, Other
<1>2. Pending(p) = <<>>
  BY <1>1 DEF Pending, NotWriting
<1>3. CASE p # q
  <2>1. Pending(p)' = <<>> /\ inq'[p] = inq[p]
    BY <1>3, ReadCompletesType DEF Pending
  <2>2. QED
    BY <1>1, <1>2, <2>1, PipeUntouched
<1>4. CASE p = q
  <2>1. Pending(p)' \o inq'[p] = inq[p]
    BY <1>4, ReadCompletesType DEF Pending
  <2>2. TypeInv'
    BY ReadCompletesType
  <2>3. Pipe(p)' = (received[Other(p)] \o outq[Other(p)]) \o (Pending(p)' \o inq'[p])
    <3>1. /\ (received[Other(p)] \o outq[Other(p)]) \in Bytes
          /\ Pending(p)' \in Bytes /\ inq'[p] \in Bytes
      BY <1>1, <2>2, PipeParts, EmptySeq DEF TypeInv, Pending, Bytes
    <3>2. Pipe(p)' = (received[Other(p)] \o outq[Other(p)]) \o Pending(p)' \o inq'[p]
      BY <1>1 DEF Pipe
    <3>3. QED
      BY <3>1, <3>2, BytesAssociative
  <2>4. Pending(p) \o inq[p] = inq[p]
    BY <1>2, PipeParts, ConcatEmptySeq DEF Bytes
  <2>5. QED
    BY <2>1, <2>3, <2>4, PipeParts
<1>5. QED
  BY <1>3, <1>4

\* A byte written moves within the pipe.
LEMMA WriteSomePipe ==
  ASSUME TypeInv, NEW p \in Peer, WriteSome
  PROVE  Pipe(p)' = Pipe(p)
<1>1. /\ UNCHANGED <<received, inq>> /\ Other(p)' = Other(p) /\ Other(p) \in Peer
      /\ writing.bytes # <<>>
  BY Peers DEF WriteSome, clientVars, Other
<1>2. CASE writing.from # p
  <2>1. Pending(p)' = Pending(p)
    BY <1>2, WriteSomeType DEF Pending
  <2>2. outq'[Other(p)] = outq[Other(p)]
    BY <1>1, <1>2, WriteSomeType, Peers DEF TypeInv
  <2>3. QED
    BY <1>1, <2>1, <2>2, PipeUntouched
<1>3. CASE writing.from = p
  <2> DEFINE front == received[Other(p)] \o outq[Other(p)]
             first == Head(writing.bytes)
  <2>1. Pending(p) = writing.bytes /\ Pending(p)' = Tail(writing.bytes)
    BY <1>3, WriteSomeType DEF Pending
  <2>2. outq'[Other(p)] = Append(outq[Other(p)], first)
    BY <1>1, <1>3, WriteSomeType DEF TypeInv
  <2>3. /\ received[Other(p)] \in Bytes /\ outq[Other(p)] \in Bytes
        /\ writing.bytes \in Bytes /\ front \in Bytes
    BY <2>1, PipeParts
  <2>4. first \in 1..MaxBytes
    BY <1>1, <2>3, HeadTailProperties DEF Bytes
  <2>5. received[Other(p)] \o Append(outq[Other(p)], first) = Append(front, first)
    <3> HIDE DEF first
    <3>1. \A r, o \in Seq(1..MaxBytes) : r \o Append(o, first) = Append(r \o o, first)
      BY <2>4, AppendToBoth
    <3>2. QED
      BY <2>3, <3>1 DEF Bytes
  <2>6. Append(front, first) \o Tail(writing.bytes) = front \o writing.bytes
    BY <1>1, <2>3, HeadMoves DEF Bytes
  <2>7. QED
    BY <1>1, <2>1, <2>2, <2>5, <2>6 DEF Pipe
<1>4. QED
  BY <1>2, <1>3

\* Every step keeps the pipes of a bridge that is open.
LEMMA IntactStep ==
  ASSUME Intact, [Next]_vars
  PROVE  Intact'
<1> DEFINE Open == server = "running" /\ \A p \in Peer : sock[p] = "open"
<1>1. TypeInv'
  BY TypeStep DEF Intact
<1>2. SUFFICES ASSUME Open', NEW p \in Peer
               PROVE  Pipe(p)' = [i \in 1..sent'[p] |-> i]
  BY <1>1 DEF Intact, NothingLostOrReordered, Pipe
<1>3. Peer # {}
  BY DEF Peer
<1>4. ASSUME NEW q \in Peer, ReadFails(q)
      PROVE  FALSE
  BY <1>2, <1>3, <1>4, CloseType DEF ReadFails, Intact
<1>5. CASE WriteFails
  BY <1>2, <1>3, <1>5, CloseType DEF WriteFails, Intact
<1>6. CASE UNCHANGED <<sock, server>>
  <2>1. Pipe(p) = [i \in 1..sent[p] |-> i]
    BY <1>2, <1>6 DEF Intact, NothingLostOrReordered, Pipe
  <2>2. ASSUME NEW q \in Peer, Send(q)
        PROVE  Pipe(p)' = [i \in 1..sent'[p] |-> i]
    BY <2>1, <2>2, SendPipe DEF Intact
  <2>3. ASSUME NEW q \in Peer, Receive(q) \/ ReadCompletes(q)
        PROVE  Pipe(p)' = Pipe(p) /\ sent' = sent
    BY <2>3, ReceivePipe, ReadCompletesPipe DEF Intact, Receive, ReadCompletes, clientVars
  <2>4. CASE WriteSome
    BY <2>1, <2>4, WriteSomePipe DEF Intact, WriteSome, clientVars
  <2>5. ASSUME UNCHANGED <<received, outq, inq, sent>>, Pending(p)' = Pending(p)
        PROVE  Pipe(p)' = Pipe(p) /\ sent' = sent
    BY <2>5, PipeUntouched
  <2>6. ASSUME NEW q \in Peer, ClientLeaves(q) \/ ConnectionReset(q)
        PROVE  Pipe(p)' = Pipe(p) /\ sent' = sent
    BY <2>5, <2>6 DEF ClientLeaves, ConnectionReset, Pending
  <2>7. CASE ReadAgain
    <3>1. Pending(p)' = <<>> /\ Pending(p) = <<>>
      BY <2>7 DEF ReadAgain, Pending, NotWriting
    <3>2. QED
      BY <2>1, <2>5, <2>7, <3>1 DEF ReadAgain, clientVars
  <2>8. CASE UNCHANGED vars
    BY <2>1, <2>5, <2>8 DEF vars, clientVars, Pending
  <2>9. QED
    BY <1>4, <1>5, <2>1, <2>2, <2>3, <2>4, <2>6, <2>7, <2>8 DEF Next, IoStep
<1>7. QED
  BY <1>4, <1>5, <1>6
     DEF Next, IoStep, vars, Send, Receive, ClientLeaves, ConnectionReset,
         ReadCompletes, WriteSome, ReadAgain

\* Both pipes are empty at first.
LEMMA IntactInit == Init => Intact
<1> SUFFICES ASSUME Init PROVE Intact
  OBVIOUS
<1>1. \A p \in Peer :
        /\ received[Other(p)] = <<>> /\ outq[Other(p)] = <<>> /\ Pending(p) = <<>>
        /\ inq[p] = <<>> /\ sent[p] = 0
  BY Peers DEF Init, Pending, NotWriting
<1>2. <<>> \o <<>> = <<>> /\ <<>> \o <<>> \o <<>> \o <<>> = <<>>
  BY EmptySeq, ConcatEmptySeq
<1>3. [i \in 1..0 |-> i] = <<>>
  OBVIOUS
<1>4. NothingLostOrReordered
  BY <1>1, <1>2, <1>3 DEF NothingLostOrReordered
<1>5. QED
  BY <1>4, TypeInit DEF Intact

\* What a client of a bridge receives is what the other has sent, in order
\* (handle_upstream_read, handle_downstream_write and their counterparts).
THEOREM RelayIntact == Spec => []NothingLostOrReordered
<1>1. Intact => NothingLostOrReordered
  BY DEF Intact
<1>2. QED
  BY <1>1, IntactInit, IntactStep, PTL DEF Spec
-----------------------------------------------------------------------------
(***************************************************************************)
(* What holds of a bridge that has ended, too.                             *)
(***************************************************************************)

\* What has reached the client that p's bytes go to is the beginning of them.
Beginning(p) ==
  /\ Len(received[Other(p)]) \leq sent[p]
  /\ \A i \in 1..Len(received[Other(p)]) : received[Other(p)][i] = i

ReceivedIsBeginning == \A p \in Peer : Beginning(p)

\* The same of the pipes of clients that are not reset.
WholeIsBeginning ==
  \A p \in Peer : client[Other(p)] # "reset" => Beginning(p)

\* Until a client's connection is reset its pipe is whole: closing a bridge takes
\* nothing out of it.
Whole ==
  /\ TypeInv
  /\ \A p \in Peer : client[Other(p)] # "reset" => Pipe(p) = [i \in 1..sent[p] |-> i]

\* What is received of a whole pipe is its beginning.
LEMMA WholeBegins == Whole => WholeIsBeginning
<1>1. SUFFICES ASSUME TypeInv, NEW p \in Peer, Pipe(p) = [i \in 1..sent[p] |-> i]
               PROVE  Beginning(p)
  BY DEF Whole, WholeIsBeginning
<1> DEFINE r == received[Other(p)]
           rest == outq[Other(p)] \o (Pending(p) \o inq[p])
<1>2. r \in Bytes /\ outq[Other(p)] \in Bytes /\ Pending(p) \o inq[p] \in Bytes
  BY <1>1, PipeParts, ConcatProperties DEF Bytes
<1>3. rest \in Bytes /\ Pipe(p) = r \o rest
  <2>1. rest \in Bytes
    BY <1>2, ConcatProperties DEF Bytes
  <2>2. (r \o outq[Other(p)]) \o (Pending(p) \o inq[p]) = r \o rest
    BY <1>2, BytesAssociative
  <2>3. QED
    BY <1>1, <2>1, <2>2, PipeParts
<1> HIDE DEF r, rest
<1>4. /\ Len(r) \in Nat /\ Len(rest) \in Nat /\ Len(r \o rest) = Len(r) + Len(rest)
      /\ \A i \in 1..Len(r) : (r \o rest)[i] = r[i]
  BY <1>2, <1>3, ConcatProperties, LenProperties DEF Bytes
<1>5. sent[p] \in Nat
  BY <1>1, BoundsAssumption DEF TypeInv, TypeOK
<1>6. /\ Len([i \in 1..sent[p] |-> i]) = sent[p]
      /\ \A i \in 1..sent[p] : [j \in 1..sent[p] |-> j][i] = i
  BY <1>5
<1>7. Len(r) \leq sent[p] /\ \A i \in 1..Len(r) : r[i] = i
  BY <1>1, <1>3, <1>4, <1>5, <1>6
<1>8. QED
  BY <1>7 DEF Beginning, r

\* What a step does to a client: one that is reset stays so and receives nothing, and
\* nothing that was sent is taken back.
LEMMA ClientStep ==
  ASSUME TypeInv, [Next]_vars, NEW q \in Peer
  PROVE  /\ client[q] = "reset" => client'[q] = "reset"
         /\ client'[q] = "reset" => received'[q] = received[q]
         /\ sent'[q] \in {sent[q], sent[q] + 1}
<1>1. /\ client \in [Peer -> {"up", "gone", "reset"}]
      /\ sent \in [Peer -> 0..MaxBytes] /\ received \in [Peer -> Bytes]
  BY DEF TypeInv, TypeOK
<1>2. ASSUME UNCHANGED clientVars
      PROVE  UNCHANGED <<client, sent, received>>
  BY <1>2 DEF clientVars
<1>3. CASE UNCHANGED vars \/ IoStep
  BY <1>2, <1>3 DEF vars, IoStep, ReadCompletes, ReadFails, WriteSome, ReadAgain, WriteFails
<1>4. ASSUME NEW p \in Peer, Send(p)
      PROVE  sent'[q] \in {sent[q], sent[q] + 1} /\ UNCHANGED <<client, received>>
  BY <1>1, <1>4 DEF Send
<1>5. ASSUME NEW p \in Peer, Receive(p)
      PROVE  UNCHANGED <<client, sent>> /\ (client[q] = "reset" => received'[q] = received[q])
  BY <1>1, <1>5 DEF Receive
<1>6. ASSUME NEW p \in Peer, ClientLeaves(p) \/ ConnectionReset(p)
      PROVE  /\ client[q] = "reset" => client'[q] = "reset"
             /\ UNCHANGED <<sent, received>>
  BY <1>1, <1>6 DEF ClientLeaves, ConnectionReset
<1>7. QED
  BY <1>3, <1>4, <1>5, <1>6 DEF Next

\* The pipe of a client that is not reset stays whole in every step, those that
\* fail and end the bridge included.
LEMMA WholeStep ==
  ASSUME Whole, [Next]_vars
  PROVE  Whole'
<1>1. TypeInv /\ TypeInv'
  BY TypeStep DEF Whole
<1>2. SUFFICES ASSUME NEW p \in Peer, client'[Other(p)] # "reset"
               PROVE  Pipe(p)' = [i \in 1..sent'[p] |-> i]
  <2>1. \A p \in Peer : Other(p)' = Other(p)
    BY DEF Other
  <2>2. QED
    BY <1>1, <1>2, <2>1 DEF Whole
<1>3. client[Other(p)] # "reset"
  BY <1>1, <1>2, ClientStep, Peers
<1>4. Pipe(p) = [i \in 1..sent[p] |-> i]
  BY <1>3 DEF Whole
<1>5. ASSUME NEW q \in Peer, Send(q)
      PROVE  Pipe(p)' = [i \in 1..sent'[p] |-> i]
  BY <1>1, <1>4, <1>5, SendPipe
<1>6. ASSUME NEW q \in Peer, Receive(q) \/ ReadCompletes(q)
      PROVE  Pipe(p)' = Pipe(p) /\ sent' = sent
  BY <1>1, <1>6, ReceivePipe, ReadCompletesPipe DEF Receive, ReadCompletes, clientVars
<1>7. CASE WriteSome
  BY <1>1, <1>4, <1>7, WriteSomePipe DEF WriteSome, clientVars
<1>8. ASSUME UNCHANGED <<received, outq, inq, sent>>, Pending(p)' = Pending(p)
      PROVE  Pipe(p)' = Pipe(p) /\ sent' = sent
  BY <1>8, PipeUntouched
<1>9. ASSUME NEW q \in Peer, ClientLeaves(q) \/ ConnectionReset(q) \/ ReadFails(q)
      PROVE  Pipe(p)' = Pipe(p) /\ sent' = sent
  BY <1>8, <1>9 DEF ClientLeaves, ConnectionReset, ReadFails, Pending, clientVars
<1>10. CASE ReadAgain
  <2>1. Pending(p)' = <<>> /\ Pending(p) = <<>>
    BY <1>10, Peers DEF ReadAgain, Pending, NotWriting
  <2>2. QED
    BY <1>4, <1>8, <1>10, <2>1 DEF ReadAgain, clientVars
<1>11. CASE WriteFails
  <2>1. writing.from # p
    BY <1>3, <1>11 DEF WriteFails
  <2>2. Pending(p) = <<>> /\ Pending(p)' = <<>>
    BY <1>11, <2>1, Peers DEF WriteFails, Pending, NotWriting
  <2>3. QED
    BY <1>4, <1>8, <1>11, <2>2 DEF WriteFails, clientVars
<1>12. CASE UNCHANGED vars
  BY <1>4, <1>8, <1>12 DEF vars, clientVars, Pending
<1>13. QED
  BY <1>4, <1>5, <1>6, <1>7, <1>9, <1>10, <1>11, <1>12 DEF Next, IoStep

\* A client that is reset receives no more, and what has been sent is not taken back.
LEMMA BeginningStep ==
  ASSUME TypeInv, TypeInv', WholeIsBeginning', ReceivedIsBeginning, [Next]_vars
  PROVE  ReceivedIsBeginning'
<1>1. \A p \in Peer : Other(p)' = Other(p) /\ Other(p) \in Peer
  BY Peers DEF Other
<1>2. SUFFICES ASSUME NEW p \in Peer
               PROVE  Beginning(p)'
  BY DEF ReceivedIsBeginning
<1>3. CASE client'[Other(p)] # "reset"
  BY <1>1, <1>3 DEF WholeIsBeginning
<1>4. CASE client'[Other(p)] = "reset"
  <2>1. received'[Other(p)] = received[Other(p)]
    BY <1>1, <1>4, ClientStep
  <2>2. sent[p] \in Nat /\ sent'[p] \in {sent[p], sent[p] + 1}
    <3>1. sent[p] \in Nat
      BY BoundsAssumption DEF TypeInv, TypeOK
    <3>2. QED
      BY <3>1, ClientStep
  <2>3. Len(received[Other(p)]) \in Nat
    BY <1>1, LenProperties DEF TypeInv, Bytes
  <2>4. Beginning(p)
    BY DEF ReceivedIsBeginning
  <2>5. QED
    BY <1>1, <2>1, <2>2, <2>3, <2>4 DEF Beginning
<1>5. QED
  BY <1>3, <1>4

\* Whatever ends a bridge, and in whatever state, neither client ever receives
\* anything but the beginning of what the other has sent (close and the handlers that
\* call it; a write that fails is not repeated, a read that ended is not handled twice).
THEOREM ReceivedIsBeginningHolds == Spec => []ReceivedIsBeginning
<1>1. Init => Whole /\ ReceivedIsBeginning
  <2>1. SUFFICES ASSUME Init PROVE Whole /\ ReceivedIsBeginning
    OBVIOUS
  <2>2. Intact /\ TypeInv
    BY <2>1, IntactInit DEF Intact
  <2>3. server = "running" /\ \A p \in Peer : sock[p] = "open"
    BY <2>1 DEF Init
  <2>4. Whole
    BY <2>2, <2>3 DEF Whole, Intact, NothingLostOrReordered, Pipe
  <2>5. \A p \in Peer : client[Other(p)] # "reset"
    BY <2>1, Peers DEF Init
  <2>6. QED
    BY <2>4, <2>5, WholeBegins DEF WholeIsBeginning, ReceivedIsBeginning
<1>2. Whole => TypeInv /\ WholeIsBeginning
  BY WholeBegins DEF Whole
<1>3. Whole /\ [Next]_vars => Whole'
  BY WholeStep
<1>4. TypeInv /\ TypeInv' /\ WholeIsBeginning' /\ ReceivedIsBeginning /\ [Next]_vars =>
        ReceivedIsBeginning'
  BY BeginningStep
<1>5. QED
  BY <1>1, <1>2, <1>3, <1>4, PTL DEF Spec
-----------------------------------------------------------------------------
(***************************************************************************)
(* To its clients a bridge is two channels.                                *)
(***************************************************************************)

\* The numbers up to n begin those up to n + 1.
LEMMA MoreGiven ==
  ASSUME NEW n \in Nat
  PROVE  LET s == [i \in 1..n |-> i]
             t == [i \in 1..(n + 1) |-> i]
         IN  /\ Len(s) \leq Len(t) /\ SubSeq(s, 1, Len(s)) = SubSeq(t, 1, Len(s))
             /\ s # t
<1> DEFINE s == [i \in 1..n |-> i]
           t == [i \in 1..(n + 1) |-> i]
<1>1. s \in Seq(Nat) /\ t \in Seq(Nat) /\ Len(s) = n /\ Len(t) = n + 1
  OBVIOUS
<1>2. \A i \in 1..n : t[i] = s[i] /\ t[i] \in Nat
  OBVIOUS
<1> HIDE DEF s, t
<1>3. SubSeq(s, 1, n) = s
  BY <1>1, SubSeqFull
<1>4. /\ SubSeq(t, 1, n) \in Seq(Nat) /\ Len(SubSeq(t, 1, n)) = n
      /\ \A i \in 1..n : SubSeq(t, 1, n)[i] = t[i]
  BY <1>1, <1>2, SubSeqProperties
<1>5. SubSeq(t, 1, n) = s
  BY <1>1, <1>2, <1>4, SeqEqual
<1>6. s # t
  BY <1>1
<1>7. QED
  BY <1>1, <1>3, <1>5, <1>6 DEF s, t

\* What a step does to one direction: a client sends the next number, or the other
\* receives the next of those sent, or neither.
LEMMA DirectionStep ==
  ASSUME TypeInv, TypeInv', ReceivedIsBeginning, ReceivedIsBeginning', [Next]_vars,
         NEW p \in Peer
  PROVE  \/ sent'[p] = sent[p] + 1 /\ received'[Other(p)] = received[Other(p)]
         \/ /\ sent'[p] = sent[p] /\ Len(received[Other(p)]) < sent[p]
            /\ received'[Other(p)]
                 = Append(received[Other(p)], Len(received[Other(p)]) + 1)
         \/ sent'[p] = sent[p] /\ received'[Other(p)] = received[Other(p)]
<1> DEFINE q == Other(p)
<1>1. /\ q \in Peer /\ sent[p] \in Nat
      /\ sent \in [Peer -> 0..MaxBytes] /\ received \in [Peer -> Bytes]
  <2>1. q \in Peer
    BY Peers
  <2>2. sent[p] \in Nat
    BY BoundsAssumption DEF TypeInv, TypeOK
  <2>3. sent \in [Peer -> 0..MaxBytes] /\ received \in [Peer -> Bytes]
    BY DEF TypeInv, TypeOK
  <2>4. QED
    BY <2>1, <2>2, <2>3
<1>2. CASE UNCHANGED vars \/ IoStep
  BY <1>2 DEF vars, clientVars, IoStep, ReadCompletes, ReadFails, WriteSome, ReadAgain,
              WriteFails
<1>3. ASSUME NEW r \in Peer, Send(r)
      PROVE  sent'[p] \in {sent[p], sent[p] + 1} /\ received'[q] = received[q]
  BY <1>1, <1>3 DEF Send
<1>4. ASSUME NEW r \in Peer, ClientLeaves(r) \/ ConnectionReset(r)
      PROVE  UNCHANGED <<sent, received>>
  BY <1>4 DEF ClientLeaves, ConnectionReset
<1>5. ASSUME NEW r \in Peer, Receive(r), r # q
      PROVE  sent' = sent /\ received'[q] = received[q]
  BY <1>1, <1>5 DEF Receive
<1>6. CASE Receive(q)
  <2> DEFINE n == Len(received[q])
             e == Head(outq[q])
  <2>1. sent' = sent /\ received'[q] = Append(received[q], e)
    BY <1>1, <1>6 DEF Receive
  <2>2. received[q] \in Seq(1..MaxBytes) /\ n \in Nat /\ e \in 1..MaxBytes
    <3>1. outq[q] \in Seq(1..MaxBytes) /\ outq[q] # <<>>
      BY <1>1, <1>6 DEF Receive, TypeInv, Bytes
    <3>2. received[q] \in Seq(1..MaxBytes)
      BY <1>1 DEF Bytes
    <3>3. QED
      BY <3>1, <3>2, HeadTailProperties, LenProperties
  <2> HIDE DEF e
  <2>3. Len(received'[q]) = n + 1 /\ received'[q][n + 1] = e
    BY <2>1, <2>2, AppendProperties
  <2>4. Beginning(p)'
    BY DEF ReceivedIsBeginning
  <2>5. n + 1 \leq sent[p] /\ e = n + 1
    <3>1. Other(p)' = q
      BY DEF Other
    <3>2. Len(received'[q]) \leq sent'[p] /\ \A i \in 1..Len(received'[q]) : received'[q][i] = i
      BY <2>4, <3>1 DEF Beginning
    <3>3. QED
      BY <1>1, <2>1, <2>2, <2>3, <3>2
  <2>6. QED
    BY <1>1, <2>1, <2>2, <2>5
<1>7. QED
  BY <1>2, <1>3, <1>4, <1>5, <1>6 DEF Next

\* Every step of a bridge is one of the channel from client 1 to client 2, or leaves
\* that alone.
LEMMA FromOneStep ==
  ASSUME TypeInv, TypeInv', ReceivedIsBeginning, ReceivedIsBeginning', [Next]_vars
  PROVE  [FromOne!CNext]_FromOne!cvars
<1> DEFINE s == sent[1]
           r == received[2]
<1>1. 1 \in Peer /\ Other(1) = 2 /\ 2 \in Peer
  BY DEF Peer, Other
<1>2. s \in Nat /\ s \leq MaxBytes /\ Len(r) \in Nat /\ (Len(r) = 0 <=> r = <<>>)
  BY <1>1, BoundsAssumption, LenProperties, EmptySeq DEF TypeInv, TypeOK, Bytes
<1>3. CASE sent'[1] = s + 1 /\ received'[2] = r
  <2>1. FromOne!IsStrictPrefix([i \in 1..s |-> i], [i \in 1..sent'[1] |-> i])
    BY <1>2, <1>3, MoreGiven DEF FromOne!IsStrictPrefix, FromOne!IsPrefix
  <2>2. FromOne!Give
    BY <1>3, <2>1 DEF FromOne!Give
  <2>3. QED
    BY <2>2 DEF FromOne!CNext
<1>4. CASE /\ sent'[1] = s /\ Len(r) < s
           /\ received'[2] = Append(r, Len(r) + 1)
  <2>1. FromOne!MessageWaits
    BY <1>2, <1>4 DEF FromOne!MessageWaits
  <2>2. FromOne!NextMessage = Len(r) + 1
    BY <1>2, <1>4 DEF FromOne!NextMessage
  <2>3. FromOne!Room = 1..MaxBytes /\ Len(r) + 1 \in 1..MaxBytes
    BY <1>2, <1>4, BoundsAssumption DEF FromOne!Room
  <2>4. FromOne!Take
    BY <1>4, <2>1, <2>2, <2>3 DEF FromOne!Take
  <2>5. QED
    BY <2>4 DEF FromOne!CNext
<1>5. CASE sent'[1] = s /\ received'[2] = r
  BY <1>5 DEF FromOne!cvars
<1>6. QED
  BY <1>1, <1>3, <1>4, <1>5, DirectionStep

\* Every step of a bridge is one of the channel from client 2 to client 1, or leaves
\* that alone.
LEMMA FromTwoStep ==
  ASSUME TypeInv, TypeInv', ReceivedIsBeginning, ReceivedIsBeginning', [Next]_vars
  PROVE  [FromTwo!CNext]_FromTwo!cvars
<1> DEFINE s == sent[2]
           r == received[1]
<1>1. 2 \in Peer /\ Other(2) = 1 /\ 1 \in Peer
  BY DEF Peer, Other
<1>2. s \in Nat /\ s \leq MaxBytes /\ Len(r) \in Nat /\ (Len(r) = 0 <=> r = <<>>)
  BY <1>1, BoundsAssumption, LenProperties, EmptySeq DEF TypeInv, TypeOK, Bytes
<1>3. CASE sent'[2] = s + 1 /\ received'[1] = r
  <2>1. FromTwo!IsStrictPrefix([i \in 1..s |-> i], [i \in 1..sent'[2] |-> i])
    BY <1>2, <1>3, MoreGiven DEF FromTwo!IsStrictPrefix, FromTwo!IsPrefix
  <2>2. FromTwo!Give
    BY <1>3, <2>1 DEF FromTwo!Give
  <2>3. QED
    BY <2>2 DEF FromTwo!CNext
<1>4. CASE /\ sent'[2] = s /\ Len(r) < s
           /\ received'[1] = Append(r, Len(r) + 1)
  <2>1. FromTwo!MessageWaits
    BY <1>2, <1>4 DEF FromTwo!MessageWaits
  <2>2. FromTwo!NextMessage = Len(r) + 1
    BY <1>2, <1>4 DEF FromTwo!NextMessage
  <2>3. FromTwo!Room = 1..MaxBytes /\ Len(r) + 1 \in 1..MaxBytes
    BY <1>2, <1>4, BoundsAssumption DEF FromTwo!Room
  <2>4. FromTwo!Take
    BY <1>4, <2>1, <2>2, <2>3 DEF FromTwo!Take
  <2>5. QED
    BY <2>4 DEF FromTwo!CNext
<1>5. CASE sent'[2] = s /\ received'[1] = r
  BY <1>5 DEF FromTwo!cvars
<1>6. QED
  BY <1>1, <1>3, <1>4, <1>5, DirectionStep

\* A bridge implements a channel in each direction, for any supply, window and
\* buffers and whatever ends it: each client takes what the other has given, one by
\* one and in order (the four handlers and close).
THEOREM ImplementsChannelsHolds == Spec => ImplementsChannels
<1>1. Init => FromOne!CInit /\ FromTwo!CInit
  <2>1. SUFFICES ASSUME Init PROVE FromOne!CInit /\ FromTwo!CInit
    OBVIOUS
  <2>2. sent[1] = 0 /\ sent[2] = 0 /\ received[1] = <<>> /\ received[2] = <<>>
    BY <2>1 DEF Init, Peer
  <2>3. [i \in 1..0 |-> i] = <<>>
    OBVIOUS
  <2>4. QED
    BY <2>2, <2>3 DEF FromOne!CInit, FromTwo!CInit
<1>2. TypeInv /\ TypeInv' /\ ReceivedIsBeginning /\ ReceivedIsBeginning' /\ [Next]_vars =>
        [FromOne!CNext]_FromOne!cvars /\ [FromTwo!CNext]_FromTwo!cvars
  BY FromOneStep, FromTwoStep
<1>3. TypeInv /\ [Next]_vars => TypeInv'
  BY TypeStep
<1>4. Spec => []TypeInv
  BY <1>3, TypeInit, PTL DEF Spec
<1>5. Spec => []ReceivedIsBeginning
  BY ReceivedIsBeginningHolds
<1>6. QED
  BY <1>1, <1>2, <1>4, <1>5, PTL
     DEF Spec, ImplementsChannels, FromOne!CSpec, FromTwo!CSpec
-----------------------------------------------------------------------------
(***************************************************************************)
(* The stream: its ends are clients of a bridge.                           *)
(***************************************************************************)

\* Every step of the two applications, or of foreign clients, is one of a bridge's
\* clients or leaves the bridge alone.
LEMMA StreamStep ==
  ASSUME [SNext]_streamVars
  PROVE  [Next]_vars
<1>1. 1 \in Peer /\ 2 \in Peer
  BY DEF Peer
<1>2. CASE UNCHANGED streamVars
  BY <1>2 DEF streamVars
<1>3. CASE ViewerStep \/ ViewerCreateFails \/ ViewerQuits
  BY <1>1, <1>3
     DEF ViewerStep, ViewerCreates, ViewerReceives, PollsInput, ViewerSends, PollEnds,
         ViewerFails, ViewerCreateFails, ViewerQuits, viewer_end, Next
<1>4. CASE FrameStep \/ StreamerReads \/ StreamerCreateFails \/ StreamerEnds
  BY <1>1, <1>4
     DEF FrameStep, StreamerCreates, Encodes, EncodeRefused, FrameSent, FrameFails,
         StreamerReads, StreamerCreateFails, StreamerEnds, streamer_end, Next
<1>5. ASSUME NEW p \in Peer, Foreign(p) \/ Apart(ConnectionReset(p))
      PROVE  Next
  BY <1>5 DEF Foreign, Apart, Next
<1>6. CASE Apart(IoStep)
  BY <1>6 DEF Apart, Next
<1>7. QED
  BY <1>2, <1>3, <1>4, <1>5, <1>6 DEF SNext

\* The applications do to their bridge nothing that free clients do not (runLoop,
\* scheduleAsyncPollIOEvents, scheduleAsyncSendScreenshots).
THEOREM StreamImplementsBridge == SSpec => Spec
<1>1. SInit => Init
  BY DEF SInit
<1>2. [SNext]_streamVars => [Next]_vars
  BY StreamStep
<1>3. QED
  BY <1>1, <1>2, PTL DEF SSpec, Spec

\* Frames and inputs arrive complete and in order.
THEOREM StreamIntact == SSpec => []NothingLostOrReordered
BY StreamImplementsBridge, RelayIntact, PTL
-----------------------------------------------------------------------------
(***************************************************************************)
(* Waiting.  The io thread waits in a write for the client that reads it,  *)
(* the viewer in a send for the io thread, the streamer for neither.       *)
(***************************************************************************)

\* While both clients are there the bridge is open, and each stream is being read
\* or what was read from it is being written.
Serving ==
  ~Left => /\ server = "running"
           /\ \A p \in Peer : sock[p] = "open" /\ (reading[p] \/ writing.from = p)

\* Where the applications are, and that a message they are about to send is one of
\* their supply.
InCalls ==
  /\ viewer \in {"create", "receive", "poll", "send", "ended"}
  /\ shot \in {"create", "taken", "write", "off"}
  /\ program = "applications" /\ ~Left =>
       /\ viewer # "ended"
       /\ viewer = "send" => sent[viewer_end] < MaxInputs
       /\ shot = "write" => sent[streamer_end] < MaxBytes

\* The guards of what the io thread and the applications do by themselves while
\* both are there, without EncodeRefused.
CanGo ==
  \/ viewer \in {"create", "poll"} \/ shot = "create"
  \/ viewer = "receive" /\ outq[viewer_end] # <<>>
  \/ viewer = "send" /\ sent[viewer_end] < MaxBytes /\ Len(inq[viewer_end]) < Window
  \/ shot = "taken" /\ sent[streamer_end] < MaxBytes
  \/ shot = "write" /\ sent[streamer_end] < MaxBytes /\ Len(inq[streamer_end]) < Window
  \/ shot # "create" /\ outq[streamer_end] # <<>>
  \/ writing = NotWriting /\ \E p \in Peer : reading[p] /\ inq[p] # <<>>
  \/ writing.bytes # <<>> /\ Len(outq[Other(writing.from)]) < Window
  \/ writing.from # 0 /\ writing.bytes = <<>>

\* All that was sent has been received, and the streamer has no frame to send.
AllDelivered ==
  /\ \A p \in Peer : Len(received[Other(p)]) = sent[p]
  /\ sent[streamer_end] = MaxBytes \/ shot = "off"

\* While both applications are there somebody can go on, or all is delivered, or
\* the viewer and the io thread wait for each other.
RestsOnlyInEmbrace ==
  program = "applications" /\ ~Left => CanGo \/ AllDelivered \/ Embrace

\* A bridge that starts serves both clients.
LEMMA ServingInit == Init => Serving
BY DEF Init, Serving

\* Only a client that leaves ends it; a read that has been handled is followed by
\* a write and the write by a read.
LEMMA ServingStep ==
  ASSUME TypeInv, Serving, [Next]_vars
  PROVE  Serving'
<1>1. client \in [Peer -> {"up", "gone", "reset"}] /\ reading \in [Peer -> BOOLEAN]
  BY DEF TypeInv, TypeOK
<1>2. ASSUME UNCHANGED <<client, server, sock, reading, writing>> PROVE Serving'
  BY <1>2 DEF Serving, Left
<1>3. ASSUME NEW p \in Peer, Send(p) \/ Receive(p) PROVE Serving'
  BY <1>2, <1>3 DEF Send, Receive
<1>4. ASSUME NEW p \in Peer, ClientLeaves(p) \/ ConnectionReset(p) PROVE Serving'
  <2>1. client'[p] # "up"
    BY <1>1, <1>4 DEF ClientLeaves, ConnectionReset
  <2>2. QED
    BY <2>1 DEF Serving, Left
<1>5. ASSUME NEW p \in Peer, ReadFails(p) PROVE Serving'
  <2>1. Left /\ UNCHANGED client
    BY <1>5 DEF ReadFails, clientVars, Serving, Left
  <2>2. QED
    BY <2>1 DEF Serving, Left
<1>6. ASSUME NEW p \in Peer, ReadCompletes(p) PROVE Serving'
  <2>1. UNCHANGED <<client, server, sock>> /\ writing.from = 0
    BY <1>6 DEF ReadCompletes, clientVars, IoIdle, NotWriting
  <2>2. writing'.from = p /\ reading' = [reading EXCEPT ![p] = FALSE]
    BY <1>6, ReadCompletesType DEF ReadCompletes
  <2>3. \A q \in Peer : reading[q] => reading'[q] \/ writing'.from = q
    BY <1>1, <2>2
  <2>4. QED
    BY <2>1, <2>3, Peers DEF Serving, Left
<1>7. CASE WriteSome
  <2>1. UNCHANGED <<client, server, sock, reading>> /\ writing'.from = writing.from
    BY <1>7, WriteSomeType DEF WriteSome, clientVars
  <2>2. QED
    BY <2>1 DEF Serving, Left
<1>8. CASE ReadAgain
  <2>1. UNCHANGED <<client, server, sock>>
    BY <1>8 DEF ReadAgain, clientVars
  <2>2. reading' = [reading EXCEPT ![writing.from] = TRUE]
    BY <1>8 DEF ReadAgain
  <2>3. \A q \in Peer : reading[q] \/ writing.from = q => reading'[q]
    BY <1>1, <2>2
  <2>4. QED
    BY <2>1, <2>3 DEF Serving, Left
<1>9. CASE WriteFails
  <2>1. writing.from \in Peer
    BY <1>9 DEF WriteFails, TypeInv
  <2>2. Left /\ UNCHANGED client
    BY <1>9, <2>1, Peers DEF WriteFails, clientVars, Left
  <2>3. QED
    BY <2>2 DEF Serving, Left
<1>10. CASE UNCHANGED vars
  BY <1>2, <1>10 DEF vars, clientVars
<1>11. QED
  BY <1>3, <1>4, <1>5, <1>6, <1>7, <1>8, <1>9, <1>10 DEF Next, IoStep

\* The applications begin by making what they show and encode with.
LEMMA CallsInit == SInit => InCalls
BY DEF SInit, InCalls

\* They are about to send only what they have polled or encoded, and end only by
\* leaving.
LEMMA CallsStep ==
  ASSUME TypeInv, InCalls, [SNext]_streamVars
  PROVE  InCalls'
<1> USE DEF viewer_end, streamer_end
<1>1. /\ 1 \in Peer /\ 2 \in Peer /\ client \in [Peer -> {"up", "gone", "reset"}]
      /\ sent \in [Peer -> 0..MaxBytes]
  BY DEF Peer, TypeInv, TypeOK
<1>2. ASSUME UNCHANGED <<client, sent, program, viewer, shot>> PROVE InCalls'
  BY <1>2 DEF InCalls, Left
<1>3. ASSUME NEW p \in Peer, client' = [client EXCEPT ![p] = "gone"],
             viewer' \in {viewer, "ended"}, shot' \in {shot, "off"}
      PROVE  InCalls'
  <2>1. Left'
    BY <1>1, <1>3 DEF Left
  <2>2. QED
    BY <1>3, <2>1 DEF InCalls
<1>4. ASSUME UNCHANGED <<client, sent, program, shot>>,
             viewer' \in {"receive", "poll", "send"},
             viewer' = "send" => sent[2] < MaxInputs
      PROVE  InCalls'
  BY <1>4 DEF InCalls, Left
<1>5. ASSUME UNCHANGED <<client, sent, program, viewer>>,
             shot' \in {"taken", "write", "off"},
             shot' = "write" => sent[1] < MaxBytes
      PROVE  InCalls'
  BY <1>5 DEF InCalls, Left
<1>6. CASE ViewerCreates \/ ViewerReceives \/ PollsInput \/ PollEnds
  <2>1. /\ UNCHANGED <<client, sent, program, shot>>
        /\ viewer' \in {"receive", "poll", "send"}
        /\ viewer' = "send" => sent[2] < MaxInputs
    BY <1>6 DEF ViewerCreates, ViewerReceives, PollsInput, PollEnds, ViewerGoes,
                Receive, vars, clientVars
  <2>2. QED
    BY <1>4, <2>1
<1>7. CASE ViewerSends
  <2>1. /\ UNCHANGED <<client, program, shot>> /\ viewer' = "poll"
        /\ sent'[1] = sent[1]
    BY <1>1, <1>7 DEF ViewerSends, ViewerGoes, Send
  <2>2. QED
    BY <2>1 DEF InCalls, Left
<1>8. CASE ViewerCreateFails \/ ViewerFails \/ ViewerQuits
  <2>1. /\ client' = [client EXCEPT ![2] = "gone"]
        /\ viewer' = "ended" /\ shot' = shot
    BY <1>8 DEF ViewerCreateFails, ViewerFails, ViewerQuits, ViewerGoes, ClientLeaves
  <2>2. QED
    BY <1>1, <1>3, <2>1
<1>9. CASE StreamerCreates \/ Encodes \/ EncodeRefused \/ FrameFails
  <2>1. /\ UNCHANGED <<client, sent, program, viewer>>
        /\ shot' \in {"taken", "write", "off"}
        /\ shot' = "write" => sent[1] < MaxBytes
    BY <1>9 DEF StreamerCreates, Encodes, EncodeRefused, FrameFails, ShotGoes,
                vars, clientVars
  <2>2. QED
    BY <1>5, <2>1
<1>10. CASE FrameSent
  <2>1. /\ UNCHANGED <<client, program, viewer>> /\ shot' = "taken"
        /\ sent'[2] = sent[2]
    BY <1>1, <1>10 DEF FrameSent, ShotGoes, Send
  <2>2. QED
    BY <2>1 DEF InCalls, Left
<1>11. CASE StreamerCreateFails \/ StreamerEnds
  <2>1. /\ client' = [client EXCEPT ![1] = "gone"]
        /\ shot' = "off" /\ viewer' = viewer
    BY <1>11 DEF StreamerCreateFails, StreamerEnds, ShotGoes, ClientLeaves
  <2>2. QED
    BY <1>1, <1>3, <2>1
<1>12. CASE StreamerReads
  BY <1>2, <1>12 DEF StreamerReads, Receive
<1>13. ASSUME NEW p \in Peer, Foreign(p) PROVE InCalls'
  BY <1>13 DEF Foreign, InCalls
<1>14. ASSUME NEW p \in Peer, Apart(ConnectionReset(p)) PROVE InCalls'
  <2>1. client[p] # "up" /\ client'[p] # "up"
    BY <1>1, <1>14 DEF Apart, ConnectionReset
  <2>2. QED
    BY <1>14, <2>1 DEF Apart, InCalls, Left
<1>15. CASE Apart(IoStep)
  BY <1>2, <1>15 DEF Apart, IoStep, ReadCompletes, ReadFails, WriteSome, ReadAgain,
                     WriteFails, clientVars
<1>16. CASE UNCHANGED streamVars
  BY <1>2, <1>16 DEF streamVars, vars, clientVars
<1>17. QED
  BY <1>6, <1>7, <1>8, <1>9, <1>10, <1>11, <1>12, <1>13, <1>14, <1>15, <1>16
     DEF SNext, ViewerStep, FrameStep

\* A pipe of which nothing is under way holds what has been received.
LEMMA EmptyPipe ==
  ASSUME TypeInv, NEW p \in Peer, Pipe(p) = [i \in 1..sent[p] |-> i],
         outq[Other(p)] = <<>>, Pending(p) = <<>>, inq[p] = <<>>
  PROVE  Len(received[Other(p)]) = sent[p]
<1>1. received[Other(p)] \in Seq(1..MaxBytes)
  BY Peers DEF TypeInv, Bytes
<1>2. received[Other(p)] \o <<>> \o <<>> \o <<>> = received[Other(p)]
  BY <1>1, ConcatEmptySeq
<1>3. received[Other(p)] = [i \in 1..sent[p] |-> i]
  BY <1>2 DEF Pipe
<1>4. sent[p] \in Nat
  BY BoundsAssumption DEF TypeInv, TypeOK
<1>5. QED
  BY <1>3, <1>4

\* Nobody waits in a circle except in the embrace: the io thread waits only for the
\* viewer, because the streamer reads whatever else it does (StreamerReads), and the
\* viewer only for the io thread, in a send.
LEMMA Resting ==
  ASSUME Intact, Serving, InCalls, program = "applications", ~Left, ~CanGo
  PROVE  AllDelivered \/ Embrace
<1> USE DEF viewer_end, streamer_end
<1>1. /\ Peer = {1, 2} /\ Other(1) = 2 /\ Other(2) = 1
      /\ TypeInv /\ server = "running"
      /\ \A p \in Peer : sock[p] = "open" /\ (reading[p] \/ writing.from = p)
  BY DEF Peer, Other, Intact, Serving
<1>2. /\ viewer \in {"receive", "send"} /\ shot \in {"taken", "write", "off"}
      /\ viewer = "send" => sent[2] < MaxBytes
      /\ shot = "write" => sent[1] < MaxBytes
  <2>1. MaxInputs \in Nat /\ MaxInputs \leq MaxBytes /\ MaxBytes \in Nat
    BY InputsAssumption, BoundsAssumption
  <2>2. sent[2] \in Nat
    BY <1>1, BoundsAssumption DEF TypeInv, TypeOK
  <2>3. QED
    BY <2>1, <2>2 DEF InCalls, CanGo
<1>3. /\ outq[1] = <<>>
      /\ viewer = "receive" => outq[2] = <<>>
      /\ viewer = "send" => ~(Len(inq[2]) < Window)
      /\ shot = "write" => ~(Len(inq[1]) < Window)
      /\ shot = "taken" => ~(sent[1] < MaxBytes)
  BY <1>2 DEF CanGo
<1>4. /\ \A p \in Peer : Len(inq[p]) \in Nat /\ Len(outq[p]) \in Nat
      /\ \A p \in Peer : Len(inq[p]) \leq Window /\ Len(outq[p]) \leq Window
      /\ \A p \in Peer : sent[p] \in 0..MaxBytes
      /\ Window \in Nat \ {0} /\ MaxBytes \in Nat
  BY <1>1, BoundsAssumption, LenProperties DEF TypeInv, TypeOK, Bytes
<1>5. Len(<<>>) = 0
  BY EmptySeq
<1>6. CASE writing.from # 0
  <2>1. writing.bytes # <<>> /\ ~(Len(outq[Other(writing.from)]) < Window)
    BY <1>6 DEF CanGo
  <2>2. writing.from \in Peer
    BY <1>1, <2>1 DEF TypeInv
  <2>3. writing.from = 1 /\ Len(outq[2]) = Window
    BY <1>1, <1>3, <1>4, <1>5, <2>1, <2>2
  <2>4. viewer = "send" /\ Len(inq[2]) = Window
    BY <1>1, <1>2, <1>3, <1>4, <1>5, <2>3
  <2>5. QED
    BY <2>1, <2>3, <2>4 DEF Embrace
<1>7. CASE writing.from = 0
  <2>1. writing.bytes = <<>>
    BY <1>1, <1>7, Peers DEF TypeInv
  <2>2. writing = NotWriting
    BY <1>1, <1>7, <2>1 DEF TypeInv, NotWriting
  <2>3. \A p \in Peer : inq[p] = <<>> /\ Pending(p) = <<>>
    BY <1>1, <1>7, <2>2, Peers DEF CanGo, Pending
  <2>4. viewer = "receive" /\ shot # "write" /\ outq[2] = <<>>
    BY <1>1, <1>2, <1>3, <1>4, <1>5, <2>3
  <2>5. sent[1] = MaxBytes \/ shot = "off"
    BY <1>1, <1>2, <1>3, <1>4, <2>4
  <2>6. ASSUME NEW p \in Peer PROVE Len(received[Other(p)]) = sent[p]
    <3>1. Pipe(p) = [i \in 1..sent[p] |-> i]
      BY <1>1 DEF Intact, NothingLostOrReordered, Pipe
    <3>2. outq[Other(p)] = <<>>
      BY <1>1, <1>3, <2>4
    <3>3. QED
      BY <1>1, <2>3, <3>1, <3>2, EmptyPipe
  <2>7. QED
    BY <2>5, <2>6 DEF AllDelivered
<1>8. QED
  BY <1>6, <1>7

\* A stream comes to rest in one way only with something left to do, for any supply,
\* window and buffers: the viewer blocked in a send and the io thread in a write to
\* the viewer, with both connections full (runLoop, handle_upstream_read,
\* handle_downstream_write, scheduleAsyncPollIOEvents).
THEOREM RestsOnlyInEmbraceHolds == SSpec => []RestsOnlyInEmbrace
<1>1. SInit => Intact /\ Serving /\ InCalls
  BY IntactInit, ServingInit, CallsInit DEF SInit
<1>2. Intact /\ Serving /\ InCalls /\ [SNext]_streamVars =>
        Intact' /\ Serving' /\ InCalls'
  BY StreamStep, IntactStep, ServingStep, CallsStep DEF Intact
<1>3. Intact /\ Serving /\ InCalls => RestsOnlyInEmbrace
  BY Resting DEF RestsOnlyInEmbrace
<1>4. QED
  BY <1>1, <1>2, <1>3, PTL DEF SSpec

\* While both clients are there nothing ends a bridge, whoever they are: its streams
\* are open, the server runs, and each stream is read again after what was read has
\* been written (Bridge::start and the four handlers).
THEOREM ServingHolds == Spec => []Serving
<1>1. TypeInv /\ Serving /\ [Next]_vars => TypeInv' /\ Serving'
  BY TypeStep, ServingStep
<1>2. QED
  BY <1>1, TypeInit, ServingInit, PTL DEF Spec
=============================================================================
