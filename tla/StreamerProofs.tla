---------------------------- MODULE StreamerProofs ----------------------------
(***************************************************************************)
(* Theorems about Streamer, for any number of messages: the inputs reach   *)
(* the controller once and in order, the queue is drained before run       *)
(* returns, the display and the stream have one user at a time, neither    *)
(* the mutex nor a join blocks the threads, and no handler outlives the    *)
(* streamer unless a header was refused.                                   *)
(***************************************************************************)
EXTENDS Streamer, SequenceTheorems, TLAPS

Item == [id : Nat, kind : Kind]

Place == {"poll", "test_1", "test_2", "io_lock", "io_handle", "returned", "join",
          "released", "check", "run", "restart", "done"} \cup ShotSteps

\* The kinds of sequences the queues are, and of function pc is.
Shapes ==
  /\ wire \in Seq(Item)
  /\ messages \in Seq(Item)
  /\ handled \in Seq(Nat)
  /\ pc \in [Thread -> Place]
  /\ inputs \in Nat
  /\ pushed \in [all : Nat, open : Nat]

\* Where each message is: handled, queued, in the buffer or on the wire, in this
\* order; what is on the wire no longer matters once nobody reads.
Order ==
  /\ pushed.open \leq pushed.all
  /\ pushed.all = Len(handled) + Len(messages)
  /\ \A i \in 1..Len(handled) : handled[i] = i
  /\ \A i \in 1..Len(messages) : messages[i].id = Len(handled) + i
  /\ pc.main = "poll" => read = "none"
  /\ pc.main = "poll" \/ read = "pending" =>
       /\ inputs = pushed.all + Len(wire)
       /\ \A i \in 1..Len(wire) : wire[i].id = pushed.all + i
  /\ read = "ready" =>
       /\ arrived.id = pushed.all + 1
       /\ inputs = pushed.all + 1 + Len(wire)
       /\ \A i \in 1..Len(wire) : wire[i].id = pushed.all + 1 + i

\* Whoever uses the display holds the mutex, and only one thread has reason to
\* take a screenshot: main before the first write, context after each one.
Exclusion ==
  /\ pc.main \in {"shot_capture", "io_handle"} => io_controller_mutex = "main"
  /\ pc.context = "shot_capture" => io_controller_mutex = "context"
  /\ pc.main \in {"poll"} \cup ShotSteps => pc.context \notin ShotSteps /\ write = "none"
  /\ pc.context \in ShotSteps => write = "none"

\* run has seen the socket closed before it looks at the queue for the last time.
Closing ==
  /\ pc.main \in {"test_2", "returned", "join", "released"} => socket = "closed"
  /\ QueueDrained

-----------------------------------------------------------------------------
(***************************************************************************)
(* The places of the two threads.                                          *)
(***************************************************************************)

\* A thread that goes from one place to another leaves the other thread alone.
LEMMA GotoFacts ==
  ASSUME Shapes, NEW t \in Thread, NEW from, NEW to \in Place, Goto(t, from, to)
  PROVE  /\ pc' \in [Thread -> Place]
         /\ pc[t] = from /\ pc'[t] = to
         /\ \A u \in Thread : u # t => pc'[u] = pc[u]
BY DEF Shapes, Goto

\* What each step of the main thread does to the places.
LEMMA MainPlaces ==
  ASSUME Shapes, MainStep \/ IoLock \/ ReleaseStreamer \/ Shot("main")
  PROVE  /\ pc' \in [Thread -> Place]
         /\ pc'.context = pc.context
         /\ pc'.main # "poll"
<1>1. "main" \in Thread /\ "context" \in Thread /\ "main" # "context"
  BY DEF Thread
<1>2. \E from, to : Goto("main", from, to) /\ to \in Place \ {"poll"}
  BY DEF MainStep, scheduleAsyncPollIOEvents, LoopTest, HandleInput, HandledAll,
         JoinContextThread, IoLock, ReleaseStreamer, Shot, ShotLock, ShotCapture,
         ShotEncode, AfterShot, Place, ShotSteps
<1>3. QED
  BY <1>1, <1>2, GotoFacts

\* And each step of the context thread.
LEMMA ContextPlaces ==
  ASSUME Shapes, ContextStep \/ WriteHandled \/ HandlerTooLate \/ Shot("context")
  PROVE  /\ pc' \in [Thread -> Place]
         /\ pc'.main = pc.main
<1>1. "main" \in Thread /\ "context" \in Thread /\ "main" # "context"
  BY DEF Thread
<1>2. CASE HandlerTooLate
  BY <1>1, <1>2 DEF HandlerTooLate, Shapes, Place
<1>3. CASE ContextStep \/ WriteHandled \/ Shot("context")
  <2>1. \E from, to : Goto("context", from, to) /\ to \in Place
    BY <1>3 DEF ContextStep, CheckStop, RunReturns, Restart, WriteHandled, Shot,
                ShotLock, ShotCapture, ShotEncode, AfterShot, Place, ShotSteps
  <2>2. QED
    BY <1>1, <2>1, GotoFacts
<1>4. QED
  BY <1>2, <1>3

\* Every step is one of the peer, of one of the two threads, of an operation of
\* the io_context, or of the thread that disconnects; only the first three kinds
\* touch the queues or the places.
LEMMA ShapesStep ==
  ASSUME Shapes, TypeOK, [Next]_vars
  PROVE  Shapes'
<1> USE DEF netVars, socketVars, queueVars, threadVars
<1>1. ASSUME NEW kind \in Kind, PeerSends(kind) PROVE Shapes'
  <2>1. [id |-> inputs + 1, kind |-> kind] \in Item
    BY DEF Item, Shapes
  <2>2. wire' \in Seq(Item) /\ inputs' \in Nat
    BY <1>1, <2>1 DEF PeerSends, Shapes
  <2>3. UNCHANGED <<messages, handled, pc, pushed>>
    BY <1>1 DEF PeerSends
  <2>4. QED
    BY <2>2, <2>3 DEF Shapes
<1>2. CASE HandleInput
  <2>1. messages' \in Seq(Item) /\ handled' \in Seq(Nat)
    <3>1. Head(messages) \in Item /\ Tail(messages) \in Seq(Item)
      BY <1>2 DEF HandleInput, Shapes
    <3>2. Head(messages).id \in Nat
      BY <3>1 DEF Item
    <3>3. QED
      BY <1>2, <3>1, <3>2 DEF HandleInput, Shapes
  <2>2. pc' \in [Thread -> Place] /\ UNCHANGED <<wire, inputs, pushed>>
    BY <1>2, MainPlaces DEF HandleInput, MainStep
  <2>3. QED
    BY <2>1, <2>2 DEF Shapes
<1>3. CASE ReadArrives
  <2>1. wire' \in Seq(Item)
    BY <1>3 DEF ReadArrives, Shapes
  <2>2. QED
    BY <1>3, <2>1 DEF ReadArrives, Shapes
<1>4. CASE PushMessage
  <2>1. arrived \in [id : 1..inputs, kind : Kind]
    BY <1>4 DEF PushMessage, TypeOK
  <2>2. arrived \in Item
    BY <2>1 DEF Item, Shapes
  <2>3. messages' \in Seq(Item) /\ pushed' \in [all : Nat, open : Nat]
    BY <1>4, <2>2 DEF PushMessage, Shapes
  <2>4. UNCHANGED <<wire, handled, pc, inputs>>
    BY <1>4 DEF PushMessage
  <2>5. QED
    BY <2>3, <2>4 DEF Shapes
<1>5. ASSUME pc' \in [Thread -> Place], UNCHANGED <<wire, messages, handled, inputs, pushed>>
      PROVE  Shapes'
  BY <1>5 DEF Shapes
<1>6. CASE (MainStep /\ ~HandleInput) \/ IoLock \/ ReleaseStreamer \/ Shot("main")
  BY <1>5, <1>6, MainPlaces
     DEF MainStep, scheduleAsyncPollIOEvents, LoopTest, HandledAll,
         JoinContextThread, IoLock, ReleaseStreamer, Shot, ShotLock, ShotCapture,
         ShotEncode
<1>7. CASE ContextStep \/ WriteHandled \/ HandlerTooLate \/ Shot("context")
  BY <1>5, <1>7, ContextPlaces
     DEF ContextStep, CheckStop, RunReturns, Restart, WriteHandled, HandlerTooLate,
         Shot, ShotLock, ShotCapture, ShotEncode
<1>8. CASE \/ PeerLeaves \/ RefuseHeader \/ ReadFails \/ WriteDone \/ WriteFails
           \/ RequestStop \/ DisconnectStep \/ UNCHANGED vars
  <2>1. UNCHANGED <<wire, messages, handled, inputs, pushed, pc>>
    BY <1>8 DEF PeerLeaves, RefuseHeader, ReadFails, WriteDone, WriteFails,
                RequestStop, DisconnectStep, CloseSocket, StopContext, Join, vars
  <2>2. QED
    BY <1>5, <2>1 DEF Shapes
<1>9. QED
  BY <1>1, <1>2, <1>3, <1>4, <1>6, <1>7, <1>8 DEF Next, ReadStep, WriteStep, Thread
-----------------------------------------------------------------------------
(***************************************************************************)
(* The order of the inputs.                                                *)
(***************************************************************************)

\* A step that moves no message, or drops the one in the buffer with the read.
LEMMA OrderFrame ==
  ASSUME Order, UNCHANGED <<wire, messages, handled, inputs, pushed>>,
         pc'.main = "poll" => pc.main = "poll",
         read' = "none" \/ (read' = read /\ arrived' = arrived)
  PROVE  Order'
BY DEF Order

\* Every message stays in its place in the order: each step moves the first of
\* one queue to the end of the one before it.
LEMMA OrderStep ==
  ASSUME Shapes, TypeOK, Order, [Next]_vars
  PROVE  Order'
<1> USE DEF netVars, socketVars, queueVars, threadVars
<1>0. inputs \in Nat /\ pushed.all \in Nat /\ Len(wire) \in Nat
      /\ Len(messages) \in Nat /\ Len(handled) \in Nat
  BY DEF Shapes
<1>1. ASSUME NEW kind \in Kind, PeerSends(kind) PROVE Order'
  <2>1. /\ wire' = Append(wire, [id |-> inputs + 1, kind |-> kind])
        /\ inputs' = inputs + 1
        /\ UNCHANGED <<messages, handled, pushed, pc, read, arrived>>
    BY <1>1 DEF PeerSends
  <2>2. /\ Len(wire') = Len(wire) + 1
        /\ \A i \in 1..Len(wire) : wire'[i] = wire[i]
        /\ wire'[Len(wire) + 1].id = inputs + 1
    BY <2>1 DEF Shapes
  <2>3. \A i \in 1..Len(wire') : i \in 1..Len(wire) \/ i = Len(wire) + 1
    BY <1>0, <2>2
  <2>4. ASSUME NEW n \in Nat, inputs = n + Len(wire),
               \A i \in 1..Len(wire) : wire[i].id = n + i
        PROVE  inputs' = n + Len(wire') /\ \A i \in 1..Len(wire') : wire'[i].id = n + i
    BY <1>0, <2>1, <2>2, <2>3, <2>4
  <2>5. pc.main = "poll" \/ read = "pending" =>
          inputs' = pushed.all + Len(wire') /\ \A i \in 1..Len(wire') : wire'[i].id = pushed.all + i
    BY <1>0, <2>4 DEF Order
  <2>6. read = "ready" =>
          /\ inputs' = (pushed.all + 1) + Len(wire')
          /\ \A i \in 1..Len(wire') : wire'[i].id = (pushed.all + 1) + i
    <3>1. pushed.all + 1 \in Nat
      BY <1>0
    <3>2. QED
      BY <1>0, <2>4, <3>1 DEF Order
  <2>7. QED
    BY <2>1, <2>5, <2>6 DEF Order
<1>2. CASE scheduleAsyncPollIOEvents
  <2>1. /\ pc.main = "poll" /\ read' = "pending" /\ pc'.main # "poll"
        /\ UNCHANGED <<wire, messages, handled, inputs, pushed, arrived>>
    BY <1>2, MainPlaces DEF scheduleAsyncPollIOEvents, Goto, MainStep
  <2>2. QED
    BY <2>1 DEF Order
<1>3. CASE HandleInput
  <2>1. /\ messages # <<>> /\ messages' = Tail(messages)
        /\ handled' = Append(handled, Head(messages).id)
        /\ UNCHANGED <<wire, inputs, pushed, read, arrived>> /\ pc'.main # "poll"
    BY <1>3, MainPlaces DEF HandleInput, MainStep
  <2>2. /\ Len(messages) > 0
        /\ Len(messages') = Len(messages) - 1
        /\ \A i \in 1..Len(messages') : messages'[i] = messages[i + 1]
        /\ Head(messages) = messages[1]
    BY <2>1 DEF Shapes
  <2>3. messages[1].id = Len(handled) + 1
    BY <1>0, <2>2 DEF Order
  <2>4. /\ Len(handled') = Len(handled) + 1
        /\ \A i \in 1..Len(handled) : handled'[i] = handled[i]
        /\ handled'[Len(handled) + 1] = Len(handled) + 1
    BY <1>0, <2>1, <2>2, <2>3 DEF Shapes
  <2>5. \A i \in 1..Len(handled') : handled'[i] = i
    <3>1. \A i \in 1..Len(handled) : handled[i] = i
      BY DEF Order
    <3>2. QED
      BY <1>0, <2>4, <3>1
  <2>6. \A i \in 1..Len(messages') : messages'[i].id = Len(handled') + i
    <3>1. SUFFICES ASSUME NEW i \in 1..Len(messages')
                   PROVE  messages'[i].id = Len(handled') + i
      OBVIOUS
    <3>2. i + 1 \in 1..Len(messages) /\ messages'[i] = messages[i + 1]
      BY <1>0, <2>2
    <3>3. messages[i + 1].id = Len(handled) + (i + 1)
      BY <1>0, <3>2 DEF Order
    <3>4. QED
      BY <1>0, <2>4, <3>2, <3>3
  <2>7. pushed'.all = Len(handled') + Len(messages')
    BY <1>0, <2>1, <2>2, <2>4 DEF Order
  <2>8. QED
    BY <2>1, <2>5, <2>6, <2>7 DEF Order
<1>4. CASE ReadArrives
  <2>1. /\ read = "pending" /\ read' = "ready" /\ wire # <<>>
        /\ arrived' = Head(wire) /\ wire' = Tail(wire)
        /\ UNCHANGED <<messages, handled, inputs, pushed, pc>>
    BY <1>4 DEF ReadArrives
  <2>2. /\ Len(wire) > 0
        /\ Len(wire') = Len(wire) - 1
        /\ \A i \in 1..Len(wire') : wire'[i] = wire[i + 1]
        /\ Head(wire) = wire[1]
    BY <2>1 DEF Shapes
  <2>3. arrived'.id = pushed.all + 1
    BY <1>0, <2>1, <2>2 DEF Order
  <2>4. inputs = pushed.all + 1 + Len(wire')
    BY <1>0, <2>1, <2>2 DEF Order
  <2>5. \A i \in 1..Len(wire') : wire'[i].id = pushed.all + 1 + i
    BY <1>0, <2>1, <2>2 DEF Order
  <2>6. pc.main # "poll"
    BY <2>1 DEF Order
  <2>7. QED
    BY <2>1, <2>3, <2>4, <2>5, <2>6 DEF Order
<1>5. CASE PushMessage
  <2>1. /\ read = "ready" /\ read' = "pending" /\ messages' = Append(messages, arrived)
        /\ pushed'.all = pushed.all + 1 /\ pushed'.open \in {pushed.open, pushed.all + 1}
        /\ UNCHANGED <<wire, handled, inputs, pc>>
    BY <1>5 DEF PushMessage
  <2>2. /\ Len(messages') = Len(messages) + 1
        /\ \A i \in 1..Len(messages) : messages'[i] = messages[i]
        /\ messages'[Len(messages) + 1] = arrived
    <3>1. arrived \in Item
      BY <2>1 DEF TypeOK, Item, Shapes
    <3>2. QED
      BY <2>1, <3>1 DEF Shapes
  <2>3. arrived.id = pushed.all + 1
    BY <2>1 DEF Order
  <2>4. \A i \in 1..Len(messages') : messages'[i].id = Len(handled) + i
    <3>1. \A i \in 1..Len(messages') : i \in 1..Len(messages) \/ i = Len(messages) + 1
      BY <1>0, <2>2
    <3>2. arrived.id = Len(handled) + (Len(messages) + 1)
      BY <1>0, <2>3 DEF Order
    <3>3. QED
      BY <2>2, <3>1, <3>2 DEF Order
  <2>5. pushed'.all = Len(handled) + Len(messages') /\ pushed'.open \leq pushed'.all
    BY <1>0, <2>1, <2>2 DEF Order, Shapes
  <2>6. /\ inputs = pushed'.all + Len(wire)
        /\ \A i \in 1..Len(wire) : wire[i].id = pushed'.all + i
    BY <1>0, <2>1 DEF Order
  <2>7. pc.main # "poll"
    BY <2>1 DEF Order
  <2>8. QED
    BY <2>1, <2>4, <2>5, <2>6, <2>7 DEF Order
<1>6. CASE (MainStep /\ ~scheduleAsyncPollIOEvents /\ ~HandleInput) \/ IoLock
           \/ ReleaseStreamer \/ Shot("main")
  BY <1>6, MainPlaces, OrderFrame
     DEF MainStep, LoopTest, HandledAll, JoinContextThread, IoLock, ReleaseStreamer,
         Shot, ShotLock, ShotCapture, ShotEncode
<1>7. CASE ContextStep \/ WriteHandled \/ HandlerTooLate \/ Shot("context")
  BY <1>7, ContextPlaces, OrderFrame
     DEF ContextStep, CheckStop, RunReturns, Restart, WriteHandled, HandlerTooLate,
         Shot, ShotLock, ShotCapture, ShotEncode
<1>8. CASE \/ PeerLeaves \/ RefuseHeader \/ ReadFails \/ WriteDone \/ WriteFails
           \/ RequestStop \/ DisconnectStep \/ UNCHANGED vars
  BY <1>8, OrderFrame
     DEF PeerLeaves, RefuseHeader, ReadFails, WriteDone, WriteFails, RequestStop,
         DisconnectStep, CloseSocket, StopContext, Join, vars
<1>9. QED
  BY <1>1, <1>2, <1>3, <1>4, <1>5, <1>6, <1>7, <1>8
     DEF Next, ReadStep, WriteStep, Thread

\* The order says what InputsInOrder says.
LEMMA OrderIsOrder ==
  ASSUME Shapes, Order
  PROVE  InputsInOrder
<1>1. Len(handled) \in Nat /\ Len(messages) \in Nat /\ pushed.all = Len(handled) + Len(messages)
  BY DEF Shapes, Order
<1>2. Ids(messages) \in Seq(Nat) /\ Len(Ids(messages)) = Len(messages)
      /\ \A i \in 1..Len(messages) : Ids(messages)[i] = messages[i].id
  <2>1. \A i \in 1..Len(messages) : messages[i] \in Item
    BY ElementOfSeq DEF Shapes
  <2>2. \A i \in 1..Len(messages) : messages[i].id \in Nat
    BY <2>1 DEF Item
  <2>3. QED
    BY <1>1, <2>2, SeqDef DEF Ids
<1>3. /\ Len(handled \o Ids(messages)) = pushed.all
      /\ \A i \in 1..pushed.all : (handled \o Ids(messages))[i] =
           IF i \leq Len(handled) THEN handled[i] ELSE Ids(messages)[i - Len(handled)]
      /\ handled \o Ids(messages) \in Seq(Nat)
  <2>1. handled \in Seq(Nat)
    BY DEF Shapes
  <2>2. Ids(messages) \in Seq(Nat)
    BY <1>2
  <2>3. /\ handled \o Ids(messages) \in Seq(Nat)
        /\ Len(handled \o Ids(messages)) = Len(handled) + Len(Ids(messages))
        /\ \A i \in 1..(Len(handled) + Len(Ids(messages))) : (handled \o Ids(messages))[i] =
             IF i \leq Len(handled) THEN handled[i] ELSE Ids(messages)[i - Len(handled)]
    BY <2>1, <2>2, ConcatProperties, Zenon
  <2>4. Len(handled) + Len(Ids(messages)) = pushed.all
    BY <1>1, <1>2
  <2>5. QED
    BY <2>3, <2>4, Zenon
<1>4. \A i \in 1..pushed.all : (handled \o Ids(messages))[i] = i
  BY <1>1, <1>2, <1>3 DEF Order
<1>5. handled \o Ids(messages) = [i \in 1..pushed.all |-> i]
  <2> DEFINE all == [i \in 1..pushed.all |-> i]
  <2>1. all \in Seq(Nat) /\ Len(all) = pushed.all
    BY <1>1, SeqDef
  <2>2. QED
    BY <1>3, <1>4, <2>1, SeqEqual
<1>6. QED
  BY <1>5 DEF InputsInOrder
-----------------------------------------------------------------------------
(***************************************************************************)
(* Typing.                                                                 *)
(***************************************************************************)

\* The types of what is neither a queue nor a place.
Plain ==
  /\ peer \in {"up", "gone", "reset"}
  /\ socket \in {"open", "closed"}
  /\ read \in {"none", "pending", "ready"}
  /\ write \in {"none", "pending", "ready"}
  /\ io_controller_mutex \in {"main", "context", "free"}
  /\ stop \in BOOLEAN /\ stopped \in BOOLEAN
  /\ other \in {"idle", "close", "stop_context", "join", "returned"}
  /\ process \in {"running", "down", "terminated"}

LEMMA PlainTypes ==
  ASSUME Plain, [Next]_vars
  PROVE  Plain'
<1> USE DEF Plain, netVars, socketVars, queueVars, threadVars
<1>1. CASE (\E kind \in Kind : PeerSends(kind)) \/ PeerLeaves \/ UNCHANGED vars
  BY <1>1 DEF PeerSends, PeerLeaves, vars
<1>2. ASSUME NEW t \in Thread, Shot(t)
      PROVE  Plain'
  BY <1>2 DEF Thread, Shot, ShotLock, ShotCapture, ShotEncode
<1>3. CASE MainStep
  BY <1>3 DEF MainStep, scheduleAsyncPollIOEvents, LoopTest, HandleInput, HandledAll,
              JoinContextThread
<1>4. CASE IoLock \/ ReleaseStreamer
  BY <1>4 DEF IoLock, ReleaseStreamer
<1>5. CASE ContextStep
  BY <1>5 DEF ContextStep, CheckStop, RunReturns, Restart
<1>6. CASE ReadStep
  BY <1>6 DEF ReadStep, ReadArrives, PushMessage, RefuseHeader, ReadFails, Closed,
              LastReferenceDropped
<1>7. CASE WriteDone \/ WriteStep
  BY <1>7 DEF WriteDone, WriteStep, WriteHandled, HandlerTooLate, WriteFails,
              LastReferenceDropped
<1>8. CASE RequestStop \/ DisconnectStep
  BY <1>8 DEF RequestStop, DisconnectStep, CloseSocket, StopContext, Join, Step, Closed
<1>9. QED
  BY <1>1, <1>2, <1>3, <1>4, <1>5, <1>6, <1>7, <1>8 DEF Next

\* The places each thread can be in.
LEMMA PlaceTypes ==
  ASSUME Shapes, TypeOK, [Next]_vars
  PROVE  /\ pc'.main \in {"poll", "test_1", "test_2", "io_lock", "io_handle", "returned",
                          "join", "released"} \cup ShotSteps
         /\ pc'.context \in {"check", "run", "restart", "done"} \cup ShotSteps
<1> USE DEF TypeOK
<1>1. CASE UNCHANGED pc
  BY <1>1
<1>2. "main" \in Thread /\ "context" \in Thread
  BY DEF Thread
<1>3. CASE MainStep \/ IoLock \/ ReleaseStreamer \/ Shot("main")
  <2>1. pc'.context = pc.context
    BY <1>3, MainPlaces
  <2>2. \E from : \E to \in {"poll", "test_1", "test_2", "io_lock", "io_handle", "returned",
                             "join", "released"} \cup ShotSteps : Goto("main", from, to)
    BY <1>3 DEF MainStep, scheduleAsyncPollIOEvents, LoopTest, HandleInput, HandledAll,
         JoinContextThread, IoLock, ReleaseStreamer, Shot, ShotLock, ShotCapture,
         ShotEncode, AfterShot, ShotSteps
  <2>3. QED
    BY <1>2, <2>1, <2>2 DEF Goto, Shapes
<1>4. CASE ContextStep \/ WriteHandled \/ HandlerTooLate \/ Shot("context")
  <2>1. pc'.main = pc.main
    BY <1>4, ContextPlaces
  <2>2. \/ pc' = [pc EXCEPT !.context = "run"]
        \/ \E from : \E to \in {"check", "run", "restart", "done"} \cup ShotSteps :
             Goto("context", from, to)
    BY <1>4 DEF ContextStep, CheckStop, RunReturns, Restart, WriteHandled,
                HandlerTooLate, Shot, ShotLock, ShotCapture, ShotEncode, AfterShot,
                ShotSteps
  <2>3. QED
    BY <1>2, <2>1, <2>2 DEF Goto, Shapes
<1>5. QED
  BY <1>1, <1>3, <1>4
     DEF Next, ReadStep, WriteStep, DisconnectStep, Thread, PeerSends, PeerLeaves,
         ReadArrives, PushMessage, RefuseHeader, ReadFails, WriteDone, WriteFails,
         RequestStop, CloseSocket, StopContext, Join, vars

\* The types of the queues and of the buffer.
QueuesOK ==
  /\ inputs \in 0..MaxInputs
  /\ \A i \in 1..Len(wire) : wire[i] \in [id : 1..inputs, kind : Kind]
  /\ arrived \in [id : 1..inputs, kind : Kind] \cup {NoMessage}
  /\ read = "ready" <=> arrived # NoMessage
  /\ \A i \in 1..Len(messages) : messages[i] \in [id : 1..inputs, kind : Kind]
  /\ pushed \in [all : 0..inputs, open : 0..inputs]

\* What is sent is no less than what has been pushed: a message that is pushed
\* has a number the peer has used (Order).
LEMMA QueueTypes ==
  ASSUME Shapes, QueuesOK, Order, [Next]_vars
  PROVE  QueuesOK'
<1> USE DEF netVars, socketVars, queueVars, threadVars
<1>0. /\ inputs \in Nat /\ Len(wire) \in Nat /\ Len(messages) \in Nat
      /\ pushed.all \in Nat /\ pushed.open \in Nat /\ pushed.open \leq pushed.all
      /\ "none" \notin Kind
  BY DEF Shapes, Kind, Order
<1>1. ASSUME NEW kind \in Kind, PeerSends(kind) PROVE QueuesOK'
  <2>1. /\ inputs' = inputs + 1 /\ inputs < MaxInputs
        /\ wire' = Append(wire, [id |-> inputs + 1, kind |-> kind])
        /\ UNCHANGED <<messages, pushed, read, arrived>>
    BY <1>1 DEF PeerSends
  <2>2. 1..inputs \subseteq 1..inputs' /\ 0..inputs \subseteq 0..inputs' /\ inputs + 1 \in 1..inputs'
    BY <1>0, <2>1
  <2>3. /\ \A m \in [id : 1..inputs, kind : Kind] : m \in [id : 1..inputs', kind : Kind]
        /\ \A p \in [all : 0..inputs, open : 0..inputs] : p \in [all : 0..inputs', open : 0..inputs']
    BY <2>2
  <2>4. \A i \in 1..Len(wire') : wire'[i] \in [id : 1..inputs', kind : Kind]
    <3>1. /\ Len(wire') = Len(wire) + 1
          /\ \A i \in 1..Len(wire) : wire'[i] = wire[i]
          /\ wire'[Len(wire) + 1] = [id |-> inputs + 1, kind |-> kind]
      BY <2>1 DEF Shapes
    <3>2. \A i \in 1..Len(wire') : i \in 1..Len(wire) \/ i = Len(wire) + 1
      BY <1>0, <3>1
    <3>3. [id |-> inputs + 1, kind |-> kind] \in [id : 1..inputs', kind : Kind]
      BY <2>2
    <3>4. QED
      BY <2>3, <3>1, <3>2, <3>3 DEF QueuesOK
  <2>5. inputs' \in 0..MaxInputs
    BY <1>0, <2>1, InputsAssumption
  <2>6. QED
    BY <2>1, <2>3, <2>4, <2>5 DEF QueuesOK
<1>2. CASE HandleInput
  <2>1. messages # <<>> /\ messages' = Tail(messages)
        /\ UNCHANGED <<inputs, wire, arrived, read, pushed>>
    BY <1>2 DEF HandleInput
  <2>2. Len(messages') = Len(messages) - 1 /\ \A i \in 1..Len(messages') : messages'[i] = messages[i + 1]
    BY <2>1 DEF Shapes
  <2>3. \A i \in 1..Len(messages') : i + 1 \in 1..Len(messages)
    BY <1>0, <2>2
  <2>4. QED
    BY <2>1, <2>2, <2>3 DEF QueuesOK
<1>3. CASE ReadArrives
  <2>1. /\ wire # <<>> /\ read' = "ready" /\ arrived' = Head(wire) /\ wire' = Tail(wire)
        /\ UNCHANGED <<inputs, messages, pushed>>
    BY <1>3 DEF ReadArrives
  <2>2. /\ 1 \in 1..Len(wire) /\ arrived' = wire[1]
        /\ Len(wire') = Len(wire) - 1 /\ \A i \in 1..Len(wire') : wire'[i] = wire[i + 1]
    BY <2>1 DEF Shapes
  <2>3. \A i \in 1..Len(wire') : i + 1 \in 1..Len(wire)
    BY <1>0, <2>2
  <2>4. arrived' \in [id : 1..inputs, kind : Kind]
    BY <2>2 DEF QueuesOK
  <2>5. arrived' # NoMessage
    BY <1>0, <2>4 DEF NoMessage
  <2>6. QED
    BY <2>1, <2>2, <2>3, <2>4, <2>5 DEF QueuesOK
<1>4. CASE PushMessage
  <2>1. /\ read = "ready" /\ read' = "pending" /\ arrived' = NoMessage
        /\ messages' = Append(messages, arrived)
        /\ pushed' = [all |-> pushed.all + 1,
                      open |-> IF socket = "open" THEN pushed.all + 1 ELSE pushed.open]
        /\ UNCHANGED <<wire, inputs>>
    BY <1>4 DEF PushMessage
  <2>2. arrived \in [id : 1..inputs, kind : Kind] /\ arrived.id = pushed.all + 1
    BY <2>1 DEF QueuesOK, Order
  <2>3. pushed.all + 1 \in 0..inputs /\ pushed.open \in 0..inputs
    BY <1>0, <2>2
  <2>4. pushed' \in [all : 0..inputs, open : 0..inputs]
    BY <2>1, <2>3
  <2>5. \A i \in 1..Len(messages') : messages'[i] \in [id : 1..inputs, kind : Kind]
    <3>1. arrived \in Item
      BY <1>0, <2>2 DEF Item
    <3>2. /\ Len(messages') = Len(messages) + 1
          /\ \A i \in 1..Len(messages) : messages'[i] = messages[i]
          /\ messages'[Len(messages) + 1] = arrived
      BY <2>1, <3>1 DEF Shapes
    <3>3. \A i \in 1..Len(messages') : i \in 1..Len(messages) \/ i = Len(messages) + 1
      BY <1>0, <3>2
    <3>4. QED
      BY <2>2, <3>2, <3>3 DEF QueuesOK
  <2>6. QED
    BY <2>1, <2>4, <2>5 DEF QueuesOK
<1>5. ASSUME UNCHANGED <<inputs, wire, messages, pushed>>,
             \/ UNCHANGED <<arrived, read>>
             \/ arrived' = NoMessage /\ read' # "ready"
      PROVE  QueuesOK'
  BY <1>5 DEF QueuesOK
<1>6. CASE scheduleAsyncPollIOEvents
  <2>1. read = "none"
    BY <1>6 DEF scheduleAsyncPollIOEvents, Goto, Order
  <2>2. QED
    BY <1>5, <1>6, <2>1 DEF scheduleAsyncPollIOEvents, QueuesOK
<1>7. CASE RefuseHeader \/ ReadFails
  BY <1>5, <1>7 DEF RefuseHeader, ReadFails, QueuesOK
<1>8. CASE \/ LoopTest \/ HandledAll \/ JoinContextThread \/ IoLock \/ ReleaseStreamer
           \/ \E t \in Thread : Shot(t)
           \/ ContextStep \/ WriteStep \/ WriteDone \/ PeerLeaves \/ RequestStop
           \/ DisconnectStep \/ UNCHANGED vars
  <2>1. UNCHANGED <<inputs, wire, messages, pushed, arrived, read>>
    BY <1>8 DEF LoopTest, HandledAll, JoinContextThread, IoLock, ReleaseStreamer,
       Shot, ShotLock, ShotCapture, ShotEncode, ContextStep, CheckStop, RunReturns,
       Restart, WriteStep, WriteHandled, HandlerTooLate, WriteFails, WriteDone,
       PeerLeaves, RequestStop, DisconnectStep, CloseSocket, StopContext, Join, vars
  <2>2. QED
    BY <1>5, <2>1
<1>9. QED
  BY <1>1, <1>2, <1>3, <1>4, <1>6, <1>7, <1>8 DEF Next, ReadStep, MainStep

\* Every step keeps the types.
LEMMA TypeStep ==
  ASSUME Shapes, TypeOK, Order, [Next]_vars
  PROVE  TypeOK'
<1>1. Plain /\ QueuesOK
  BY DEF TypeOK, Plain, QueuesOK, Thread
<1>2. Plain' /\ QueuesOK'
  BY <1>1, PlainTypes, QueueTypes
<1>3. /\ pc'.main \in {"poll", "test_1", "test_2", "io_lock", "io_handle", "returned",
                       "join", "released"} \cup ShotSteps
      /\ pc'.context \in {"check", "run", "restart", "done"} \cup ShotSteps
  BY PlaceTypes
<1>4. QED
  BY <1>2, <1>3 DEF TypeOK, Plain, QueuesOK, Thread
-----------------------------------------------------------------------------
(***************************************************************************)
(* One user at a time.                                                     *)
(***************************************************************************)

\* A step of one thread from a place to another, for Exclusion.
LEMMA ExclusionStep ==
  ASSUME Shapes, TypeOK, Exclusion, [Next]_vars
  PROVE  Exclusion'
<1> USE DEF netVars, socketVars, queueVars, threadVars, Exclusion
<1>0. "main" \in Thread /\ "context" \in Thread
  BY DEF Thread
<1>1. CASE UNCHANGED <<pc, io_controller_mutex>> /\ (write' = write \/ write # "none")
  BY <1>1 DEF ShotSteps
<1>2. CASE Shot("main")
  <2>1. pc'.context = pc.context /\ pc' \in [Thread -> Place]
    BY <1>2, MainPlaces
  <2>2. CASE ShotLock("main")
    <3>1. /\ pc.main = "shot_lock" /\ pc'.main = "shot_capture"
          /\ io_controller_mutex' = "main" /\ write' = write
      BY <1>0, <2>2 DEF ShotLock, Goto, Shapes
    <3>2. QED
      BY <2>1, <3>1 DEF ShotSteps
  <2>3. CASE ShotCapture("main")
    <3>1. pc.main = "shot_capture" /\ pc'.main = "shot_encode" /\ write' = write
      BY <1>0, <2>3 DEF ShotCapture, Goto, Shapes
    <3>2. QED
      BY <2>1, <3>1 DEF ShotSteps
  <2>4. CASE ShotEncode("main")
    <3>1. /\ pc.main = "shot_encode" /\ pc'.main = "test_1"
          /\ io_controller_mutex' = io_controller_mutex
      BY <1>0, <2>4 DEF ShotEncode, AfterShot, Goto, Shapes
    <3>2. QED
      BY <2>1, <3>1 DEF ShotSteps
  <2>5. QED
    BY <1>2, <2>2, <2>3, <2>4 DEF Shot
<1>3. CASE Shot("context")
  <2>1. pc'.main = pc.main /\ pc' \in [Thread -> Place]
    BY <1>3, ContextPlaces
  <2>2. CASE ShotLock("context")
    <3>1. /\ pc.context = "shot_lock" /\ pc'.context = "shot_capture"
          /\ io_controller_mutex = "free" /\ io_controller_mutex' = "context"
          /\ write' = write
      BY <1>0, <2>2 DEF ShotLock, Goto, Shapes
    <3>2. QED
      BY <2>1, <3>1 DEF ShotSteps
  <2>3. CASE ShotCapture("context")
    <3>1. /\ pc.context = "shot_capture" /\ pc'.context = "shot_encode"
          /\ write' = write
      BY <1>0, <2>3 DEF ShotCapture, Goto, Shapes
    <3>2. QED
      BY <2>1, <3>1 DEF ShotSteps
  <2>4. CASE ShotEncode("context")
    <3>1. /\ pc.context = "shot_encode" /\ pc'.context = "run"
          /\ io_controller_mutex' = io_controller_mutex
      BY <1>0, <2>4 DEF ShotEncode, AfterShot, Goto, Shapes
    <3>2. QED
      BY <2>1, <3>1 DEF ShotSteps
  <2>5. QED
    BY <1>3, <2>2, <2>3, <2>4 DEF Shot
<1>4. CASE WriteHandled
  <2>1. /\ write = "ready" /\ write' = "none" /\ pc.context = "run"
        /\ pc'.context = "shot_lock" /\ pc'.main = pc.main
        /\ io_controller_mutex' = io_controller_mutex
    BY <1>0, <1>4, ContextPlaces DEF WriteHandled, Goto, Shapes
  <2>2. QED
    BY <2>1 DEF ShotSteps
<1>5. CASE HandlerTooLate
  <2>1. /\ pc.main = "released" /\ pc'.main = "released" /\ pc'.context = "run"
        /\ io_controller_mutex' = io_controller_mutex
    BY <1>0, <1>5, ContextPlaces DEF HandlerTooLate, Shapes
  <2>2. QED
    BY <2>1 DEF ShotSteps
<1>6. CASE IoLock
  <2>1. /\ pc.main = "io_lock" /\ pc'.main = "io_handle" /\ pc'.context = pc.context
        /\ io_controller_mutex = "free" /\ io_controller_mutex' = "main"
        /\ write' = write
    BY <1>0, <1>6, MainPlaces DEF IoLock, Goto, Shapes
  <2>2. QED
    BY <2>1 DEF ShotSteps
<1>7. CASE scheduleAsyncPollIOEvents
  <2>1. /\ pc.main = "poll" /\ pc'.main = "shot_lock" /\ pc'.context = pc.context
        /\ io_controller_mutex' = io_controller_mutex /\ write' = write
    BY <1>0, <1>7, MainPlaces DEF scheduleAsyncPollIOEvents, Goto, Shapes, MainStep
  <2>2. QED
    BY <2>1 DEF ShotSteps
<1>8. CASE HandledAll
  <2>1. /\ pc.main = "io_handle" /\ pc'.main = "test_1" /\ pc'.context = pc.context
        /\ io_controller_mutex' = "free" /\ write' = write
    BY <1>0, <1>8, MainPlaces DEF HandledAll, Goto, Shapes, MainStep
  <2>2. QED
    BY <2>1 DEF ShotSteps
<1>9. CASE HandleInput
  <2>1. pc' = pc
    BY <1>0, <1>9 DEF HandleInput, Goto, Shapes
  <2>2. QED
    BY <1>1, <1>9, <2>1 DEF HandleInput
<1>10. CASE LoopTest \/ JoinContextThread \/ ReleaseStreamer
  <2>1. /\ pc'.main \in {"io_lock", "test_2", "returned", "released", "join"}
        /\ pc'.context = pc.context
        /\ io_controller_mutex' = io_controller_mutex /\ write' = write
    BY <1>0, <1>10, MainPlaces
       DEF LoopTest, JoinContextThread, ReleaseStreamer, Goto, Shapes, MainStep
  <2>2. QED
    BY <2>1 DEF ShotSteps
<1>11. CASE ContextStep
  <2>1. /\ pc'.context \in {"done", "run", "restart", "check"} /\ pc'.main = pc.main
        /\ io_controller_mutex' = io_controller_mutex /\ write' = write
    BY <1>0, <1>11, ContextPlaces
       DEF ContextStep, CheckStop, RunReturns, Restart, Goto, Shapes
  <2>2. QED
    BY <2>1 DEF ShotSteps
<1>12. CASE \/ \E kind \in Kind : PeerSends(kind)
            \/ PeerLeaves \/ ReadStep \/ WriteDone \/ WriteFails \/ RequestStop
            \/ DisconnectStep \/ UNCHANGED vars
  BY <1>1, <1>12
     DEF PeerSends, PeerLeaves, ReadStep, ReadArrives, PushMessage, RefuseHeader,
         ReadFails, WriteDone, WriteFails, RequestStop, DisconnectStep, CloseSocket,
         StopContext, Join, vars
<1>13. QED
  BY <1>2, <1>3, <1>4, <1>5, <1>6, <1>7, <1>8, <1>9, <1>10, <1>11, <1>12
     DEF Next, MainStep, WriteStep, Thread
-----------------------------------------------------------------------------
(***************************************************************************)
(* The end of run.                                                         *)
(***************************************************************************)

\* Once run has seen the socket closed nothing more counts as pushed before it
\* closed, and run leaves only when the queue is empty.
LEMMA ClosingStep ==
  ASSUME Shapes, TypeOK, Order, Closing, [Next]_vars
  PROVE  Closing'
<1> USE DEF netVars, socketVars, queueVars, threadVars
<1>0. /\ Len(handled) \in Nat /\ Len(messages) \in Nat /\ pushed.open \in Nat
      /\ "main" \in Thread
  BY DEF Shapes, Thread
<1>1. CASE /\ UNCHANGED <<handled, pushed>> /\ pc'.main = pc.main
           /\ socket' \in {socket, "closed"}
  BY <1>1 DEF Closing, QueueDrained
<1>2. CASE LoopTest
  <2>1. CASE Goto("main", "test_1", IF LoopOperand(1) THEN "io_lock" ELSE "test_2")
    <3>1. /\ UNCHANGED <<socket, handled, pushed>>
          /\ pc'.main = IF socket = "open" THEN "io_lock" ELSE "test_2"
      BY <1>0, <1>2, <2>1 DEF LoopTest, LoopOperand, Goto, Shapes
    <3>2. QED
      BY <3>1 DEF Closing, QueueDrained, TypeOK
  <2>2. CASE Goto("main", "test_2", IF LoopOperand(2) THEN "io_lock" ELSE "returned")
    <3>1. /\ UNCHANGED <<socket, handled, pushed>> /\ pc.main = "test_2"
          /\ pc'.main = IF messages # <<>> THEN "io_lock" ELSE "returned"
      BY <1>0, <1>2, <2>2 DEF LoopTest, LoopOperand, Goto, Shapes
    <3>2. messages = <<>> => Len(handled) >= pushed.open
      BY <1>0 DEF Order, Shapes
    <3>3. QED
      BY <3>1, <3>2 DEF Closing, QueueDrained
  <2>3. QED
    BY <1>2, <2>1, <2>2 DEF LoopTest
<1>3. CASE ReleaseStreamer \/ JoinContextThread
  <2>1. /\ UNCHANGED <<socket, handled, pushed>>
        /\ pc.main \in {"returned", "join"}
    BY <1>3 DEF ReleaseStreamer, JoinContextThread, Goto
  <2>2. QED
    BY <2>1 DEF Closing, QueueDrained
<1>4. CASE \/ scheduleAsyncPollIOEvents \/ IoLock \/ HandledAll \/ HandleInput
           \/ Shot("main")
  <2>1. pc'.main \in {"shot_lock", "io_handle", "test_1", "shot_capture", "shot_encode"}
    BY <1>0, <1>4 DEF scheduleAsyncPollIOEvents, IoLock, HandledAll, HandleInput, Shot,
       ShotLock, ShotCapture, ShotEncode, AfterShot, Goto, Shapes
  <2>2. QED
    BY <2>1 DEF Closing, QueueDrained
<1>5. CASE PushMessage
  <2>1. /\ socket' = socket /\ pc' = pc /\ handled' = handled
        /\ socket = "closed" => pushed'.open = pushed.open
    BY <1>5 DEF PushMessage
  <2>2. QED
    BY <2>1 DEF Closing, QueueDrained
<1>6. CASE ContextStep \/ WriteHandled \/ HandlerTooLate \/ Shot("context")
  <2>1. pc'.main = pc.main
    BY <1>6, ContextPlaces
  <2>2. UNCHANGED <<handled, pushed, socket>>
    BY <1>6 DEF ContextStep, CheckStop, RunReturns, Restart, WriteHandled,
                HandlerTooLate, Shot, ShotLock, ShotCapture, ShotEncode
  <2>3. QED
    BY <1>1, <2>1, <2>2
<1>7. CASE \/ \E kind \in Kind : PeerSends(kind)
           \/ PeerLeaves \/ ReadArrives \/ RefuseHeader \/ ReadFails \/ WriteDone
           \/ WriteFails \/ RequestStop \/ DisconnectStep \/ UNCHANGED vars
  BY <1>1, <1>7
     DEF PeerSends, PeerLeaves, ReadArrives, RefuseHeader, ReadFails, WriteDone,
         WriteFails, RequestStop, DisconnectStep, CloseSocket, StopContext, Join,
         Closed, vars
<1>8. QED
  BY <1>2, <1>3, <1>4, <1>5, <1>6, <1>7
     DEF Next, MainStep, ReadStep, WriteStep, Thread
-----------------------------------------------------------------------------
(***************************************************************************)
(* Theorems.                                                               *)
(***************************************************************************)
Sound == Shapes /\ TypeOK /\ Order /\ Exclusion /\ Closing

\* The five parts hold at the start.
LEMMA SoundInit == Init => Sound
<1> SUFFICES ASSUME Init PROVE Sound
  OBVIOUS
<1> USE DEF Init
<1>1. Shapes
  BY EmptySeq DEF Shapes, Thread, Place
<1>2. TypeOK
  <2>1. inputs \in 0..MaxInputs /\ pushed \in [all : 0..inputs, open : 0..inputs]
    BY InputsAssumption
  <2>2. 1..Len(wire) = {} /\ 1..Len(messages) = {}
    BY EmptySeq
  <2>3. QueuesOK
    BY <2>1, <2>2 DEF QueuesOK
  <2>4. Plain
    BY DEF Plain
  <2>5. QED
    BY <2>3, <2>4 DEF TypeOK, Plain, QueuesOK, Thread
<1>3. Order /\ Exclusion /\ Closing
  BY DEF Order, Exclusion, Closing, QueueDrained, ShotSteps
<1>4. QED
  BY <1>1, <1>2, <1>3 DEF Sound

\* And after every step.
LEMMA SoundStep ==
  ASSUME Sound, [Next]_vars
  PROVE  Sound'
BY ShapesStep, TypeStep, OrderStep, ExclusionStep, ClosingStep DEF Sound

\* They are an invariant of the streamer.
LEMMA SoundHolds == Spec => []Sound
BY SoundInit, SoundStep, PTL DEF Spec

\* Type correctness of the streamer, for any number of messages.
THEOREM StreamerTypeCorrect == Spec => []TypeOK
<1>1. Sound => TypeOK
  BY DEF Sound
<1>2. QED
  BY <1>1, SoundHolds, PTL

\* Each input is handled once and in the order sent, or still queued.
THEOREM InputsInOrderHolds == Spec => []InputsInOrder
<1>1. Sound => InputsInOrder
  BY OrderIsOrder DEF Sound
<1>2. QED
  BY <1>1, SoundHolds, PTL

\* run does not return with inputs queued that were read before the socket closed.
THEOREM QueueDrainedHolds == Spec => []QueueDrained
<1>1. Sound => QueueDrained
  BY DEF Sound, Closing
<1>2. QED
  BY <1>1, SoundHolds, PTL

\* The display has one user at a time, and so has the writing side of the stream.
THEOREM SharedOneAtATimeHolds == Spec => []SharedOneAtATime
<1>1. Sound => SharedOneAtATime
  <2> SUFFICES ASSUME Sound PROVE SharedOneAtATime
    OBVIOUS
  <2>1. OneControllerUser
    BY DEF Sound, Exclusion, OneControllerUser
  <2>2. OneShot
    BY DEF Sound, Exclusion, OneShot, Thread
  <2>3. QED
    BY <2>1, <2>2 DEF SharedOneAtATime
<1>2. QED
  BY <1>1, SoundHolds, PTL
-----------------------------------------------------------------------------
(***************************************************************************)
(* Waiting.  Threads wait for io_controller_mutex and for the context      *)
(* thread to end; what they wait for comes.                                *)
(***************************************************************************)

\* The guards of what the main thread does by itself, but for the release of the
\* streamer: those of MainStep, IoLock and its Shot.
MainGoes ==
  \/ pc.main \in {"poll", "shot_capture", "shot_encode", "test_1", "test_2", "io_handle"}
  \/ pc.main \in {"shot_lock", "io_lock"} /\ io_controller_mutex = "free"
  \/ pc.main = "join" /\ pc.context = "done"

\* And the context thread, without what it does for an operation that completes:
\* those of ContextStep, its Shot, and HandlerTooLate in a screenshot.
ContextGoes ==
  \/ pc.context \in {"check", "restart", "shot_capture", "shot_encode"}
  \/ pc.context = "shot_lock" /\ (io_controller_mutex = "free" \/ pc.main = "released")
  \/ pc.context = "run" /\ (stopped \/ ~Referenced)

\* Somebody has been told that the context thread ends: it is joined, or the last
\* reference to its socket has been dropped.
Ending ==
  Running /\ (\/ pc.main = "join" \/ other \in {"join", "returned"}
              \/ pc.main = "released" /\ ~Referenced)

\* Then it has been asked to stop and does not serve operations again.
Stopping ==
  /\ other # "idle" => stop
  /\ Ending => /\ stop
               /\ pc.context \in {"run"} \cup ShotSteps => stopped

\* The mutex is held by a thread that uses the display, and the main thread does not
\* join the context thread out of one that is in a handler, or before disconnect has.
Holding ==
  /\ io_controller_mutex = "main" => pc.main \in {"shot_capture", "io_handle"}
  /\ io_controller_mutex = "context" => pc.context = "shot_capture" \/ pc.main = "released"
  /\ pc.main = "join" => ~Referenced
  /\ other \in {"close", "stop_context", "join"} => ~Destroyed

\* Whoever waits for the mutex or joins the context thread is not waited for: while
\* it waits the context thread, or main that has the mutex, can go on.
NoThreadBlocked == Running =>
  /\ pc.main \in {"shot_lock", "io_lock"} => MainGoes \/ ContextGoes
  /\ pc.context = "shot_lock" => ContextGoes \/ MainGoes
  /\ pc.main = "join" => pc.context = "done" \/ ContextGoes
  /\ other = "join" => pc.context = "done" \/ ContextGoes \/ MainGoes
  /\ pc.main = "released" /\ ~Referenced => pc.context = "done" \/ ContextGoes

\* Both hold at the start: nobody has been told to stop, and nobody holds the mutex.
LEMMA WaitsInit == Init => Stopping /\ Holding
BY DEF Init, Stopping, Holding, Ending, Referenced, Destroyed, ShotSteps

\* And after every step.
LEMMA WaitsStep ==
  ASSUME Sound, Stopping, Holding, [Next]_vars
  PROVE  Stopping' /\ Holding'
<1> USE DEF Stopping, Holding, Ending, Referenced, Destroyed, Running, ShotSteps
<1>1. /\ "main" \in Thread /\ "context" \in Thread /\ Shapes
      /\ stop \in BOOLEAN /\ stopped \in BOOLEAN
  BY DEF Thread, Sound, TypeOK
<1>2. CASE \/ \E kind \in Kind : PeerSends(kind)
           \/ PeerLeaves \/ HandleInput \/ UNCHANGED vars
  <2>1. /\ UNCHANGED <<io_controller_mutex, stop, stopped, other, read, write>>
        /\ process' = "running" => process = "running"
    BY <1>2 DEF PeerSends, PeerLeaves, HandleInput, Goto, vars, socketVars, threadVars
  <2>2. UNCHANGED pc
    <3>1. CASE HandleInput
      BY <1>1, <3>1 DEF HandleInput, Goto, Shapes
    <3>2. QED
      BY <1>2, <3>1 DEF PeerSends, PeerLeaves, vars
  <2>3. QED
    BY <2>1, <2>2
<1>3. CASE ReadArrives \/ PushMessage \/ WriteDone
  <2>1. /\ UNCHANGED <<pc, io_controller_mutex, stop, stopped, other, process>>
        /\ Referenced /\ Referenced'
    BY <1>3 DEF ReadArrives, PushMessage, WriteDone, threadVars
  <2>2. QED
    BY <2>1
<1>4. CASE RefuseHeader \/ ReadFails \/ WriteFails
  <2>1. /\ UNCHANGED <<pc, io_controller_mutex, other>>
        /\ process = "running" /\ Referenced /\ LastReferenceDropped
    BY <1>4 DEF RefuseHeader, ReadFails, WriteFails, Polling, LastReferenceDropped
  <2>2. /\ stop => stop'
        /\ stopped => stopped'
        /\ pc.main = "released" /\ ~Referenced' => stop' /\ stopped'
    BY <2>1 DEF LastReferenceDropped
  <2>3. QED
    BY <2>1, <2>2
<1>5. CASE Shot("main")
  <2>1. /\ pc'.context = pc.context /\ ~Destroyed /\ pc'.main \notin {"join", "released"}
        /\ UNCHANGED <<stop, stopped, other>>
        /\ process' = "running" => process = "running"
    BY <1>1, <1>5 DEF Shot, ShotLock, ShotCapture, ShotEncode, Goto, AfterShot, Shapes,
                      threadVars
  <2>2. Stopping'
    BY <2>1
  <2>3. /\ io_controller_mutex' = "main" => pc'.main = "shot_capture"
        /\ io_controller_mutex' = "context" => io_controller_mutex = "context"
    BY <1>1, <1>5 DEF Shot, ShotLock, ShotCapture, ShotEncode, Goto, AfterShot, Shapes
  <2>4. Holding'
    BY <2>1, <2>3
  <2>5. QED
    BY <2>2, <2>4
<1>6. CASE Shot("context")
  <2>1. /\ pc'.main = pc.main /\ ~Destroyed /\ UNCHANGED <<stop, stopped, other>>
        /\ pc.context \in ShotSteps /\ pc'.context \in ShotSteps \cup {"run"}
        /\ process' = "running" => process = "running"
    BY <1>1, <1>6 DEF Shot, ShotLock, ShotCapture, ShotEncode, Goto, AfterShot, Shapes,
                      threadVars
  <2>2. Stopping'
    BY <2>1
  <2>3. /\ io_controller_mutex' = "context" => pc'.context = "shot_capture"
        /\ io_controller_mutex' = "main" => io_controller_mutex = "main"
    BY <1>1, <1>6 DEF Shot, ShotLock, ShotCapture, ShotEncode, Goto, AfterShot, Shapes
  <2>4. Holding'
    BY <2>1, <2>3
  <2>5. QED
    BY <2>2, <2>4
<1>7. CASE scheduleAsyncPollIOEvents \/ LoopTest \/ IoLock \/ HandledAll
  <2>1. /\ pc'.context = pc.context /\ pc.main \notin {"join", "released"}
        /\ pc'.main \notin {"join", "released"} /\ UNCHANGED <<stop, stopped, other, process>>
        /\ io_controller_mutex' = "main" => pc'.main = "io_handle"
        /\ io_controller_mutex' = "context" => io_controller_mutex = "context"
    <3>1. CASE scheduleAsyncPollIOEvents
      BY <1>1, <3>1 DEF scheduleAsyncPollIOEvents, Goto, Shapes, threadVars
    <3>2. CASE LoopTest
      BY <1>1, <3>2 DEF LoopTest, Goto, Shapes, threadVars
    <3>3. CASE IoLock
      BY <1>1, <3>3 DEF IoLock, Goto, Shapes, threadVars
    <3>4. CASE HandledAll
      BY <1>1, <3>4 DEF HandledAll, Goto, Shapes, threadVars
    <3>5. QED
      BY <1>7, <3>1, <3>2, <3>3, <3>4
  <2>2. QED
    BY <2>1
<1>8. CASE ReleaseStreamer
  <2>1. /\ pc.main = "returned" /\ pc'.context = pc.context /\ other \in {"idle", "returned"}
        /\ UNCHANGED <<read, write, io_controller_mutex, other, process>>
        /\ Referenced => pc'.main = "released" /\ UNCHANGED <<stop, stopped>>
        /\ ~Referenced => pc'.main = "join" /\ stop' /\ stopped'
    BY <1>1, <1>8 DEF ReleaseStreamer, DetachesItself, Goto, Shapes, socketVars
  <2>2. CASE Referenced
    BY <2>1, <2>2
  <2>3. CASE ~Referenced
    BY <2>1, <2>3
  <2>4. QED
    BY <2>2, <2>3
<1>9. CASE JoinContextThread
  <2>1. /\ pc.main = "join" /\ pc'.main = "released"
        /\ pc.context = "done" /\ pc'.context = "done" /\ process = "running"
        /\ UNCHANGED <<read, write, io_controller_mutex, stop, stopped, other>>
    BY <1>1, <1>9 DEF JoinContextThread, Goto, Shapes, socketVars, threadVars
  <2>2. QED
    BY <2>1
<1>10. CASE ContextStep
  <2>1. /\ pc'.main = pc.main
        /\ UNCHANGED <<read, write, io_controller_mutex, stop, other, process>>
        /\ pc.context \in {"check", "run", "restart"}
        /\ pc'.context = "run" => ~stop
        /\ pc'.context \in {"run", "done", "restart", "check"}
    BY <1>1, <1>10 DEF ContextStep, CheckStop, RunReturns, Restart, Goto, Shapes,
                       socketVars, threadVars
  <2>2. QED
    BY <2>1
<1>11. CASE WriteHandled
  <2>1. /\ pc'.main = pc.main /\ pc.context = "run" /\ pc'.context = "shot_lock"
        /\ ~stopped /\ ~Destroyed
        /\ UNCHANGED <<io_controller_mutex, stop, stopped, other, process>>
    BY <1>1, <1>11 DEF WriteHandled, Goto, Shapes, threadVars
  <2>2. QED
    BY <2>1
<1>12. CASE HandlerTooLate
  <2>1. /\ pc.main = "released" /\ pc'.main = "released" /\ pc'.context = "run"
        /\ process = "running" /\ Referenced
        /\ UNCHANGED <<io_controller_mutex, other>>
        /\ pc.context \in ShotSteps \/ (pc.context = "run" /\ ~stopped)
    BY <1>1, <1>12 DEF HandlerTooLate, Shapes
  <2>2. /\ stop => stop'
        /\ stopped => stopped'
        /\ process' = "running" /\ ~Referenced' => stop' /\ stopped'
    BY <1>12, <2>1 DEF HandlerTooLate, LastReferenceDropped
  <2>3. QED
    BY <2>1, <2>2
<1>13. CASE RequestStop
  <2>1. /\ UNCHANGED <<pc, read, write, io_controller_mutex, stopped, process>>
        /\ ~Destroyed /\ stop' /\ other' = "close"
    BY <1>13 DEF RequestStop, Step, socketVars
  <2>2. QED
    BY <2>1
<1>14. CASE DisconnectStep
  <2>1. /\ UNCHANGED <<pc, read, write, io_controller_mutex, stop, process>>
        /\ stopped => stopped'
        /\ other' # "idle" /\ other \in {"close", "stop_context", "join"}
        /\ other' = "join" => stopped'
        /\ other' = "returned" => pc.context = "done"
    BY <1>14 DEF DisconnectStep, CloseSocket, StopContext, Join, Step, socketVars
  <2>2. QED
    BY <2>1
<1>15. QED
  BY <1>2, <1>3, <1>4, <1>5, <1>6, <1>7, <1>8, <1>9, <1>10, <1>11, <1>12, <1>13, <1>14
     DEF Next, MainStep, ReadStep, WriteStep, Thread

\* Neither the mutex nor a join brings the streamer's threads to a halt: disconnect and
\* the destructor join a context thread that can end, also when it waits for the
\* mutex in a screenshot, and who waits for the mutex waits for a thread at the
\* display, which does not wait (start, disconnect, ~ClientSocket, run,
\* scheduleAsyncSendScreenshots).
THEOREM NoThreadBlockedHolds == Spec => []NoThreadBlocked
<1>1. Sound /\ Stopping /\ Holding => NoThreadBlocked
  <2>1. SUFFICES ASSUME Sound, Stopping, Holding, Running
                 PROVE  NoThreadBlocked
    BY DEF NoThreadBlocked
  <2>2. /\ io_controller_mutex \in {"main", "context", "free"}
        /\ pc.context \in {"check", "run", "restart", "done"} \cup ShotSteps
    BY <2>1 DEF Sound, TypeOK, Thread
  <2>3. ASSUME pc.main \in {"shot_lock", "io_lock"} \/ pc.context = "shot_lock"
        PROVE  MainGoes \/ ContextGoes
    BY <2>1, <2>2, <2>3 DEF Holding, MainGoes, ContextGoes
  <2>4. ASSUME Ending, pc.context \notin ShotSteps
        PROVE  pc.context = "done" \/ ContextGoes
    BY <2>1, <2>2, <2>4 DEF Stopping, ContextGoes
  <2>5. ASSUME pc.context \in {"shot_capture", "shot_encode"}
        PROVE  ContextGoes
    BY <2>5 DEF ContextGoes
  <2>6. ASSUME pc.context = "shot_lock"
        PROVE  ContextGoes \/ MainGoes
    BY <2>3, <2>6
  <2>7. pc.main = "join" \/ (pc.main = "released" /\ ~Referenced) =>
          Ending /\ pc.context \notin ShotSteps
    BY <2>1 DEF Holding, Referenced, Ending
  <2>8. other = "join" => Ending
    BY <2>1 DEF Ending
  <2>9. QED
    BY <2>3, <2>4, <2>5, <2>6, <2>7, <2>8 DEF NoThreadBlocked, ShotSteps
<1>2. Init => Stopping /\ Holding
  BY WaitsInit
<1>3. Sound /\ Stopping /\ Holding /\ [Next]_vars => Stopping' /\ Holding'
  BY WaitsStep
<1>4. QED
  BY <1>1, <1>2, <1>3, SoundHolds, PTL DEF Spec
-----------------------------------------------------------------------------
(***************************************************************************)
(* Outliving.  Which handlers can be called when the streamer is gone.     *)
(***************************************************************************)

\* No message is in two places, and disconnect returns only to a context thread that
\* has ended.
Waited ==
  /\ pushed.all + (IF read = "ready" THEN 1 ELSE 0) + Len(wire) \leq inputs
  /\ other = "returned" => pc.context = "done"

\* When nobody has disconnected, a header that was refused is what closed the socket.
Alone == other = "idle" /\ socket = "closed"

ClosedByRefusal == Alone => pc.main # "poll" /\ read = "none" /\ Refused

\* A step that moves no message and neither closes the socket nor starts a read.
LEMMA WaitedFrame ==
  ASSUME Waited, ClosedByRefusal, UNCHANGED <<wire, inputs, pushed, socket>>,
         \/ UNCHANGED read
         \/ read = "pending" /\ read' = "none"
         \/ read = "none" /\ read' = "pending" /\ pc.main = "poll",
         pc'.main = "poll" => pc.main = "poll",
         pc.context = "done" => pc'.context = "done",
         other' = "idle" => other = "idle",
         other' = "returned" => other = "returned" \/ pc'.context = "done"
  PROVE  Waited' /\ ClosedByRefusal'
BY DEF Waited, ClosedByRefusal, Alone, Refused

\* Both parts hold after every step.
LEMMA WaitedStep ==
  ASSUME Sound, Waited, ClosedByRefusal, [Next]_vars
  PROVE  Waited' /\ ClosedByRefusal'
<1> USE DEF netVars, socketVars, queueVars, threadVars
<1>0. /\ "main" \in Thread /\ "context" \in Thread /\ Shapes
      /\ inputs \in Nat /\ pushed.all \in Nat /\ Len(wire) \in Nat
      /\ pc.main = "poll" => read = "none"
  BY DEF Thread, Sound, Shapes, Order
<1>1. ASSUME NEW kind \in Kind, PeerSends(kind) PROVE Waited' /\ ClosedByRefusal'
  <2>1. /\ inputs' = inputs + 1 /\ Len(wire') = Len(wire) + 1
        /\ UNCHANGED <<pushed, pc, other, socket, read>>
    BY <1>0, <1>1 DEF PeerSends, Shapes
  <2>2. QED
    BY <1>0, <2>1 DEF Waited, ClosedByRefusal, Alone, Refused
<1>2. CASE ReadArrives
  <2>1. /\ read = "pending" /\ read' = "ready" /\ Len(wire') = Len(wire) - 1
        /\ UNCHANGED <<inputs, pushed, pc, other, socket>>
    BY <1>0, <1>2 DEF ReadArrives, Shapes
  <2>2. QED
    BY <1>0, <2>1 DEF Waited, ClosedByRefusal, Alone
<1>3. CASE PushMessage
  <2>1. /\ read = "ready" /\ read' = "pending" /\ pushed'.all = pushed.all + 1
        /\ UNCHANGED <<inputs, wire, pc, other, socket>>
    BY <1>3 DEF PushMessage
  <2>2. QED
    BY <1>0, <2>1 DEF Waited, ClosedByRefusal, Alone
<1>4. CASE RefuseHeader
  <2>1. /\ read = "ready" /\ read' = "none"
        /\ UNCHANGED <<inputs, wire, pushed, pc, other>>
    BY <1>4 DEF RefuseHeader
  <2>2. pc.main # "poll" /\ Refused'
    BY <1>0, <2>1 DEF Waited, Refused
  <2>3. QED
    BY <1>0, <2>1, <2>2 DEF Waited, ClosedByRefusal, Refused
<1>5. CASE MainStep \/ IoLock \/ ReleaseStreamer \/ Shot("main")
  <2>1. pc'.context = pc.context /\ pc'.main # "poll"
    BY <1>0, <1>5, MainPlaces
  <2>2. /\ UNCHANGED <<wire, inputs, pushed, socket, other>>
        /\ \/ UNCHANGED read
           \/ read = "none" /\ read' = "pending" /\ pc.main = "poll"
    BY <1>0, <1>5
       DEF MainStep, scheduleAsyncPollIOEvents, LoopTest, HandleInput, HandledAll,
           JoinContextThread, IoLock, ReleaseStreamer, Shot, ShotLock, ShotCapture,
           ShotEncode, Goto
  <2>3. QED
    BY <2>1, <2>2, WaitedFrame
<1>6. CASE ContextStep \/ WriteHandled \/ HandlerTooLate \/ Shot("context")
  <2>1. pc'.main = pc.main
    BY <1>0, <1>6, ContextPlaces
  <2>2. UNCHANGED <<wire, inputs, pushed, socket, other, read>> /\ pc.context # "done"
    BY <1>6 DEF ContextStep, CheckStop, RunReturns, Restart, WriteHandled,
                HandlerTooLate, Shot, ShotLock, ShotCapture, ShotEncode, Goto, ShotSteps
  <2>3. QED
    BY <2>1, <2>2, WaitedFrame
<1>7. CASE ReadFails
  BY <1>7, WaitedFrame DEF ReadFails
<1>8. CASE \/ PeerLeaves \/ WriteDone \/ WriteFails \/ RequestStop \/ StopContext
           \/ Join \/ UNCHANGED vars
  <2>1. /\ UNCHANGED <<wire, inputs, pushed, socket, read, pc>>
        /\ other' = "idle" => other = "idle"
        /\ other' = "returned" => other = "returned" \/ pc.context = "done"
    BY <1>8 DEF PeerLeaves, WriteDone, WriteFails, RequestStop, StopContext, Join, Step, vars
  <2>2. QED
    BY <2>1, WaitedFrame
<1>9. CASE CloseSocket
  <2>1. /\ other' = "stop_context" /\ UNCHANGED <<wire, inputs, pushed, read, pc>>
    BY <1>9 DEF CloseSocket, Step
  <2>2. QED
    BY <2>1 DEF Waited, ClosedByRefusal, Alone
<1>10. QED
  BY <1>1, <1>2, <1>3, <1>4, <1>5, <1>6, <1>7, <1>8, <1>9
     DEF Next, ReadStep, WriteStep, DisconnectStep, Thread

\* No handler is called once the streamer is destroyed, but for a screenshot's after a
\* refused header: disconnect has joined the thread that runs them, and a socket
\* that nobody disconnected was closed by the read handler, which then reads no more
\* (ScreenViewerStreamer's handlers, ClientSocket::disconnect, asyncReadHeader).
THEOREM OutlivedOnlyAfterRefusalHolds == Spec => []OutlivedOnlyAfterRefusal
<1>1. Sound /\ Holding /\ Waited /\ ClosedByRefusal => OutlivedOnlyAfterRefusal
  <2>1. SUFFICES ASSUME Sound, Holding, Waited, ClosedByRefusal, Running, Destroyed
                 PROVE  /\ Polling => read # "ready"
                        /\ ShotHandler => other = "idle" /\ Refused
    BY DEF OutlivedOnlyAfterRefusal
  <2>2. socket = "closed" /\ other \in {"idle", "returned"}
    BY <2>1 DEF Sound, Closing, Holding, Destroyed, TypeOK
  <2>3. CASE other = "idle"
    BY <2>1, <2>2, <2>3 DEF ClosedByRefusal, Alone
  <2>4. CASE other = "returned"
    BY <2>1, <2>4 DEF Waited, Polling, ShotHandler, ShotSteps
  <2>5. QED
    BY <2>2, <2>3, <2>4
<1>2. Init => Stopping /\ Holding /\ Waited /\ ClosedByRefusal
  <2>1. Init => Waited /\ ClosedByRefusal
    BY EmptySeq DEF Init, Waited, ClosedByRefusal, Alone
  <2>2. QED
    BY <2>1, WaitsInit
<1>3. /\ Sound /\ Stopping /\ Holding /\ [Next]_vars => Stopping' /\ Holding'
      /\ Sound /\ Waited /\ ClosedByRefusal /\ [Next]_vars => Waited' /\ ClosedByRefusal'
  BY WaitsStep, WaitedStep
<1>4. QED
  BY <1>1, <1>2, <1>3, SoundHolds, PTL DEF Spec
=============================================================================
