------------------------------- MODULE Streamer -------------------------------
(***************************************************************************)
(* The program that streams a screen: ScreenViewerStreamer on top of a     *)
(* ClientSocket.  Three threads share the socket:                          *)
(*                                                                         *)
(*   "main"     runs ScreenViewerStreamer::run: it starts the first read   *)
(*              and the first screenshot and then handles the user inputs  *)
(*              that have been queued, until the socket is closed;         *)
(*   "context"  is the ClientSocket's context_thread: it runs the          *)
(*              completion handlers, which queue inputs and take and send  *)
(*              the next screenshot;                                       *)
(*   other      is whoever calls ClientSocket::disconnect, as the test of  *)
(*              the streamer does.                                         *)
(*                                                                         *)
(* The session is past its START_STREAM.  The peer is the server's end of  *)
(* the connection.  A message is read in one step (Framing has the header  *)
(* and the content); what a screenshot shows is left out.                  *)
(*                                                                         *)
(* A definition introduced by "Mutant:" is no part of the model.           *)
(***************************************************************************)
EXTENDS Naturals, Sequences

CONSTANT MaxInputs  \* bound: messages the peer sends

ASSUME InputsAssumption == MaxInputs \in Nat

VARIABLES
  peer,      \* the other end: "up", closed ("gone") or "reset"
  inputs,    \* how many messages the peer has sent
  wire,      \* those of them that have not been read
  socket,    \* the streamer's end
  read,      \* the asyncReadMessage: "none", "pending" or "ready" to be handled
  arrived,   \* what data_buffer holds for the handler
  write,     \* the asyncSendMessage of a screenshot, likewise
  messages,  \* the queue between the two threads
  handled,   \* history: numbers of the messages handleInput has had
  pushed,    \* history: messages pushed, in all and before the socket closed
  io_controller_mutex,
  pc,        \* where "main" and "context" are
  stop,      \* stop_requested of context_thread
  stopped,   \* the io_context is stopped
  other,     \* where the thread that disconnects is
  process    \* "down" once an exception has left a thread, "terminated" once one
             \* has left a destructor

netVars    == <<peer, inputs, wire>>
queueVars  == <<messages, handled, pushed>>
socketVars == <<socket, read, arrived, write>>
threadVars == <<stop, stopped, other>>

vars == <<netVars, socketVars, queueVars, io_controller_mutex, pc, threadVars, process>>

Thread == {"main", "context"}

\* Inside scheduleAsyncSendScreenshots.
ShotSteps == {"shot_lock", "shot_capture", "shot_encode"}

\* An input is a keyboard or mouse message, or one of another type, which
\* handleInput only logs; "short" is one whose content is not of the size of
\* its event, "refused" one whose header deserialize rejects.
Kind == {"input", "short", "refused"}

NoMessage == [id |-> 0, kind |-> "none"]

Init ==
  /\ peer = "up"
  /\ inputs = 0
  /\ wire = <<>>
  /\ socket = "open"
  /\ read = "none"
  /\ arrived = NoMessage
  /\ write = "none"
  /\ messages = <<>>
  /\ handled = <<>>
  /\ pushed = [all |-> 0, open |-> 0]
  /\ io_controller_mutex = "free"
  /\ pc = [main |-> "poll", context |-> "check"]
  /\ stop = FALSE
  /\ stopped = FALSE
  /\ other = "idle"
  /\ process = "running"

Running == process = "running"

\* A pending operation and a running handler hold the ClientSocket; the
\* streamer they call back is not held by anybody but main.
Referenced == read # "none" \/ write # "none" \/ pc.context \in ShotSteps

Destroyed == pc.main \in {"join", "released"}

Goto(t, from, to) ==
  /\ Running
  /\ pc[t] = from
  /\ pc' = [pc EXCEPT ![t] = to]
-----------------------------------------------------------------------------
(***************************************************************************)
(* The peer.                                                               *)
(***************************************************************************)
PeerSends(kind) ==
  /\ peer = "up"
  /\ inputs < MaxInputs
  /\ inputs' = inputs + 1
  /\ wire' = Append(wire, [id |-> inputs + 1, kind |-> kind])
  /\ UNCHANGED <<peer, socketVars, queueVars, io_controller_mutex, pc, threadVars,
                 process>>

PeerLeaves ==
  /\ \/ peer = "up" /\ peer' = "gone"
     \/ peer = "gone" /\ peer' = "reset"
  /\ UNCHANGED <<inputs, wire, socketVars, queueVars, io_controller_mutex, pc,
                 threadVars, process>>

\* disconnect: the send of its message, if there is one, or shutdown throws on a
\* stream that has been reset, and then close is not reached.
Closed == IF peer = "reset" THEN socket ELSE "closed"
-----------------------------------------------------------------------------
(***************************************************************************)
(* scheduleAsyncSendScreenshots, first on main and then, out of each       *)
(* completed write, on context: lock and capture, then encode and send.    *)
(* captureScreenshot may throw; the lock_guard unlocks, and the exception  *)
(* ends the process, out of main() or out of context_thread.               *)
(***************************************************************************)
ShotLock(t) ==
  /\ io_controller_mutex = "free"
  /\ Goto(t, "shot_lock", "shot_capture")
  /\ io_controller_mutex' = t
  /\ UNCHANGED <<netVars, socketVars, queueVars, threadVars, process>>

ShotCapture(t) ==
  /\ Goto(t, "shot_capture", "shot_encode")
  /\ io_controller_mutex' = "free"
  /\ process' \in {"running", "down"}
  /\ UNCHANGED <<netVars, socketVars, queueVars, threadVars>>

AfterShot(t) == IF t = "main" THEN "test_1" ELSE "run"

\* Mutant: the next screenshot does not wait for the write to complete.
ShotEncodeAtOnce(t) ==
  /\ Goto(t, "shot_encode", IF t = "main" THEN "test_1" ELSE "shot_lock")
  /\ write' \in {"pending", "none"}
  /\ UNCHANGED <<netVars, socket, read, arrived, queueVars, io_controller_mutex,
                 threadVars, process>>

\* The encoder may have no packet; nothing schedules another screenshot then.
ShotEncode(t) ==
  /\ Goto(t, "shot_encode", AfterShot(t))
  /\ write' \in {"pending", "none"}
  /\ UNCHANGED <<netVars, socket, read, arrived, queueVars, io_controller_mutex,
                 threadVars, process>>

Shot(t) == ~Destroyed /\ (ShotLock(t) \/ ShotCapture(t) \/ ShotEncode(t))
-----------------------------------------------------------------------------
(***************************************************************************)
(* The main thread: run.                                                   *)
(***************************************************************************)
scheduleAsyncPollIOEvents ==
  /\ Goto("main", "poll", "shot_lock")
  /\ read' = "pending"
  /\ UNCHANGED <<netVars, socket, arrived, write, queueVars, io_controller_mutex,
                 threadVars, process>>

\* Mutant: the operands of the loop's condition are swapped.
LoopOperandSwapped(n) == IF n = 1 THEN messages # <<>> ELSE socket = "open"

\* Mutant: run ends when there is nothing left to handle.
LoopOperandQueue(n) == messages # <<>>

\* socket->isOpen() || !messages.empty(): two reads of what others change.
LoopOperand(n) == IF n = 1 THEN socket = "open" ELSE messages # <<>>

LoopTest ==
  /\ \/ Goto("main", "test_1", IF LoopOperand(1) THEN "io_lock" ELSE "test_2")
     \/ Goto("main", "test_2", IF LoopOperand(2) THEN "io_lock" ELSE "returned")
  /\ UNCHANGED <<netVars, socketVars, queueVars, io_controller_mutex, threadVars,
                 process>>

IoLock ==
  /\ io_controller_mutex = "free"
  /\ Goto("main", "io_lock", "io_handle")
  /\ io_controller_mutex' = "main"
  /\ UNCHANGED <<netVars, socketVars, queueVars, threadVars, process>>

\* handleInput of the message popped: convertTo throws when the content has
\* not the size of the event, out of run and out of main().
HandleInput ==
  /\ messages # <<>>
  /\ Goto("main", "io_handle", "io_handle")
  /\ messages' = Tail(messages)
  /\ handled' = Append(handled, Head(messages).id)
  /\ process' = IF Head(messages).kind = "short" THEN "down" ELSE "running"
  /\ UNCHANGED <<netVars, socketVars, pushed, io_controller_mutex, threadVars>>

\* try_pop finds nothing: unlock, sleep, and test the condition again.
HandledAll ==
  /\ messages = <<>>
  /\ Goto("main", "io_handle", "test_1")
  /\ io_controller_mutex' = "free"
  /\ UNCHANGED <<netVars, socketVars, queueVars, threadVars, process>>
-----------------------------------------------------------------------------
(***************************************************************************)
(* The end of main.  The streamer is destroyed and its shared_ptr to the   *)
(* ClientSocket goes, unless the caller of disconnect still has one.  A    *)
(* pending operation holds another; whoever drops the last one runs        *)
(* ~ClientSocket.  On main that ends in joining context_thread, the member *)
(* jthread; on context_thread itself the thread is detached instead.       *)
(***************************************************************************)
\* Mutant: ~ClientSocket never detaches, and its jthread joins on any thread.
DetachesNobody(t) == FALSE

\* The thread that runs ~ClientSocket is the one it would join.
DetachesItself(t) == t = "context"

ReleaseStreamer ==
  /\ other \in {"idle", "returned"}
  /\ Goto("main", "returned", IF Referenced \/ DetachesItself("main") THEN "released" ELSE "join")
  /\ IF Referenced
       THEN UNCHANGED <<stop, stopped>>
       ELSE stop' = TRUE /\ stopped' = TRUE
  /\ UNCHANGED <<netVars, socketVars, queueVars, io_controller_mutex, other, process>>

JoinContextThread ==
  /\ pc.context = "done"
  /\ Goto("main", "join", "released")
  /\ UNCHANGED <<netVars, socketVars, queueVars, io_controller_mutex, threadVars,
                 process>>

\* ~ClientSocket on context_thread, when the step has ended the last operation:
\* a jthread that joins itself throws, out of a destructor.
LastReferenceDropped ==
  IF pc.main = "released" /\ ~Referenced'
    THEN /\ stop' = TRUE /\ stopped' = TRUE
         /\ process' = IF DetachesItself("context") THEN process ELSE "terminated"
    ELSE UNCHANGED <<stop, stopped, process>>
-----------------------------------------------------------------------------
(***************************************************************************)
(* The context thread: run() executes handlers until it is stopped or has  *)
(* nothing left to wait for, and is then started again.                    *)
(***************************************************************************)
CheckStop ==
  /\ Goto("context", "check", IF stop THEN "done" ELSE "run")
  /\ UNCHANGED <<netVars, socketVars, queueVars, io_controller_mutex, threadVars,
                 process>>

RunReturns ==
  /\ stopped \/ ~Referenced
  /\ Goto("context", "run", "restart")
  /\ stopped' = TRUE
  /\ UNCHANGED <<netVars, socketVars, queueVars, io_controller_mutex, stop, other,
                 process>>

Restart ==
  /\ Goto("context", "restart", "check")
  /\ stopped' = FALSE
  /\ UNCHANGED <<netVars, socketVars, queueVars, io_controller_mutex, stop, other,
                 process>>

Polling == Running /\ pc.context = "run" /\ ~stopped

ReadArrives ==
  /\ Polling
  /\ read = "pending" /\ socket = "open" /\ peer # "reset"
  /\ wire # <<>>
  /\ read' = "ready"
  /\ arrived' = Head(wire)
  /\ wire' = Tail(wire)
  /\ UNCHANGED <<peer, inputs, socket, write, queueVars, io_controller_mutex, pc,
                 threadVars, process>>

\* Mutant: the messages in the queue refer to data_buffer, which every read
\* overwrites, instead of owning a copy.
PushBorrowed ==
  /\ Polling
  /\ read = "ready" /\ arrived.kind # "refused"
  /\ messages' = [i \in 1..(Len(messages) + 1) |-> arrived]
  /\ pushed' = [all |-> pushed.all + 1,
                open |-> IF socket = "open" THEN pushed.all + 1 ELSE pushed.open]
  /\ read' = "pending"
  /\ arrived' = NoMessage
  /\ UNCHANGED <<netVars, socket, write, handled, io_controller_mutex, pc,
                 threadVars, process>>

\* The handler of scheduleAsyncPollIOEvents: push a copy and read on.
PushMessage ==
  /\ Polling
  /\ read = "ready" /\ arrived.kind # "refused"
  /\ messages' = Append(messages, arrived)
  /\ pushed' = [all |-> pushed.all + 1,
                open |-> IF socket = "open" THEN pushed.all + 1 ELSE pushed.open]
  /\ read' = "pending"
  /\ arrived' = NoMessage
  /\ UNCHANGED <<netVars, socket, write, handled, io_controller_mutex, pc,
                 threadVars, process>>

\* MessageHeaderException: safeDisconnect, no new read.
RefuseHeader ==
  /\ Polling
  /\ read = "ready" /\ arrived.kind = "refused"
  /\ socket' = Closed
  /\ read' = "none"
  /\ arrived' = NoMessage
  /\ UNCHANGED <<netVars, write, queueVars, io_controller_mutex, pc, other>>
  /\ LastReferenceDropped

\* The read ends in an error, which is only logged.
ReadFails ==
  /\ Polling
  /\ read = "pending"
  /\ \/ socket = "closed"
     \/ peer = "gone" /\ wire = <<>>
     \/ peer = "reset"
  /\ read' = "none"
  /\ UNCHANGED <<netVars, socket, arrived, write, queueVars, io_controller_mutex, pc,
                 other>>
  /\ LastReferenceDropped

WriteDone ==
  /\ Polling
  /\ write = "pending" /\ socket = "open" /\ peer # "reset"
  /\ write' = "ready"
  /\ UNCHANGED <<netVars, socket, read, arrived, queueVars, io_controller_mutex, pc,
                 threadVars, process>>

\* The handler of a completed write takes the next screenshot.
WriteHandled ==
  /\ write = "ready" /\ ~stopped
  /\ ~Destroyed
  /\ Goto("context", "run", "shot_lock")
  /\ write' = "none"
  /\ UNCHANGED <<netVars, socket, read, arrived, queueVars, io_controller_mutex,
                 threadVars, process>>

\* The same handler when the streamer it captured as "this" has been destroyed,
\* before it runs or while it does: it crashes, or goes unnoticed until its
\* write meets the closed socket.
HandlerTooLate ==
  /\ Running
  /\ pc.main = "released"
  /\ \/ write = "ready" /\ pc.context = "run" /\ ~stopped
     \/ pc.context \in ShotSteps
  /\ write' = "none"
  /\ pc' = [pc EXCEPT !.context = "run"]
  /\ UNCHANGED <<netVars, socket, read, arrived, queueVars, io_controller_mutex, other>>
  /\ \/ LastReferenceDropped
     \/ process' = "down" /\ UNCHANGED <<stop, stopped>>

\* An error of the write: its handler is not called.
WriteFails ==
  /\ Polling
  /\ write = "pending"
  /\ socket = "closed" \/ peer # "up"
  /\ write' = "none"
  /\ UNCHANGED <<netVars, socket, read, arrived, queueVars, io_controller_mutex, pc,
                 other>>
  /\ LastReferenceDropped
-----------------------------------------------------------------------------
(***************************************************************************)
(* ClientSocket::disconnect, called once by another thread that holds the  *)
(* socket as well.                                                         *)
(***************************************************************************)
Step(from, to) ==
  /\ Running
  /\ other = from
  /\ other' = to

RequestStop ==
  /\ pc.main \notin {"join", "released"}
  /\ Step("idle", "close")
  /\ stop' = TRUE
  /\ UNCHANGED <<netVars, socketVars, queueVars, io_controller_mutex, pc, stopped,
                 process>>

\* safeDisconnect(std::nullopt)
CloseSocket ==
  /\ Step("close", "stop_context")
  /\ socket' = Closed
  /\ UNCHANGED <<netVars, read, arrived, write, queueVars, io_controller_mutex, pc,
                 stop, stopped, process>>

StopContext ==
  /\ Step("stop_context", "join")
  /\ stopped' = TRUE
  /\ UNCHANGED <<netVars, socketVars, queueVars, io_controller_mutex, pc, stop, process>>

\* Mutant: disconnect returns without the join.
JoinNothing ==
  /\ Step("join", "returned")
  /\ UNCHANGED <<netVars, socketVars, queueVars, io_controller_mutex, pc, stop, stopped,
                 process>>

Join ==
  /\ pc.context = "done"
  /\ Step("join", "returned")
  /\ UNCHANGED <<netVars, socketVars, queueVars, io_controller_mutex, pc, stop, stopped,
                 process>>
-----------------------------------------------------------------------------
MainStep ==
  \/ scheduleAsyncPollIOEvents \/ LoopTest \/ HandleInput \/ HandledAll
  \/ JoinContextThread

ContextStep == CheckStop \/ RunReturns \/ Restart

ReadStep == ReadArrives \/ PushMessage \/ RefuseHeader \/ ReadFails

WriteStep == WriteHandled \/ HandlerTooLate \/ WriteFails

DisconnectStep == CloseSocket \/ StopContext \/ Join

Next ==
  \/ \E kind \in Kind : PeerSends(kind)
  \/ PeerLeaves
  \/ \E t \in Thread : Shot(t)
  \/ MainStep \/ IoLock \/ ReleaseStreamer
  \/ ContextStep \/ ReadStep \/ WriteDone \/ WriteStep
  \/ RequestStop \/ DisconnectStep

Spec == Init /\ [][Next]_vars

(***************************************************************************)
(* Every thread goes on when it can.  One that waits for the mutex gets it *)
(* if it is freed again and again (the other thread sleeps or waits for a  *)
(* write in between), and run() gets to every operation that is ready.     *)
(* The peer need not take what is written, nor main release the streamer.  *)
(***************************************************************************)
Fairness ==
  /\ \A t \in Thread : SF_vars(Shot(t))
  /\ WF_vars(MainStep) /\ SF_vars(IoLock)
  /\ SF_vars(ContextStep)
  /\ SF_vars(ReadStep)
  /\ SF_vars(WriteStep)
  /\ WF_vars(DisconnectStep)

FairSpec == Spec /\ Fairness
-----------------------------------------------------------------------------
(***************************************************************************)
(* Properties.                                                             *)
(***************************************************************************)
Ids(queue) == [i \in 1..Len(queue) |-> queue[i].id]

\* The values every variable takes.
TypeOK ==
  /\ peer \in {"up", "gone", "reset"}
  /\ inputs \in 0..MaxInputs
  /\ \A i \in 1..Len(wire) : wire[i] \in [id : 1..inputs, kind : Kind]
  /\ socket \in {"open", "closed"}
  /\ read \in {"none", "pending", "ready"}
  /\ arrived \in [id : 1..inputs, kind : Kind] \cup {NoMessage}
  /\ read = "ready" <=> arrived # NoMessage
  /\ write \in {"none", "pending", "ready"}
  /\ \A i \in 1..Len(messages) : messages[i] \in [id : 1..inputs, kind : Kind]
  /\ pushed \in [all : 0..inputs, open : 0..inputs]
  /\ io_controller_mutex \in Thread \cup {"free"}
  /\ pc.main \in {"poll", "test_1", "test_2", "io_lock", "io_handle", "returned",
                  "join", "released"} \cup ShotSteps
  /\ pc.context \in {"check", "run", "restart", "done"} \cup ShotSteps
  /\ stop \in BOOLEAN /\ stopped \in BOOLEAN
  /\ other \in {"idle", "close", "stop_context", "join", "returned"}
  /\ process \in {"running", "down", "terminated"}

\* The inputs handled, and after them those still queued, are the messages
\* read, each once and in the order the peer sent them, although one thread
\* reads them into a buffer it uses again and another one handles them.
InputsInOrder == handled \o Ids(messages) = [i \in 1..pushed.all |-> i]

\* When run returns, every message that was pushed before the socket closed
\* has been handled (the condition of its loop asks for the socket first).
QueueDrained ==
  pc.main \in {"returned", "join", "released"} => Len(handled) >= pushed.open

\* What the two threads share has one user at a time.  The IOController, that is
\* the one X display, is never used by both; and nobody starts a write, captures
\* or encodes while a write or another screenshot is under way (a stream allows
\* one async_write, and the encoder has no lock).
OneControllerUser ==
  ~(pc.main \in {"shot_capture", "io_handle"} /\ pc.context = "shot_capture")

OneShot ==
  /\ ~(pc.main \in ShotSteps /\ pc.context \in ShotSteps)
  /\ \A t \in Thread : pc[t] \in ShotSteps => write = "none"

SharedOneAtATime == OneControllerUser /\ OneShot

\* A message has been read and not pushed: its header was refused.
Refused == pushed.all + (IF read = "ready" THEN 1 ELSE 0) + Len(wire) < inputs

\* A completed write is waiting for its handler, or has it running.
ShotHandler == (Polling /\ write = "ready") \/ pc.context \in ShotSteps

\* The handlers capture the streamer's this, which nothing keeps alive, and stop
\* being called before it is destroyed: those of a read always, and those of a
\* screenshot if the socket was closed by disconnect, which waits for them.  The
\* one way to outlive the streamer is a refused header: it closes the socket from
\* the context thread, run returns, and nobody has waited for the screenshots.
OutlivedOnlyAfterRefusal == Running /\ Destroyed =>
  /\ Polling => read # "ready"
  /\ ShotHandler => other = "idle" /\ Refused

\* Every input that was queued while the socket was open is handled in the end,
\* however often the other thread takes the mutex for its screenshots.
InputsHandled == <>[](Len(handled) >= pushed.open \/ process = "down")

RunReturned == pc.main \in {"returned", "join", "released"}

\* The threads end.  Once the socket is closed, by whichever thread, run returns,
\* and when the streamer has been released the context thread ends as well; and
\* disconnect returns: the context thread can be joined wherever it is when it
\* is asked to stop, and does not join itself when it is the one that drops the
\* last reference (start, disconnect, ~ClientSocket).  Only an exception of
\* main or of a handler excuses them, none of a destructor.
ThreadsEnd ==
  /\ socket = "closed" ~>
       [](\/ process = "down"
          \/ RunReturned /\ (pc.main = "released" => pc.context = "done"))
  /\ other = "close" ~> (other = "returned" \/ process = "down")

\* What the test of the streamer takes for granted: after disconnect has
\* returned, run returns.
RunReturnsAfterDisconnect ==
  other = "returned" ~>
    pc.main \in {"returned", "join", "released"} \/ process = "down"
=============================================================================
