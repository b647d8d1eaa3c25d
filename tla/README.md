# ScreenViewer: specifications, model checking and proofs

ScreenViewer streams the screen of one computer (the *streamer*) to another
(the *viewer*) and carries the viewer's mouse and keyboard back. Both connect
to a *proxy server*, which brings them together and from then on relays bytes.
This directory holds TLA+ models of that program, the TLC configurations that
check them on small instances, and TLAPS proofs. Paths below are relative to the
repository's root; `PROJECT.json` lists every run, every mapped definition with
its source lines, every hazard and every finding.

- [The system](#the-system)
- [Modules](#modules)
- [Runs and bounds](#runs-and-bounds)
- [Fairness](#fairness)
- [Findings](#findings)
- [Proofs](#proofs)
- [What is not modelled](#what-is-not-modelled)
- [Plan](#plan)

## The system

| component | state | operations | talks to |
|---|---|---|---|
| acceptor `ScreenViewerSessionsServer` | the io_context, the listening socket | accept (with a blocking TLS handshake), run, stop | makes sessions |
| session `AuthenticatedSession`, `ProxySession` | one TLS stream, `data_buffer`, at most one pending read | authenticateCallback, handleRead (REGISTER_STREAMER, FIND_STREAMER, anything else) | users, registry, client |
| registry `ServerSessionsManager` | `senders_sessions`, mutex `m`, cleaner thread | registerStreamer, createBridgeWithStreamer, terminateTimeoutClients, initCleanerThread, reset | sessions, bridge |
| `Bridge` | two streams, two buffers | read one side, write the other, close | both clients |
| framing `SocketBase`, `MessageHeader` | buffer, stream | send in chunks, asyncSendMessage, receive, asyncReadMessage, disconnect | every session and client |
| `ClientSocket` | io_context and its thread | login, requestStreamerID, findOtherClient, waitForStartStreamMessage, disconnect | proxy server |
| `ScreenViewerStreamer` | message queue, `io_controller_mutex`, encoder | run, read inputs, send screenshots | ClientSocket, `IOController` |
| `ScreenViewerClient` (viewer) | window, frame size, SDL's queue | receive a frame, handle events | ClientSocket, SDL |
| `X11IOController`, `Mouse` | the X display | capture, play events back | X server |
| `UsersManager`, `add_user` | one database connection, the table `user` | authenticate, addUser | sessions of both servers, PostgreSQL |
| codecs, rendering | libavcodec, SDL | | libraries |

**Lifetimes.** A server session has no owner. It lives as long as a
`shared_ptr` to it is in the completion handler of a pending read, in the
registry, or in the handler that runs; when the last one goes its destructor
closes the connection without a word. So "is a read scheduled again?" is the
question on which access control (a failed login is ended by *not* reading
again), the hand-over of streams and the clean-up of dead clients all rest.

**Threads.** On the server: one io thread for each of its two servers (sessions
and proxy), which runs all handlers and blocks in handshakes and in every write,
and the cleaner. Both io threads use one `UsersManager`. In the streamer:
`main`, and the `context_thread` of its ClientSocket. In the viewer: `main`
(its context thread has nothing to run).

**What is hard here.** Steps of the cleaner between those of a handler;
exceptions in the middle of a hand-over, after one of the two sides has been
told; one code for all streamers, so that a registration displaces the one
before; shutdown on connections that are gone; two threads around one mutex,
one queue and one display; a thread that may have to join itself; blocking
writes that stop both directions of a bridge; answers that carry no number;
chunk sizes at the buffer's limit; what SDL's queue and the poll loop do to
events; one database connection under two threads.

What makes each component correct:

- *Sessions and registry*: a stream has one user at a time; only clients that
  have logged in get anywhere; a streamer is given to one viewer at most; a claim
  is settled on both sides; nobody's connection is closed without a cause, and
  everybody's that has left is; a registration has one end.
- *Bridge*: bytes arrive complete and in order, neither direction starves, and
  its end harms nobody else.
- *Framing*: the receiver sees exactly the chunks that were sent, and refuses
  only what it has to.
- *Streamer*: inputs are handled once, in order and to the last; display,
  encoder and writer have one user; run, disconnect and the destructor end.
- *Viewer and controller*: what the user releases is released at the other end
  as what it was pressed as; a click lands where it was made; positions are inside
  the screen, but from a resize to the next picture.
- *Programs and server together*: whoever waits is answered, and takes no answer
  for another; an end that leaves is not waited for.
- *Users*: only the right password lets in; a known user is refused for a cause;
  a stored user stays.

## Modules

`Rendezvous` is the abstract specification of the proxy server: sessions are
outside, members, on offer, claiming, claimed, paired or gone, and one claim is
settled at a time. No threads, no sockets.

`ProxyServer` is the detailed one. `io` says where the io thread is inside a
handler: a handler is split exactly where another thread or a client can change
what the rest of it finds (after the registration, after the extraction, after
the ACK, after START_STREAM) and is one action otherwise. `reading[s]` is the
callback of the pending read, `sock[s]` the server's end of the connection
(`"backlog"`, `"open"`, `"moved"` into a bridge, `"closed"`), and `Release` is
the destructor: at the end of each step it closes every open stream that nobody
refers to any more. `peer[s]` is the client's end; a client that is `"gone"` has
closed its socket, and writes to it succeed until its kernel answers with a
reset. Every path by which a write or a handler fails is an action or a
disjunct. `Promise == INSTANCE Rendezvous WITH ...` is the refinement mapping.
Critical sections of the registry are single actions here.

`SessionsManager` opens them up: callers, cleaners and the main thread take the
mutex, one step per statement that matters, with the age of entries and with
history variables for what became of each session (`fate`) and how long it has
been on offer (`onOffer`, kept independently of the entry's `time_point`). The
`time_point` is the wall clock's (src/ServerSessionsManager.cpp:56): `SetClock` sets
it forward or back, which changes the age of every entry but not how long its
streamer has waited. Whoever is on offer then is `misdated`: it may be swept early
or kept on. The properties say that this ends with the offer.

`Clients` composes `ProxyServer` with the programs that connect to it. Each
connection is a streamer's `main`, a viewer's, or a foreign client that sends
anything. `at[s]` is the request of ClientSocket the program is in, `replies[s]`
what the server has sent and the program has not read. Each action of the server
is one of `ProxyServer`'s together with the answer it sends. The timeout of
`waitForStartStreamMessage` has no action: it is compared between two blocking
reads, and both programs give one that is as good as infinite.

`Bridge` opens up the two streams of one bridge, with numbered bytes. Both
directions are one set of actions with the peers swapped, because the code is:
`p` is the stream read from. Its `close` is the code's, which shuts down
`peer_one` twice. `ProxyServer`'s `BridgeEnds` is what remains of it.

`Stream` puts the streamer and the viewer at the ends of `Bridge`: the viewer's
one thread with its blocking receive and send, the streamer's context thread,
which blocks in nothing, and the failures of their constructors. A number is a
message here. Two foreign clients may take their places.

`Framing` is one direction of a connection: the cutting loop of `send`,
`asyncSendMessage` without one, and the reader. `Channel` is what its users see of
it: messages are taken one by one as they were given, each if and only if the reader
has room for it, and the first that it has no room for closes the channel.
`Messages == INSTANCE Channel WITH ...` is the mapping, in which the pieces that are to
be received (`Expected`) are what was given. `Bridge` is two channels to its clients, one
in each direction (`FromOne`, `FromTwo`), with room for every byte. `ProxyServer` and `Streamer` treat a
message as one unit on the strength of it.

`Streamer` has the streamer's `main`, the context thread and a third thread that
calls `disconnect`. `pc` holds the first two; `read` and `write` are the
asynchronous operations (`"pending"`, or `"ready"` for a handler that io_context
has still to run). The destructor chain streamer - ClientSocket - jthread is
`ReleaseStreamer`, `JoinContextThread` and `LastReferenceDropped`; `DetachesItself` is
its test of the thread that runs it (src/ClientSocket.cpp:38). `process` is `"down"`
after an exception of `main` or of a handler, and would be `"terminated"` if the
context thread joined itself, which no property excuses.

`UserInput` is the way of an event: user, SDL's queue, poll loop, message, X
server. Masks are sets of bits, one coordinate stands for two. `used` is what one
user of the behaviour touches: any `MaxUsed` buttons, keys and sizes of the window.
With each picture the viewer sets the renderer's logical size (`logical`,
src/ScreenViewerClient.cpp:35) to the size it knows of (`window_size`), and from then on
SDL queues mouse positions converted to it: `Reported` is what SDL 2.30's renderer
computes, with the bar that fitting the picture into the window (`size`) leaves at
its sides. A size has both dimensions, as the fit depends on the two. `Scaled` is the
viewer's own conversion, with C++'s division.
`sdl_to_x11` is the table of KeysMapping and `KeysymToKeycode` the keyboard map of
the streamer's X server, which may put two symbols on one key. `sentHeld`, `exact`
and `lost` are history.

`Users` is `UsersManager` step by step: the io threads over one connection,
`add_user` programs over their own, the table and its primary key. `transactions`
are the threads whose `pqxx::work` is registered on the connection. The library
looks for another one before it registers, without a lock; what happens once two
have met (`raced`) is a choice among what the library can do.

`MCProxyServer`, `MCSessionsManager` and `MCUserInput` hold the sets, functions
and symmetries that the configurations need; `ProxyServerProofs`, `SessionsManagerProofs`,
`ClientsProofs`, `StreamProofs`, `FramingProofs`, `StreamerProofs`, `UserInputProofs` and
`UsersProofs` the theorems.

In every module a definition introduced by `Mutant:` is not part of the model. It
is a plausible mistake in the definition that follows it, and PROJECT.json
says which property notices it.

## Runs and bounds

| run | what it asks | instance | distinct states |
|---|---|---|---|
| `proxy_safety` | ownership of streams, order of what clients are told, causes of closing; ProxyServer implements Rendezvous | 3 connections, 2 codes | 118 K |
| `clients_programs` | answers match requests, waits end, claims settle, connections are served | 2 connections of any kind, 2 codes | 42 K |
| `manager_threads` | the mutex, one fate each, sweeps by age, progress while no reset is joining | 2 callers, 2 sessions, 1 code, 2 cleaners, a clock set by 1 tick | 82 K |
| `manager_reset` | *violation*: reset and the cleaner wait for each other | 1 caller, 2 sessions, 2 cleaners | |
| `bridge_close` | *violation*: a client that leaves ends the server | 2 bytes | |
| `stream` | messages complete and in order, no direction starves, what brings a stream to rest, one end stops with the other; Bridge implements Channel in each direction | 4 messages from the streamer, 3 from the viewer, window 2, buffer 2 | 198 K |
| `framing_messages` | chunks as sent, refusals for cause, everything arrives; Framing implements Channel | 3 messages of 0..7 bytes, buffer 3, window 2 | 311 K |
| `streamer_threads` | queue, mutex, display, one screenshot, handlers that outlive the streamer; inputs are handled, threads end | 2 messages of any kind | 100 K |
| `streamer_disconnect` | *violation*: run goes on after disconnect | 1 message | |
| `input_playback` | held as sent, clicks where the user points, positions inside | 4 buttons, 3 keys, 2 sizes of the window, any 3 of them used, 2 events queued, 1 message in flight | 9.9 M |
| `users_database` | right passwords only, rows stay, refusals for cause | 2 io threads, 2 adders, 2 emails, 2 passwords | 1.2 M |
| `users_shared` | *violation*: a known user is refused | 2 io threads, 1 adder | |

Why these are enough:

- *Three connections* are two streamers and a viewer, or a streamer and two
  viewers: a registration that displaces another, two claims of one streamer, a
  sweep while a claim is under way, a bridge beside a session that logs in. Two
  codes are one that is registered and one that is not. The ownership properties
  are proved for any number. The run uses the symmetry of connections; it has no
  liveness, with which that would be unsound.
- *Two connections* in `clients_programs`, without symmetry: a claim by a viewer
  of a streamer, a foreign client against either, a leaving streamer and a
  connection in the backlog.
- *Two callers* although the server has one: the class locks for any number.
  *Two cleaners* are one replaced by another. One tick is one `client_timeout`,
  so that an entry is fresh, just at the limit, or older; a clock set by one tick
  (`MaxShift`) takes it over the limit, back within it, or into the future. One
  code is enough: nothing is ever registered under another, and a find for it finds
  what one finds in an empty registry.
- *Stream*: a buffer of two and a window of two make reads of one message, a full
  buffer and a read that leaves something behind, with a shorter read after a
  longer one (stale data stay in the buffer). Four frames and three inputs are what
  it takes for both directions to fill up at once (`Embrace`).
- *Framing*: sizes 0..7 with a buffer of 3 are empty, short, exactly one buffer,
  one more, two buffers, and two and a rest; the window is smaller than a chunk.
- *Streamer*: two messages queue up, are handled and come late in one behaviour;
  kinds include one whose content is too short and a refused header.
- *Input*: one of the buttons that are numbered alike by SDL and X11, a side
  button, which is not, one whose mask is the "clicked" bit, and one that comes out
  as that side button; two keys whose
  symbols share a key code, one of them by way of the table, and one without a key code.
  Any three of buttons, keys and sizes interact in one behaviour (`MaxUsed`). The two
  sizes swap width and height, so that the old logical size leaves a bar in one
  window and fits the other. Two events in SDL's queue are a motion and the resize
  that follows or precedes it, and one of them may be handled in the next round, after
  a picture has changed the logical size.
- *Users*: two threads are what shares the connection (there are two servers); two
  adders race for one email; two passwords, so that one is wrong.

Deadlock checking is off where the system may stop: clients need not do
anything, and a bounded supply of messages runs out.

## Fairness

Only what the scheduling gives:

- The io thread goes on with the handler it is in, and io_context runs completed
  operations in order, so that each is run although others keep coming: strong
  fairness per session and handler. Two things are assumed of clients: one that
  connects does its half of the TLS handshake, or its connection breaks; and
  those of a bridge receive, or leave, so that the bridge's blocking writes end.
  A client that does neither stops the io thread (src/AuthenticatedSession.cpp:19,
  include/Bridge.hpp:43), and the hazards say so. `ConnectionsServed` and
  `ClaimSettles` are no more than this: no *failure* of a connection keeps the
  server from the next.
- In `Clients` a program that waits reads what there is to read. It need not make
  another request, nor stay or leave. `WaitsEnd` holds for the waiting streamer
  because the cleaner ends its registration.
- In `Stream` the viewer's thread and the streamer's context thread go on when they
  can, each of the latter's handlers in its turn, and the kernel of an end that has
  gone answers what still arrives with a reset. Nobody has to leave, and foreign
  clients need not receive.
- Threads run when they can; one that waits for a mutex gets it if it is freed
  again and again. `std::mutex` does not promise that. The threads around it
  sleep between two turns (`handleIOEvents` for a millisecond, the cleaner for
  its interval), which is what it rests on.
- Cleaner: it wakes up, and time passes for entries (`Expire`) in `ProxyServer`;
  in `SessionsManager` the clock may stand still.
- Nothing is assumed of a user, of a client's messages, of the database, or of who
  calls `disconnect` and `reset`. `Relayed` and `Delivered`
  name what they need: `Relayed` has its clients' receiving as a premise.

## Findings

Four runs are expected to find a violation. Each checks one property, and the
property is what the repository's tests or README take for granted.

- `manager_reset`: `reset` joins the cleaner with the mutex held
  (src/ServerSessionsManager.cpp:104); a cleaner on its way into
  `terminateTimeoutClients` waits for that mutex. The tests' TearDown calls it
  with a cleaner running that sweeps without a pause.
- `bridge_close`: `close` shuts down `peer_one` twice (include/Bridge.hpp:100,
  106); the second time it is closed and the call throws out of
  `io_context::run`. Nothing on the server's threads catches: one viewer that
  leaves ends the process.
- `streamer_disconnect`: on a connection that was reset, `shutdown` throws and
  `close` is skipped (src/SocketBase.cpp:46-47), so `isOpen` stays true and the
  streamer's `run` does not return after `disconnect` has.
- `users_shared`: the io threads of both servers authenticate over one
  `pqxx::connection` (src/UsersManager.cpp:31), which allows one transaction; it is
  open during the whole comparison of the password, and a second login meanwhile
  is refused by an exception.

The other properties are stated so that they hold of the code as it is: the
server may go down where a bridge ends (`server = "down"`), and `CallsReturn`
excepts a reset that is joining. They say that nothing *else* goes wrong.

`StreamFlows` and `EndsTogether` make an exception as well: `Embrace`, the state in
which the viewer blocks in `send` (src/ScreenViewerClient.cpp:84), the bridge blocks
in writing a frame to the viewer (include/Bridge.hpp:43), and the connections
between them are full. It is reachable, the two wait for ever, and without the exception
both properties fail; as the bridge writes on the server's io thread, every other
session then waits too. No text of the repository speaks of it, so there is no
violation run. The streamer takes no part in it: its reads are asynchronous, so that
the bridge's writes to it end.

`HeldAsSent` says what the poll loop's dropped events (src/ScreenViewerClient.cpp:75)
do: what is held at the streamer is what was sent, and it is what the user holds
unless an event of that kind was dropped.

`PointerInside` and `ClickLands` except what was made between a resize and the next
picture. SDL still scales to the logical size of the last picture then, and the viewer
already divides by the new width (src/ScreenViewerClient.cpp:35, 80): after a window of 800
has shrunk to 400, a motion at 399 is queued as 798 and sent as nearly twice the
frame's width. Without the exception TLC violates both properties in a few steps. No text
of the repository says where such a motion goes. They also except motions that the poll
loop drops or holds back for their rate (`exact`).

`OutlivedOnlyAfterRefusal` names the one way in which a handler uses a destroyed
streamer: `safeDisconnect` after a refused header (src/SocketBase.cpp:98) closes the socket while
a screenshot's write is under way, `run` returns, and nobody waits for its handler
(src/streamer/ScreenViewerStreamer.cpp:46). What it does then is a choice in the model
(`HandlerTooLate`), and the process may end. The comment at src/ClientSocket.cpp:36 is
about the socket, which those operations do keep alive; that its destructor then
runs on the context thread is why it detaches the thread, and `ThreadsEnd` fails
without that test.

## Proofs

### ProxyServer

`ProxyServerProofs` proves, for any finite or infinite set of sessions and of codes, with no assumptions but the two of `ProxyServer` (`NoSession` is not a
session, `SessionId` is a code):

| theorem | states |
|---|---|
| `TypeCorrect` | `Spec => []TypeOK` |
| `OwnershipHolds` | `Spec => []Ownership` |
| `OneReaderHolds` | `Spec => []OneReader` |
| `AuthenticatedOnlyHolds` | `Spec => []AuthenticatedOnly` |
| `BridgesDisjointHolds` | `Spec => []BridgesDisjoint` |
| `StreamerClosedForCauseHolds` | `Spec => StreamerClosedForCause`, the action property |
| `ToldInOrderHolds` | `Spec => []ToldInOrder` |
| `NoOrphanHolds` | `Spec => []NoOrphan`, every open stream has a holder |
| `ImplementsRendezvousHolds` | `Spec => ImplementsRendezvous`, the refinement |

`OneReader`, `AuthenticatedOnly` and `BridgesDisjoint` are not inductive. From a state in which a session that is just
accepted is already on offer, the handshake would schedule its first read and
break `OneReader`; from one in which a streamer is registered under two codes,
extracting one would leave it on offer while it is claimed and break
`BridgesDisjoint`. The strengthening is

    Ownership == TypeOK /\ StreamOfRole /\ OneCode
                 /\ OneReader /\ AuthenticatedOnly /\ BridgesDisjoint

`StreamOfRole` ties each role to a state of the stream (on offer or in a claim:
open; bridged: moved; in the handshake: open, without a read and not registered),
so that a connection still in the backlog has no role at all. `OneCode` says that
the only code with an entry is the one `registerStreamer` hands out. The run
`proxy_safety` checks the three properties on a small instance.

The proof goes action by action. Two lemmas carry it: what `Release` does to the
streams (it only closes open ones that nobody refers to, so that no role loses
its stream), and what a handler that throws leaves behind. `TypeStep` comes first
and is used by the step lemma of each conjunct.

- `StreamerClosedForCause` is shown of each step from a state with `Ownership`
  (`ClosingStep`): a handler closes its own session, which is neither on offer nor
  in a claim, and `Release` those that nobody refers to.
- `ToldInOrder` needs `ToldInClaim`, the same of the claim in progress: a streamer
  that is found has been sent its code, and START_STREAM goes out after the ACK.
  What was told to a client before it was on offer does not matter to it.
- `ImplementsRendezvous` needs one invariant more. A step may let go, besides its
  own session, of any other that is open and has no holder; were there one, a
  step of the abstract specification would not match, since it changes the role
  of one session or of the two in a claim. `NoOrphan` says there is none: a read,
  the registry or the running handler holds every open stream. It is inductive
  with `Ownership`. Then each action has its counterpart or leaves every role
  alone; that a session's role is a chain of conditions (`RoleOf`) is where
  `BridgesDisjoint` and `StreamOfRole` enter.

### SessionsManager

`SessionsManagerProofs` proves, for any sets of callers, sessions and codes, any
number of cleaners, any timeout and any setting of the clock, from the five
assumptions of `SessionsManager` (`NoSession` is not a session, `SessionId` is a
code, timeout, number of cleaners and `MaxShift` are natural numbers):

| theorem | states |
|---|---|
| `TypeCorrect` | `Spec => []TypeOK` |
| `MutualExclusionHolds` | `Spec => []MutualExclusion` |
| `RegistryIsOffersHolds` | `Spec => []RegistryIsOffers` |
| `OneFateHolds` | `Spec => OneFate`, the action property |
| `SweptForAgeHolds` | `Spec => SweptForAge`, the action property |
| `OneCleanerHolds` | `Spec => []OneCleaner`, at most one cleaner besides the one being joined |
| `StuckOnlyInResetHolds` | `Spec => []StuckOnlyInReset`, no other block than `reset`'s |

- `TypeOK` needs two facts more (`TypeInv`): `CallersFit`, that a call about to
  register carries a session and one about to find carries a code, and
  `NotYetMade`, that a cleaner no `initCleanerThread` has made does nothing.
- `MutualExclusion` is inductive once these are known: a step into a section
  needs `m` free, which says that nobody is inside, and a step that frees `m` is
  one of the only thread inside. Without `NotYetMade` a new cleaner could start
  in place of one that holds the mutex.
- `RegistryIsOffers` needs `RegisteredOnce`: the session that a caller is about to
  enter is arriving, so not in the registry, and no other caller enters it.
  Two lemmas do the work, one for the step that enters a session and displaces
  another and one for all steps that take entries away (a claim, a sweep, a reset).
- `OneFate` follows step by step: a fate is settled only for sessions found in the
  registry, and by `RegistryIsOffers` those are still on offer.
- `SweptForAge` compares two ages that the model keeps apart: that of the code's
  entry and that of the session's offer. They agree (`AgeIsOnOffer`) unless the
  session is misdated, also right after a registration that displaces another,
  because a session that arrives has not been on offer and an entry begins at zero
  whoever had the code before. That only sessions on offer are misdated is the other
  half of it.

- `StuckOnlyInReset` is the part of `CallsReturn` that needs no fairness: unless
  everybody has returned, some guard of a thread's own steps holds (`CanGo` lists
  them), or `reset` waits for a cleaner that waits for `reset`'s mutex. `manager_reset`
  finds that state; the theorem says that there is no other. A held mutex leads, by
  `MutualExclusion`, to a thread that goes on by itself or to `reset`; a join leads to
  a thread that has been started (`JoinsStopped`), because the joinable cleaner is the
  newest and the one before it the only other that may run (`Newest`, `OneCleaner`).

`RegistryIsOffers` and `OneFate` do not rest on `MutualExclusion`: what is done
under one lock to the map is a single action of the model. That such an action
runs undisturbed is what `MutualExclusion` says.

### Clients

`ClientsProofs` proves, for any connections and codes, that the server composed
with the programs does nothing that `ProxyServer` with its free clients does not,
and that server and programs keep in step:

| theorem | states |
|---|---|
| `ClientsImplementProxyServer` | `CSpec => Spec` |
| `OwnershipComposed` | `CSpec => []Ownership` |
| `AnswersMatchHolds` | `CSpec => []AnswersMatch` |

There is no mapping to find, since `Clients` only adds variables; the work is in
the steps. A request is a message that a client of `ProxyServer` may send, a
program that ends leaves as a client may, and reading an answer stutters. The
second theorem is the first with `OwnershipHolds`. `CSpec`'s fairness is not used.

`AnswersMatch` says of answers that carry no number that each is taken for the
request it answers. The invariant is `Turn`: by the call a program is in and what
it has not read, it says where the server has that program's session. Who waits for
a code has a registration that the server has not read, or is about to be answered,
or has its code unread and is on offer; if START_STREAM follows the code, it has
been handed over. `Aside`, `OnOffer`, `HandedOver` and `Joined` name these places. A
step for one session leaves the others in theirs (`HandlerBystander`,
`ClaimBystander`), which rests on `Ownership`: no other session is in the handler or
in the claim. A foreign client has no turn and its answers are not followed, but it
can be the other side of a claim (`ClaimTurn`).

### Bridge and Stream

`StreamProofs` proves, for any supply of bytes (`MaxBytes`, `MaxInputs`), any window
and any size of the buffers, from the two assumptions that bound them:

| theorem | states |
|---|---|
| `BridgeTypeCorrect` | `Spec => []TypeOK` |
| `RelayIntact` | `Spec => []NothingLostOrReordered` |
| `StreamImplementsBridge` | `SSpec => Spec`, the applications are clients of a bridge |
| `StreamIntact` | `SSpec => []NothingLostOrReordered` |
| `ReceivedIsBeginningHolds` | `Spec => []ReceivedIsBeginning`, also of a bridge that has ended |
| `ImplementsChannelsHolds` | `Spec => ImplementsChannels`, the refinement of `Channel` in each direction |
| `ServingHolds` | `Spec => []Serving`, a bridge ends only when a client leaves |
| `RestsOnlyInEmbraceHolds` | `SSpec => []RestsOnlyInEmbrace`, no other rest than `StreamFlows` names |

`NothingLostOrReordered` is inductive once the types are known, with a writer for
every write in progress (`TypeInv`). The pipe of a client is what the other has
received, what is in flight to it, what is being written and what is unread, in
that order. Each step either moves a byte over one of the seams (`HeadMoves`,
`CutInTwo`), or appends the next number (`OneMore`), or ends the bridge. The
argument about the buffer is `BufferPrefix`: the first n bytes of it are the n just
read, whatever a longer read before has left behind them.

`NothingLostOrReordered` is silent about a bridge that has ended. `ReceivedIsBeginning`
is not: what a client has received is at any time the beginning of what the other has
sent. It rests on `Whole`: closing takes nothing out of a pipe, and the one step that
does, the end of a failed write, is taken only when the client it goes to is reset and
receives no more.

The refinement follows from it (`DirectionStep`): a step that adds to what a client has
received adds the number after those received before, and that has been sent. It is one
of `Take`, a send is one of `Give`, and nothing else touches what was given or taken. The
mapping says nothing of when a direction ends: the abstract channel may be idle for ever,
and `Relayed` says when it may not be.

`RestsOnlyInEmbrace` is the part of `StreamFlows` that needs no fairness. While both
clients are there the bridge serves both streams (`Serving`) and the applications are
in calls that a step of their own ends when its guard holds (`InCalls`; `CanGo` lists
the guards, without the one of a refused frame). If none holds, an io thread in a
write waits for the viewer, not for the streamer, which reads whatever else it does;
the viewer then is in a send, and that is `Embrace`. An io thread in no write has both
reads pending and so has read everything.

### Framing

`FramingProofs` proves, for any size of the buffer, of a connection and of the
messages and any number of them, from the one assumption of `Framing` (the sizes are
natural numbers, the buffer and the connection hold something, and the first read's
limit is at most the buffer's size):

| theorem | states |
|---|---|
| `Invariant` | `Spec => []IInv`, the inductive invariant |
| `SentIsReceived` | `Spec => []ReceivedAsSent` |
| `RefusalHasCause` | `Spec => []RefusedForCause` |
| `ReceivedInOrder` | `Spec => []BytesInOrder`, what has been received are the first bytes given to send |
| `RestHasAll` | `Spec => []NothingMissing`, at rest there is nothing left to receive |
| `ImplementsChannelHolds` | `Spec => ImplementsChannel`, the refinement |

`ReceivedAsSent` speaks of what was sent, of which the reader sees only units in
flight, and of those there may be any number between the sender's loop and the
reader's buffer. `IInv` ties the two ends together by places in the stream that
carries `Expected`. A place is a piece and a position in it.

- `Received` and `Reading`: what the receiver has are the first pieces, and what the
  reader holds is the beginning of the next. `Refused` keeps the cause of a refusal.
- `Cutting(cut)`: the first `cut` pieces have been handed to the connection, and what
  `message_length` and `ptr_cursor` say is left of the message in `send` are the
  pieces after them. `LoopTest` says that the loop's condition picks the last piece.
- `InFlight(cut)`: there is a path of places, each the one after the other, from the
  one the reader is at (`ReaderPlace`) to the end of piece `cut`, and the units on the
  wire and still to be written are those along it. A unit written leaves the path
  alone, a unit read takes away its first place (`CarriesFirst`), a new chunk
  continues it (`CarriesChunk`).

`ReceivedAsSent` alone says nothing of numbering; that the pieces of all messages
number the bytes without a gap is `BytesInOrder`, which follows from the invariant and
from `AllBytes`, the same of all that is to be received. `NothingMissing` is the
safety half of `Delivered`: a reader never waits for bytes that nobody will send.

`ImplementsChannel` follows step by step. A message given to send makes `Expected`
longer by its pieces, of which there is at least one; a refusal is the channel's because
of `Refused`, a delivery because of `Received` after the step; all other steps stutter.
One invariant is needed besides (`Roomy`): while a content is read, the header's length
is within the limit that applied to it, although the limit is given with each read.

All of this needs what `FlattenSeq`, a recursive function of the library, returns for
sequences of any length. The library's induction theorems take an operator as a parameter,
which the provers cannot instantiate. `Induction` says the same of a set, and follows
from the well-foundedness of the numbers: a set without a given number would have a
least one missing. `FlattenAppend`, `PiecesAreWhole` and `ContentsOfPrefix` rest on it.

### Streamer

`StreamerProofs` proves, for any number of messages of any kind, with no
assumption on the constants but that `MaxInputs` is a number:

| theorem | states |
|---|---|
| `StreamerTypeCorrect` | `Spec => []TypeOK` |
| `InputsInOrderHolds` | `Spec => []InputsInOrder` |
| `QueueDrainedHolds` | `Spec => []QueueDrained` |
| `SharedOneAtATimeHolds` | `Spec => []SharedOneAtATime` |
| `NoThreadBlockedHolds` | `Spec => []NoThreadBlocked`, neither the mutex nor a join blocks |
| `OutlivedOnlyAfterRefusalHolds` | `Spec => []OutlivedOnlyAfterRefusal` |

The invariant is `Sound`: the shapes of the queues and these three parts.

- `Order`: a message is handled, queued, in the buffer or on the wire, and these
  four, one after the other, number the messages without a gap. Each step takes the
  first of one and makes it the last of the one before.
- `Exclusion`: whoever is at the display holds the mutex, which is why the two
  threads are never there together. The encoder and the writing side have no lock;
  what protects them is that `main` takes a screenshot only before the first write
  and the context thread only when a write has completed.
- `Closing`: `run` looks at the queue for the last time after it has seen the socket
  closed, and what is pushed after that does not count as pushed while open.

`NoThreadBlocked` is the part of `ThreadsEnd` that needs no fairness: who waits for the
mutex, or joins the context thread, waits for a thread that has a step to take, which
`MainGoes` and `ContextGoes` list. It rests on two more invariants. `Stopping`: once
the context thread is joined, or its socket has no more references, it has been asked
to stop and serves no operation again; the `restart` in its loop does not undo that,
because the loop's condition comes after it. `Holding`: the mutex is held by a thread
at the display, which waits for nothing, and the destructor joins only a thread that
is in no handler. It does not say that `run` returns; `streamer_disconnect` shows that
it may not.

`OutlivedOnlyAfterRefusal` speaks of the end and needs to know how it came to it:
`Waited`, that disconnect has returned only to a context thread that is done, and
`ClosedByRefusal`, that a socket closed without a disconnect has no read under way and
one message that was read and never pushed. With `Holding` (the streamer is not
destroyed during a disconnect) the two cases are all there are.

### Users

`UsersProofs` proves, for any emails, passwords, io threads and `add_user`
programs, from the one assumption that `NoPassword` is not a password:

| theorem | states |
|---|---|
| `TypeCorrect` | `Spec => []TypeOK` |
| `KnownOnlyHolds` | `Spec => []KnownOnly` |
| `FirstStaysHolds` | `Spec => FirstStays`, the action property |
| `RefusedForCauseHolds` | `Spec => RefusedForCause`, the action property |

Two invariants carry them. `Rows` says that a row about to be committed is nobody's
yet and that nobody else waits to commit the same email (`Uncommitted`; without it
a commit could overwrite a row), and that what add_user reports holds. `Login` says
that a thread has a transaction registered exactly while it queries and compares
(`Registered`), that there is one at a time unless two have met (`OneTransaction`),
and that the hash a thread has read is the one in the table (`HasRead`). The last
one holds through the comparison because of `Rows`: no stored row changes.
`RefusedForCause` follows step by step: a login that finds a transaction open is
not the owner of it.

### UserInput

`UserInputProofs` proves, for any sizes and bounds, from the five assumptions of
`UserInput` (a button's id is at most 32, the bits of an int; a key code is a byte;
sizes are positive, the origin is an integer, the bounds are natural numbers), and
so for any mouse, table of keys and keyboard map:

| theorem | states |
|---|---|
| `InputTypeCorrect` | `Spec => []TypeOK` |
| `HeldAsSentHolds` | `Spec => []HeldAsSent` |
| `PointerInsideHolds` | `Spec => PointerInside`, the action property |
| `ClickLandsHolds` | `Spec => []ClickLands` |

None of the last three is inductive: each speaks of an empty queue or of its first
element, and what comes to be first was queued long before. All three invariants
say what an element finds when its turn comes, in one form: `Only(s, f, base, i, A)`
says that the last word on a subject before the i-th element of the queue s (f
gives an element's word, base is the word of what has left the queue) is in A.
Joining a queue and leaving it keep `Only` (`OnlyAfter`, `OnlyBefore`, `OnlyTaken`),
so that each step needs to be looked at only for the element it moves.

- `HeldInv`: the last word on the wire about an X button or a key code is one that
  what is held, going by the handled events, allows (`Words`: "up" is allowed also
  if two inputs share the code), and the last word in SDL's queue about a button or
  a key is what the user holds. `ButtonMask` says that what a mask carries besides
  its button does not change the button.
- `InsideInv`: an event was made in the size told last before it, which is the one
  the viewer knows when it handles the event. If the logical size was that of the
  window as well, SDL's conversion changes nothing (`DividedBack`), and a quotient of
  natural numbers stays below the screen's width (`ScaledInside`).
- `ClickInv`: a click was made where the motions and resizes before it have left
  the pointer (`Aimed`), and the messages before it move the other pointer there
  (`Followed`, `ClicksFollow`), as long as `exact` says that none was left out. The
  position the viewer has handled last is no variable; the invariant says that
  there is one.

### Only model-checked

All liveness: what the runs check under fairness needs ENABLED, which is beyond the
prover. Of `CallsReturn`, `StreamFlows` and `ThreadsEnd` the safety half is proved, that
nobody waits in a circle (but where a finding or `Embrace` says so). Every invariant, action property and refinement that a passing run checks is
proved.

`TypeOK` of `Streamer` and of `Bridge`, `NothingMissing` and `BytesInOrder` are the other way round:
they are proved, and no run checks them.

## What is not modelled

- What the codec computes, pixel conversions, the cursor and what the renderer draws.
  `VideoEncoder` numbers its frames from 1 to 30 again and again
  (src/VideoEncoder.cpp:14); what libx264 makes of time stamps that go back is not
  in the repository.
- The bytes of headers, JSON and TLS. What a malformed one does is modelled. The
  bcrypt hash is the password it was made from.
- `generateSessionID`: it is not called; the code in use hands out one constant,
  and that is in the model (`SessionId`). `stop()` of the servers is only called by
  tests.
- Data races inside one `ssl::stream` (the streamer writes on `main` first and
  on the context thread later, `safeDisconnect` writes when it likes).
- The state of the echo sessions of the sessions server beyond their logins (they
  echo and share nothing but the users).
- In `ProxyServer` a wall clock that is set: its `Expire` comes when it likes, so
  a clock set forward is included, but an entry that has expired stays so. The clock
  is in `SessionsManager`.
- What the sessions of the rest of the server do while a bridge blocks the io
  thread: they wait.

## Plan

In order of importance; the first block is what this directory contains.

1. Done: `Rendezvous`; `ProxyServer`, `SessionsManager`, `Clients`, `Bridge` and
   `Stream`, `Channel` and `Framing`, `Streamer`, `UserInput` and `Users`, all with proofs.
2. Models to come:
   - a specification of a mutex-protected registry that `SessionsManager` implements.
   - the outcomes of a `safeDisconnect` during an `async_write`.
3. Theorems to come: that `SessionsManager` implements that registry, once it is stated.
