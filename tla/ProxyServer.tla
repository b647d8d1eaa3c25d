----------------------------- MODULE ProxyServer -----------------------------
(***************************************************************************)
(* The proxy server of ScreenViewer: the acceptor, the sessions it makes   *)
(* (AuthenticatedSession, ProxySession), the registry of waiting streamers *)
(* (ServerSessionsManager) and the hand-over of two sessions to a Bridge.  *)
(*                                                                         *)
(* Two server threads take steps.  The io thread runs the completion       *)
(* handlers of the only io_context one after another; the cleaner thread   *)
(* erases registrations older than the timeout.  A handler is split into   *)
(* several actions where another thread, or a client, can change what the  *)
(* rest of the handler finds: "io" says where the io thread is.            *)
(*                                                                         *)
(* Every critical section of the registry's mutex is one action here;      *)
(* SessionsManager models the mutex and the cleaner thread themselves.     *)
(* What the Bridge does with the two sockets is in module Bridge; here a   *)
(* bridge only starts and ends.                                            *)
(*                                                                         *)
(* A definition introduced by "Mutant:" is no part of the model: it is a   *)
(* plausible mistake in the definition after it, which the property named  *)
(* with it in PROJECT.json must notice.                                    *)
(***************************************************************************)
EXTENDS Naturals, FiniteSets

CONSTANTS
  Session,     \* connections a client may open to the proxy port
  NoSession,   \* stands for an empty shared_ptr<AuthenticatedSession>
  Code,        \* session codes a viewer may ask for
  SessionId    \* the code registerStreamer hands out to every streamer

ASSUME SessionAssumption == NoSession \notin Session
ASSUME CodeAssumption == SessionId \in Code

VARIABLES
  peer,             \* the client's end of each connection
  inbox,            \* the message that has arrived at the server, unread
  told,             \* history: what the server's answers told each client
  sock,             \* the server's end: the session object and its stream
  reading,          \* the callback of the session's pending asyncReadMessage
  authed,           \* history: sessions whose authenticate returned true
  io,               \* where the io thread is inside a handler
  senders_sessions, \* the registry: session code -> waiting streamer
  expired,          \* the entry's elapsed_time exceeds client_timeout
  bridges,          \* <<peer_one, peer_two>> of every SSLBridge started
  server            \* "down" once an exception left io_context::run

vars == <<peer, inbox, told, sock, reading, authed, io, senders_sessions,
          expired, bridges, server>>

clientVars   == <<peer, inbox>>
registryVars == <<senders_sessions, expired>>
-----------------------------------------------------------------------------
(***************************************************************************)
(* Messages.  INVALID is any header MessageHeader::deserialize rejects     *)
(* (too long, unknown type); OTHER is any type with no case of its own.    *)
(***************************************************************************)
Credentials == {"known", "unknown", "malformed"}

Message ==
       [type : {"LOGIN"}, content : Credentials]
  \cup [type : {"FIND_STREAMER"}, content : Code]
  \cup [type : {"REGISTER_STREAMER", "OTHER", "INVALID"}, content : {"none"}]

NoMessage == [type |-> "NONE", content |-> "none"]

\* The answers the properties tell apart; the ACK of a FIND_STREAMER and the
\* ACK of a LOGIN are the same message read by different client calls.
Answer == {"ID", "FIND_ACK", "START_STREAM"}

Idle == [step |-> "idle", self |-> NoSession, other |-> NoSession]

At(step, self, other) == [step |-> step, self |-> self, other |-> other]

IoStates ==
       {Idle}
  \cup [step : {"handshake", "registered"}, self : Session, other : {NoSession}]
  \cup [step : {"found", "acked", "started"}, self : Session, other : Session]

Init ==
  /\ peer = [s \in Session |-> "none"]
  /\ inbox = [s \in Session |-> NoMessage]
  /\ told = [s \in Session |-> {}]
  /\ sock = [s \in Session |-> "none"]
  /\ reading = [s \in Session |-> "none"]
  /\ authed = {}
  /\ io = Idle
  /\ senders_sessions = [c \in Code |-> NoSession]
  /\ expired = [c \in Code |-> FALSE]
  /\ bridges = {}
  /\ server = "running"
-----------------------------------------------------------------------------
(***************************************************************************)
(* Reference counting.  A session object lives as long as a pending read,  *)
(* the registry, or the running handler holds a shared_ptr to it; when the *)
(* last one goes its destructor closes the stream without a message.       *)
(***************************************************************************)
Registered(s) == \E c \in Code : senders_sessions[c] = s

Referenced(s) ==
  \/ reading[s] # "none"
  \/ Registered(s)
  \/ s \in {io.self, io.other}

\* The streams after the step, given what the handler itself did to them.
Release(after) ==
  sock' = [s \in Session |->
             IF after[s] = "open" /\ ~Referenced(s)' THEN "closed" ELSE after[s]]

(***************************************************************************)
(* Blocking sends on a session's stream.  A write to a client that has     *)
(* only closed its end still succeeds and is lost; once the connection has *)
(* been reset every write throws.                                          *)
(***************************************************************************)
CanWrite(s) == peer[s] # "reset"

Told(s, answer) ==
  [told EXCEPT ![s] = IF peer[s] = "up" THEN @ \cup {answer} ELSE @]

\* disconnect(msg): send, then shutdown and close; a send that throws leaves
\* the stream as it is.
Disconnect(s) ==
  [sock EXCEPT ![s] = IF CanWrite(s) THEN "closed" ELSE @]

\* The handler of s threw: asyncReadMessageImpl catches, safeDisconnect tells
\* the client, and no new read is scheduled.
HandlerThrows(s) ==
  /\ reading' = [reading EXCEPT ![s] = "none"]
  /\ io' = Idle
  /\ UNCHANGED told
  /\ Release(Disconnect(s))
-----------------------------------------------------------------------------
(***************************************************************************)
(* Clients.  ClientSocket waits for the answer to every request, so a      *)
(* client sends its next message only while the server waits for one, and  *)
(* an inbox holds at most one: a registered streamer is silent until it is *)
(* told START_STREAM, and what a viewer sends after its ACK is left in the *)
(* stream for the bridge.  The messages themselves may be any.  Once a      *)
(* client has gone, its kernel resets the connection some time later.      *)
(* What a client does once the server has closed its connection is left    *)
(* out.                                                                    *)
(***************************************************************************)
Connect(s) ==
  /\ peer[s] = "none" /\ sock[s] = "none"
  /\ peer' = [peer EXCEPT ![s] = "up"]
  /\ sock' = [sock EXCEPT ![s] = "backlog"]
  /\ UNCHANGED <<inbox, told, reading, authed, io, registryVars, bridges, server>>

ClientSend(s, msg) ==
  /\ peer[s] = "up"
  /\ reading[s] # "none"
  /\ inbox[s] = NoMessage
  /\ inbox' = [inbox EXCEPT ![s] = msg]
  /\ UNCHANGED <<peer, told, sock, reading, authed, io, registryVars, bridges, server>>

ClientLeave(s) ==
  /\ peer[s] = "up"
  /\ sock[s] # "closed"
  /\ peer' = [peer EXCEPT ![s] = "gone"]
  /\ UNCHANGED <<inbox, told, sock, reading, authed, io, registryVars, bridges, server>>

ConnectionReset(s) ==
  /\ peer[s] = "gone"
  /\ sock[s] # "closed"
  /\ peer' = [peer EXCEPT ![s] = "reset"]
  /\ UNCHANGED <<inbox, told, sock, reading, authed, io, registryVars, bridges, server>>
-----------------------------------------------------------------------------
(***************************************************************************)
(* The acceptor's handler.  It runs the blocking TLS handshake of the new  *)
(* session on the io thread; nothing else is served meanwhile.             *)
(***************************************************************************)
IoIdle == server = "running" /\ io = Idle

AcceptConnection(s) ==
  /\ IoIdle
  /\ sock[s] = "backlog"
  /\ peer[s] # "reset"
  /\ sock' = [sock EXCEPT ![s] = "open"]
  /\ io' = At("handshake", s, NoSession)
  /\ UNCHANGED <<clientVars, told, reading, authed, registryVars, bridges, server>>

\* remote_endpoint() of a reset connection throws; the handler catches it,
\* drops the socket and accepts the next connection.
AcceptFails(s) ==
  /\ IoIdle
  /\ sock[s] = "backlog"
  /\ peer[s] = "reset"
  /\ sock' = [sock EXCEPT ![s] = "closed"]
  /\ UNCHANGED <<clientVars, told, reading, authed, io, registryVars, bridges, server>>

HandshakeOk(s) ==
  /\ server = "running"
  /\ io = At("handshake", s, NoSession)
  /\ CanWrite(s)
  /\ reading' = [reading EXCEPT ![s] = "authenticateCallback"]
  /\ io' = Idle
  /\ UNCHANGED <<clientVars, told, sock, authed, registryVars, bridges, server>>

\* Mutant: the io thread waits for ever for a client that has gone.
HandshakeHangs(s) ==
  /\ server = "running"
  /\ io = At("handshake", s, NoSession)
  /\ UNCHANGED vars

\* handshake throws into acceptNewConnection's catch: the session dies.
HandshakeFails(s) ==
  /\ server = "running"
  /\ io = At("handshake", s, NoSession)
  /\ io' = Idle
  /\ UNCHANGED <<clientVars, told, reading, authed, registryVars, bridges, server>>
  /\ Release(sock)
-----------------------------------------------------------------------------
(***************************************************************************)
(* The pending read of a session completes.                                *)
(***************************************************************************)
\* The read ended in an error: the completion handler only logs it, so the
\* session loses the reference the read was holding.
ReadFails(s) ==
  /\ IoIdle
  /\ reading[s] # "none"
  /\ \/ peer[s] = "gone" /\ inbox[s] = NoMessage
     \/ peer[s] = "reset"
  /\ reading' = [reading EXCEPT ![s] = "none"]
  /\ inbox' = [inbox EXCEPT ![s] = NoMessage]
  /\ UNCHANGED <<peer, told, authed, io, registryVars, bridges, server>>
  /\ Release(sock)

Received(s, callback, types) ==
  /\ IoIdle
  /\ reading[s] = callback
  /\ inbox[s].type \in types
  /\ inbox' = [inbox EXCEPT ![s] = NoMessage]
  /\ peer' = peer

\* MessageHeaderException: safeDisconnect with the reason, no new read.
RejectHeader(s) ==
  /\ \E callback \in {"authenticateCallback", "handleRead"} :
       Received(s, callback, {"INVALID"})
  /\ UNCHANGED <<authed, registryVars, bridges, server>>
  /\ HandlerThrows(s)

\* authenticateCallback, credentials accepted: sendACK, then the next read.
LoginAccepted(s) ==
  /\ Received(s, "authenticateCallback", {"LOGIN"})
  /\ inbox[s].content = "known"
  /\ authed' = authed \cup {s}
  /\ UNCHANGED <<registryVars, bridges, server>>
  /\ \/ /\ CanWrite(s)
        /\ reading' = [reading EXCEPT ![s] = "handleRead"]
        /\ UNCHANGED <<told, io, sock>>
     \/ /\ ~CanWrite(s)
        /\ HandlerThrows(s)

\* Mutant: the read is scheduled again after the NACK.
LoginRejectedReadsOn(s) ==
  /\ Received(s, "authenticateCallback", {"LOGIN"})
  /\ inbox[s].content = "unknown"
  /\ reading' = [reading EXCEPT ![s] = "handleRead"]
  /\ UNCHANGED <<told, sock, authed, io, registryVars, bridges, server>>

\* authenticateCallback, credentials unknown: sendNACK and no further read,
\* which is what closes the connection.
LoginRejected(s) ==
  /\ Received(s, "authenticateCallback", {"LOGIN"})
  /\ inbox[s].content = "unknown"
  /\ reading' = [reading EXCEPT ![s] = "none"]
  /\ UNCHANGED <<told, authed, io, registryVars, bridges, server>>
  /\ Release(sock)

\* authenticateCallback with another message ("You have to login first."), with
\* a LOGIN whose JSON does not parse, or with one that UsersManager throws at,
\* whatever the credentials (module Users): DISCONNECT and close.
LoginRefused(s) ==
  /\ Received(s, "authenticateCallback",
              {"LOGIN", "FIND_STREAMER", "REGISTER_STREAMER", "OTHER"})
  /\ UNCHANGED <<authed, registryVars, bridges, server>>
  /\ HandlerThrows(s)

\* handleRead, default case: RESPONSE and the next read.
HandleUnexpected(s) ==
  /\ Received(s, "handleRead", {"LOGIN", "OTHER"})
  /\ UNCHANGED <<authed, registryVars, bridges, server>>
  /\ \/ /\ CanWrite(s)
        /\ UNCHANGED <<told, reading, io, sock>>
     \/ /\ ~CanWrite(s)
        /\ HandlerThrows(s)
-----------------------------------------------------------------------------
(***************************************************************************)
(* REGISTER_STREAMER.  The session goes into the registry first and its ID *)
(* is sent after; the cleaner may erase the entry in between.  The session *)
(* registered before under the same code loses its last reference.  There  *)
(* is no further read: a waiting streamer is not listened to.              *)
(***************************************************************************)
\* Mutant: the read is scheduled again, as in the other cases of handleRead.
HandleRegisterReadsOn(s) ==
  /\ Received(s, "handleRead", {"REGISTER_STREAMER"})
  /\ senders_sessions' = [senders_sessions EXCEPT ![SessionId] = s]
  /\ expired' = [expired EXCEPT ![SessionId] = FALSE]
  /\ reading' = reading
  /\ io' = At("registered", s, NoSession)
  /\ UNCHANGED <<told, authed, bridges, server>>
  /\ Release(sock)

HandleRegister(s) ==
  /\ Received(s, "handleRead", {"REGISTER_STREAMER"})
  /\ senders_sessions' = [senders_sessions EXCEPT ![SessionId] = s]
  /\ expired' = [expired EXCEPT ![SessionId] = FALSE]
  /\ reading' = [reading EXCEPT ![s] = "none"]
  /\ io' = At("registered", s, NoSession)
  /\ UNCHANGED <<told, authed, bridges, server>>
  /\ Release(sock)

\* send ID.  When it throws, safeDisconnect's own send throws as well and the
\* stream of a session that is still registered stays open.
SendId(s) ==
  /\ server = "running"
  /\ io = At("registered", s, NoSession)
  /\ told' = Told(s, "ID")
  /\ io' = Idle
  /\ UNCHANGED <<clientVars, reading, authed, registryVars, bridges, server>>
  /\ Release(sock)
-----------------------------------------------------------------------------
(***************************************************************************)
(* FIND_STREAMER: createBridgeWithStreamer extracts the entry under the    *)
(* mutex and goes on without it.  The streamer is then held by the handler *)
(* alone: an exception out of any later step destroys it.                  *)
(***************************************************************************)
\* Mutant: the entry is used without asking whether there is one.
FindHitsUnchecked(s) ==
  Received(s, "handleRead", {"FIND_STREAMER"})

FindHits(s) ==
  /\ Received(s, "handleRead", {"FIND_STREAMER"})
  /\ senders_sessions[inbox[s].content] # NoSession

\* Mutant: the entry is copied, not extracted.
FindStreamerKeepsEntry(s) ==
  /\ FindHits(s)
  /\ io' = At("found", s, senders_sessions[inbox[s].content])
  /\ reading' = [reading EXCEPT ![s] = "none"]
  /\ UNCHANGED <<told, sock, authed, registryVars, bridges, server>>

FindStreamer(s) ==
  /\ FindHits(s)
  /\ LET code == inbox[s].content IN
       /\ io' = At("found", s, senders_sessions[code])
       /\ senders_sessions' = [senders_sessions EXCEPT ![code] = NoSession]
       /\ expired' = [expired EXCEPT ![code] = FALSE]
  /\ reading' = [reading EXCEPT ![s] = "none"]
  /\ UNCHANGED <<told, sock, authed, bridges, server>>

\* No such code: NACK and the next read, so that the viewer may ask again.
FindMisses(s) ==
  /\ Received(s, "handleRead", {"FIND_STREAMER"})
  /\ senders_sessions[inbox[s].content] = NoSession
  /\ UNCHANGED <<authed, registryVars, bridges, server>>
  /\ \/ /\ CanWrite(s)
        /\ UNCHANGED <<told, reading, io, sock>>
     \/ /\ ~CanWrite(s)
        /\ HandlerThrows(s)

\* Mutant: the viewer is not answered.
SendFindAckSkipped(receiver, sender) ==
  /\ server = "running"
  /\ io = At("found", receiver, sender)
  /\ io' = At("acked", receiver, sender)
  /\ UNCHANGED <<clientVars, told, reading, sock, authed, registryVars, bridges, server>>

\* receiver->sendACK().
SendFindAck(receiver, sender) ==
  /\ server = "running"
  /\ io = At("found", receiver, sender)
  /\ UNCHANGED <<clientVars, authed, registryVars, bridges, server>>
  /\ \/ /\ CanWrite(receiver)
        /\ told' = Told(receiver, "FIND_ACK")
        /\ io' = At("acked", receiver, sender)
        /\ UNCHANGED <<reading, sock>>
     \/ /\ ~CanWrite(receiver)
        /\ HandlerThrows(receiver)

\* Mutant: a failed send is retried for ever.
SendStartStreamRetried(receiver, sender) ==
  /\ server = "running"
  /\ io = At("acked", receiver, sender)
  /\ told' = IF CanWrite(sender) THEN Told(sender, "START_STREAM") ELSE told
  /\ io' = IF CanWrite(sender) THEN At("started", receiver, sender) ELSE io
  /\ UNCHANGED <<clientVars, reading, sock, authed, registryVars, bridges, server>>

\* sender_session->send(START_STREAM).  A failure reaches the viewer, already
\* told ACK, as a DISCONNECT.
SendStartStream(receiver, sender) ==
  /\ server = "running"
  /\ io = At("acked", receiver, sender)
  /\ UNCHANGED <<clientVars, authed, registryVars, bridges, server>>
  /\ \/ /\ CanWrite(sender)
        /\ told' = Told(sender, "START_STREAM")
        /\ io' = At("started", receiver, sender)
        /\ UNCHANGED <<reading, sock>>
     \/ /\ ~CanWrite(sender)
        /\ HandlerThrows(receiver)

(***************************************************************************)
(* make_shared<SSLBridge> and start().  The bridge takes both streams; the *)
(* two session objects die empty.  Bridge's constructor asks each stream   *)
(* for its remote_endpoint(), which throws when that connection has been   *)
(* reset: both streams are destroyed with the half-made bridge, and the    *)
(* safeDisconnect that follows writes to the moved-from stream of the      *)
(* receiver.  That is undefined: it throws and is swallowed, or crashes.   *)
(***************************************************************************)
OpenBridge(receiver, sender) ==
  /\ server = "running"
  /\ io = At("started", receiver, sender)
  /\ io' = Idle
  /\ UNCHANGED <<clientVars, told, reading, authed, registryVars>>
  /\ \/ /\ CanWrite(sender) /\ CanWrite(receiver)
        /\ bridges' = bridges \cup {<<sender, receiver>>}
        /\ sock' = [sock EXCEPT ![sender] = "moved", ![receiver] = "moved"]
        /\ UNCHANGED server
     \/ /\ ~CanWrite(sender) \/ ~CanWrite(receiver)
        /\ sock' = [sock EXCEPT ![sender] = "closed", ![receiver] = "closed"]
        /\ server' \in {"running", "down"}
        /\ UNCHANGED bridges

\* A read or write of a bridge fails.  Bridge::close throws out of the handler
\* and so out of run() (module Bridge), which nothing in main catches.
BridgeEnds(b) ==
  /\ IoIdle
  /\ b \in bridges
  /\ peer[b[1]] # "up" \/ peer[b[2]] # "up"
  /\ server' = "down"
  /\ UNCHANGED <<clientVars, told, sock, reading, authed, io, registryVars, bridges>>
-----------------------------------------------------------------------------
(***************************************************************************)
(* The cleaner thread: one sweep is one critical section of the mutex, and *)
(* may fall between any two steps of the io thread.                        *)
(***************************************************************************)
Expire(code) ==
  /\ server = "running"
  /\ senders_sessions[code] # NoSession
  /\ ~expired[code]
  /\ expired' = [expired EXCEPT ![code] = TRUE]
  /\ UNCHANGED <<clientVars, told, sock, reading, authed, io, senders_sessions,
                 bridges, server>>

\* Mutant: the sweep erases every entry, whatever its age.
SweepEverything ==
  /\ server = "running"
  /\ \E c \in Code : senders_sessions[c] # NoSession
  /\ senders_sessions' = [c \in Code |-> NoSession]
  /\ expired' = [c \in Code |-> FALSE]
  /\ UNCHANGED <<clientVars, told, reading, authed, io, bridges, server>>
  /\ Release(sock)

\* Mutant: nobody sweeps.
SweepNothing == UNCHANGED vars

terminateTimeoutClients ==
  /\ server = "running"
  /\ \E c \in Code : expired[c]
  /\ senders_sessions' = [c \in Code |-> IF expired[c] THEN NoSession
                                                      ELSE senders_sessions[c]]
  /\ expired' = [c \in Code |-> FALSE]
  /\ UNCHANGED <<clientVars, told, reading, authed, io, bridges, server>>
  /\ Release(sock)
-----------------------------------------------------------------------------
Client(s) ==
  \/ Connect(s) \/ ClientLeave(s) \/ ConnectionReset(s)
  \/ \E msg \in Message : ClientSend(s, msg)

Accept(s) == AcceptConnection(s) \/ AcceptFails(s)

Handshake(s) == HandshakeOk(s) \/ HandshakeFails(s)

\* The completion handler of the session's pending read.
HandleRead(s) ==
  \/ ReadFails(s) \/ RejectHeader(s)
  \/ LoginAccepted(s) \/ LoginRejected(s) \/ LoginRefused(s)
  \/ HandleRegister(s) \/ FindStreamer(s) \/ FindMisses(s) \/ HandleUnexpected(s)

createBridgeWithStreamer(receiver, sender) ==
  \/ SendFindAck(receiver, sender)
  \/ SendStartStream(receiver, sender)
  \/ OpenBridge(receiver, sender)

Cleaner == terminateTimeoutClients \/ \E c \in Code : Expire(c)

Next ==
  \/ \E s \in Session : Client(s) \/ Accept(s) \/ Handshake(s) \/ HandleRead(s)
                        \/ SendId(s)
  \/ \E r, s \in Session : createBridgeWithStreamer(r, s)
  \/ \E b \in bridges : BridgeEnds(b)
  \/ Cleaner

Spec == Init /\ [][Next]_vars

(***************************************************************************)
(* Fairness.  The io thread goes on with the handler it is in (the client  *)
(* handshakes right after it connects, so the handshake ends as well), and *)
(* io_context runs completed operations in the order they completed: one   *)
(* that stays ready between other handlers gets its turn.  The cleaner     *)
(* wakes up every check_interval.  A bridge is taken not to block in its   *)
(* writes for ever, which it does when its clients stop receiving; nothing *)
(* else is assumed of the clients.                                         *)
(***************************************************************************)
Fairness ==
  /\ \A s \in Session : WF_vars(Handshake(s) \/ SendId(s))
  /\ \A s \in Session : SF_vars(Accept(s)) /\ SF_vars(HandleRead(s))
  /\ \A r, s \in Session : WF_vars(createBridgeWithStreamer(r, s))
  /\ WF_vars(terminateTimeoutClients)
  /\ \A c \in Code : WF_vars(Expire(c))

FairSpec == Spec /\ Fairness

-----------------------------------------------------------------------------
(***************************************************************************)
(* Properties.                                                             *)
(***************************************************************************)
Bridged(s) == \E b \in bridges : s \in {b[1], b[2]}

\* s is the viewer or the streamer of the claim the io thread is handling.
Claimed(s) == io.step \in {"found", "acked", "started"} /\ s \in {io.self, io.other}

\* The values every variable takes.
TypeOK ==
  /\ peer \in [Session -> {"none", "up", "gone", "reset"}]
  /\ inbox \in [Session -> Message \cup {NoMessage}]
  /\ told \in [Session -> SUBSET Answer]
  /\ sock \in [Session -> {"none", "backlog", "open", "moved", "closed"}]
  /\ reading \in [Session -> {"none", "authenticateCallback", "handleRead"}]
  /\ authed \in SUBSET Session
  /\ io \in IoStates
  /\ senders_sessions \in [Code -> Session \cup {NoSession}]
  /\ expired \in [Code -> BOOLEAN]
  /\ bridges \in SUBSET (Session \X Session)
  /\ server \in {"running", "down"}

\* A stream never has two readers: a session with a pending asyncReadMessage
\* is neither on offer, nor being claimed, nor part of a bridge, all of which
\* hand its stream to somebody else (ProxySession::handleRead reschedules in
\* two of its three cases only).
OneReader ==
  \A s \in Session : reading[s] # "none" =>
    /\ sock[s] = "open"
    /\ ~Registered(s) /\ ~Claimed(s) /\ ~Bridged(s)

\* Whoever is on offer, claims, is claimed or talks through a bridge has
\* logged in (authenticateCallback is the only way to handleRead).
AuthenticatedOnly ==
  \A s \in Session :
    reading[s] = "handleRead" \/ Registered(s) \/ Claimed(s) \/ Bridged(s)
      => s \in authed

\* A streamer is given to one viewer at most: two bridges share no session,
\* no bridge joins a session to itself, and nobody in a bridge or in a claim
\* is still on offer (createBridgeWithStreamer extracts under the mutex).
BridgesDisjoint ==
  /\ \A s \in Session : Claimed(s) \/ Bridged(s) => ~Registered(s)
  /\ \A s \in Session : Claimed(s) => ~Bridged(s)
  /\ io.step \in {"found", "acked", "started"} => io.self # io.other
  /\ \A b \in bridges : b[1] # b[2]
  /\ \A b, c \in bridges : b # c => {b[1], b[2]} \cap {c[1], c[2]} = {}

\* What makes the three invariants above inductive.  Every role keeps its
\* stream in a certain state, so that a connection that is only now accepted
\* cannot have one; and one code is all registerStreamer hands out, so that
\* extracting it takes a session off the registry altogether.
StreamOfRole ==
  /\ \A s \in Session : Registered(s) \/ Claimed(s) => sock[s] = "open"
  /\ \A s \in Session : Bridged(s) => sock[s] = "moved"
  /\ io.step \in {"handshake", "registered"} =>
       sock[io.self] = "open" /\ reading[io.self] = "none"
  /\ io.step = "handshake" => ~Registered(io.self)

OneCode == \A c \in Code : c # SessionId => senders_sessions[c] = NoSession

\* The ownership of the streams: the inductive invariant of ProxyServerProofs.
Ownership ==
  /\ TypeOK
  /\ StreamOfRole
  /\ OneCode
  /\ OneReader
  /\ AuthenticatedOnly
  /\ BridgesDisjoint

\* What clients are told, and when.  A streamer hears its ID before START_STREAM,
\* although it is on offer before the ID is sent: no viewer can claim it in
\* between (registerStreamer and the send run in one handler of the only io
\* thread).  And when a bridge starts relaying raw bytes, both clients that are
\* still there have been told that it will: the streamer START_STREAM, the viewer
\* ACK.
ToldInOrder ==
  /\ \A s \in Session :
       /\ "START_STREAM" \in told[s] => "ID" \in told[s]
       /\ Registered(s) /\ peer[s] = "up" =>
            "ID" \in told[s] \/ io = At("registered", s, NoSession)
  /\ \A b \in bridges :
       /\ peer[b[1]] = "up" => "START_STREAM" \in told[b[1]]
       /\ peer[b[2]] = "up" => "FIND_ACK" \in told[b[2]]

\* The server closes a waiting streamer only because its registration timed
\* out or another streamer took its code; a claimed one, or the viewer that
\* claims it, only because one of the two connections was reset.
StreamerClosedForCause ==
  [][\A s \in Session : sock[s] = "open" /\ sock'[s] = "closed" =>
       /\ Registered(s) =>
            \E c \in Code : /\ senders_sessions[c] = s
                            /\ expired[c] \/ senders_sessions'[c] \notin {s, NoSession}
       /\ Claimed(s) => peer[io.self] = "reset" \/ peer[io.other] = "reset"]_vars

\* A claim is always settled: both sessions in a bridge, or both let go, or
\* the process is gone (createBridgeWithStreamer never leaves a viewer that
\* was told ACK without a stream and without a closed connection).
ClaimSettles ==
  \A r, s \in Session :
    io = At("found", r, s) ~>
      \/ Bridged(r) /\ Bridged(s)
      \/ sock[r] = "closed" /\ sock[s] = "closed"
      \/ server = "down"

\* The acceptor and the cleaner go on for every connection.  Each is taken from
\* the backlog: a handshake that fails, or a connection that is dead on arrival,
\* does not end the accept loop.  And each whose client has left is let go of: the
\* read in progress fails, or the waiting streamer, which has no read, times out.
ConnectionsServed ==
  \A s \in Session :
    /\ sock[s] = "backlog" ~> sock[s] # "backlog" \/ server = "down"
    /\ peer[s] \in {"gone", "reset"} ~>
         sock[s] \in {"closed", "moved"} \/ server = "down"
-----------------------------------------------------------------------------
(***************************************************************************)
(* The refinement of Rendezvous.  A session whose registration has been    *)
(* swept while its ID is still to be sent has left already.                *)
(***************************************************************************)
RoleOf(s) ==
  IF Bridged(s) THEN "paired"
  ELSE IF sock[s] = "closed" THEN "left"
  ELSE IF Claimed(s) THEN (IF s = io.self THEN "claiming" ELSE "claimed")
  ELSE IF Registered(s) THEN "offering"
  ELSE IF reading[s] = "handleRead" THEN "member"
  ELSE IF io = At("registered", s, NoSession) THEN "left"
  ELSE "outside"

Promise == INSTANCE Rendezvous
             WITH role <- [s \in Session |-> RoleOf(s)], offers <- senders_sessions

\* The proxy server implements Rendezvous: every step of every thread is one
\* of its steps or changes no role and no offer.
ImplementsRendezvous == Promise!RSpec

=============================================================================
