--------------------------- MODULE ProxyServerProofs ---------------------------
(***************************************************************************)
(* Theorems about ProxyServer, for any number of connections and codes:    *)
(* the types of its variables, the ownership of the streams, that nobody   *)
(* on offer or in a claim is closed without a cause, the order of what     *)
(* clients are told, and that the server implements Rendezvous.            *)
(***************************************************************************)
EXTENDS ProxyServer, TLAPS

SockState == {"none", "backlog", "open", "moved", "closed"}

-----------------------------------------------------------------------------
(***************************************************************************)
(* Typing.                                                                 *)
(***************************************************************************)

\* Release gives every stream a state again: it only closes open ones.
LEMMA ReleaseType ==
  ASSUME NEW after \in [Session -> SockState], Release(after)
  PROVE  sock' \in [Session -> SockState]
BY DEF Release, SockState

\* disconnect closes the stream or leaves it as it was.
LEMMA DisconnectType ==
  ASSUME TypeOK, NEW s \in Session
  PROVE  Disconnect(s) \in [Session -> SockState]
BY DEF TypeOK, Disconnect, SockState

\* The state of the io thread between handlers, and in each of the three
\* handlers that are split into steps, is one of IoStates.
LEMMA IoType ==
  /\ Idle \in IoStates
  /\ \A s \in Session : /\ At("handshake", s, NoSession) \in IoStates
                        /\ At("registered", s, NoSession) \in IoStates
  /\ \A s, t \in Session : /\ At("found", s, t) \in IoStates
                           /\ At("acked", s, t) \in IoStates
                           /\ At("started", s, t) \in IoStates
BY DEF Idle, At, IoStates

\* A handler that throws (SocketBase::asyncReadMessageImpl) changes the read,
\* the stream and the position of the io thread to values of their types.
LEMMA HandlerThrowsType ==
  ASSUME TypeOK, NEW s \in Session, HandlerThrows(s)
  PROVE  /\ reading' \in [Session -> {"none", "authenticateCallback", "handleRead"}]
         /\ io' \in IoStates
         /\ told' = told
         /\ sock' \in [Session -> SockState]
<1>1. Disconnect(s) \in [Session -> SockState]
  BY DisconnectType
<1>2. sock' \in [Session -> SockState]
  BY <1>1, ReleaseType DEF HandlerThrows
<1> QED
  BY <1>2, IoType DEF HandlerThrows, TypeOK

\* What an answer adds to the history is an answer.
LEMMA ToldType ==
  ASSUME TypeOK, NEW s \in Session, NEW a \in Answer
  PROVE  Told(s, a) \in [Session -> SUBSET Answer]
BY DEF TypeOK, Told

\* Every step of every thread and client keeps the types.
LEMMA TypeStep ==
  ASSUME TypeOK, [Next]_vars
  PROVE  TypeOK'
<1> USE DEF clientVars, registryVars
<1>0. sock \in [Session -> SockState]
  BY DEF TypeOK, SockState
<1>1. ASSUME NEW s \in Session, Client(s) PROVE TypeOK'
  <2>1. CASE Connect(s)
    BY <2>1 DEF TypeOK, Connect
  <2>2. CASE ClientLeave(s)
    BY <2>2 DEF TypeOK, ClientLeave
  <2>3. CASE ConnectionReset(s)
    BY <2>3 DEF TypeOK, ConnectionReset
  <2>4. CASE \E msg \in Message : ClientSend(s, msg)
    BY <2>4 DEF TypeOK, ClientSend
  <2> QED
    BY <1>1, <2>1, <2>2, <2>3, <2>4 DEF Client
<1>2. ASSUME NEW s \in Session, Accept(s) PROVE TypeOK'
  <2>1. CASE AcceptConnection(s)
    BY <2>1, IoType DEF TypeOK, AcceptConnection
  <2>2. CASE AcceptFails(s)
    BY <2>2 DEF TypeOK, AcceptFails
  <2> QED
    BY <1>2, <2>1, <2>2 DEF Accept
<1>3. ASSUME NEW s \in Session, Handshake(s) PROVE TypeOK'
  <2>1. CASE HandshakeOk(s)
    BY <2>1, IoType DEF TypeOK, HandshakeOk
  <2>2. CASE HandshakeFails(s)
    <3>1. sock' \in [Session -> SockState]
      BY <2>2, <1>0, ReleaseType DEF HandshakeFails
    <3> QED
      BY <2>2, <3>1, IoType DEF TypeOK, HandshakeFails, SockState
  <2> QED
    BY <1>3, <2>1, <2>2 DEF Handshake
<1>4. ASSUME NEW s \in Session, HandleRead(s) PROVE TypeOK'
  <2>1. CASE ReadFails(s)
    <3>1. sock' \in [Session -> SockState]
      BY <2>1, <1>0, ReleaseType DEF ReadFails
    <3> QED
      BY <2>1, <3>1 DEF TypeOK, ReadFails, SockState
  <2>2. CASE RejectHeader(s)
    BY <2>2, HandlerThrowsType DEF TypeOK, RejectHeader, Received, SockState
  <2>3. CASE LoginAccepted(s)
    <3>1. CASE CanWrite(s)
      BY <2>3, <3>1 DEF TypeOK, LoginAccepted, Received
    <3>2. CASE ~CanWrite(s)
      <4>1. HandlerThrows(s)
        BY <2>3, <3>2 DEF LoginAccepted
      <4> QED
        BY <2>3, <4>1, HandlerThrowsType
           DEF TypeOK, LoginAccepted, Received, SockState
    <3> QED
      BY <3>1, <3>2
  <2>4. CASE LoginRejected(s)
    <3>1. sock' \in [Session -> SockState]
      BY <2>4, <1>0, ReleaseType DEF LoginRejected
    <3> QED
      BY <2>4, <3>1 DEF TypeOK, LoginRejected, Received, SockState
  <2>5. CASE LoginRefused(s)
    BY <2>5, HandlerThrowsType DEF TypeOK, LoginRefused, Received, SockState
  <2>6. CASE HandleRegister(s)
    <3>1. sock' \in [Session -> SockState]
      BY <2>6, <1>0, ReleaseType DEF HandleRegister
    <3> QED
      BY <2>6, <3>1, IoType DEF TypeOK, HandleRegister, Received, SockState
  <2>7. CASE FindStreamer(s)
    <3>1. inbox[s].content \in Code
      BY <2>7 DEF TypeOK, FindStreamer, FindHits, Received, Message, NoMessage
    <3>2. senders_sessions[inbox[s].content] \in Session
      BY <2>7, <3>1 DEF TypeOK, FindStreamer, FindHits
    <3> QED
      BY <2>7, <3>1, <3>2, IoType DEF TypeOK, FindStreamer, FindHits, Received
  <2>8. CASE FindMisses(s)
    <3>1. CASE CanWrite(s)
      BY <2>8, <3>1 DEF TypeOK, FindMisses, Received
    <3>2. CASE ~CanWrite(s)
      <4>1. HandlerThrows(s)
        BY <2>8, <3>2 DEF FindMisses
      <4> QED
        BY <2>8, <4>1, HandlerThrowsType DEF TypeOK, FindMisses, Received, SockState
    <3> QED
      BY <3>1, <3>2
  <2>9. CASE HandleUnexpected(s)
    <3>1. CASE CanWrite(s)
      BY <2>9, <3>1 DEF TypeOK, HandleUnexpected, Received
    <3>2. CASE ~CanWrite(s)
      <4>1. HandlerThrows(s)
        BY <2>9, <3>2 DEF HandleUnexpected
      <4> QED
        BY <2>9, <4>1, HandlerThrowsType
           DEF TypeOK, HandleUnexpected, Received, SockState
    <3> QED
      BY <3>1, <3>2
  <2> QED
    BY <1>4, <2>1, <2>2, <2>3, <2>4, <2>5, <2>6, <2>7, <2>8, <2>9 DEF HandleRead
<1>5. ASSUME NEW s \in Session, SendId(s) PROVE TypeOK'
  <2>1. sock' \in [Session -> SockState]
    BY <1>5, <1>0, ReleaseType DEF SendId
  <2>2. told' \in [Session -> SUBSET Answer]
    BY <1>5, ToldType DEF SendId, Answer
  <2> QED
    BY <1>5, <2>1, <2>2, IoType DEF TypeOK, SendId, SockState
<1>6. ASSUME NEW r \in Session, NEW s \in Session, createBridgeWithStreamer(r, s)
      PROVE TypeOK'
  <2>1. CASE SendFindAck(r, s)
    <3>1. CASE CanWrite(r)
      <4>1. told' \in [Session -> SUBSET Answer]
        BY <2>1, <3>1, ToldType DEF SendFindAck, Answer
      <4> QED
        BY <2>1, <3>1, <4>1, IoType DEF TypeOK, SendFindAck
    <3>2. CASE ~CanWrite(r)
      <4>1. HandlerThrows(r)
        BY <2>1, <3>2 DEF SendFindAck
      <4> QED
        BY <2>1, <4>1, HandlerThrowsType DEF TypeOK, SendFindAck, SockState
    <3> QED
      BY <3>1, <3>2
  <2>2. CASE SendStartStream(r, s)
    <3>1. CASE CanWrite(s)
      <4>1. told' \in [Session -> SUBSET Answer]
        BY <2>2, <3>1, ToldType DEF SendStartStream, Answer
      <4> QED
        BY <2>2, <3>1, <4>1, IoType DEF TypeOK, SendStartStream
    <3>2. CASE ~CanWrite(s)
      <4>1. HandlerThrows(r)
        BY <2>2, <3>2 DEF SendStartStream
      <4> QED
        BY <2>2, <4>1, HandlerThrowsType DEF TypeOK, SendStartStream, SockState
    <3> QED
      BY <3>1, <3>2
  <2>3. CASE OpenBridge(r, s)
    BY <2>3, IoType DEF TypeOK, OpenBridge
  <2> QED
    BY <1>6, <2>1, <2>2, <2>3 DEF createBridgeWithStreamer
<1>7. ASSUME NEW b \in bridges, BridgeEnds(b) PROVE TypeOK'
  BY <1>7 DEF TypeOK, BridgeEnds
<1>8. CASE Cleaner
  <2>1. CASE terminateTimeoutClients
    <3>1. sock' \in [Session -> SockState]
      BY <2>1, <1>0, ReleaseType DEF terminateTimeoutClients
    <3> QED
      BY <2>1, <3>1 DEF TypeOK, terminateTimeoutClients, SockState
  <2>2. CASE \E c \in Code : Expire(c)
    BY <2>2 DEF TypeOK, Expire
  <2> QED
    BY <1>8, <2>1, <2>2 DEF Cleaner
<1>9. CASE UNCHANGED vars
  BY <1>9 DEF TypeOK, vars
<1> QED
  BY <1>1, <1>2, <1>3, <1>4, <1>5, <1>6, <1>7, <1>8, <1>9 DEF Next

\* Type correctness of the proxy server, for any connections and codes.
THEOREM TypeCorrect == Spec => []TypeOK
<1>1. Init => TypeOK
  BY IoType DEF Init, TypeOK, NoMessage
<1>2. TypeOK /\ [Next]_vars => TypeOK'
  BY TypeStep
<1> QED
  BY <1>1, <1>2, PTL DEF Spec
-----------------------------------------------------------------------------
(***************************************************************************)
(* Ownership of the streams.                                               *)
(***************************************************************************)

\* Release leaves a stream that is still referenced, or not open, as the
\* handler made it, and can do nothing to the others but close them.
LEMMA ReleaseFacts ==
  ASSUME NEW after, Release(after), NEW s \in Session
  PROVE  /\ after[s] # "open" => sock'[s] = after[s]
         /\ Referenced(s)' => sock'[s] = after[s]
         /\ sock'[s] \in {after[s], "closed"}
BY DEF Release

\* Nothing about ownership changes in a step of a client, of the clock, or of
\* a bridge that ends.
LEMMA OwnershipFrame ==
  ASSUME Ownership, TypeOK',
         UNCHANGED <<sock, reading, authed, io, senders_sessions, bridges>>
  PROVE  Ownership'
BY DEF Ownership, StreamOfRole, OneCode, OneReader, AuthenticatedOnly,
       BridgesDisjoint, Registered, Claimed, Bridged

\* The io thread is done with a handler that does not read from s again.  If
\* the handler disconnected s, then s is neither on offer nor in a bridge.
LEMMA LetGo ==
  ASSUME Ownership, TypeOK', NEW s \in Session, NEW after,
         \/ after = sock
         \/ after = [sock EXCEPT ![s] = "closed"] /\ ~Registered(s) /\ ~Bridged(s),
         reading' = [reading EXCEPT ![s] = "none"],
         io' = Idle,
         authed \subseteq authed',
         UNCHANGED <<senders_sessions, bridges>>,
         Release(after)
  PROVE  Ownership'
<1> USE DEF Ownership
<1>1. \A t \in Session : /\ after[t] # "open" => sock'[t] = after[t]
                         /\ Referenced(t)' => sock'[t] = after[t]
  BY ReleaseFacts
<1>2. \A t \in Session :
        t # s \/ Registered(t) \/ Bridged(t) => after[t] = sock[t]
  BY DEF TypeOK
<1>3. \A t \in Session : Registered(t)' <=> Registered(t)
  BY DEF Registered
<1>4. \A t \in Session : Bridged(t)' <=> Bridged(t)
  BY DEF Bridged
<1>5. \A t \in Session : ~Claimed(t)'
  BY DEF Claimed, Idle
<1>6. \A t \in Session : reading'[t] # "none" => reading[t] # "none" /\ t # s
  BY DEF TypeOK
<1>7. \A t \in Session : Registered(t)' => sock'[t] = "open"
  BY <1>1, <1>2, <1>3 DEF StreamOfRole, Referenced
<1>8. \A t \in Session : Bridged(t)' => sock'[t] = "moved"
  BY <1>1, <1>2, <1>4 DEF StreamOfRole
<1>9. StreamOfRole'
  BY <1>5, <1>7, <1>8 DEF StreamOfRole, Idle
<1>10. OneReader'
  BY <1>1, <1>2, <1>3, <1>4, <1>5, <1>6 DEF OneReader, Referenced
<1>11. OneCode'
  BY DEF OneCode
<1>12. AuthenticatedOnly'
  BY <1>3, <1>4, <1>5 DEF AuthenticatedOnly, TypeOK
<1>13. BridgesDisjoint'
  BY <1>3, <1>4, <1>5 DEF BridgesDisjoint, Idle
<1> QED
  BY <1>9, <1>10, <1>11, <1>12, <1>13

\* A handler that throws: s is reading, or is the viewer of the claim.
LEMMA ThrowsLetsGo ==
  ASSUME Ownership, TypeOK', NEW s \in Session, HandlerThrows(s),
         authed \subseteq authed',
         UNCHANGED <<senders_sessions, bridges>>,
         ~Registered(s), ~Bridged(s)
  PROVE  Ownership'
<1>1. \/ Disconnect(s) = sock
      \/ Disconnect(s) = [sock EXCEPT ![s] = "closed"]
  BY DEF Disconnect, Ownership, TypeOK
<1>2. Release(Disconnect(s))
  BY DEF HandlerThrows
<1> QED
  BY <1>1, <1>2, LetGo DEF HandlerThrows

\* The pending read of s completes: the io thread is idle and s is neither on
\* offer nor in a bridge.
LEMMA Reader ==
  ASSUME Ownership, NEW s \in Session, reading[s] # "none"
  PROVE  sock[s] = "open" /\ ~Registered(s) /\ ~Claimed(s) /\ ~Bridged(s)
BY DEF Ownership, OneReader

\* REGISTER_STREAMER keeps the ownership: the streamer gives its read up, and
\* whoever was on offer before is closed.
LEMMA RegisterStep ==
  ASSUME Ownership, TypeOK', NEW s \in Session, HandleRegister(s)
  PROVE  Ownership'
<1> USE DEF Ownership
<1>1. /\ reading[s] = "handleRead"
      /\ io = Idle
      /\ senders_sessions' = [senders_sessions EXCEPT ![SessionId] = s]
      /\ reading' = [reading EXCEPT ![s] = "none"]
      /\ io' = At("registered", s, NoSession)
      /\ authed' = authed
      /\ bridges' = bridges
      /\ Release(sock)
  BY DEF HandleRegister, Received, IoIdle
<1>2. sock[s] = "open" /\ ~Registered(s) /\ ~Bridged(s) /\ s \in authed
  BY <1>1, Reader DEF AuthenticatedOnly
<1>3. \A t \in Session : /\ sock[t] # "open" => sock'[t] = sock[t]
                         /\ Referenced(t)' => sock'[t] = sock[t]
  BY <1>1, ReleaseFacts
<1>4. \A t \in Session : Registered(t)' => t = s \/ Registered(t)
  BY <1>1, CodeAssumption DEF Registered, TypeOK
<1>5. \A t \in Session : Bridged(t)' <=> Bridged(t)
  BY <1>1 DEF Bridged
<1>6. \A t \in Session : ~Claimed(t)'
  BY <1>1 DEF Claimed, At
<1>7. \A t \in Session : reading'[t] # "none" => reading[t] # "none" /\ t # s
  BY <1>1 DEF TypeOK
<1>8. Referenced(s)'
  BY <1>1 DEF Referenced, At
<1>9. StreamOfRole'
  <2>1. \A t \in Session : Registered(t)' => sock'[t] = "open"
    BY <1>2, <1>3, <1>4 DEF StreamOfRole, Referenced
  <2>2. \A t \in Session : Bridged(t)' => sock'[t] = "moved"
    BY <1>3, <1>5 DEF StreamOfRole
  <2>3. sock'[s] = "open" /\ reading'[s] = "none"
    BY <1>1, <1>2, <1>3, <1>8 DEF TypeOK
  <2> QED
    BY <1>1, <1>6, <2>1, <2>2, <2>3 DEF StreamOfRole, At
<1>10. OneReader'
  <2>1. \A t \in Session : reading'[t] # "none" => sock'[t] = "open"
    BY <1>3, <1>7 DEF OneReader, Referenced
  <2> QED
    BY <2>1, <1>4, <1>5, <1>6, <1>7 DEF OneReader
<1>11. OneCode'
  BY <1>1 DEF OneCode, TypeOK
<1>12. AuthenticatedOnly'
  BY <1>1, <1>2, <1>4, <1>5, <1>6, <1>7 DEF AuthenticatedOnly, TypeOK
<1>13. BridgesDisjoint'
  BY <1>1, <1>2, <1>4, <1>5, <1>6 DEF BridgesDisjoint, At
<1> QED
  BY <1>9, <1>10, <1>11, <1>12, <1>13

\* FIND_STREAMER that finds keeps the ownership: the streamer is off the
\* registry, under every code, when the io thread goes on with it.
LEMMA FindStep ==
  ASSUME Ownership, TypeOK', NEW s \in Session, FindStreamer(s)
  PROVE  Ownership'
<1> USE DEF Ownership
<1> DEFINE code == inbox[s].content
           sender == senders_sessions[code]
<1>1. /\ reading[s] = "handleRead"
      /\ io = Idle
      /\ sender # NoSession
      /\ io' = At("found", s, sender)
      /\ senders_sessions' = [senders_sessions EXCEPT ![code] = NoSession]
      /\ reading' = [reading EXCEPT ![s] = "none"]
      /\ UNCHANGED <<sock, authed, bridges>>
  BY DEF FindStreamer, FindHits, Received, IoIdle
<1>2. code \in Code
  BY DEF TypeOK, FindStreamer, FindHits, Received, Message, NoMessage
<1>3. sender \in Session /\ Registered(sender)
  BY <1>1, <1>2 DEF TypeOK, Registered
<1>4. sock[s] = "open" /\ ~Registered(s) /\ ~Bridged(s) /\ s \in authed
  BY <1>1, Reader DEF AuthenticatedOnly
<1>5. /\ sender # s
      /\ sock[sender] = "open"
      /\ reading[sender] = "none"
      /\ sender \in authed
      /\ ~Bridged(sender)
  BY <1>3, <1>4 DEF StreamOfRole, OneReader, AuthenticatedOnly, BridgesDisjoint
<1>6. \A t \in Session : Registered(t)' => Registered(t) /\ t # sender
  BY <1>1, <1>2, SessionAssumption DEF Registered, OneCode, TypeOK
<1>7. \A t \in Session : Bridged(t)' <=> Bridged(t)
  BY <1>1 DEF Bridged
<1>8. \A t \in Session : Claimed(t)' => t \in {s, sender}
  BY <1>1 DEF Claimed, At
<1>9. \A t \in Session : reading'[t] # "none" => reading[t] # "none" /\ t \notin {s, sender}
  BY <1>1, <1>5 DEF TypeOK
<1>10. StreamOfRole'
  BY <1>1, <1>4, <1>5, <1>6, <1>7, <1>8 DEF StreamOfRole, At
<1>11. OneReader'
  BY <1>1, <1>6, <1>7, <1>8, <1>9 DEF OneReader
<1>12. OneCode'
  BY <1>1, <1>2 DEF OneCode, TypeOK
<1>13. AuthenticatedOnly'
  BY <1>1, <1>4, <1>5, <1>6, <1>7, <1>8, <1>9 DEF AuthenticatedOnly, TypeOK
<1>14. BridgesDisjoint'
  BY <1>1, <1>4, <1>5, <1>6, <1>7, <1>8 DEF BridgesDisjoint, At
<1> QED
  BY <1>10, <1>11, <1>12, <1>13, <1>14

\* The three steps of createBridgeWithStreamer after the extraction: the claim
\* goes on, is abandoned, or ends in a bridge that owns both streams.
LEMMA ClaimStep ==
  ASSUME Ownership, TypeOK', NEW r \in Session, NEW s \in Session,
         createBridgeWithStreamer(r, s)
  PROVE  Ownership'
<1> USE DEF Ownership
<1>1. /\ io.self = r /\ io.other = s
      /\ io.step \in {"found", "acked", "started"}
  BY DEF createBridgeWithStreamer, SendFindAck, SendStartStream, OpenBridge, At
<1>2. /\ r # s
      /\ Claimed(r) /\ Claimed(s)
      /\ sock[r] = "open" /\ sock[s] = "open"
      /\ ~Registered(r) /\ ~Registered(s) /\ ~Bridged(r) /\ ~Bridged(s)
      /\ reading[r] = "none" /\ reading[s] = "none"
      /\ r \in authed /\ s \in authed
  BY <1>1 DEF Claimed, StreamOfRole, OneReader, AuthenticatedOnly, BridgesDisjoint
<1>3. ASSUME io' = At("acked", r, s) \/ io' = At("started", r, s),
             UNCHANGED <<sock, reading, authed, senders_sessions, bridges>>
      PROVE  Ownership'
  <2>1. \A t \in Session : Claimed(t)' => t \in {r, s}
    BY <1>3 DEF Claimed, At
  <2>2. \A t \in Session : (Registered(t)' <=> Registered(t)) /\ (Bridged(t)' <=> Bridged(t))
    BY <1>3 DEF Registered, Bridged
  <2>3. StreamOfRole'
    BY <1>2, <1>3, <2>1, <2>2 DEF StreamOfRole, At
  <2>4. OneReader'
    BY <1>2, <1>3, <2>1, <2>2 DEF OneReader
  <2>5. OneCode'
    BY <1>3 DEF OneCode
  <2>6. AuthenticatedOnly'
    BY <1>2, <1>3, <2>1, <2>2 DEF AuthenticatedOnly
  <2>7. BridgesDisjoint'
    BY <1>2, <1>3, <2>1, <2>2 DEF BridgesDisjoint, At
  <2> QED
    BY <2>3, <2>4, <2>5, <2>6, <2>7
<1>4. CASE SendFindAck(r, s)
  <2>1. CASE CanWrite(r)
    BY <1>3, <1>4, <2>1 DEF SendFindAck, registryVars
  <2>2. CASE ~CanWrite(r)
    BY <1>2, <1>4, <2>2, ThrowsLetsGo DEF SendFindAck, registryVars
  <2> QED
    BY <2>1, <2>2
<1>5. CASE SendStartStream(r, s)
  <2>1. CASE CanWrite(s)
    BY <1>3, <1>5, <2>1 DEF SendStartStream, registryVars
  <2>2. CASE ~CanWrite(s)
    BY <1>2, <1>5, <2>2, ThrowsLetsGo DEF SendStartStream, registryVars
  <2> QED
    BY <2>1, <2>2
<1>6. CASE OpenBridge(r, s)
  <2>1. /\ io' = Idle
        /\ UNCHANGED <<reading, authed, senders_sessions>>
    BY <1>6 DEF OpenBridge, registryVars
  <2>2. \A t \in Session : ~Claimed(t)'
    BY <2>1 DEF Claimed, Idle
  <2>3. \A t \in Session : Registered(t)' <=> Registered(t)
    BY <2>1 DEF Registered
  <2>4. \A t \in Session : t \notin {r, s} => sock'[t] = sock[t]
    BY <1>6 DEF OpenBridge, TypeOK
  <2>5. \A t \in Session : Registered(t) \/ reading[t] # "none" => t \notin {r, s}
    BY <1>2
  <2>6. OneCode'
    BY <2>1 DEF OneCode
  <2>7. CASE CanWrite(s) /\ CanWrite(r)
    <3>1. /\ bridges' = bridges \cup {<<s, r>>}
          /\ sock' = [sock EXCEPT ![s] = "moved", ![r] = "moved"]
      BY <1>6, <2>7 DEF OpenBridge
    <3>2. \A t \in Session : Bridged(t)' <=> Bridged(t) \/ t \in {r, s}
      <4>1. \A t \in Session : Bridged(t)' <=> \E b \in bridges' : t \in {b[1], b[2]}
        BY DEF Bridged
      <4>2. \A t \in Session : t \in {<<s, r>>[1], <<s, r>>[2]} <=> t \in {r, s}
        OBVIOUS
      <4> QED
        BY <3>1, <4>1, <4>2 DEF Bridged
    <3>3. sock'[r] = "moved" /\ sock'[s] = "moved"
      BY <1>2, <3>1 DEF TypeOK
    <3>4. StreamOfRole'
      BY <2>1, <2>2, <2>3, <2>4, <2>5, <3>2, <3>3 DEF StreamOfRole, Idle
    <3>5. OneReader'
      BY <2>1, <2>2, <2>3, <2>4, <2>5, <3>2 DEF OneReader
    <3>6. AuthenticatedOnly'
      BY <1>2, <2>1, <2>2, <2>3, <3>2 DEF AuthenticatedOnly
    <3>7. BridgesDisjoint'
      <4>1. \A b \in bridges : {b[1], b[2]} \cap {s, r} = {}
        BY <1>2 DEF Bridged
      <4>2. \A b \in bridges' : b[1] # b[2]
        BY <1>2, <3>1 DEF BridgesDisjoint
      <4>3. \A b, c \in bridges' : b # c => {b[1], b[2]} \cap {c[1], c[2]} = {}
        BY <3>1, <4>1 DEF BridgesDisjoint
      <4>4. \A t \in Session : Bridged(t)' => ~Registered(t)'
        BY <1>2, <2>3, <3>2 DEF BridgesDisjoint
      <4> QED
        BY <2>1, <2>2, <4>2, <4>3, <4>4 DEF BridgesDisjoint, Idle
    <3> QED
      BY <2>6, <3>4, <3>5, <3>6, <3>7
  <2>8. CASE ~CanWrite(s) \/ ~CanWrite(r)
    <3>1. bridges' = bridges
      BY <1>6, <2>8 DEF OpenBridge
    <3>2. \A t \in Session : Bridged(t)' <=> Bridged(t)
      BY <3>1 DEF Bridged
    <3>3. StreamOfRole'
      BY <1>2, <2>1, <2>2, <2>3, <2>4, <2>5, <3>2 DEF StreamOfRole, Idle
    <3>4. OneReader'
      BY <2>1, <2>2, <2>3, <2>4, <2>5, <3>2 DEF OneReader
    <3>5. AuthenticatedOnly'
      BY <2>1, <2>2, <2>3, <3>2 DEF AuthenticatedOnly
    <3>6. BridgesDisjoint'
      BY <2>1, <2>2, <2>3, <3>1, <3>2 DEF BridgesDisjoint, Idle
    <3> QED
      BY <2>6, <3>3, <3>4, <3>5, <3>6
  <2> QED
    BY <2>7, <2>8
<1> QED
  BY <1>4, <1>5, <1>6 DEF createBridgeWithStreamer

\* The cleaner only takes sessions off the registry and closes what nobody
\* else holds, wherever the io thread is in a handler.
LEMMA SweepStep ==
  ASSUME Ownership, TypeOK', terminateTimeoutClients
  PROVE  Ownership'
<1> USE DEF Ownership
<1>1. /\ UNCHANGED <<reading, authed, io, bridges>>
      /\ Release(sock)
      /\ \A c \in Code : senders_sessions'[c] \in {senders_sessions[c], NoSession}
  BY DEF terminateTimeoutClients
<1>2. \A t \in Session : /\ sock[t] # "open" => sock'[t] = sock[t]
                         /\ Referenced(t)' => sock'[t] = sock[t]
  BY <1>1, ReleaseFacts
<1>3. \A t \in Session : Registered(t)' => Registered(t)
  BY <1>1, SessionAssumption DEF Registered
<1>4. \A t \in Session : (Bridged(t)' <=> Bridged(t)) /\ (Claimed(t)' <=> Claimed(t))
  BY <1>1 DEF Bridged, Claimed
<1>5. \A t \in Session : Registered(t)' \/ Claimed(t)' \/ reading'[t] # "none"
                           \/ t \in {io'.self, io'.other} => sock'[t] = sock[t]
  BY <1>1, <1>2 DEF Referenced, Claimed
<1>6. StreamOfRole'
  <2>1. \A t \in Session : Registered(t)' \/ Claimed(t)' => sock'[t] = "open"
    BY <1>3, <1>4, <1>5 DEF StreamOfRole
  <2>2. \A t \in Session : Bridged(t)' => sock'[t] = "moved"
    BY <1>2, <1>4 DEF StreamOfRole
  <2>3. io'.step \in {"handshake", "registered"} => io'.self \in Session
    BY DEF TypeOK, IoStates, Idle
  <2> QED
    BY <1>1, <1>3, <1>5, <2>1, <2>2, <2>3 DEF StreamOfRole
<1>7. OneReader'
  BY <1>1, <1>3, <1>4, <1>5 DEF OneReader
<1>8. OneCode'
  BY <1>1 DEF OneCode
<1>9. AuthenticatedOnly'
  BY <1>1, <1>3, <1>4 DEF AuthenticatedOnly
<1>10. BridgesDisjoint'
  BY <1>1, <1>3, <1>4 DEF BridgesDisjoint
<1> QED
  BY <1>6, <1>7, <1>8, <1>9, <1>10

\* Accepting a connection gives it a stream that nobody had before; its
\* handshake ends with the first read, or with the connection let go.
LEMMA AcceptStep ==
  ASSUME Ownership, TypeOK', NEW s \in Session, Accept(s) \/ Handshake(s)
  PROVE  Ownership'
<1> USE DEF Ownership, registryVars
<1>1. CASE Accept(s)
  <2>1. /\ io = Idle
        /\ sock[s] = "backlog"
        /\ \/ io' = At("handshake", s, NoSession) /\ sock' = [sock EXCEPT ![s] = "open"]
           \/ io' = Idle /\ sock' = [sock EXCEPT ![s] = "closed"]
        /\ UNCHANGED <<reading, authed, senders_sessions, bridges>>
    <3>1. CASE AcceptConnection(s)
      BY <3>1 DEF AcceptConnection, IoIdle
    <3>2. CASE AcceptFails(s)
      BY <3>2 DEF AcceptFails, IoIdle
    <3> QED
      BY <1>1, <3>1, <3>2 DEF Accept
  <2>2. ~Registered(s) /\ ~Bridged(s) /\ reading[s] = "none"
    BY <2>1 DEF StreamOfRole, OneReader, TypeOK
  <2>3. \A t \in Session : (Registered(t)' <=> Registered(t)) /\ (Bridged(t)' <=> Bridged(t))
    BY <2>1 DEF Registered, Bridged
  <2>4. \A t \in Session : ~Claimed(t)'
    BY <2>1 DEF Claimed, At, Idle
  <2>5. \A t \in Session : t # s => sock'[t] = sock[t]
    BY <2>1 DEF TypeOK
  <2>6. StreamOfRole'
    BY <2>1, <2>2, <2>3, <2>4, <2>5 DEF StreamOfRole, At, Idle, TypeOK
  <2>7. OneReader'
    BY <2>1, <2>2, <2>3, <2>4, <2>5 DEF OneReader
  <2>8. AuthenticatedOnly'
    BY <2>1, <2>3, <2>4 DEF AuthenticatedOnly
  <2>9. BridgesDisjoint'
    BY <2>1, <2>3, <2>4 DEF BridgesDisjoint, At, Idle
  <2>10. OneCode'
    BY <2>1 DEF OneCode
  <2> QED
    BY <2>6, <2>7, <2>8, <2>9, <2>10
<1>2. ASSUME io = At("handshake", s, NoSession)
      PROVE  /\ sock[s] = "open" /\ reading[s] = "none" /\ ~Registered(s) /\ ~Bridged(s)
             /\ \A t \in Session : ~Claimed(t)
  BY <1>2 DEF StreamOfRole, At, Claimed
<1>3. CASE HandshakeOk(s)
  <2>1. /\ io = At("handshake", s, NoSession)
        /\ io' = Idle
        /\ reading' = [reading EXCEPT ![s] = "authenticateCallback"]
        /\ UNCHANGED <<sock, authed, senders_sessions, bridges>>
    BY <1>3 DEF HandshakeOk
  <2>2. \A t \in Session : (Registered(t)' <=> Registered(t)) /\ (Bridged(t)' <=> Bridged(t))
    BY <2>1 DEF Registered, Bridged
  <2>3. \A t \in Session : ~Claimed(t)'
    BY <2>1 DEF Claimed, Idle
  <2>4. StreamOfRole'
    BY <2>1, <2>2, <2>3 DEF StreamOfRole, Idle
  <2>5. OneReader'
    BY <1>2, <2>1, <2>2, <2>3 DEF OneReader, TypeOK
  <2>6. AuthenticatedOnly'
    BY <2>1, <2>2, <2>3 DEF AuthenticatedOnly, TypeOK
  <2>7. BridgesDisjoint'
    BY <2>1, <2>2, <2>3 DEF BridgesDisjoint, Idle
  <2>8. OneCode'
    BY <2>1 DEF OneCode
  <2> QED
    BY <2>4, <2>5, <2>6, <2>7, <2>8
<1>4. CASE HandshakeFails(s)
  <2>1. reading' = [reading EXCEPT ![s] = "none"]
    BY <1>2, <1>4 DEF HandshakeFails, TypeOK
  <2> QED
    BY <1>4, <2>1, LetGo DEF HandshakeFails
<1> QED
  BY <1>1, <1>3, <1>4 DEF Handshake

\* Every way in which the read of a session can complete.
LEMMA ReadStep ==
  ASSUME Ownership, TypeOK', NEW s \in Session, HandleRead(s)
  PROVE  Ownership'
<1> USE DEF registryVars
<1>1. reading[s] # "none"
  BY DEF HandleRead, ReadFails, RejectHeader, LoginAccepted, LoginRejected,
         LoginRefused, HandleRegister, FindStreamer, FindHits, FindMisses,
         HandleUnexpected, Received
<1>2. io = Idle
  BY DEF HandleRead, ReadFails, RejectHeader, LoginAccepted, LoginRejected,
         LoginRefused, HandleRegister, FindStreamer, FindHits, FindMisses,
         HandleUnexpected, Received, IoIdle
<1>3. sock[s] = "open" /\ ~Registered(s) /\ ~Claimed(s) /\ ~Bridged(s)
  BY <1>1, Reader
<1>4. CASE ReadFails(s)
  BY <1>2, <1>4, LetGo DEF ReadFails
<1>5. CASE RejectHeader(s)
  BY <1>3, <1>5, ThrowsLetsGo DEF RejectHeader
<1>6. CASE LoginAccepted(s)
  <2>1. CASE CanWrite(s)
    <3>1. /\ reading' = [reading EXCEPT ![s] = "handleRead"]
          /\ authed' = authed \cup {s}
          /\ UNCHANGED <<sock, io, senders_sessions, bridges>>
      BY <1>6, <2>1 DEF LoginAccepted
    <3>2. \A t \in Session : /\ Registered(t)' <=> Registered(t)
                             /\ Claimed(t)' <=> Claimed(t)
                             /\ Bridged(t)' <=> Bridged(t)
      BY <3>1 DEF Registered, Claimed, Bridged
    <3>3. StreamOfRole'
      BY <1>2, <3>1, <3>2 DEF Ownership, StreamOfRole, Idle
    <3>4. OneReader'
      BY <1>1, <3>1, <3>2 DEF Ownership, OneReader, TypeOK
    <3>5. AuthenticatedOnly'
      BY <3>1, <3>2 DEF Ownership, AuthenticatedOnly, TypeOK
    <3>6. BridgesDisjoint'
      BY <3>1, <3>2 DEF Ownership, BridgesDisjoint
    <3>7. OneCode'
      BY <3>1 DEF Ownership, OneCode
    <3> QED
      BY <3>3, <3>4, <3>5, <3>6, <3>7 DEF Ownership
  <2>2. CASE ~CanWrite(s)
    BY <1>3, <1>6, <2>2, ThrowsLetsGo DEF LoginAccepted
  <2> QED
    BY <2>1, <2>2
<1>7. CASE LoginRejected(s)
  <2>1. io' = Idle
    BY <1>2, <1>7 DEF LoginRejected
  <2> QED
    BY <1>7, <2>1, LetGo DEF LoginRejected
<1>8. CASE LoginRefused(s)
  BY <1>3, <1>8, ThrowsLetsGo DEF LoginRefused
<1>9. CASE HandleRegister(s)
  BY <1>9, RegisterStep
<1>10. CASE FindStreamer(s)
  BY <1>10, FindStep
<1>11. CASE FindMisses(s)
  <2>1. CASE CanWrite(s)
    BY <1>11, <2>1, OwnershipFrame DEF FindMisses
  <2>2. CASE ~CanWrite(s)
    BY <1>3, <1>11, <2>2, ThrowsLetsGo DEF FindMisses
  <2> QED
    BY <2>1, <2>2
<1>12. CASE HandleUnexpected(s)
  <2>1. CASE CanWrite(s)
    BY <1>12, <2>1, OwnershipFrame DEF HandleUnexpected
  <2>2. CASE ~CanWrite(s)
    BY <1>3, <1>12, <2>2, ThrowsLetsGo DEF HandleUnexpected
  <2> QED
    BY <2>1, <2>2
<1> QED
  BY <1>4, <1>5, <1>6, <1>7, <1>8, <1>9, <1>10, <1>11, <1>12 DEF HandleRead

\* SendId: a session swept from the registry while its ID was on the way is
\* closed at the end of the handler; one still registered is kept.
LEMMA SendIdStep ==
  ASSUME Ownership, TypeOK', NEW s \in Session, SendId(s)
  PROVE  Ownership'
<1>1. reading[s] = "none"
  BY DEF SendId, At, Ownership, StreamOfRole
<1>2. reading' = [reading EXCEPT ![s] = "none"]
  BY <1>1 DEF SendId, Ownership, TypeOK
<1> QED
  BY <1>2, LetGo DEF SendId, registryVars

\* A connection that a client opens has no stream at the server yet.
LEMMA ConnectStep ==
  ASSUME Ownership, TypeOK', NEW s \in Session, Connect(s)
  PROVE  Ownership'
<1> USE DEF Ownership
<1>1. /\ sock[s] = "none"
      /\ sock' = [sock EXCEPT ![s] = "backlog"]
      /\ UNCHANGED <<reading, authed, io, senders_sessions, bridges>>
  BY DEF Connect, registryVars
<1>2. reading[s] = "none" /\ ~Registered(s) /\ ~Claimed(s) /\ ~Bridged(s)
  BY <1>1 DEF StreamOfRole, OneReader
<1>3. \A t \in Session : /\ Registered(t)' <=> Registered(t)
                         /\ Claimed(t)' <=> Claimed(t)
                         /\ Bridged(t)' <=> Bridged(t)
  BY <1>1 DEF Registered, Claimed, Bridged
<1>4. \A t \in Session : t # s => sock'[t] = sock[t]
  BY <1>1 DEF TypeOK
<1>5. StreamOfRole'
  <2>1. io.step \in {"handshake", "registered"} => io.self # s /\ io.self \in Session
    BY <1>1 DEF StreamOfRole, TypeOK, IoStates, Idle
  <2> QED
    BY <1>1, <1>2, <1>3, <1>4, <2>1 DEF StreamOfRole
<1>6. OneReader'
  BY <1>1, <1>2, <1>3, <1>4 DEF OneReader
<1>7. AuthenticatedOnly'
  BY <1>1, <1>3 DEF AuthenticatedOnly
<1>8. BridgesDisjoint'
  BY <1>1, <1>3 DEF BridgesDisjoint
<1>9. OneCode'
  BY <1>1 DEF OneCode
<1> QED
  BY <1>5, <1>6, <1>7, <1>8, <1>9

\* Every step of every thread and client keeps the ownership.
LEMMA OwnershipStep ==
  ASSUME Ownership, [Next]_vars
  PROVE  Ownership'
<1>1. TypeOK'
  BY TypeStep DEF Ownership
<1>2. ASSUME NEW s \in Session, Client(s) PROVE Ownership'
  <2>1. CASE Connect(s)
    BY <1>1, <2>1, ConnectStep
  <2>2. CASE ClientLeave(s)
    BY <1>1, <2>2, OwnershipFrame DEF ClientLeave, registryVars
  <2>3. CASE ConnectionReset(s)
    BY <1>1, <2>3, OwnershipFrame DEF ConnectionReset, registryVars
  <2>4. CASE \E msg \in Message : ClientSend(s, msg)
    BY <1>1, <2>4, OwnershipFrame DEF ClientSend, registryVars
  <2> QED
    BY <1>2, <2>1, <2>2, <2>3, <2>4 DEF Client
<1>3. ASSUME NEW b \in bridges, BridgeEnds(b) PROVE Ownership'
  BY <1>1, <1>3, OwnershipFrame DEF BridgeEnds, registryVars
<1>4. CASE Cleaner
  <2>1. CASE terminateTimeoutClients
    BY <1>1, <2>1, SweepStep
  <2>2. CASE \E c \in Code : Expire(c)
    BY <1>1, <2>2, OwnershipFrame DEF Expire
  <2> QED
    BY <1>4, <2>1, <2>2 DEF Cleaner
<1>5. CASE UNCHANGED vars
  BY <1>1, <1>5, OwnershipFrame DEF vars
<1> QED
  BY <1>1, <1>2, <1>3, <1>4, <1>5, AcceptStep, ReadStep, SendIdStep, ClaimStep
     DEF Next

\* The ownership of the streams is an invariant of the proxy server, whatever
\* the clients, the io thread and the cleaner do, and in whatever order.
THEOREM OwnershipHolds == Spec => []Ownership
<1>1. Init => Ownership
  <2> SUFFICES ASSUME Init PROVE Ownership
    OBVIOUS
  <2>1. TypeOK
    BY IoType DEF Init, TypeOK, NoMessage
  <2>2. \A s \in Session : ~Registered(s) /\ ~Claimed(s) /\ ~Bridged(s)
    BY SessionAssumption DEF Init, Registered, Claimed, Bridged, Idle
  <2> QED
    BY <2>1, <2>2
       DEF Init, Idle, Ownership, StreamOfRole, OneCode, OneReader,
           AuthenticatedOnly, BridgesDisjoint
<1>2. Ownership /\ [Next]_vars => Ownership'
  BY OwnershipStep
<1> QED
  BY <1>1, <1>2, PTL DEF Spec

\* No stream ever has two readers.
THEOREM OneReaderHolds == Spec => []OneReader
<1>1. Ownership => OneReader
  BY DEF Ownership
<1> QED
  BY <1>1, OwnershipHolds, PTL

\* Nobody is served, offered, claimed or bridged without having logged in.
THEOREM AuthenticatedOnlyHolds == Spec => []AuthenticatedOnly
<1>1. Ownership => AuthenticatedOnly
  BY DEF Ownership
<1> QED
  BY <1>1, OwnershipHolds, PTL

\* No session is in two bridges, or in a bridge and on offer.
THEOREM BridgesDisjointHolds == Spec => []BridgesDisjoint
<1>1. Ownership => BridgesDisjoint
  BY DEF Ownership
<1> QED
  BY <1>1, OwnershipHolds, PTL
-----------------------------------------------------------------------------
(***************************************************************************)
(* Causes of closing.                                                      *)
(***************************************************************************)

\* A stream that is closed while its session is on offer or in a claim.
ClosedForCause(s) ==
  sock[s] = "open" /\ sock'[s] = "closed" =>
    /\ Registered(s) =>
         \E c \in Code : /\ senders_sessions[c] = s
                         /\ expired[c] \/ senders_sessions'[c] \notin {s, NoSession}
    /\ Claimed(s) => peer[io.self] = "reset" \/ peer[io.other] = "reset"

\* A handler of one session closes no other session that is on offer, and runs
\* while there is no claim.
LEMMA HandlerCloses ==
  ASSUME Ownership, NEW u \in Session, NEW s \in Session, NEW after, Release(after),
         after = sock \/ (after = Disconnect(u) /\ ~Registered(u)),
         UNCHANGED senders_sessions, ~Claimed(s)
  PROVE  ClosedForCause(s)
<1>1. CASE Registered(s)
  <2>1. Registered(s)'
    BY <1>1 DEF Registered
  <2>2. after[s] = sock[s]
    BY <1>1 DEF Disconnect, Ownership, TypeOK
  <2>3. sock'[s] = sock[s]
    BY <2>1, <2>2 DEF Release, Referenced
  <2>4. QED
    BY <2>3 DEF ClosedForCause
<1>2. QED
  BY <1>1 DEF ClosedForCause

\* The steps of a claim close its two sessions only when a write fails, or the
\* address of one is gone, and those on offer never.
LEMMA ClaimCloses ==
  ASSUME Ownership, NEW r \in Session, NEW t \in Session, NEW s \in Session,
         createBridgeWithStreamer(r, t)
  PROVE  ClosedForCause(s)
<1> USE DEF Ownership, registryVars
<1>1. /\ io.step \in {"found", "acked", "started"} /\ io.self = r /\ io.other = t
      /\ UNCHANGED senders_sessions
  BY DEF createBridgeWithStreamer, SendFindAck, SendStartStream, OpenBridge, At
<1>2. ~Registered(r) /\ ~Registered(t)
  BY <1>1 DEF BridgesDisjoint, Claimed
<1>3. CASE CanWrite(r) /\ CanWrite(t)
  BY <1>3 DEF createBridgeWithStreamer, SendFindAck, SendStartStream, OpenBridge,
              ClosedForCause, TypeOK
<1>4. CASE ~(CanWrite(r) /\ CanWrite(t)) /\ Claimed(s)
  <2>1. peer[io.self] = "reset" \/ peer[io.other] = "reset"
    BY <1>1, <1>4 DEF CanWrite
  <2>2. ~Registered(s)
    BY <1>4 DEF BridgesDisjoint
  <2>3. QED
    BY <2>1, <2>2 DEF ClosedForCause
<1>5. CASE ~Claimed(s)
  <2>1. CASE sock' = sock
    BY <2>1 DEF ClosedForCause
  <2>2. CASE HandlerThrows(r)
    BY <1>1, <1>2, <1>5, <2>2, HandlerCloses DEF HandlerThrows
  <2>3. CASE OpenBridge(r, t)
    <3>1. s \notin {r, t}
      BY <1>1, <1>5 DEF Claimed
    <3>2. QED
      BY <2>3, <3>1 DEF OpenBridge, ClosedForCause, TypeOK
  <2>4. QED
    BY <2>1, <2>2, <2>3 DEF createBridgeWithStreamer, SendFindAck, SendStartStream
<1>6. QED
  BY <1>3, <1>4, <1>5

\* Every step closes for a cause.
LEMMA ClosingStep ==
  ASSUME Ownership, [Next]_vars, NEW s \in Session
  PROVE  ClosedForCause(s)
<1> USE DEF Ownership, registryVars
<1>1. CASE sock' = sock
  BY <1>1 DEF ClosedForCause
<1>2. ASSUME NEW u \in Session, Connect(u) \/ Accept(u)
      PROVE  ClosedForCause(s)
  <2>1. sock[u] # "open" /\ \A t \in Session \ {u} : sock'[t] = sock[t]
    BY <1>2 DEF Connect, Accept, AcceptConnection, AcceptFails, TypeOK
  <2>2. QED
    BY <2>1 DEF ClosedForCause
<1>3. ASSUME NEW u \in Session, Handshake(u) \/ SendId(u)
      PROVE  ClosedForCause(s)
  <2>1. ~Claimed(s)
    BY <1>3 DEF Handshake, HandshakeOk, HandshakeFails, SendId, At, Claimed
  <2>2. CASE HandshakeOk(u)
    BY <1>1, <2>2 DEF HandshakeOk
  <2>3. CASE HandshakeFails(u) \/ SendId(u)
    BY <2>1, <2>3, HandlerCloses DEF HandshakeFails, SendId
  <2>4. QED
    BY <1>3, <2>2, <2>3 DEF Handshake
<1>4. ASSUME NEW u \in Session, HandleRead(u)
      PROVE  ClosedForCause(s)
  <2>1. reading[u] # "none" /\ io = Idle
    BY <1>4 DEF HandleRead, ReadFails, RejectHeader, LoginAccepted, LoginRejected,
         LoginRefused, HandleRegister, FindStreamer, FindHits, FindMisses,
         HandleUnexpected, Received, IoIdle
  <2>2. ~Registered(u)
    BY <2>1, Reader
  <2>3. ~Claimed(s)
    BY <2>1 DEF Claimed, Idle
  <2>4. CASE HandlerThrows(u) /\ UNCHANGED senders_sessions
    BY <2>2, <2>3, <2>4, HandlerCloses DEF HandlerThrows
  <2>5. CASE Release(sock) /\ UNCHANGED senders_sessions
    BY <2>3, <2>5, HandlerCloses
  <2>6. CASE HandleRegister(u)
    <3>1. /\ Release(sock)
          /\ senders_sessions' = [senders_sessions EXCEPT ![SessionId] = u]
      BY <2>6 DEF HandleRegister
    <3>2. CASE senders_sessions[SessionId] = s
      <4>1. senders_sessions'[SessionId] \notin {s, NoSession}
        BY <2>2, <3>1, <3>2, CodeAssumption, SessionAssumption DEF Registered, TypeOK
      <4>2. QED
        BY <2>3, <3>2, <4>1, CodeAssumption DEF ClosedForCause
    <3>3. CASE senders_sessions[SessionId] # s
      <4>1. ~Registered(s)
        BY <3>3, SessionAssumption DEF Registered, OneCode
      <4>2. QED
        BY <2>3, <4>1 DEF ClosedForCause
    <3>4. QED
      BY <3>2, <3>3
  <2>7. QED
    BY <1>1, <1>4, <2>4, <2>5, <2>6
       DEF HandleRead, ReadFails, RejectHeader, LoginAccepted, LoginRejected,
           LoginRefused, FindStreamer, FindMisses, HandleUnexpected
<1>5. CASE Cleaner
  <2>1. CASE terminateTimeoutClients
    <3>1. /\ Release(sock) /\ UNCHANGED <<reading, io>>
          /\ senders_sessions' = [c \in Code |-> IF expired[c] THEN NoSession
                                                               ELSE senders_sessions[c]]
      BY <2>1 DEF terminateTimeoutClients
    <3>2. ASSUME Claimed(s)
          PROVE  sock'[s] = sock[s]
      BY <3>1, <3>2 DEF Claimed, Release, Referenced
    <3>3. ASSUME NEW c \in Code, senders_sessions[c] = s, ~expired[c]
          PROVE  sock'[s] = sock[s]
      <4>1. Registered(s)'
        BY <3>1, <3>3 DEF Registered
      <4>2. QED
        BY <3>1, <4>1 DEF Release, Referenced
    <3>4. QED
      BY <3>2, <3>3 DEF ClosedForCause, Registered
  <2>2. QED
    BY <1>1, <1>5, <2>1 DEF Cleaner, Expire
<1>6. QED
  BY <1>1, <1>2, <1>3, <1>4, <1>5, ClaimCloses
     DEF Next, Client, ClientLeave, ConnectionReset, ClientSend, BridgeEnds, vars

\* A waiting streamer is closed only when its registration has expired or another
\* took its code, and a session in a claim only when one of the two connections
\* was reset.
THEOREM StreamerClosedForCauseHolds == Spec => StreamerClosedForCause
<1>1. Ownership /\ [Next]_vars => [\A s \in Session : ClosedForCause(s)]_vars
  BY ClosingStep
<1>2. (\A s \in Session : ClosedForCause(s)) =>
        \A s \in Session : sock[s] = "open" /\ sock'[s] = "closed" =>
          /\ Registered(s) =>
               \E c \in Code : /\ senders_sessions[c] = s
                               /\ expired[c] \/ senders_sessions'[c] \notin {s, NoSession}
          /\ Claimed(s) => peer[io.self] = "reset" \/ peer[io.other] = "reset"
  BY DEF ClosedForCause
<1>3. QED
  BY <1>1, <1>2, OwnershipHolds, PTL DEF Spec, StreamerClosedForCause
-----------------------------------------------------------------------------
(***************************************************************************)
(* What clients are told.                                                  *)
(***************************************************************************)

\* What makes ToldInOrder inductive: the same, for the claim in progress.
ToldInClaim ==
  /\ io.step \in {"found", "acked", "started"} /\ peer[io.other] = "up" =>
       "ID" \in told[io.other]
  /\ io.step \in {"acked", "started"} /\ peer[io.self] = "up" =>
       "FIND_ACK" \in told[io.self]
  /\ io.step = "started" /\ peer[io.other] = "up" => "START_STREAM" \in told[io.other]

Answers == Ownership /\ ToldInOrder /\ ToldInClaim

\* A step that answers nobody, puts nobody on offer and begins no claim.
LEMMA AnswersFrame ==
  ASSUME Answers, UNCHANGED <<told, bridges>>,
         \A t \in Session : peer'[t] = "up" => peer[t] = "up",
         \A t \in Session : Registered(t)' => Registered(t),
         \/ io' = io
         \/ /\ io'.step \notin {"found", "acked", "started"}
            /\ io.step # "registered"
  PROVE  ToldInOrder' /\ ToldInClaim'
<1> USE DEF Answers, Ownership
<1>1. ToldInOrder'
  <2>1. \A t \in Session : Registered(t)' /\ peer'[t] = "up" =>
          "ID" \in told[t] \/ io' = At("registered", t, NoSession)
    BY DEF ToldInOrder, At
  <2>2. \A b \in bridges : b[1] \in Session /\ b[2] \in Session
    BY DEF TypeOK
  <2>3. QED
    BY <2>1, <2>2 DEF ToldInOrder
<1>2. ToldInClaim'
  <2>1. io.step \in {"found", "acked", "started"} => io.self \in Session /\ io.other \in Session
    BY DEF TypeOK, IoStates, Idle
  <2>2. QED
    BY <2>1 DEF ToldInClaim
<1>3. QED
  BY <1>1, <1>2

\* A client that connects has nothing to do with the server yet.
LEMMA ConnectAnswers ==
  ASSUME Answers, NEW s \in Session, Connect(s)
  PROVE  ToldInOrder' /\ ToldInClaim'
<1> USE DEF Answers, Ownership
<1>1. /\ sock[s] = "none" /\ UNCHANGED <<told, io, senders_sessions, bridges>>
      /\ peer' = [peer EXCEPT ![s] = "up"]
  BY DEF Connect, registryVars
<1>2. \A t \in Session : Registered(t) \/ Claimed(t) \/ Bridged(t) => peer'[t] = peer[t]
  BY <1>1 DEF StreamOfRole, TypeOK
<1>3. ToldInOrder'
  <2>1. \A t \in Session : Registered(t)' <=> Registered(t)
    BY <1>1 DEF Registered
  <2>2. \A b \in bridges : peer'[b[1]] = peer[b[1]] /\ peer'[b[2]] = peer[b[2]]
    BY <1>2 DEF Bridged, TypeOK
  <2>3. QED
    BY <1>1, <1>2, <2>1, <2>2 DEF ToldInOrder
<1>4. ToldInClaim'
  <2>1. io.step \in {"found", "acked", "started"} =>
          peer'[io.self] = peer[io.self] /\ peer'[io.other] = peer[io.other]
    BY <1>2 DEF Claimed, TypeOK, IoStates, Idle
  <2>2. QED
    BY <1>1, <2>1 DEF ToldInClaim
<1>5. QED
  BY <1>3, <1>4

\* The reads: registering makes an offer whose ID is on its way, and a claim
\* finds a streamer that has been sent its ID.
LEMMA ReadAnswers ==
  ASSUME Answers, NEW s \in Session, HandleRead(s)
  PROVE  ToldInOrder' /\ ToldInClaim'
<1> USE DEF Answers, Ownership, registryVars
<1>1. io = Idle /\ UNCHANGED <<peer, told, bridges>>
  BY DEF HandleRead, ReadFails, RejectHeader, LoginAccepted, LoginRejected,
         LoginRefused, HandleRegister, FindStreamer, FindHits, FindMisses,
         HandleUnexpected, Received, HandlerThrows, IoIdle
<1>2. CASE HandleRegister(s)
  <2>1. /\ senders_sessions' = [senders_sessions EXCEPT ![SessionId] = s]
        /\ io' = At("registered", s, NoSession)
    BY <1>2 DEF HandleRegister
  <2>2. \A t \in Session : Registered(t)' => t = s \/ Registered(t)
    BY <2>1, CodeAssumption DEF Registered, TypeOK
  <2>3. QED
    BY <1>1, <2>1, <2>2 DEF ToldInOrder, ToldInClaim, At, Idle
<1>3. CASE FindStreamer(s)
  <2>1. PICK code \in Code : code = inbox[s].content
    BY <1>3 DEF TypeOK, FindStreamer, FindHits, Received, Message, NoMessage
  <2>2. PICK sender \in Session : sender = senders_sessions[code]
    BY <1>3, <2>1 DEF TypeOK, FindStreamer, FindHits
  <2>3. /\ senders_sessions' = [senders_sessions EXCEPT ![code] = NoSession]
        /\ io' = At("found", s, sender)
        /\ Registered(sender)
    BY <1>3, <2>1, <2>2 DEF FindStreamer, Registered
  <2>4. \A t \in Session : Registered(t)' => Registered(t)
    BY <2>1, <2>3, SessionAssumption DEF Registered, TypeOK
  <2>5. \A t \in Session : Registered(t) /\ peer[t] = "up" => "ID" \in told[t]
    BY <1>1 DEF ToldInOrder, Idle, At
  <2>6. QED
    BY <1>1, <2>3, <2>4, <2>5 DEF ToldInOrder, ToldInClaim, At
<1>4. CASE UNCHANGED senders_sessions /\ io' = Idle
  <2>1. \A t \in Session : Registered(t)' => Registered(t)
    BY <1>4 DEF Registered
  <2>2. QED
    BY <1>1, <1>4, <2>1, AnswersFrame
<1>5. QED
  BY <1>1, <1>2, <1>3, <1>4
     DEF HandleRead, ReadFails, RejectHeader, LoginAccepted, LoginRejected,
         LoginRefused, FindMisses, HandleUnexpected, HandlerThrows

\* The ID goes out before any other handler can run.
LEMMA SendIdAnswers ==
  ASSUME Answers, NEW s \in Session, SendId(s)
  PROVE  ToldInOrder' /\ ToldInClaim'
<1> USE DEF Answers, Ownership
<1>1. /\ io = At("registered", s, NoSession) /\ io' = Idle
      /\ told' = Told(s, "ID") /\ UNCHANGED <<peer, senders_sessions, bridges>>
  BY DEF SendId, clientVars, registryVars
<1>2. \A t \in Session : told[t] \subseteq told'[t]
  BY <1>1 DEF Told, TypeOK
<1>3. \A t \in Session \ {s} : told'[t] = told[t]
  BY <1>1 DEF Told, TypeOK
<1>4. /\ "START_STREAM" \in told'[s] => "START_STREAM" \in told[s]
      /\ peer[s] = "up" => "ID" \in told'[s]
  BY <1>1 DEF Told, TypeOK
<1>5. \A t \in Session : Registered(t)' <=> Registered(t)
  BY <1>1 DEF Registered
<1>6. \A b \in bridges : b[1] \in Session /\ b[2] \in Session
  BY DEF TypeOK
<1>7. \A t \in Session : "START_STREAM" \in told'[t] => "ID" \in told'[t]
  BY <1>2, <1>3, <1>4 DEF ToldInOrder
<1>8. \A t \in Session : Registered(t)' /\ peer[t] = "up" => "ID" \in told'[t]
  BY <1>1, <1>2, <1>4, <1>5 DEF ToldInOrder, At
<1>9. \A b \in bridges : /\ peer[b[1]] = "up" => "START_STREAM" \in told'[b[1]]
                         /\ peer[b[2]] = "up" => "FIND_ACK" \in told'[b[2]]
  BY <1>2, <1>6 DEF ToldInOrder
<1>10. QED
  BY <1>1, <1>7, <1>8, <1>9 DEF ToldInOrder, ToldInClaim, Idle

\* The steps of a claim tell the viewer, then the streamer, then open the bridge.
LEMMA ClaimAnswers ==
  ASSUME Answers, NEW r \in Session, NEW s \in Session, createBridgeWithStreamer(r, s)
  PROVE  ToldInOrder' /\ ToldInClaim'
<1> USE DEF Answers, Ownership, clientVars, registryVars
<1>1. /\ io.step \in {"found", "acked", "started"} /\ io.self = r /\ io.other = s
      /\ UNCHANGED <<peer, senders_sessions>>
  BY DEF createBridgeWithStreamer, SendFindAck, SendStartStream, OpenBridge, At
<1>2. r # s /\ \A b \in bridges : b[1] \in Session /\ b[2] \in Session
  BY <1>1 DEF BridgesDisjoint, TypeOK
<1>3. \A t \in Session : Registered(t)' <=> Registered(t)
  BY <1>1 DEF Registered
<1>4. \A t \in Session : Registered(t) /\ peer[t] = "up" => "ID" \in told[t]
  BY <1>1 DEF ToldInOrder, At
<1>5. CASE UNCHANGED <<told, bridges>> /\ io' = Idle
  BY <1>1, <1>3, <1>5, AnswersFrame DEF Idle
<1>6. CASE SendFindAck(r, s) /\ CanWrite(r)
  <2>1. /\ io.step = "found" /\ io' = At("acked", r, s)
        /\ told' = Told(r, "FIND_ACK") /\ UNCHANGED bridges
    BY <1>6 DEF SendFindAck, At
  <2>2. /\ \A t \in Session : told[t] \subseteq told'[t]
        /\ \A t \in Session : "START_STREAM" \in told'[t] => "START_STREAM" \in told[t]
        /\ peer[r] = "up" => "FIND_ACK" \in told'[r]
    BY <2>1 DEF Told, TypeOK
  <2>3. ToldInOrder'
    BY <1>1, <1>2, <1>3, <1>4, <2>1, <2>2 DEF ToldInOrder
  <2>4. ToldInClaim'
    BY <1>1, <2>1, <2>2 DEF ToldInClaim, At
  <2>5. QED
    BY <2>3, <2>4
<1>7. CASE SendStartStream(r, s) /\ CanWrite(s)
  <2>1. /\ io.step = "acked" /\ io' = At("started", r, s)
        /\ told' = Told(s, "START_STREAM") /\ UNCHANGED bridges
    BY <1>7 DEF SendStartStream, At
  <2>2. /\ \A t \in Session : told[t] \subseteq told'[t]
        /\ \A t \in Session \ {s} : told'[t] = told[t]
        /\ peer[s] = "up" => "START_STREAM" \in told'[s]
        /\ peer[s] # "up" => told'[s] = told[s]
    BY <2>1 DEF Told, TypeOK
  <2>3. peer[s] = "up" => "ID" \in told[s]
    BY <1>1 DEF ToldInClaim
  <2>4. ToldInOrder'
    BY <1>1, <1>2, <1>3, <1>4, <2>1, <2>2, <2>3 DEF ToldInOrder
  <2>5. ToldInClaim'
    BY <1>1, <2>1, <2>2 DEF ToldInClaim, At
  <2>6. QED
    BY <2>4, <2>5
<1>8. CASE OpenBridge(r, s) /\ CanWrite(s) /\ CanWrite(r)
  <2>1. /\ io.step = "started" /\ io' = Idle
        /\ UNCHANGED told /\ bridges' = bridges \cup {<<s, r>>}
    BY <1>8 DEF OpenBridge, At
  <2>2. /\ peer[s] = "up" => "START_STREAM" \in told[s]
        /\ peer[r] = "up" => "FIND_ACK" \in told[r]
    BY <1>1, <2>1 DEF ToldInClaim
  <2>3. \A b \in bridges' : /\ peer[b[1]] = "up" => "START_STREAM" \in told[b[1]]
                            /\ peer[b[2]] = "up" => "FIND_ACK" \in told[b[2]]
    BY <2>1, <2>2 DEF ToldInOrder
  <2>4. QED
    BY <1>1, <1>3, <1>4, <2>1, <2>3 DEF ToldInOrder, ToldInClaim, Idle
<1>9. QED
  BY <1>5, <1>6, <1>7, <1>8
     DEF createBridgeWithStreamer, SendFindAck, SendStartStream, OpenBridge, HandlerThrows

\* Every step keeps the order of the answers.
LEMMA AnswersStep ==
  ASSUME Answers, [Next]_vars
  PROVE  Answers'
<1> USE DEF registryVars, clientVars
<1>1. Ownership'
  BY OwnershipStep DEF Answers
<1>2. ASSUME UNCHANGED <<told, bridges>>,
             \A t \in Session : peer'[t] = "up" => peer[t] = "up",
             io' = io, UNCHANGED senders_sessions
      PROVE  ToldInOrder' /\ ToldInClaim'
  BY <1>2, AnswersFrame DEF Registered
<1>3. ASSUME NEW s \in Session, Client(s)
      PROVE  ToldInOrder' /\ ToldInClaim'
  <2>1. CASE ClientLeave(s) \/ ConnectionReset(s) \/ \E msg \in Message : ClientSend(s, msg)
    BY <1>2, <2>1 DEF ClientLeave, ConnectionReset, ClientSend, Answers, Ownership, TypeOK
  <2>2. QED
    BY <1>3, <2>1, ConnectAnswers DEF Client
<1>4. ASSUME NEW s \in Session, Accept(s) \/ Handshake(s)
      PROVE  ToldInOrder' /\ ToldInClaim'
  <2>1. /\ UNCHANGED <<told, bridges, peer, senders_sessions>>
        /\ io'.step \notin {"found", "acked", "started"} /\ io.step # "registered"
    BY <1>4 DEF Accept, AcceptConnection, AcceptFails, Handshake, HandshakeOk,
                HandshakeFails, IoIdle, Idle, At
  <2>2. QED
    BY <2>1, AnswersFrame DEF Registered
<1>5. ASSUME NEW b \in bridges, BridgeEnds(b)
      PROVE  ToldInOrder' /\ ToldInClaim'
  BY <1>2, <1>5 DEF BridgeEnds
<1>6. ASSUME Cleaner
      PROVE  ToldInOrder' /\ ToldInClaim'
  <2>1. CASE terminateTimeoutClients
    <3>1. /\ UNCHANGED <<told, bridges, peer, io>>
          /\ \A c \in Code : senders_sessions'[c] \in {senders_sessions[c], NoSession}
      BY <2>1 DEF terminateTimeoutClients
    <3>2. \A t \in Session : Registered(t)' => Registered(t)
      BY <3>1, SessionAssumption DEF Registered
    <3>3. QED
      BY <3>1, <3>2, AnswersFrame
  <2>2. QED
    BY <1>2, <1>6, <2>1 DEF Cleaner, Expire
<1>7. ASSUME UNCHANGED vars
      PROVE  ToldInOrder' /\ ToldInClaim'
  BY <1>2, <1>7 DEF vars
<1>8. ToldInOrder' /\ ToldInClaim'
  BY <1>3, <1>4, <1>5, <1>6, <1>7, ReadAnswers, SendIdAnswers, ClaimAnswers DEF Next
<1>9. QED
  BY <1>1, <1>8 DEF Answers

\* Clients are told in order: an ID before START_STREAM, and ACK and START_STREAM
\* before the bridge relays a byte.
THEOREM ToldInOrderHolds == Spec => []ToldInOrder
<1>1. Init => ToldInOrder /\ ToldInClaim
  <2> SUFFICES ASSUME Init PROVE ToldInOrder /\ ToldInClaim
    OBVIOUS
  <2>1. \A s \in Session : ~Registered(s)
    BY SessionAssumption DEF Init, Registered
  <2>2. QED
    BY <2>1 DEF Init, ToldInOrder, ToldInClaim, Idle
<1>2. Answers /\ [Next]_vars => Answers'
  BY AnswersStep
<1>3. Answers => ToldInOrder
  BY DEF Answers
<1>4. Ownership /\ ToldInOrder /\ ToldInClaim => Answers
  BY DEF Answers
<1>5. Spec => []Ownership
  BY OwnershipHolds
<1>6. QED
  BY <1>1, <1>2, <1>3, <1>4, <1>5, PTL DEF Spec
-----------------------------------------------------------------------------
(***************************************************************************)
(* The refinement.  ProxyServer implements Rendezvous, for any number of   *)
(* connections and codes: every step of its threads and clients is one     *)
(* promise kept, or changes nobody's role and no offer.                    *)
(***************************************************************************)

\* An open stream belongs to a session that somebody holds: no session that was
\* let go is left for a later step to close.
NoOrphan == \A s \in Session : sock[s] = "open" => Referenced(s)

Kept == Ownership /\ NoOrphan

\* t has nothing to do with the step.
Apart(t) ==
  /\ sock'[t] = sock[t] /\ reading'[t] = reading[t]
  /\ t \notin {io.self, io.other} /\ t \notin {io'.self, io'.other}
  /\ Registered(t)' = Registered(t) /\ Bridged(t)' = Bridged(t)
-----------------------------------------------------------------------------
(***************************************************************************)
(* No orphans.                                                             *)
(***************************************************************************)

\* Release leaves open only what is referenced, of what the handler left open.
LEMMA ReleaseOrphans ==
  ASSUME NEW after \in [Session -> SockState], Release(after)
  PROVE  NoOrphan'
BY DEF Release, NoOrphan

\* Every step keeps hold of what is open, or closes it.
LEMMA OrphanStep ==
  ASSUME Kept, [Next]_vars
  PROVE  NoOrphan'
<1> USE DEF Kept, registryVars, clientVars
<1>0. sock \in [Session -> SockState]
  BY DEF Ownership, TypeOK, SockState
<1>1. ASSUME \/ UNCHANGED vars
             \/ UNCHANGED <<sock, reading, io, senders_sessions>>
      PROVE  NoOrphan'
  BY <1>1 DEF NoOrphan, Referenced, Registered, vars
<1>2. ASSUME NEW s \in Session, HandlerThrows(s)
      PROVE  NoOrphan'
  BY <1>2, DisconnectType, ReleaseOrphans DEF HandlerThrows, Ownership
<1>3. ASSUME Release(sock)
      PROVE  NoOrphan'
  BY <1>0, <1>3, ReleaseOrphans
<1>4. ASSUME NEW s \in Session, Client(s)
      PROVE  NoOrphan'
  <2>1. CASE Connect(s)
    BY <2>1 DEF Connect, NoOrphan, Referenced, Registered, Ownership, TypeOK
  <2>2. CASE ClientLeave(s) \/ ConnectionReset(s) \/ \E msg \in Message : ClientSend(s, msg)
    BY <1>1, <2>2 DEF ClientLeave, ConnectionReset, ClientSend
  <2>3. QED
    BY <1>4, <2>1, <2>2 DEF Client
<1>5. ASSUME NEW s \in Session, Accept(s)
      PROVE  NoOrphan'
  <2>1. CASE AcceptConnection(s)
    <3>1. s = io'.self
      BY <2>1 DEF AcceptConnection, At
    <3>2. \A t \in Session \ {s} : sock'[t] = sock[t] /\ t \notin {io.self, io.other}
      BY <2>1, SessionAssumption DEF AcceptConnection, IoIdle, Idle, Ownership, TypeOK
    <3>3. UNCHANGED <<reading, senders_sessions>>
      BY <2>1 DEF AcceptConnection
    <3>4. QED
      BY <3>1, <3>2, <3>3 DEF NoOrphan, Referenced, Registered
  <2>2. CASE AcceptFails(s)
    BY <2>2 DEF AcceptFails, NoOrphan, Referenced, Registered, Ownership, TypeOK
  <2>3. QED
    BY <1>5, <2>1, <2>2 DEF Accept
<1>6. ASSUME NEW s \in Session, Handshake(s)
      PROVE  NoOrphan'
  <2>1. CASE HandshakeOk(s)
    <3>1. /\ io = At("handshake", s, NoSession) /\ UNCHANGED <<sock, senders_sessions>>
          /\ reading' = [reading EXCEPT ![s] = "authenticateCallback"]
          /\ io.self = s /\ io.other = NoSession
      BY <2>1 DEF HandshakeOk, At
    <3>2. reading'[s] # "none"
      BY <3>1 DEF Ownership, TypeOK
    <3>3. \A t \in Session \ {s} : t \notin {io.self, io.other} /\ reading'[t] = reading[t]
      BY <3>1, SessionAssumption DEF Ownership, TypeOK
    <3>4. QED
      BY <3>1, <3>2, <3>3 DEF NoOrphan, Referenced, Registered
  <2>2. CASE HandshakeFails(s)
    BY <1>3, <2>2 DEF HandshakeFails
  <2>3. QED
    BY <1>6, <2>1, <2>2 DEF Handshake
<1>7. ASSUME NEW s \in Session, HandleRead(s)
      PROVE  NoOrphan'
  <2>1. CASE ReadFails(s) \/ LoginRejected(s) \/ HandleRegister(s)
    BY <1>3, <2>1 DEF ReadFails, LoginRejected, HandleRegister
  <2>2. CASE RejectHeader(s) \/ LoginRefused(s)
    BY <1>2, <2>2 DEF RejectHeader, LoginRefused
  <2>3. CASE LoginAccepted(s)
    <3>1. CASE reading' = [reading EXCEPT ![s] = "handleRead"] /\ UNCHANGED <<io, sock>>
      BY <2>3, <3>1 DEF LoginAccepted, NoOrphan, Referenced, Registered, Ownership, TypeOK
    <3>2. QED
      BY <1>2, <2>3, <3>1 DEF LoginAccepted
  <2>4. CASE HandleUnexpected(s) \/ FindMisses(s)
    BY <1>1, <1>2, <2>4 DEF HandleUnexpected, FindMisses
  <2>5. CASE FindStreamer(s)
    <3> DEFINE code == inbox[s].content
               sender == senders_sessions[code]
    <3>1. /\ io = Idle /\ io'.self = s /\ io'.other = sender /\ sock' = sock
          /\ senders_sessions' = [senders_sessions EXCEPT ![code] = NoSession]
          /\ reading' = [reading EXCEPT ![s] = "none"]
      BY <2>5 DEF FindStreamer, FindHits, Received, IoIdle, At
    <3>2. ASSUME NEW t \in Session, sock'[t] = "open", t \notin {io'.self, io'.other}
          PROVE  Referenced(t)'
      <4>1. t \notin {io.self, io.other}
        BY <3>1, SessionAssumption DEF Idle
      <4>2. reading[t] # "none" \/ Registered(t)
        BY <3>1, <3>2, <4>1 DEF NoOrphan, Referenced
      <4>3. CASE reading[t] # "none"
        BY <3>1, <3>2, <4>3 DEF Referenced, Ownership, TypeOK
      <4>4. CASE Registered(t)
        <5>1. PICK c \in Code : senders_sessions[c] = t
          BY <4>4 DEF Registered
        <5>2. c # code
          BY <3>1, <3>2, <5>1
        <5>3. senders_sessions'[c] = t
          BY <3>1, <5>1, <5>2 DEF Ownership, TypeOK
        <5>4. QED
          BY <5>3 DEF Referenced, Registered
      <4>5. QED
        BY <4>2, <4>3, <4>4
    <3>3. QED
      BY <3>2 DEF NoOrphan, Referenced
  <2>6. QED
    BY <1>7, <2>1, <2>2, <2>3, <2>4, <2>5 DEF HandleRead
<1>8. ASSUME NEW s \in Session, SendId(s)
      PROVE  NoOrphan'
  BY <1>3, <1>8 DEF SendId
<1>9. ASSUME NEW r \in Session, NEW s \in Session, createBridgeWithStreamer(r, s)
      PROVE  NoOrphan'
  <2>1. ASSUME UNCHANGED <<sock, reading, senders_sessions>>,
               io.self = r, io.other = s, io'.self = r, io'.other = s
        PROVE  NoOrphan'
    BY <2>1 DEF NoOrphan, Referenced, Registered
  <2>2. CASE SendFindAck(r, s)
    BY <1>2, <2>1, <2>2 DEF SendFindAck, At
  <2>3. CASE SendStartStream(r, s)
    BY <1>2, <2>1, <2>3 DEF SendStartStream, At
  <2>4. CASE OpenBridge(r, s)
    <3>1. /\ io.self = r /\ io.other = s /\ UNCHANGED <<reading, senders_sessions>>
          /\ sock'[r] # "open" /\ sock'[s] # "open"
          /\ \A t \in Session \ {r, s} : sock'[t] = sock[t]
      BY <2>4 DEF OpenBridge, At, Ownership, TypeOK
    <3>2. QED
      BY <3>1 DEF NoOrphan, Referenced, Registered
  <2>5. QED
    BY <1>9, <2>2, <2>3, <2>4 DEF createBridgeWithStreamer
<1>10. ASSUME NEW b \in bridges, BridgeEnds(b)
       PROVE  NoOrphan'
  BY <1>1, <1>10 DEF BridgeEnds
<1>11. CASE Cleaner
  BY <1>1, <1>3, <1>11 DEF Cleaner, Expire, terminateTimeoutClients
<1>12. QED
  BY <1>1, <1>4, <1>5, <1>6, <1>7, <1>8, <1>9, <1>10, <1>11 DEF Next

\* The ownership and the absence of orphans together are inductive.
LEMMA KeptStep ==
  ASSUME Kept, [Next]_vars
  PROVE  Kept'
BY OwnershipStep, OrphanStep DEF Kept
-----------------------------------------------------------------------------
(***************************************************************************)
(* What the steps of Rendezvous are in terms of the roles.                 *)
(***************************************************************************)

\* Nobody's role and no offer changes.
LEMMA Stutters ==
  ASSUME \A t \in Session : RoleOf(t)' = RoleOf(t), senders_sessions' = senders_sessions
  PROVE  UNCHANGED Promise!rvars
<1>1. [t \in Session |-> RoleOf(t)]' = [t \in Session |-> RoleOf(t)]
  OBVIOUS
<1>2. QED
  BY <1>1 DEF Promise!rvars

\* One session leaves.
LEMMA LeavesAlone ==
  ASSUME NEW s \in Session, RoleOf(s) \in {"outside", "member"}, RoleOf(s)' = "left",
         \A t \in Session \ {s} : RoleOf(t)' = RoleOf(t),
         senders_sessions' = senders_sessions
  PROVE  Promise!Leave(s)
BY DEF Promise!Leave

\* A claim is settled.
LEMMA Settles ==
  ASSUME NEW r \in Session, NEW s \in Session, NEW outcome, r # s,
         RoleOf(r) = "claiming", RoleOf(s) = "claimed",
         RoleOf(r)' = outcome, RoleOf(s)' = outcome,
         \A t \in Session \ {r, s} : RoleOf(t)' = RoleOf(t),
         senders_sessions' = senders_sessions
  PROVE  Promise!Settle(outcome)
BY DEF Promise!Settle
-----------------------------------------------------------------------------
(***************************************************************************)
(* Sessions a step has nothing to do with.                                 *)
(***************************************************************************)

\* They keep their role.
LEMMA SameRole ==
  ASSUME NEW t \in Session, Apart(t)
  PROVE  RoleOf(t)' = RoleOf(t)
BY DEF Apart, RoleOf, Claimed, At

\* A step that changes nothing of what the roles depend on.
LEMMA SameState ==
  ASSUME UNCHANGED <<sock, reading, io, senders_sessions, bridges>>
  PROVE  UNCHANGED Promise!rvars
<1>1. \A t \in Session : RoleOf(t)' = RoleOf(t)
  BY DEF RoleOf, Claimed, Registered, Bridged, At
<1>2. QED
  BY <1>1, Stutters

\* What Release lets go of is not what somebody else holds: without orphans, it
\* does nothing to a session outside the handler.
LEMMA ReleaseApart ==
  ASSUME Kept, NEW after, NEW t \in Session,
         Release(after), after[t] = sock[t],
         reading'[t] = reading[t],
         t \notin {io.self, io.other}, t \notin {io'.self, io'.other},
         Registered(t)' = Registered(t), Bridged(t)' = Bridged(t)
  PROVE  Apart(t)
<1>1. sock[t] = "open" => Referenced(t)'
  BY DEF Kept, NoOrphan, Referenced
<1>2. sock'[t] = sock[t]
  BY <1>1 DEF Release
<1>3. QED
  BY <1>2 DEF Apart

\* A handler that lets go of s and changes no offer: s leaves.
LEMMA HandlerLeaves ==
  ASSUME Kept, NEW s \in Session, NEW after,
         \A t \in Session \ {s} : after[t] = sock[t],
         after[s] \in {"open", "closed"}, Release(after),
         sock[s] = "open", ~Registered(s), ~Bridged(s),
         io \in {Idle, At("handshake", s, NoSession)}, io' = Idle,
         reading' = [reading EXCEPT ![s] = "none"],
         UNCHANGED <<senders_sessions, bridges>>
  PROVE  Promise!Leave(s)
<1>1. \A t \in Session : Registered(t)' = Registered(t) /\ Bridged(t)' = Bridged(t)
  BY DEF Registered, Bridged
<1>2. \A t \in Session \ {s} : RoleOf(t)' = RoleOf(t)
  <2> SUFFICES ASSUME NEW t \in Session \ {s} PROVE Apart(t)
    BY SameRole
  <2>1. reading'[t] = reading[t]
    BY DEF Kept, Ownership, TypeOK
  <2>2. t \notin {io.self, io.other} /\ t \notin {io'.self, io'.other}
    BY SessionAssumption DEF Idle, At
  <2>3. QED
    BY <1>1, <2>1, <2>2, ReleaseApart
<1>3. RoleOf(s) \in {"outside", "member"}
  BY DEF RoleOf, Claimed, Idle, At
<1>4. reading'[s] = "none"
  BY DEF Kept, Ownership, TypeOK
<1>5. ~Referenced(s)'
  BY <1>1, <1>4, SessionAssumption DEF Referenced, Idle
<1>6. sock'[s] = "closed"
  BY <1>5 DEF Release
<1>7. ~Bridged(s)'
  BY DEF Bridged
<1>8. RoleOf(s)' = "left"
  BY <1>6, <1>7 DEF RoleOf
<1>9. QED
  BY <1>2, <1>3, <1>8, LeavesAlone

\* The same for a handler that throws while s is reading.
LEMMA ThrowsLeaves ==
  ASSUME Kept, NEW s \in Session, HandlerThrows(s), io = Idle, reading[s] # "none",
         UNCHANGED <<senders_sessions, bridges>>
  PROVE  Promise!Leave(s)
<1>1. sock[s] = "open" /\ ~Registered(s) /\ ~Bridged(s)
  BY Reader DEF Kept
<1>2. /\ \A t \in Session \ {s} : Disconnect(s)[t] = sock[t]
      /\ Disconnect(s)[s] \in {"open", "closed"}
  BY <1>1 DEF Disconnect, Kept, Ownership, TypeOK
<1>3. QED
  BY <1>1, <1>2, HandlerLeaves DEF HandlerThrows
-----------------------------------------------------------------------------
(***************************************************************************)
(* Connections and reads.                                                  *)
(***************************************************************************)

\* Accepting and the handshake make nobody a member: a session is outside until
\* it has logged in, and leaves when it never gets that far.
LEMMA AcceptMaps ==
  ASSUME Kept, NEW s \in Session, Accept(s) \/ Handshake(s)
  PROVE  UNCHANGED Promise!rvars \/ Promise!Leave(s)
<1> USE DEF Kept, Ownership, registryVars
<1>1. CASE Accept(s)
  <2>1. /\ io = Idle /\ sock[s] = "backlog"
        /\ \/ io' = At("handshake", s, NoSession) /\ sock' = [sock EXCEPT ![s] = "open"]
           \/ io' = Idle /\ sock' = [sock EXCEPT ![s] = "closed"]
        /\ UNCHANGED <<reading, senders_sessions, bridges>>
    BY <1>1 DEF Accept, AcceptConnection, AcceptFails, IoIdle
  <2>2. ~Registered(s) /\ ~Bridged(s) /\ reading[s] = "none"
    BY <2>1 DEF StreamOfRole, OneReader, TypeOK
  <2>3. \A t \in Session : (Registered(t)' <=> Registered(t)) /\ (Bridged(t)' <=> Bridged(t))
    BY <2>1 DEF Registered, Bridged
  <2>4. RoleOf(s) = "outside"
    BY <2>1, <2>2 DEF RoleOf, Claimed, Idle, At
  <2>5. \A t \in Session \ {s} : RoleOf(t)' = RoleOf(t)
    <3> SUFFICES ASSUME NEW t \in Session \ {s} PROVE RoleOf(t)' = RoleOf(t)
      OBVIOUS
    <3>1. sock'[t] = sock[t]
      BY <2>1 DEF TypeOK
    <3>2. t \notin {io.self, io.other} /\ t \notin {io'.self, io'.other}
      BY <2>1, SessionAssumption DEF Idle, At
    <3>3. QED
      BY <2>1, <2>3, <3>1, <3>2 DEF RoleOf, Claimed, At
  <2>6. CASE io' = At("handshake", s, NoSession) /\ sock' = [sock EXCEPT ![s] = "open"]
    <3>1. sock'[s] = "open" /\ reading'[s] = "none"
      BY <2>1, <2>2, <2>6 DEF TypeOK
    <3>2. RoleOf(s)' = "outside"
      BY <2>2, <2>3, <2>6, <3>1 DEF RoleOf, Claimed, At
    <3>3. QED
      BY <2>1, <2>4, <2>5, <3>2, Stutters
  <2>7. CASE sock' = [sock EXCEPT ![s] = "closed"]
    <3>1. RoleOf(s)' = "left"
      BY <2>2, <2>3, <2>7 DEF RoleOf, TypeOK
    <3>2. QED
      BY <2>1, <2>4, <2>5, <3>1, LeavesAlone
  <2>8. QED
    BY <2>1, <2>6, <2>7
<1>2. CASE HandshakeOk(s)
  <2>1. /\ io = At("handshake", s, NoSession) /\ io' = Idle
        /\ reading' = [reading EXCEPT ![s] = "authenticateCallback"]
        /\ UNCHANGED <<sock, senders_sessions, bridges>>
    BY <1>2 DEF HandshakeOk
  <2>2. sock[s] = "open" /\ reading[s] = "none" /\ ~Registered(s) /\ ~Bridged(s)
    BY <2>1 DEF StreamOfRole, At
  <2>3. \A t \in Session : (Registered(t)' <=> Registered(t)) /\ (Bridged(t)' <=> Bridged(t))
    BY <2>1 DEF Registered, Bridged
  <2>4. \A t \in Session : /\ reading'[t] = "handleRead" <=> reading[t] = "handleRead"
                           /\ ~Claimed(t) /\ ~Claimed(t)'
                           /\ io # At("registered", t, NoSession)
                           /\ io' # At("registered", t, NoSession)
    BY <2>1, <2>2 DEF TypeOK, Claimed, At, Idle
  <2>5. \A t \in Session : RoleOf(t)' = RoleOf(t)
    BY <2>1, <2>3, <2>4 DEF RoleOf
  <2>6. QED
    BY <2>1, <2>5, Stutters
<1>3. CASE HandshakeFails(s)
  <2>1. sock[s] = "open" /\ reading[s] = "none" /\ ~Registered(s) /\ ~Bridged(s)
    BY <1>3 DEF HandshakeFails, StreamOfRole, At
  <2>2. reading' = [reading EXCEPT ![s] = "none"]
    BY <1>3, <2>1 DEF HandshakeFails, TypeOK
  <2>3. QED
    BY <1>3, <2>1, <2>2, HandlerLeaves DEF HandshakeFails
<1>4. QED
  BY <1>1, <1>2, <1>3 DEF Handshake

\* REGISTER_STREAMER is an offer: the streamer on offer before is let go.
LEMMA RegisterMaps ==
  ASSUME Kept, NEW s \in Session, HandleRegister(s)
  PROVE  Promise!Offer(s)
<1> USE DEF Kept, Ownership
<1> DEFINE old == senders_sessions[SessionId]
<1>1. /\ reading[s] = "handleRead" /\ io = Idle
      /\ senders_sessions' = [senders_sessions EXCEPT ![SessionId] = s]
      /\ reading' = [reading EXCEPT ![s] = "none"]
      /\ io' = At("registered", s, NoSession)
      /\ UNCHANGED bridges
      /\ Release(sock)
  BY DEF HandleRegister, Received, IoIdle
<1>2. sock[s] = "open" /\ ~Registered(s) /\ ~Claimed(s) /\ ~Bridged(s)
  BY <1>1, Reader
<1>3. \A t \in Session : Bridged(t)' <=> Bridged(t)
  BY <1>1 DEF Bridged
<1>4. senders_sessions'[SessionId] = s
  BY <1>1, CodeAssumption DEF TypeOK
<1>5. \A t \in Session \ {s} : ~Registered(t)'
  BY <1>1, <1>4, SessionAssumption DEF Registered, OneCode, TypeOK
<1>6. \A t \in Session : Registered(t) <=> t = old
  BY CodeAssumption, SessionAssumption DEF Registered, OneCode
<1>7. \A t \in Session \ {s} : t \notin {io.self, io.other} /\ t \notin {io'.self, io'.other}
  BY <1>1, SessionAssumption DEF Idle, At
<1>8. RoleOf(s) = "member"
  BY <1>1, <1>2 DEF RoleOf
<1>9. RoleOf(s)' = "offering"
  <2>1. Registered(s)' /\ ~Claimed(s)' /\ ~Bridged(s)'
    BY <1>1, <1>2, <1>3, <1>4, CodeAssumption DEF Registered, Claimed, At
  <2>2. sock'[s] = "open"
    BY <1>1, <1>2, <2>1 DEF Release, Referenced
  <2>3. QED
    BY <2>1, <2>2 DEF RoleOf
<1>10. ASSUME NEW t \in Session \ {s}, t = old
       PROVE  RoleOf(t)' = "left"
  <2>1. sock[t] = "open" /\ reading[t] = "none" /\ ~Bridged(t)
    BY <1>6, <1>10 DEF StreamOfRole, OneReader, BridgesDisjoint, TypeOK
  <2>2. ~Referenced(t)'
    BY <1>1, <1>5, <1>7, <2>1 DEF Referenced, TypeOK
  <2>3. sock'[t] = "closed" /\ ~Bridged(t)'
    BY <1>1, <1>3, <2>1, <2>2 DEF Release
  <2>4. QED
    BY <2>3 DEF RoleOf
<1>11. ASSUME NEW t \in Session \ {s}, t # old
       PROVE  RoleOf(t)' = RoleOf(t)
  <2>1. Registered(t)' = Registered(t) /\ Bridged(t)' = Bridged(t)
    <3>1. ~Registered(t) /\ ~Registered(t)'
      BY <1>5, <1>6, <1>11
    <3>2. Bridged(t)' = Bridged(t)
      BY <1>1 DEF Bridged
    <3>3. QED
      BY <3>1, <3>2 DEF Registered
  <2>2. reading'[t] = reading[t]
    BY <1>1 DEF TypeOK
  <2>3. Apart(t)
    BY <1>1, <1>7, <2>1, <2>2, ReleaseApart
  <2>4. QED
    BY <2>3, SameRole
<1>12. QED
  <2>1. [t \in Session |-> RoleOf(t)]' =
          [t \in Session |-> IF t = s THEN "offering"
                             ELSE IF t = old THEN "left"
                             ELSE [u \in Session |-> RoleOf(u)][t]]
    BY <1>9, <1>10, <1>11
  <2>2. QED
    BY <1>1, <1>8, <2>1 DEF Promise!Offer

\* FIND_STREAMER that finds is a claim: it takes the offer off the registry.
LEMMA FindMaps ==
  ASSUME Kept, NEW s \in Session, FindStreamer(s)
  PROVE  \E c \in Code : Promise!Claim(s, c)
<1> USE DEF Kept, Ownership
<1>1. PICK code \in Code : code = inbox[s].content
  BY DEF TypeOK, FindStreamer, FindHits, Received, Message, NoMessage
<1>2. PICK sender \in Session : sender = senders_sessions[code]
  BY <1>1 DEF TypeOK, FindStreamer, FindHits
<1>3. /\ reading[s] = "handleRead" /\ io = Idle
      /\ io' = At("found", s, sender)
      /\ senders_sessions' = [senders_sessions EXCEPT ![code] = NoSession]
      /\ reading' = [reading EXCEPT ![s] = "none"]
      /\ UNCHANGED <<sock, bridges>>
      /\ Registered(sender)
  BY <1>1, <1>2 DEF FindStreamer, FindHits, Received, IoIdle, Registered
<1>4. sock[s] = "open" /\ ~Registered(s) /\ ~Claimed(s) /\ ~Bridged(s)
  BY <1>3, Reader
<1>5. s # sender /\ sock[sender] = "open" /\ ~Claimed(sender) /\ ~Bridged(sender)
  BY <1>3, <1>4 DEF StreamOfRole, BridgesDisjoint
<1>6. \A t \in Session : Bridged(t)' <=> Bridged(t)
  BY <1>3 DEF Bridged
<1>7. RoleOf(s) = "member" /\ RoleOf(s)' = "claiming"
  <2>1. RoleOf(s) = "member"
    BY <1>3, <1>4 DEF RoleOf
  <2>2. sock'[s] = "open" /\ Claimed(s)' /\ s = io'.self /\ ~Bridged(s)'
    BY <1>3, <1>4, <1>6 DEF Claimed, At
  <2>3. QED
    BY <2>1, <2>2 DEF RoleOf
<1>8. RoleOf(sender)' = "claimed"
  <2>1. sock'[sender] = "open" /\ Claimed(sender)' /\ sender # io'.self /\ ~Bridged(sender)'
    BY <1>3, <1>5, <1>6 DEF Claimed, At
  <2>2. QED
    BY <2>1 DEF RoleOf
<1>9. ASSUME NEW t \in Session \ {s, sender}
      PROVE  RoleOf(t)' = RoleOf(t)
  <2>1. Registered(t)' = Registered(t) /\ Bridged(t)' = Bridged(t)
    BY <1>2, <1>3, <1>9, SessionAssumption DEF Registered, Bridged, TypeOK
  <2>2. sock'[t] = sock[t] /\ reading'[t] = reading[t]
    BY <1>3 DEF TypeOK
  <2>3. t \notin {io.self, io.other} /\ t \notin {io'.self, io'.other}
    BY <1>3, SessionAssumption DEF Idle, At
  <2>4. QED
    BY <2>1, <2>2, <2>3, SameRole DEF Apart
<1>10. [t \in Session |-> RoleOf(t)]' =
         [[t \in Session |-> RoleOf(t)] EXCEPT ![s] = "claiming", ![sender] = "claimed"]
  BY <1>5, <1>7, <1>8, <1>9
<1>11. Promise!Claim(s, code)
  BY <1>2, <1>3, <1>7, <1>10, SessionAssumption DEF Promise!Claim
<1>12. QED
  BY <1>11

\* Every way in which the read of a session can complete.
LEMMA ReadMaps ==
  ASSUME Kept, NEW s \in Session, HandleRead(s)
  PROVE  [Promise!RNext]_Promise!rvars
<1> USE DEF registryVars, Promise!RNext
<1>1. reading[s] # "none" /\ io = Idle
  BY DEF HandleRead, ReadFails, RejectHeader, LoginAccepted, LoginRejected,
         LoginRefused, HandleRegister, FindStreamer, FindHits, FindMisses,
         HandleUnexpected, Received, IoIdle
<1>2. sock[s] = "open" /\ ~Registered(s) /\ ~Claimed(s) /\ ~Bridged(s)
  BY <1>1, Reader DEF Kept
<1>3. CASE ReadFails(s)
  BY <1>1, <1>2, <1>3, HandlerLeaves DEF ReadFails
<1>4. CASE RejectHeader(s)
  BY <1>1, <1>4, ThrowsLeaves DEF RejectHeader
<1>5. CASE LoginAccepted(s)
  <2>1. CASE HandlerThrows(s)
    BY <1>1, <1>5, <2>1, ThrowsLeaves DEF LoginAccepted
  <2>2. CASE reading' = [reading EXCEPT ![s] = "handleRead"] /\ UNCHANGED <<io, sock>>
    <3>1. reading[s] = "authenticateCallback" /\ UNCHANGED <<senders_sessions, bridges>>
      BY <1>5 DEF LoginAccepted, Received
    <3>2. \A t \in Session : /\ Registered(t)' = Registered(t)
                             /\ Bridged(t)' = Bridged(t)
                             /\ Claimed(t)' = Claimed(t)
      BY <2>2, <3>1 DEF Registered, Bridged, Claimed
    <3>3. RoleOf(s) = "outside"
      BY <1>1, <1>2, <3>1 DEF RoleOf, Idle, At
    <3>4. ~Bridged(s)' /\ ~Claimed(s)' /\ ~Registered(s)'
      BY <1>2, <2>2, <3>1 DEF Registered, Bridged, Claimed
    <3>5. reading'[s] = "handleRead" /\ sock'[s] = "open"
      BY <1>2, <2>2 DEF Kept, Ownership, TypeOK
    <3>6. RoleOf(s)' = "member"
      BY <3>4, <3>5 DEF RoleOf
    <3>7. \A t \in Session \ {s} : RoleOf(t)' = RoleOf(t)
      <4> SUFFICES ASSUME NEW t \in Session \ {s} PROVE Apart(t)
        BY SameRole
      <4>1. QED
        BY <1>1, <2>2, <3>2, SessionAssumption DEF Apart, Idle, Kept, Ownership, TypeOK
    <3>8. [t \in Session |-> RoleOf(t)]' =
            [[t \in Session |-> RoleOf(t)] EXCEPT ![s] = "member"]
      BY <3>6, <3>7
    <3>9. Promise!Join(s)
      BY <3>1, <3>3, <3>8 DEF Promise!Join
    <3>10. QED
      BY <3>9
  <2>3. QED
    BY <1>5, <2>1, <2>2 DEF LoginAccepted
<1>6. CASE LoginRejected(s)
  BY <1>1, <1>2, <1>6, HandlerLeaves DEF LoginRejected
<1>7. CASE LoginRefused(s)
  BY <1>1, <1>7, ThrowsLeaves DEF LoginRefused
<1>8. CASE HandleRegister(s)
  BY <1>8, RegisterMaps
<1>9. CASE FindStreamer(s)
  BY <1>9, FindMaps
<1>10. CASE FindMisses(s)
  BY <1>1, <1>10, ThrowsLeaves, SameState DEF FindMisses
<1>11. CASE HandleUnexpected(s)
  BY <1>1, <1>11, ThrowsLeaves, SameState DEF HandleUnexpected
<1>12. QED
  BY <1>3, <1>4, <1>5, <1>6, <1>7, <1>8, <1>9, <1>10, <1>11 DEF HandleRead

\* The ID is sent to a session that is on offer, or that the sweep has let go of
\* already: its role is the same before and after.
LEMMA SendIdMaps ==
  ASSUME Kept, NEW s \in Session, SendId(s)
  PROVE  UNCHANGED Promise!rvars
<1> USE DEF Kept, Ownership
<1>1. /\ io = At("registered", s, NoSession) /\ io' = Idle /\ Release(sock)
      /\ UNCHANGED <<reading, senders_sessions, bridges>>
  BY DEF SendId, registryVars
<1>2. sock[s] = "open" /\ reading[s] = "none" /\ ~Bridged(s)
  BY <1>1 DEF StreamOfRole, At
<1>3. \A t \in Session : /\ Registered(t)' = Registered(t)
                         /\ Bridged(t)' = Bridged(t)
  BY <1>1 DEF Registered, Bridged
<1>4. ~Bridged(s)' /\ ~Claimed(s)' /\ ~Claimed(s)
  BY <1>1, <1>2 DEF Bridged, Claimed, At, Idle
<1>5. RoleOf(s)' = RoleOf(s)
  <2>1. CASE Registered(s)
    <3>1. Registered(s)' /\ sock'[s] = "open"
      BY <1>1, <1>2, <2>1 DEF Registered, Release, Referenced
    <3>2. RoleOf(s)' = "offering" /\ RoleOf(s) = "offering"
      BY <1>2, <1>4, <2>1, <3>1 DEF RoleOf
    <3>3. QED
      BY <3>2
  <2>2. CASE ~Registered(s)
    <3>1. ~Referenced(s)'
      BY <1>1, <1>2, <2>2, SessionAssumption DEF Registered, Referenced, Idle
    <3>2. sock'[s] = "closed"
      BY <1>1, <1>2, <3>1 DEF Release
    <3>3. RoleOf(s)' = "left"
      BY <1>4, <3>2 DEF RoleOf
    <3>4. RoleOf(s) = "left"
      BY <1>1, <1>2, <1>4, <2>2 DEF RoleOf
    <3>5. QED
      BY <3>3, <3>4
  <2>3. QED
    BY <2>1, <2>2
<1>6. \A t \in Session \ {s} : RoleOf(t)' = RoleOf(t)
  <2> SUFFICES ASSUME NEW t \in Session \ {s} PROVE Apart(t)
    BY SameRole
  <2>1. t \notin {io.self, io.other} /\ t \notin {io'.self, io'.other}
    BY <1>1, SessionAssumption DEF Idle, At
  <2>2. QED
    BY <1>1, <1>3, <2>1, ReleaseApart
<1>7. QED
  BY <1>1, <1>5, <1>6, Stutters
-----------------------------------------------------------------------------
(***************************************************************************)
(* Claims.                                                                 *)
(***************************************************************************)

\* Two sessions in a claim: nobody else holds either.
LEMMA ClaimFacts ==
  ASSUME Kept, NEW r \in Session, NEW s \in Session,
         io.step \in {"found", "acked", "started"}, io.self = r, io.other = s
  PROVE  /\ r # s
         /\ \A t \in {r, s} : /\ sock[t] = "open" /\ reading[t] = "none"
                              /\ Claimed(t) /\ ~Registered(t) /\ ~Bridged(t)
         /\ RoleOf(r) = "claiming" /\ RoleOf(s) = "claimed"
<1> USE DEF Kept, Ownership
<1>1. r # s /\ Claimed(r) /\ Claimed(s)
  BY DEF BridgesDisjoint, Claimed
<1>2. \A t \in {r, s} : sock[t] = "open" /\ ~Registered(t) /\ ~Bridged(t)
  BY <1>1 DEF StreamOfRole, BridgesDisjoint
<1>3. \A t \in {r, s} : reading[t] = "none"
  BY <1>1 DEF OneReader, TypeOK
<1>4. QED
  BY <1>1, <1>2, <1>3 DEF RoleOf

\* A handler that throws in the middle of a claim lets both go.
LEMMA ThrowsAbandons ==
  ASSUME Kept, NEW r \in Session, NEW s \in Session, HandlerThrows(r),
         io.step \in {"found", "acked", "started"}, io.self = r, io.other = s,
         UNCHANGED <<senders_sessions, bridges>>
  PROVE  Promise!Abandon
<1>1. /\ r # s
      /\ \A t \in {r, s} : sock[t] = "open" /\ reading[t] = "none" /\ ~Registered(t)
                           /\ ~Bridged(t)
      /\ RoleOf(r) = "claiming" /\ RoleOf(s) = "claimed"
  BY ClaimFacts
<1>2. io' = Idle /\ Release(Disconnect(r)) /\ reading' = reading
  BY <1>1 DEF HandlerThrows, Kept, Ownership, TypeOK
<1>3. /\ \A t \in Session \ {r} : Disconnect(r)[t] = sock[t]
      /\ Disconnect(r)[r] \in {"open", "closed"}
  BY <1>1 DEF Disconnect, Kept, Ownership, TypeOK
<1>4. \A t \in Session : Registered(t)' = Registered(t) /\ Bridged(t)' = Bridged(t)
  BY DEF Registered, Bridged
<1>5. ASSUME NEW t \in {r, s}
      PROVE  RoleOf(t)' = "left"
  <2>1. ~Registered(t)' /\ ~Bridged(t)'
    BY <1>1, <1>5 DEF Registered, Bridged
  <2>2. ~Referenced(t)'
    BY <1>1, <1>2, <1>5, <2>1, SessionAssumption DEF Referenced, Idle
  <2>3. Disconnect(r)[t] \in {"open", "closed"}
    BY <1>1, <1>3, <1>5
  <2>4. sock'[t] = "closed"
    BY <1>2, <1>5, <2>2, <2>3 DEF Release
  <2>5. QED
    BY <2>1, <2>4 DEF RoleOf
<1>6. \A t \in Session \ {r, s} : RoleOf(t)' = RoleOf(t)
  <2> SUFFICES ASSUME NEW t \in Session \ {r, s} PROVE Apart(t)
    BY SameRole
  <2>1. t \notin {io.self, io.other} /\ t \notin {io'.self, io'.other}
    BY <1>2, SessionAssumption DEF Idle
  <2>2. QED
    BY <1>2, <1>3, <1>4, <2>1, ReleaseApart
<1>7. RoleOf(r)' = "left" /\ RoleOf(s)' = "left"
  BY <1>5
<1>8. QED
  BY <1>1, <1>6, <1>7, Settles DEF Promise!Abandon

\* The steps of a claim: two of them change nobody's role, the last pairs the
\* two sessions, and each may abandon the claim instead.
LEMMA ClaimMaps ==
  ASSUME Kept, NEW r \in Session, NEW s \in Session, createBridgeWithStreamer(r, s)
  PROVE  [Promise!RNext]_Promise!rvars
<1> USE DEF registryVars, Promise!RNext
<1>1. /\ io.step \in {"found", "acked", "started"} /\ io.self = r /\ io.other = s
      /\ UNCHANGED senders_sessions
  BY DEF createBridgeWithStreamer, SendFindAck, SendStartStream, OpenBridge, At
<1>2. /\ r # s
      /\ \A t \in {r, s} : /\ sock[t] = "open" /\ reading[t] = "none"
                           /\ Claimed(t) /\ ~Registered(t) /\ ~Bridged(t)
      /\ RoleOf(r) = "claiming" /\ RoleOf(s) = "claimed"
  BY <1>1, ClaimFacts
<1>3. ASSUME HandlerThrows(r), UNCHANGED bridges
      PROVE  Promise!Abandon
  BY <1>1, <1>3, ThrowsAbandons
<1>4. ASSUME io'.step \in {"found", "acked", "started"}, io'.self = r, io'.other = s,
             UNCHANGED <<reading, sock, bridges>>
      PROVE  UNCHANGED Promise!rvars
  <2>1. \A t \in Session : /\ Registered(t)' <=> Registered(t)
                           /\ Bridged(t)' <=> Bridged(t)
                           /\ Claimed(t)' <=> Claimed(t)
                           /\ io # At("registered", t, NoSession)
                           /\ io' # At("registered", t, NoSession)
    BY <1>1, <1>4 DEF Registered, Bridged, Claimed, At
  <2>2. \A t \in Session : RoleOf(t)' = RoleOf(t)
    BY <1>1, <1>4, <2>1 DEF RoleOf
  <2>3. QED
    BY <1>1, <2>2, Stutters
<1>5. CASE SendFindAck(r, s)
  BY <1>3, <1>4, <1>5 DEF SendFindAck, At
<1>6. CASE SendStartStream(r, s)
  BY <1>3, <1>4, <1>6 DEF SendStartStream, At
<1>7. CASE OpenBridge(r, s)
  <2>1. io' = Idle /\ UNCHANGED <<reading, senders_sessions>>
    BY <1>7 DEF OpenBridge
  <2>2. \A t \in Session : Registered(t)' = Registered(t)
    BY <2>1 DEF Registered
  <2>3. ASSUME NEW t \in Session \ {r, s}, sock'[t] = sock[t], Bridged(t)' = Bridged(t)
        PROVE  RoleOf(t)' = RoleOf(t)
    <3>1. t \notin {io.self, io.other} /\ t \notin {io'.self, io'.other}
      BY <1>1, <2>1, SessionAssumption DEF Idle
    <3>2. QED
      BY <2>1, <2>2, <2>3, <3>1, SameRole DEF Apart
  <2>4. CASE /\ bridges' = bridges \cup {<<s, r>>}
             /\ sock' = [sock EXCEPT ![s] = "moved", ![r] = "moved"]
    <3>1. ASSUME NEW t \in Session \ {r, s}
          PROVE  sock'[t] = sock[t] /\ Bridged(t)' = Bridged(t)
      <4>1. sock'[t] = sock[t]
        BY <2>4, <3>1 DEF Kept, Ownership, TypeOK
      <4>2. t \notin {<<s, r>>[1], <<s, r>>[2]}
        BY <3>1
      <4>3. Bridged(t)' = Bridged(t)
        BY <2>4, <4>2 DEF Bridged
      <4>4. QED
        BY <4>1, <4>3
    <3>2. <<s, r>> \in bridges' /\ <<s, r>>[1] = s /\ <<s, r>>[2] = r
      BY <2>4
    <3>3. Bridged(r)' /\ Bridged(s)'
      BY <3>2 DEF Bridged
    <3>4. RoleOf(r)' = "paired" /\ RoleOf(s)' = "paired"
      BY <3>3 DEF RoleOf
    <3>5. Promise!Pair
      BY <1>2, <2>1, <2>3, <3>1, <3>4, Settles DEF Promise!Pair
    <3>6. QED
      BY <3>5
  <2>5. CASE /\ bridges' = bridges
             /\ sock' = [sock EXCEPT ![s] = "closed", ![r] = "closed"]
    <3>1. \A t \in Session : Bridged(t)' = Bridged(t)
      BY <2>5 DEF Bridged
    <3>2. \A t \in Session \ {r, s} : sock'[t] = sock[t]
      BY <2>5 DEF Kept, Ownership, TypeOK
    <3>3. \A t \in {r, s} : sock'[t] = "closed"
      BY <2>5 DEF Kept, Ownership, TypeOK
    <3>4. ~Bridged(r)' /\ ~Bridged(s)'
      BY <1>2, <2>5 DEF Bridged
    <3>5. RoleOf(r)' = "left" /\ RoleOf(s)' = "left"
      BY <3>3, <3>4 DEF RoleOf
    <3>6. Promise!Abandon
      BY <1>2, <2>1, <2>3, <3>1, <3>2, <3>5, Settles DEF Promise!Abandon
    <3>7. QED
      BY <3>6
  <2>6. QED
    BY <1>7, <2>4, <2>5 DEF OpenBridge
<1>8. QED
  BY <1>5, <1>6, <1>7 DEF createBridgeWithStreamer
-----------------------------------------------------------------------------
(***************************************************************************)
(* The sweep.                                                              *)
(***************************************************************************)

\* A sweep times the expired offers out.  A session whose ID is still to be sent
\* has left as well: it is held by its handler alone.
LEMMA SweepMaps ==
  ASSUME Kept, terminateTimeoutClients
  PROVE  [Promise!RNext]_Promise!rvars
<1> USE DEF Kept, Ownership
<1> DEFINE C == {c \in Code : expired[c] /\ senders_sessions[c] # NoSession}
<1>1. /\ UNCHANGED <<reading, io, bridges>> /\ Release(sock)
      /\ senders_sessions' = [c \in Code |-> IF expired[c] THEN NoSession
                                                           ELSE senders_sessions[c]]
  BY DEF terminateTimeoutClients
<1>2. senders_sessions' = [c \in Code |-> IF c \in C THEN NoSession
                                                     ELSE senders_sessions[c]]
  BY <1>1
<1>3. \A t \in Session : Registered(t) <=> senders_sessions[SessionId] = t
  BY CodeAssumption, SessionAssumption DEF Registered, OneCode
<1>4. \A t \in Session : /\ Claimed(t)' = Claimed(t)
                         /\ Bridged(t)' = Bridged(t)
  BY <1>1 DEF Claimed, Bridged
<1>5. ASSUME NEW t \in Session, \E c \in C : senders_sessions[c] = t
      PROVE  RoleOf(t)' = "left"
  <2>1. Registered(t) /\ SessionId \in C
    BY <1>3, <1>5, SessionAssumption DEF OneCode
  <2>2. ~Registered(t)'
    BY <1>2, <1>3, <2>1, CodeAssumption, SessionAssumption DEF Registered, OneCode
  <2>3. sock[t] = "open" /\ reading[t] = "none" /\ ~Claimed(t) /\ ~Bridged(t)
    BY <2>1 DEF StreamOfRole, OneReader, BridgesDisjoint, TypeOK
  <2>4. ~Claimed(t)' /\ ~Bridged(t)'
    BY <1>1, <2>3 DEF Claimed, Bridged
  <2>5. CASE io = At("registered", t, NoSession)
    BY <1>1, <2>2, <2>3, <2>4, <2>5 DEF RoleOf
  <2>6. CASE io # At("registered", t, NoSession)
    <3>1. t \notin {io.self, io.other}
      BY <2>1, <2>3, <2>6, SessionAssumption
         DEF TypeOK, IoStates, Idle, At, StreamOfRole, Claimed
    <3>2. ~Referenced(t)'
      BY <1>1, <2>2, <2>3, <3>1 DEF Referenced
    <3>3. sock'[t] = "closed"
      BY <1>1, <2>3, <3>2 DEF Release
    <3>4. QED
      BY <2>4, <3>3 DEF RoleOf
  <2>7. QED
    BY <2>5, <2>6
<1>6. ASSUME NEW t \in Session, ~\E c \in C : senders_sessions[c] = t
      PROVE  RoleOf(t)' = RoleOf(t)
  <2>1. Registered(t)' = Registered(t)
    <3>1. \A c \in Code : senders_sessions'[c] = t <=> senders_sessions[c] = t
      BY <1>2, <1>6, SessionAssumption
    <3>2. QED
      BY <3>1 DEF Registered
  <2>2. sock'[t] = sock[t]
    BY <1>1, <2>1 DEF Release, NoOrphan, Referenced
  <2>3. QED
    BY <1>1, <1>4, <2>1, <2>2 DEF RoleOf, At
<1>7. CASE C = {}
  <2>1. senders_sessions' = senders_sessions
    BY <1>2, <1>7 DEF TypeOK
  <2>2. \A t \in Session : RoleOf(t)' = RoleOf(t)
    BY <1>6, <1>7
  <2>3. QED
    BY <2>1, <2>2, Stutters
<1>8. CASE C # {}
  <2>1. [t \in Session |-> RoleOf(t)]' =
          [t \in Session |-> IF \E c \in C : senders_sessions[c] = t
                               THEN "left" ELSE [u \in Session |-> RoleOf(u)][t]]
    BY <1>5, <1>6
  <2>2. C \in SUBSET {c \in Code : senders_sessions[c] # NoSession}
    OBVIOUS
  <2>3. Promise!TimeOut
    BY <1>2, <1>8, <2>1, <2>2 DEF Promise!TimeOut
  <2>4. QED
    BY <2>3 DEF Promise!RNext
<1>9. QED
  BY <1>7, <1>8
-----------------------------------------------------------------------------
(***************************************************************************)
(* The refinement.                                                         *)
(***************************************************************************)

\* Every step of every thread and client keeps a promise or changes none.
LEMMA StepKeepsPromise ==
  ASSUME Kept, [Next]_vars
  PROVE  [Promise!RNext]_Promise!rvars
<1>1. ASSUME NEW s \in Session, Client(s)
      PROVE  [Promise!RNext]_Promise!rvars
  <2>1. CASE Connect(s)
    <3>1. /\ sock[s] = "none" /\ sock' = [sock EXCEPT ![s] = "backlog"]
          /\ UNCHANGED <<reading, io, senders_sessions, bridges>>
      BY <2>1 DEF Connect, registryVars
    <3>2. \A t \in Session : /\ Registered(t)' = Registered(t)
                             /\ Bridged(t)' = Bridged(t)
                             /\ Claimed(t)' = Claimed(t)
                             /\ sock'[t] = "closed" <=> sock[t] = "closed"
      BY <3>1 DEF Registered, Bridged, Claimed, Kept, Ownership, TypeOK
    <3>3. \A t \in Session : RoleOf(t)' = RoleOf(t)
      BY <3>1, <3>2 DEF RoleOf, At
    <3>4. QED
      BY <3>1, <3>3, Stutters
  <2>2. CASE ClientLeave(s) \/ ConnectionReset(s) \/ \E msg \in Message : ClientSend(s, msg)
    BY <2>2, SameState DEF ClientLeave, ConnectionReset, ClientSend, registryVars
  <2>3. QED
    BY <1>1, <2>1, <2>2 DEF Client
<1>2. ASSUME NEW s \in Session, Accept(s) \/ Handshake(s)
      PROVE  [Promise!RNext]_Promise!rvars
  BY <1>2, AcceptMaps DEF Promise!RNext
<1>3. ASSUME NEW s \in Session, SendId(s)
      PROVE  [Promise!RNext]_Promise!rvars
  BY <1>3, SendIdMaps
<1>4. ASSUME NEW b \in bridges, BridgeEnds(b)
      PROVE  [Promise!RNext]_Promise!rvars
  BY <1>4, SameState DEF BridgeEnds, registryVars
<1>5. CASE Cleaner
  BY <1>5, SweepMaps, SameState DEF Cleaner, Expire
<1>6. CASE UNCHANGED vars
  BY <1>6, SameState DEF vars
<1>7. QED
  BY <1>1, <1>2, <1>3, <1>4, <1>5, <1>6, ReadMaps, ClaimMaps DEF Next

\* The server starts with everybody outside and nobody on offer.
LEMMA InitMaps ==
  ASSUME Init
  PROVE  Kept /\ Promise!RInit
<1>1. \A s \in Session : /\ ~Registered(s) /\ ~Claimed(s) /\ ~Bridged(s)
                         /\ sock[s] = "none" /\ reading[s] = "none"
                         /\ io # At("registered", s, NoSession)
  BY SessionAssumption DEF Init, Registered, Claimed, Bridged, Idle, At
<1>2. TypeOK
  BY IoType DEF Init, TypeOK, NoMessage
<1>3. Kept
  BY <1>1, <1>2
     DEF Init, Idle, Kept, NoOrphan, Ownership, StreamOfRole, OneCode, OneReader,
         AuthenticatedOnly, BridgesDisjoint
<1>4. \A s \in Session : RoleOf(s) = "outside"
  BY <1>1 DEF RoleOf
<1>5. Promise!RInit
  BY <1>4 DEF Promise!RInit, Init
<1>6. QED
  BY <1>3, <1>5

\* No session is forgotten: a stream that is open is held by a pending read, by
\* the registry or by the running handler, whose end will close it.
THEOREM NoOrphanHolds == Spec => []NoOrphan
<1>1. Init => Kept
  BY InitMaps
<1>2. Kept /\ [Next]_vars => Kept'
  BY KeptStep
<1>3. Kept => NoOrphan
  BY DEF Kept
<1>4. QED
  BY <1>1, <1>2, <1>3, PTL DEF Spec

\* The proxy server implements Rendezvous, for any connections and codes: a
\* streamer that is on offer is claimed by one viewer, timed out or replaced,
\* and every claim ends with the two paired or both let go.
THEOREM ImplementsRendezvousHolds == Spec => ImplementsRendezvous
<1>1. Init => Kept /\ Promise!RInit
  BY InitMaps
<1>2. Kept /\ [Next]_vars => Kept'
  BY KeptStep
<1>3. Kept /\ [Next]_vars => [Promise!RNext]_Promise!rvars
  BY StepKeepsPromise
<1>4. QED
  BY <1>1, <1>2, <1>3, PTL DEF Spec, ImplementsRendezvous, Promise!RSpec
=============================================================================
