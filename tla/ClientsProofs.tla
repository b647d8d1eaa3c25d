----------------------------- MODULE ClientsProofs -----------------------------
(***************************************************************************)
(* Theorems about Clients, for any number of connections and codes: the    *)
(* programs and the server together are a behaviour of ProxyServer, so     *)
(* that what is proved of the server with arbitrary clients holds of it;   *)
(* and the two agree on whose turn it is, so that no program takes an      *)
(* answer for one to another request (AnswersMatch).                       *)
(***************************************************************************)
EXTENDS Clients, ProxyServerProofs, SequenceTheorems

\* A program that ends closes its connection, as a client of ProxyServer may, or
\* leaves the server's state alone when there is none to close.
LEMMA ExitsStep ==
  ASSUME NEW s \in Session, Exits(s)
  PROVE  [Client(s)]_vars
<1>1. CASE sock[s] = "closed"
  BY <1>1 DEF Exits, vars, registryVars
<1>2. CASE sock[s] # "closed"
  BY <1>2 DEF Exits, ClientLeave, Client
<1>3. QED
  BY <1>1, <1>2

\* A request is a message that ProxyServer's clients may send.
LEMMA RequestsStep ==
  ASSUME NEW s \in Session, NEW from, NEW to, NEW msg \in Message,
         Requests(s, from, to, msg)
  PROVE  Client(s)
BY DEF Requests, Client

\* What a program reads changes nothing of the server, unless it ends it.
LEMMA ReadsStep ==
  ASSUME NEW s \in Session, NEW from, NEW accepted, NEW to, Reads(s, from, accepted, to)
  PROVE  [Client(s)]_vars
<1>1. CASE UNCHANGED vars
  BY <1>1
<1>2. CASE Exits(s)
  BY <1>2, ExitsStep
<1>3. QED
  BY <1>1, <1>2 DEF Reads

\* Every step of a client, whatever it runs, is a step of a client of
\* ProxyServer, or none.
LEMMA ProgramMaps ==
  ASSUME NEW s \in Session, ProgramStep(s) \/ Foreign(s) \/ CReset(s)
  PROVE  [Client(s)]_vars
<1>1. CASE connect(s)
  BY <1>1 DEF connect, Client
<1>2. CASE login(s)
  <2>1. PICK credentials \in {"known", "unknown"} :
          Requests(s, "login", "receiveACK", [type |-> "LOGIN", content |-> credentials])
    BY <1>2 DEF login
  <2>2. [type |-> "LOGIN", content |-> credentials] \in Message
    BY DEF Message, Credentials
  <2>3. QED
    BY <2>1, <2>2, RequestsStep
<1>3. CASE requestStreamerID(s)
  <2>1. [type |-> "REGISTER_STREAMER", content |-> "none"] \in Message
    BY DEF Message
  <2>2. QED
    BY <1>3, <2>1, RequestsStep DEF requestStreamerID
<1>4. CASE findOtherClient(s)
  <2>1. PICK code \in Code :
          Requests(s, "findOtherClient", "receive_found",
                   [type |-> "FIND_STREAMER", content |-> code])
    BY <1>4 DEF findOtherClient
  <2>2. [type |-> "FIND_STREAMER", content |-> code] \in Message
    BY DEF Message
  <2>3. QED
    BY <2>1, <2>2, RequestsStep
<1>5. CASE ProgramReads(s)
  <2>1. CASE receiveACK(s) \/ receiveFound(s) \/ receiveID(s)
    BY <2>1, ReadsStep DEF receiveACK, receiveFound, receiveID
  <2>2. CASE waitForStartStreamMessage(s)
    BY <2>2 DEF waitForStartStreamMessage
  <2>3. CASE ConnectionBroken(s)
    BY <2>3, ExitsStep DEF ConnectionBroken
  <2>4. QED
    BY <1>5, <2>1, <2>2, <2>3 DEF ProgramReads
<1>6. CASE Killed(s)
  BY <1>6, ExitsStep DEF Killed
<1>7. CASE Foreign(s)
  BY <1>7 DEF Foreign, Client
<1>8. CASE CReset(s)
  BY <1>8 DEF CReset, Client
<1>9. QED
  BY <1>1, <1>2, <1>3, <1>4, <1>5, <1>6, <1>7, <1>8 DEF ProgramStep

\* Every step of the composed system is a step of ProxyServer, or none of its.
LEMMA StepMaps ==
  ASSUME [CNext]_allVars
  PROVE  [Next]_vars
<1>1. CASE UNCHANGED allVars
  BY <1>1 DEF allVars
<1>2. ASSUME NEW s \in Session, ProgramStep(s) \/ Foreign(s) \/ CReset(s)
      PROVE  [Next]_vars
  BY <1>2, ProgramMaps DEF Next
<1>3. ASSUME NEW s \in Session, CAccept(s) \/ CHandshake(s) \/ CSendId(s)
      PROVE  Next
  BY <1>3 DEF CAccept, CHandshake, CSendId, Next
<1>4. ASSUME NEW s \in Session, CHandleRead(s)
      PROVE  Next
  <2>1. HandleRead(s)
    BY <1>4 DEF CHandleRead, HandleRead
  <2>2. QED
    BY <2>1 DEF Next
<1>5. ASSUME NEW r \in Session, NEW s \in Session, CcreateBridge(r, s)
      PROVE  Next
  <2>1. createBridgeWithStreamer(r, s)
    BY <1>5 DEF CcreateBridge, createBridgeWithStreamer
  <2>2. QED
    BY <2>1 DEF Next
<1>6. CASE CBridgeEnds
  BY <1>6 DEF CBridgeEnds, Next
<1>7. CASE CterminateTimeoutClients \/ \E code \in Code : CExpire(code)
  BY <1>7 DEF CterminateTimeoutClients, CExpire, Cleaner, Next
<1>8. QED
  BY <1>1, <1>2, <1>3, <1>4, <1>5, <1>6, <1>7 DEF CNext

\* The programs and the server together do nothing that the server with
\* arbitrary clients does not do (the requests of ClientSocket are messages the
\* server has to expect, and it sends nothing of its own accord).
THEOREM ClientsImplementProxyServer == CSpec => Spec
<1>1. CInit => Init
  BY DEF CInit
<1>2. [CNext]_allVars => [Next]_vars
  BY StepMaps
<1>3. QED
  BY <1>1, <1>2, PTL DEF CSpec, Spec

\* Every stream has one owner in the composed system too.
THEOREM OwnershipComposed == CSpec => []Ownership
BY ClientsImplementProxyServer, OwnershipHolds, PTL
-----------------------------------------------------------------------------
(***************************************************************************)
(* Whose turn it is.                                                       *)
(***************************************************************************)
Call == {"connect", "login", "receiveACK", "requestStreamerID", "receive_id",
         "waitForStart", "streaming", "findOtherClient", "receive_found", "viewing",
         "ended"}

Reply == {"ACK", "NACK", "ID", "START_STREAM", "RESPONSE", "DISCONNECT"}

CTypes ==
  /\ program \in [Session -> Program]
  /\ at \in [Session -> Call]
  /\ replies \in [Session -> Seq(Reply)]

\* s runs one of the two programs, which has not ended.
Live(s) == program[s] # "foreign" /\ at[s] # "ended"

\* The server waits for a request of s, or has one.
Quiet(s, callback) == reading[s] = callback /\ inbox[s] = NoMessage

Asked(s, callback, type) == reading[s] = callback /\ inbox[s].type = type

\* The server has nothing to say to s of its own accord.
Aside(s) ==
  /\ ~Registered(s) /\ ~Claimed(s) /\ ~Bridged(s)
  /\ ~(io.step = "registered" /\ io.self = s)

\* What has become of a streamer that has its ID, of one that has been told to
\* start, and of a viewer that has been told that its streamer was found.
OnOffer(s) ==
  \/ Registered(s) /\ ~(io.step = "registered" /\ io.self = s)
  \/ io.step \in {"found", "acked"} /\ io.other = s
  \/ sock[s] = "closed"

HandedOver(s) ==
  \/ io.step = "started" /\ io.other = s
  \/ Bridged(s)
  \/ sock[s] = "closed"

Joined(s) ==
  \/ io.step \in {"acked", "started"} /\ io.self = s
  \/ Bridged(s)
  \/ sock[s] = "closed"

\* Whose turn it is, by the call the program is in and what it has not read.
Turn(s) ==
  /\ at[s] # "connect" => peer[s] = "up"
  /\ at[s] = "connect" =>
       peer[s] = "none" /\ sock[s] = "none" /\ inbox[s] = NoMessage /\ replies[s] = <<>>
  /\ at[s] = "login" =>
       /\ Aside(s) /\ reading[s] # "handleRead" /\ inbox[s] = NoMessage
       /\ replies[s] = <<>>
  /\ at[s] = "receiveACK" =>
       \/ Asked(s, "authenticateCallback", "LOGIN") /\ replies[s] = <<>>
       \/ Quiet(s, "handleRead") /\ replies[s] = <<"ACK">>
       \/ sock[s] = "closed" /\ replies[s] \in {<<"NACK">>, <<"DISCONNECT">>}
  /\ at[s] \in {"requestStreamerID", "findOtherClient"} =>
       Quiet(s, "handleRead") /\ replies[s] = <<>>
  /\ at[s] = "receive_id" =>
       \/ Asked(s, "handleRead", "REGISTER_STREAMER") /\ replies[s] = <<>>
       \/ io = At("registered", s, NoSession) /\ replies[s] = <<>>
       \/ OnOffer(s) /\ replies[s] = <<"ID">>
       \/ HandedOver(s) /\ replies[s] = <<"ID", "START_STREAM">>
  /\ at[s] = "waitForStart" =>
       \/ OnOffer(s) /\ replies[s] = <<>>
       \/ HandedOver(s) /\ replies[s] = <<"START_STREAM">>
  /\ at[s] = "streaming" => HandedOver(s) /\ replies[s] = <<>>
  /\ at[s] = "receive_found" =>
       \/ Asked(s, "handleRead", "FIND_STREAMER") /\ replies[s] = <<>>
       \/ Quiet(s, "handleRead") /\ replies[s] = <<"NACK">>
       \/ io.step = "found" /\ io.self = s /\ replies[s] = <<>>
       \/ Joined(s) /\ replies[s] = <<"ACK">>
       \/ sock[s] = "closed" /\ replies[s] = <<"ACK", "DISCONNECT">>
  /\ at[s] = "viewing" =>
       \/ Joined(s) /\ replies[s] = <<>>
       \/ sock[s] = "closed" /\ replies[s] = <<"DISCONNECT">>

Turns == \A s \in Session : Live(s) => Turn(s)

\* A foreign client is not followed.
Strangers ==
  \A s \in Session : program[s] = "foreign" => at[s] = "connect" /\ replies[s] = <<>>

Dialogue == Ownership /\ CTypes /\ Strangers /\ Turns
-----------------------------------------------------------------------------
(***************************************************************************)
(* What programs and server know of each other.                            *)
(***************************************************************************)

\* Reading and sending one answer.
LEMMA Letters ==
  ASSUME NEW a \in Reply, NEW b \in Reply
  PROVE  /\ Append(<<>>, a) = <<a>> /\ Append(<<a>>, b) = <<a, b>>
         /\ Head(<<a>>) = a /\ Tail(<<a>>) = <<>>
         /\ Head(<<a, b>>) = a /\ Tail(<<a, b>>) = <<b>>
         /\ <<a>> # <<>> /\ <<a, b>> # <<>>
<1>1. <<a>> \in Seq(Reply) /\ <<a, b>> \in Seq(Reply) /\ <<b>> \in Seq(Reply)
  OBVIOUS
<1>2. Append(<<>>, a) = <<a>>
  OBVIOUS
<1>3. Append(<<a>>, b) = <<a, b>>
  <2>1. /\ Append(<<a>>, b) \in Seq(Reply) /\ Len(Append(<<a>>, b)) = 2
        /\ Append(<<a>>, b)[1] = a /\ Append(<<a>>, b)[2] = b
    BY <1>1
  <2>2. Len(<<a, b>>) = 2 /\ <<a, b>>[1] = a /\ <<a, b>>[2] = b
    OBVIOUS
  <2>3. \A i \in 1..2 : i = 1 \/ i = 2
    OBVIOUS
  <2>4. \A i \in 1..Len(Append(<<a>>, b)) : Append(<<a>>, b)[i] = <<a, b>>[i]
    BY <2>1, <2>2, <2>3
  <2>5. QED
    BY <1>1, <2>1, <2>2, <2>4, SeqEqual
<1>4. Head(<<a>>) = a /\ Head(<<a, b>>) = a
  OBVIOUS
<1>5. Tail(<<a>>) = <<>>
  OBVIOUS
<1>6. Tail(<<a, b>>) = <<b>>
  OBVIOUS
<1>7. <<a>> # <<>> /\ <<a, b>> # <<>>
  OBVIOUS
<1>8. QED
  BY <1>2, <1>3, <1>4, <1>5, <1>6, <1>7

\* The answers that come one after the other.
LEMMA Letters2 ==
  /\ Tail(<<"ID">>) = <<>> /\ Tail(<<"ID", "START_STREAM">>) = <<"START_STREAM">>
  /\ Tail(<<"ACK">>) = <<>> /\ Tail(<<"ACK", "DISCONNECT">>) = <<"DISCONNECT">>
  /\ Append(<<"ID">>, "START_STREAM") = <<"ID", "START_STREAM">>
  /\ Append(<<>>, "START_STREAM") = <<"START_STREAM">>
  /\ Append(<<"ACK">>, "DISCONNECT") = <<"ACK", "DISCONNECT">>
  /\ Append(<<>>, "DISCONNECT") = <<"DISCONNECT">>
<1>1. "ID" \in Reply /\ "START_STREAM" \in Reply /\ "ACK" \in Reply /\ "DISCONNECT" \in Reply
  BY DEF Reply
<1>2. Tail(<<"ID">>) = <<>> /\ Tail(<<"ID", "START_STREAM">>) = <<"START_STREAM">>
  BY <1>1, Letters
<1>3. Tail(<<"ACK">>) = <<>> /\ Tail(<<"ACK", "DISCONNECT">>) = <<"DISCONNECT">>
  BY <1>1, Letters
<1>4. /\ Append(<<"ID">>, "START_STREAM") = <<"ID", "START_STREAM">>
      /\ Append(<<>>, "START_STREAM") = <<"START_STREAM">>
  BY <1>1, Letters
<1>5. /\ Append(<<"ACK">>, "DISCONNECT") = <<"ACK", "DISCONNECT">>
      /\ Append(<<>>, "DISCONNECT") = <<"DISCONNECT">>
  BY <1>1, Letters
<1>6. QED
  BY <1>2, <1>3, <1>4, <1>5

\* A connection in the backlog, or in the handshake, is one whose program has not
\* sent anything yet.
LEMMA NotLoggedIn ==
  ASSUME Ownership, CTypes, NEW s \in Session, Live(s), Turn(s),
         sock[s] = "backlog" \/ io = At("handshake", s, NoSession)
  PROVE  at[s] = "login"
<1> USE DEF Ownership
<1>1. reading[s] = "none" /\ sock[s] \notin {"none", "closed", "moved"}
  BY DEF OneReader, StreamOfRole, At
<1>2. ~Registered(s) /\ ~Claimed(s) /\ ~Bridged(s)
  BY <1>1 DEF StreamOfRole, At, Claimed
<1>3. io # At("registered", s, NoSession)
  BY <1>1 DEF StreamOfRole, At
<1>4. ~OnOffer(s) /\ ~HandedOver(s) /\ ~Joined(s) /\ ~(io.step = "found" /\ io.self = s)
  BY <1>1, <1>2 DEF OnOffer, HandedOver, Joined, Claimed
<1>5. QED
  BY <1>1, <1>3, <1>4 DEF Turn, Quiet, Asked, CTypes, Call, Live

\* What a session that reads may have received, and from which call.
LEMMA Requested ==
  ASSUME Ownership, CTypes, NEW s \in Session, Live(s), Turn(s), reading[s] # "none"
  PROVE  /\ peer[s] = "up"
         /\ \/ inbox[s] = NoMessage
            \/ /\ at[s] = "receiveACK" /\ reading[s] = "authenticateCallback"
               /\ inbox[s].type = "LOGIN" /\ replies[s] = <<>>
            \/ /\ at[s] = "receive_id" /\ reading[s] = "handleRead"
               /\ inbox[s].type = "REGISTER_STREAMER" /\ replies[s] = <<>>
            \/ /\ at[s] = "receive_found" /\ reading[s] = "handleRead"
               /\ inbox[s].type = "FIND_STREAMER" /\ replies[s] = <<>>
<1> USE DEF Ownership
<1>1. sock[s] = "open" /\ ~Registered(s) /\ ~Claimed(s) /\ ~Bridged(s)
  BY DEF OneReader
<1>2. io # At("registered", s, NoSession)
  BY DEF StreamOfRole, At
<1>3. ~OnOffer(s) /\ ~HandedOver(s) /\ ~Joined(s) /\ ~(io.step = "found" /\ io.self = s)
  BY <1>1 DEF OnOffer, HandedOver, Joined, Claimed
<1>4. QED
  BY <1>1, <1>2, <1>3 DEF Turn, Quiet, Asked, CTypes, Call, Live

\* A step that has nothing to do with s, or takes it off the registry, or closes
\* it, leaves the turn of s as it is.
LEMMA Bystander ==
  ASSUME Ownership, NEW s \in Session, Turn(s),
         at'[s] = at[s], replies'[s] = replies[s], reading'[s] = reading[s],
         inbox'[s] = inbox[s], peer'[s] = peer[s],
         sock[s] \in {"none", "closed"} => sock'[s] = sock[s],
         io' = io \/ (s \notin {io.self, io.other} /\ s \notin {io'.self, io'.other}),
         Registered(s)' => Registered(s),
         \/ ~Registered(s) \/ Registered(s)' \/ sock'[s] = "closed"
         \/ io.step = "registered" /\ io.self = s /\ io' = io,
         Bridged(s)' <=> Bridged(s)
  PROVE  Turn(s)'
<1>1. Aside(s) => Aside(s)'
  BY DEF Aside, Claimed
<1>2. OnOffer(s) => OnOffer(s)'
  BY DEF OnOffer
<1>3. HandedOver(s) => HandedOver(s)'
  BY DEF HandedOver
<1>4. Joined(s) => Joined(s)'
  BY DEF Joined
<1>5. /\ io = At("registered", s, NoSession) => io' = At("registered", s, NoSession)
      /\ io.step = "found" /\ io.self = s => io'.step = "found" /\ io'.self = s
  BY DEF At
<1>6. QED
  BY <1>1, <1>2, <1>3, <1>4, <1>5 DEF Turn, Quiet, Asked

-----------------------------------------------------------------------------
(***************************************************************************)
(* The programs' steps.                                                    *)
(***************************************************************************)

\* A step of one program is no step of another, nor of the server.
LEMMA ProgramFrame ==
  ASSUME TypeOK, CTypes, NEW u \in Session, ProgramStep(u) \/ Foreign(u) \/ CReset(u)
  PROVE  /\ UNCHANGED <<program, reading, io, senders_sessions, bridges>>
         /\ \A t \in Session \ {u} :
              /\ at'[t] = at[t] /\ replies'[t] = replies[t] /\ inbox'[t] = inbox[t]
              /\ peer'[t] = peer[t] /\ sock'[t] = sock[t]
<1> USE DEF TypeOK, CTypes, registryVars, clientVars
<1>1. ASSUME Exits(u)
      PROVE  /\ UNCHANGED <<program, reading, io, senders_sessions, bridges, inbox, sock>>
             /\ \A t \in Session \ {u} : at'[t] = at[t] /\ peer'[t] = peer[t]
  BY <1>1 DEF Exits
<1>2. ASSUME NEW from, NEW to, NEW msg, Requests(u, from, to, msg)
      PROVE  /\ UNCHANGED <<program, reading, io, senders_sessions, bridges, peer, sock,
                            replies>>
             /\ \A t \in Session \ {u} : at'[t] = at[t] /\ inbox'[t] = inbox[t]
  BY <1>2 DEF Requests, Goes, ClientSend
<1>3. CASE connect(u)
  BY <1>3 DEF connect, Goes, Connect
<1>4. CASE login(u) \/ requestStreamerID(u) \/ findOtherClient(u)
  BY <1>2, <1>4 DEF login, requestStreamerID, findOtherClient
<1>5. CASE receiveACK(u) \/ receiveFound(u) \/ receiveID(u)
  BY <1>1, <1>5 DEF receiveACK, receiveFound, receiveID, Reads, Goes, vars
<1>6. CASE waitForStartStreamMessage(u)
  BY <1>6 DEF waitForStartStreamMessage, Goes, vars
<1>7. CASE ConnectionBroken(u) \/ Killed(u)
  BY <1>1, <1>7 DEF ConnectionBroken, Killed
<1>8. CASE Foreign(u)
  BY <1>8 DEF Foreign, Connect, ClientLeave, ClientSend
<1>9. CASE CReset(u)
  BY <1>9 DEF CReset, ConnectionReset, SendsNothing
<1>10. QED
  BY <1>3, <1>4, <1>5, <1>6, <1>7, <1>8, <1>9 DEF ProgramStep, ProgramReads

\* A program asks when the server listens, and takes what it reads for what it is.
LEMMA ProgramTurn ==
  ASSUME Ownership, CTypes, NEW s \in Session, ProgramStep(s), Live(s), Turn(s), Live(s)'
  PROVE  Turn(s)'
<1> USE DEF CTypes, Live, Goes
<1>0. ~Exits(s)
  BY DEF Exits
<1>1. ASSUME connect(s) PROVE Turn(s)'
  <2>1. /\ at[s] = "connect" /\ at'[s] = "login" /\ peer'[s] = "up"
        /\ replies'[s] = <<>> /\ inbox'[s] = NoMessage /\ sock[s] = "none"
        /\ UNCHANGED <<reading, io, senders_sessions, bridges>>
    BY <1>1 DEF connect, Connect, Turn, registryVars, Ownership, TypeOK
  <2>2. Aside(s) /\ reading[s] # "handleRead"
    BY <2>1 DEF Ownership, OneReader, StreamOfRole, Aside
  <2>3. Aside(s)'
    BY <2>1, <2>2 DEF Aside, Registered, Claimed, Bridged
  <2>4. QED
    BY <2>1, <2>2, <2>3 DEF Turn
<1>2. ASSUME login(s) PROVE Turn(s)'
  <2>1. /\ at[s] = "login" /\ at'[s] = "receiveACK" /\ peer'[s] = peer[s]
        /\ replies'[s] = replies[s] /\ reading' = reading /\ reading[s] # "none"
        /\ inbox'[s].type = "LOGIN"
    BY <1>2 DEF login, Requests, ClientSend, Ownership, TypeOK
  <2>2. reading[s] = "authenticateCallback"
    BY <2>1 DEF Turn, Ownership, TypeOK
  <2>3. QED
    BY <2>1, <2>2 DEF Turn, Asked
<1>3. ASSUME requestStreamerID(s) PROVE Turn(s)'
  <2>1. /\ at[s] = "requestStreamerID" /\ at'[s] = "receive_id" /\ peer'[s] = peer[s]
        /\ replies'[s] = replies[s] /\ reading' = reading
        /\ inbox'[s].type = "REGISTER_STREAMER"
    BY <1>3 DEF requestStreamerID, Requests, ClientSend, Ownership, TypeOK
  <2>2. QED
    BY <2>1 DEF Turn, Asked, Quiet
<1>4. ASSUME findOtherClient(s) PROVE Turn(s)'
  <2>1. /\ at[s] = "findOtherClient" /\ at'[s] = "receive_found" /\ peer'[s] = peer[s]
        /\ replies'[s] = replies[s] /\ reading' = reading
        /\ inbox'[s].type = "FIND_STREAMER"
    BY <1>4 DEF findOtherClient, Requests, ClientSend, Ownership, TypeOK
  <2>2. QED
    BY <2>1 DEF Turn, Asked, Quiet
<1>5. ASSUME NEW from, NEW accepted, NEW to, Reads(s, from, accepted, to)
      PROVE  /\ at[s] = from /\ at'[s] = to /\ UNCHANGED vars
             /\ Head(replies[s]) \in accepted
             /\ replies[s] # <<>> /\ replies'[s] = Tail(replies[s])
  BY <1>0, <1>5 DEF Reads
<1>6. ASSUME UNCHANGED vars
      PROVE  /\ peer'[s] = peer[s] /\ sock'[s] = sock[s]
             /\ Quiet(s, "handleRead") => Quiet(s, "handleRead")'
             /\ OnOffer(s) => OnOffer(s)'
             /\ HandedOver(s) => HandedOver(s)'
             /\ Joined(s) => Joined(s)'
  BY <1>6 DEF vars, Quiet, OnOffer, HandedOver, Joined, Registered, Bridged, registryVars
<1> HIDE DEF Goes
<1>7. ASSUME receiveACK(s) PROVE Turn(s)'
  <2>1. /\ at[s] = "receiveACK" /\ at'[s] \in {"requestStreamerID", "findOtherClient"}
        /\ UNCHANGED vars /\ Head(replies[s]) = "ACK"
        /\ replies[s] # <<>> /\ replies'[s] = Tail(replies[s])
    BY <1>5, <1>7 DEF receiveACK
  <2>2. replies[s] = <<"ACK">> /\ Quiet(s, "handleRead")
    BY <2>1, Letters DEF Turn, Reply
  <2>3. replies'[s] = <<>>
    BY <2>1, <2>2, Letters DEF Reply
  <2>4. QED
    BY <1>6, <2>1, <2>2, <2>3 DEF Turn
<1>8. ASSUME receiveID(s) PROVE Turn(s)'
  <2>1. /\ at[s] = "receive_id" /\ at'[s] = "waitForStart" /\ UNCHANGED vars
        /\ replies[s] # <<>> /\ replies'[s] = Tail(replies[s])
    BY <1>5, <1>8 DEF receiveID
  <2>2. \/ replies[s] = <<"ID">> /\ OnOffer(s)
        \/ replies[s] = <<"ID", "START_STREAM">> /\ HandedOver(s)
    BY <2>1 DEF Turn
  <2>3. \/ replies'[s] = <<>> /\ OnOffer(s)
        \/ replies'[s] = <<"START_STREAM">> /\ HandedOver(s)
    BY <2>1, <2>2, Letters2, Zenon
  <2>4. QED
    BY <1>6, <2>1, <2>3 DEF Turn
<1>9. ASSUME receiveFound(s) PROVE Turn(s)'
  <2>1. /\ at[s] = "receive_found" /\ at'[s] = "viewing" /\ UNCHANGED vars
        /\ Head(replies[s]) = "ACK"
        /\ replies[s] # <<>> /\ replies'[s] = Tail(replies[s])
    BY <1>5, <1>9 DEF receiveFound
  <2>2. \/ replies[s] = <<"ACK">> /\ Joined(s)
        \/ replies[s] = <<"ACK", "DISCONNECT">> /\ sock[s] = "closed"
    BY <2>1, Letters DEF Turn, Reply
  <2>3. \/ replies'[s] = <<>> /\ Joined(s)
        \/ replies'[s] = <<"DISCONNECT">> /\ sock[s] = "closed"
    BY <2>1, <2>2, Letters2, Zenon
  <2>4. QED
    BY <1>6, <2>1, <2>3 DEF Turn
<1>10. ASSUME waitForStartStreamMessage(s) PROVE Turn(s)'
  <2>1. /\ at[s] = "waitForStart" /\ UNCHANGED vars
        /\ replies[s] # <<>> /\ replies'[s] = Tail(replies[s])
        /\ at'[s] = IF Head(replies[s]) = "START_STREAM" THEN "streaming" ELSE "waitForStart"
    BY <1>10 DEF waitForStartStreamMessage, Goes
  <2>2. replies[s] = <<"START_STREAM">> /\ HandedOver(s)
    BY <2>1 DEF Turn
  <2>3. replies'[s] = <<>> /\ at'[s] = "streaming"
    BY <2>1, <2>2, Letters DEF Reply
  <2>4. QED
    BY <1>6, <2>1, <2>2, <2>3 DEF Turn
<1>11. QED
  BY <1>0, <1>1, <1>2, <1>3, <1>4, <1>7, <1>8, <1>9, <1>10
     DEF ProgramStep, ProgramReads, ConnectionBroken, Killed
-----------------------------------------------------------------------------
(***************************************************************************)
(* The server's steps.                                                     *)
(***************************************************************************)

\* An answer reaches a program that is there, and nobody else.
LEMMA SendsFacts ==
  ASSUME CTypes, NEW u \in Session, NEW answer, Sends(u, answer)
  PROVE  /\ UNCHANGED <<program, at>>
         /\ \A t \in Session \ {u} : replies'[t] = replies[t]
         /\ Live(u) /\ peer[u] = "up" => replies'[u] = Append(replies[u], answer)
BY DEF Sends, CTypes, Live

\* A handler of one session is nothing to the others, but that Release may close
\* them.
LEMMA HandlerBystander ==
  ASSUME Ownership, NEW s \in Session, Turn(s),
         at'[s] = at[s], replies'[s] = replies[s], reading'[s] = reading[s],
         inbox'[s] = inbox[s], peer'[s] = peer[s],
         s \notin {io.self, io.other}, s \notin {io'.self, io'.other},
         UNCHANGED <<senders_sessions, bridges>>,
         sock'[s] \in {sock[s], "closed"}, sock[s] = "none" => sock'[s] = "none"
  PROVE  Turn(s)'
<1>1. Registered(s)' = Registered(s) /\ Bridged(s)' = Bridged(s)
  BY DEF Registered, Bridged
<1>2. QED
  BY <1>1, Bystander

\* Accepting a connection and its handshake: nothing is said.
LEMMA AcceptTurn ==
  ASSUME Ownership, CTypes, NEW u \in Session, CAccept(u) \/ CHandshake(u),
         NEW s \in Session, Live(s), Turn(s)
  PROVE  Turn(s)'
<1> USE DEF Ownership, TypeOK, SendsNothing, registryVars, clientVars, Live
<1>0. NoSession # s
  BY SessionAssumption
<1>1. /\ UNCHANGED <<program, at, replies, inbox, peer, senders_sessions, bridges>>
      /\ sock[u] = "backlog" \/ io = At("handshake", u, NoSession)
      /\ io = Idle \/ io = At("handshake", u, NoSession)
      /\ io' \in {io, Idle, At("handshake", u, NoSession)}
      /\ \A t \in Session \ {u} : reading'[t] = reading[t] /\ sock'[t] \in {sock[t], "closed"}
      /\ \A t \in Session : sock[t] = "none" => sock'[t] = "none"
      /\ reading'[u] \in {reading[u], "authenticateCallback"}
  <2>1. CASE AcceptConnection(u) /\ SendsNothing
    BY <2>1 DEF AcceptConnection, IoIdle
  <2>2. CASE AcceptFails(u) /\ SendsNothing
    BY <2>2 DEF AcceptFails, IoIdle
  <2>3. CASE HandshakeOk(u) /\ SendsNothing
    BY <2>3 DEF HandshakeOk
  <2>4. CASE HandshakeFails(u) /\ SendsNothing
    BY <2>4, ReleaseFacts DEF HandshakeFails
  <2>5. QED
    BY <2>1, <2>2, <2>3, <2>4 DEF CAccept, CHandshake, Accept, Handshake
<1>2. CASE s # u
  <2>1. s \notin {io.self, io.other} /\ s \notin {io'.self, io'.other}
    BY <1>0, <1>1, <1>2 DEF Idle, At
  <2>2. QED
    BY <1>1, <1>2, <2>1, HandlerBystander
<1>3. CASE s = u
  <2>1. at[s] = "login"
    BY <1>1, <1>3, NotLoggedIn
  <2>2. Registered(s)' = Registered(s) /\ Bridged(s)' = Bridged(s)
    BY <1>1 DEF Registered, Bridged
  <2>3. Aside(s)'
    BY <1>1, <2>1, <2>2 DEF Turn, Aside, Claimed, Idle, At
  <2>4. reading'[s] # "handleRead"
    BY <1>1, <1>3, <2>1 DEF Turn
  <2>5. QED
    BY <1>1, <2>1, <2>3, <2>4 DEF Turn
<1>4. QED
  BY <1>2, <1>3

\* send ID: the streamer that has just been registered is the one that waits for it.
LEMMA SendIdTurn ==
  ASSUME Ownership, CTypes, NEW u \in Session, CSendId(u),
         NEW s \in Session, Live(s), Turn(s)
  PROVE  Turn(s)'
<1> USE DEF Ownership, TypeOK, registryVars, clientVars
<1>0. NoSession # s
  BY SessionAssumption
<1>1. /\ io = At("registered", u, NoSession) /\ io' = Idle
      /\ UNCHANGED <<peer, inbox, reading, senders_sessions, bridges>>
      /\ Release(sock)
      /\ Sends(u, "ID")
  BY DEF CSendId, SendId
<1>2. CASE s # u
  <2>1. s \notin {io.self, io.other} /\ s \notin {io'.self, io'.other}
    BY <1>0, <1>1, <1>2 DEF Idle, At
  <2>2. sock'[s] \in {sock[s], "closed"} /\ (sock[s] = "none" => sock'[s] = "none")
    BY <1>1, ReleaseFacts
  <2>3. at'[s] = at[s] /\ replies'[s] = replies[s]
    BY <1>1, <1>2, SendsFacts
  <2>4. QED
    BY <1>1, <2>1, <2>2, <2>3, HandlerBystander
<1>3. CASE s = u
  <2>1. sock[s] = "open" /\ reading[s] = "none"
    BY <1>1, <1>3 DEF StreamOfRole, At
  <2>2. ~Claimed(s) /\ ~Bridged(s)
    BY <1>1, <2>1 DEF StreamOfRole, Claimed, At
  <2>3. ~OnOffer(s) /\ ~HandedOver(s) /\ ~Joined(s) /\ ~(io.step = "found" /\ io.self = s)
    BY <1>1, <1>3, <2>1, <2>2 DEF OnOffer, HandedOver, Joined, Claimed, At
  <2>4. at[s] = "receive_id" /\ replies[s] = <<>> /\ peer[s] = "up"
    BY <1>1, <1>3, <2>1, <2>3 DEF Turn, Aside, Quiet, Asked, At, CTypes, Call, Live
  <2>5. at'[s] = at[s] /\ replies'[s] = <<"ID">>
    BY <1>1, <1>3, <2>4, SendsFacts, Letters DEF Reply
  <2>6. Registered(s)' \/ sock'[s] = "closed"
    BY <1>0, <1>1, <2>1 DEF Release, Referenced, Idle
  <2>7. OnOffer(s)'
    BY <1>1, <2>6 DEF OnOffer, Idle
  <2>8. QED
    BY <1>1, <2>4, <2>5, <2>7 DEF Turn
<1>4. QED
  BY <1>2, <1>3

\* A message is handled at once, with an answer to the session it came from.
LEMMA AnsweredTurn ==
  ASSUME Ownership, CTypes, NEW u \in Session,
         \/ LoginAccepted(u) /\ Sends(u, "ACK")
         \/ (LoginRejected(u) \/ FindMisses(u)) /\ Sends(u, "NACK")
         \/ (RejectHeader(u) \/ LoginRefused(u)) /\ Sends(u, "DISCONNECT")
         \/ HandleUnexpected(u) /\ Sends(u, "RESPONSE")
         \/ ReadFails(u) /\ SendsNothing,
         NEW s \in Session, Live(s), Turn(s)
  PROVE  Turn(s)'
<1> USE DEF Ownership, TypeOK, registryVars, clientVars
<1>0. NoSession # s
  BY SessionAssumption
<1>1. /\ io = Idle /\ io' = Idle /\ reading[u] # "none"
      /\ UNCHANGED <<peer, senders_sessions, bridges>>
      /\ \A t \in Session \ {u} : reading'[t] = reading[t] /\ inbox'[t] = inbox[t]
      /\ sock' = sock \/ Release(sock) \/ Release(Disconnect(u))
  BY DEF LoginAccepted, LoginRejected, FindMisses, RejectHeader, LoginRefused,
         HandleUnexpected, ReadFails, HandlerThrows, Received, IoIdle
<1>2. CASE s # u
  <2>1. s \notin {io.self, io.other} /\ s \notin {io'.self, io'.other}
    BY <1>0, <1>1 DEF Idle
  <2>2. sock'[s] \in {sock[s], "closed"} /\ (sock[s] = "none" => sock'[s] = "none")
    <3>1. Disconnect(u)[s] = sock[s]
      BY <1>2 DEF Disconnect
    <3>2. ASSUME Release(Disconnect(u))
          PROVE  sock'[s] \in {sock[s], "closed"} /\ (sock[s] = "none" => sock'[s] = "none")
      BY <3>1, <3>2, ReleaseFacts
    <3>3. ASSUME Release(sock)
          PROVE  sock'[s] \in {sock[s], "closed"} /\ (sock[s] = "none" => sock'[s] = "none")
      BY <3>3, ReleaseFacts
    <3>4. QED
      BY <1>1, <3>2, <3>3
  <2>3. at'[s] = at[s] /\ replies'[s] = replies[s]
    BY <1>2, SendsFacts DEF SendsNothing
  <2>4. QED
    BY <1>1, <1>2, <2>1, <2>2, <2>3, HandlerBystander
<1>3. CASE s = u
  <2>1. peer[s] = "up" /\ CanWrite(s) /\ sock[s] = "open"
    BY <1>1, <1>3, Requested DEF CanWrite, OneReader
  <2>2. \/ inbox[s] = NoMessage
        \/ /\ at[s] = "receiveACK" /\ reading[s] = "authenticateCallback"
           /\ inbox[s].type = "LOGIN" /\ replies[s] = <<>>
        \/ /\ at[s] = "receive_id" /\ reading[s] = "handleRead"
           /\ inbox[s].type = "REGISTER_STREAMER" /\ replies[s] = <<>>
        \/ /\ at[s] = "receive_found" /\ reading[s] = "handleRead"
           /\ inbox[s].type = "FIND_STREAMER" /\ replies[s] = <<>>
    BY <1>1, <1>3, Requested
  <2>3. NoMessage.type = "NONE"
    BY DEF NoMessage
  <2>4. ~Registered(s)'
    BY <1>1, <1>3 DEF OneReader, Registered
  <2>5. ASSUME reading'[s] = "none", Release(sock) \/ Release(Disconnect(s))
        PROVE  sock'[s] = "closed"
    BY <1>0, <1>1, <2>1, <2>4, <2>5 DEF Release, Referenced, Idle, Disconnect
  <2>6. CASE LoginAccepted(s) /\ Sends(s, "ACK")
    <3>1. at[s] = "receiveACK" /\ replies[s] = <<>>
      BY <2>2, <2>3, <2>6 DEF LoginAccepted, Received
    <3>2. reading'[s] = "handleRead" /\ inbox'[s] = NoMessage
      BY <2>1, <2>6 DEF LoginAccepted, Received
    <3>3. at'[s] = at[s] /\ replies'[s] = <<"ACK">>
      BY <2>1, <2>6, <3>1, SendsFacts, Letters DEF Reply
    <3>4. QED
      BY <1>1, <2>1, <3>1, <3>2, <3>3 DEF Turn, Quiet
  <2>7. CASE LoginRejected(s) /\ Sends(s, "NACK")
    <3>1. at[s] = "receiveACK" /\ replies[s] = <<>>
      BY <2>2, <2>3, <2>7 DEF LoginRejected, Received
    <3>2. sock'[s] = "closed"
      BY <2>5, <2>7 DEF LoginRejected
    <3>3. at'[s] = at[s] /\ replies'[s] = <<"NACK">>
      BY <2>1, <2>7, <3>1, SendsFacts, Letters DEF Reply
    <3>4. QED
      BY <1>1, <2>1, <3>1, <3>2, <3>3 DEF Turn
  <2>8. CASE FindMisses(s) /\ Sends(s, "NACK")
    <3>1. at[s] = "receive_found" /\ replies[s] = <<>> /\ reading[s] = "handleRead"
      BY <2>2, <2>3, <2>8 DEF FindMisses, Received
    <3>2. reading'[s] = reading[s] /\ inbox'[s] = NoMessage
      BY <2>1, <2>8 DEF FindMisses, Received
    <3>3. at'[s] = at[s] /\ replies'[s] = <<"NACK">>
      BY <2>1, <2>8, <3>1, SendsFacts, Letters DEF Reply
    <3>4. QED
      BY <1>1, <2>1, <3>1, <3>2, <3>3 DEF Turn, Quiet
  <2>9. CASE LoginRefused(s) /\ Sends(s, "DISCONNECT")
    <3>1. at[s] = "receiveACK" /\ replies[s] = <<>>
      BY <2>2, <2>3, <2>9 DEF LoginRefused, Received
    <3>2. sock'[s] = "closed"
      BY <2>5, <2>9 DEF LoginRefused, HandlerThrows
    <3>3. at'[s] = at[s] /\ replies'[s] = <<"DISCONNECT">>
      BY <2>1, <2>9, <3>1, SendsFacts, Letters DEF Reply
    <3>4. QED
      BY <1>1, <2>1, <3>1, <3>2, <3>3 DEF Turn
  <2>10. ~RejectHeader(s) /\ ~HandleUnexpected(s) /\ ~ReadFails(s)
    BY <2>1, <2>2, <2>3 DEF RejectHeader, HandleUnexpected, ReadFails, Received
  <2>11. QED
    BY <1>3, <2>6, <2>7, <2>8, <2>9, <2>10
<1>4. QED
  BY <1>2, <1>3

\* REGISTER_STREAMER: whoever was on offer under the code is closed.
LEMMA RegisterTurn ==
  ASSUME Ownership, CTypes, NEW u \in Session, HandleRegister(u), SendsNothing,
         NEW s \in Session, Live(s), Turn(s)
  PROVE  Turn(s)'
<1> USE DEF Ownership, TypeOK, registryVars, clientVars
<1>0. NoSession # s
  BY SessionAssumption
<1>1. /\ io = Idle /\ io' = At("registered", u, NoSession)
      /\ reading[u] = "handleRead" /\ inbox[u].type = "REGISTER_STREAMER"
      /\ reading' = [reading EXCEPT ![u] = "none"]
      /\ senders_sessions' = [senders_sessions EXCEPT ![SessionId] = u]
      /\ \A t \in Session \ {u} : inbox'[t] = inbox[t]
      /\ UNCHANGED <<peer, bridges, at, replies>>
      /\ Release(sock)
  BY DEF HandleRegister, Received, IoIdle, SendsNothing
<1>2. CASE s # u
  <2>1. s \notin {io.self, io.other} /\ s \notin {io'.self, io'.other}
    BY <1>0, <1>1, <1>2 DEF Idle, At
  <2>2. sock'[s] \in {sock[s], "closed"}
    BY <1>1, ReleaseFacts
  <2>3. Registered(s)' => Registered(s)
    BY <1>1, <1>2 DEF Registered
  <2>4. ASSUME Registered(s), ~Registered(s)' PROVE sock'[s] = "closed"
    <3>1. sock[s] = "open" /\ reading'[s] = "none"
      BY <1>1, <1>2, <2>4 DEF StreamOfRole, OneReader
    <3>2. QED
      BY <1>1, <2>1, <2>4, <3>1 DEF Release, Referenced
  <2>5. sock[s] \in {"none", "closed"} => sock'[s] = sock[s]
    BY <1>1, ReleaseFacts
  <2>6. Bridged(s)' <=> Bridged(s)
    BY <1>1 DEF Bridged
  <2>7. QED
    BY <1>1, <1>2, <2>1, <2>3, <2>4, <2>5, <2>6, Bystander
<1>3. CASE s = u
  <2>1. at[s] = "receive_id" /\ replies[s] = <<>> /\ peer[s] = "up"
    BY <1>1, <1>3, Requested DEF NoMessage
  <2>2. QED
    BY <1>1, <1>3, <2>1 DEF Turn
<1>4. QED
  BY <1>2, <1>3

\* FIND_STREAMER with a streamer on offer: it and the viewer are in a claim.
LEMMA FindTurn ==
  ASSUME Ownership, CTypes, NEW u \in Session, FindStreamer(u), SendsNothing,
         NEW s \in Session, Live(s), Turn(s)
  PROVE  Turn(s)'
<1> USE DEF Ownership, TypeOK, registryVars, clientVars
<1> DEFINE code == inbox[u].content
           found == senders_sessions[code]
<1>0. NoSession # s
  BY SessionAssumption
<1>1. /\ io = Idle /\ io' = At("found", u, found)
      /\ reading[u] = "handleRead" /\ inbox[u].type = "FIND_STREAMER"
      /\ reading' = [reading EXCEPT ![u] = "none"]
      /\ senders_sessions' = [senders_sessions EXCEPT ![code] = NoSession]
      /\ \A t \in Session \ {u} : inbox'[t] = inbox[t]
      /\ UNCHANGED <<peer, bridges, at, replies, sock>>
      /\ found # NoSession
  BY DEF FindStreamer, FindHits, Received, IoIdle, SendsNothing
<1>2. code \in Code /\ found \in Session
  <2>1. inbox[u] \in Message
    BY <1>1 DEF NoMessage
  <2>2. code \in Code
    BY <1>1, <2>1 DEF Message
  <2>3. QED
    BY <1>1, <2>2
<1>3. Bridged(s)' <=> Bridged(s)
  BY <1>1 DEF Bridged
<1>4. CASE s = u
  <2>1. at[s] = "receive_found" /\ replies[s] = <<>> /\ peer[s] = "up"
    BY <1>1, <1>4, Requested DEF NoMessage
  <2>2. QED
    BY <1>1, <1>4, <2>1 DEF Turn, At
<1>5. CASE s # u /\ s = found
  <2>1. Registered(s) /\ sock[s] = "open" /\ reading[s] = "none" /\ ~Bridged(s)
    BY <1>2, <1>5 DEF Registered, StreamOfRole, OneReader
  <2>2. ~Aside(s) /\ ~HandedOver(s) /\ ~Joined(s)
    BY <1>1, <2>1 DEF Aside, HandedOver, Joined, Idle
  <2>3. OnOffer(s)'
    BY <1>1, <1>5 DEF OnOffer, At
  <2>4. \/ at[s] = "receive_id" /\ replies[s] = <<"ID">>
        \/ at[s] = "waitForStart" /\ replies[s] = <<>>
    BY <1>1, <2>1, <2>2 DEF Turn, Quiet, Asked, CTypes, Call, Live, Idle, At
  <2>5. peer[s] = "up"
    BY <2>4 DEF Turn
  <2>6. QED
    BY <1>1, <2>3, <2>4, <2>5 DEF Turn
<1>6. CASE s # u /\ s # found
  <2>1. s \notin {io.self, io.other} /\ s \notin {io'.self, io'.other}
    BY <1>0, <1>1, <1>6 DEF Idle, At
  <2>2. Registered(s)' <=> Registered(s)
    BY <1>0, <1>1, <1>2, <1>6 DEF Registered
  <2>3. QED
    BY <1>1, <1>3, <1>6, <2>1, <2>2, Bystander
<1>7. QED
  BY <1>4, <1>5, <1>6

\* The steps of a claim concern its viewer r and its streamer t, and no other.
LEMMA ClaimBystander ==
  ASSUME Ownership, CTypes, NEW r \in Session, NEW t \in Session, CcreateBridge(r, t),
         NEW s \in Session \ {r, t}, Turn(s)
  PROVE  Turn(s)'
<1> USE DEF Ownership, TypeOK, registryVars, clientVars
<1>0. NoSession # s
  BY SessionAssumption
<1>1. /\ io.self = r /\ io.other = t
      /\ io' = Idle \/ (io'.self = r /\ io'.other = t)
      /\ UNCHANGED <<peer, inbox, senders_sessions, at>>
      /\ reading'[s] = reading[s] /\ replies'[s] = replies[s]
      /\ \/ sock'[s] = sock[s]
         \/ Release(Disconnect(r))
      /\ bridges' \in {bridges, bridges \cup {<<t, r>>}}
  <2>1. CASE SendFindAck(r, t) /\ Sends(r, "ACK")
    BY <2>1, SendsFacts DEF SendFindAck, HandlerThrows, At
  <2>2. CASE /\ SendStartStream(r, t)
             /\ IF CanWrite(t) THEN Sends(t, "START_STREAM") ELSE Sends(r, "DISCONNECT")
    BY <2>2, SendsFacts DEF SendStartStream, HandlerThrows, At
  <2>3. CASE OpenBridge(r, t) /\ SendsNothing
    BY <2>3 DEF OpenBridge, SendsNothing, At
  <2>4. QED
    BY <2>1, <2>2, <2>3 DEF CcreateBridge
<1>2. s \notin {io.self, io.other} /\ s \notin {io'.self, io'.other}
  BY <1>0, <1>1 DEF Idle
<1>3. sock[s] \in {"none", "closed"} => sock'[s] = sock[s]
  <2>1. Disconnect(r)[s] = sock[s]
    BY DEF Disconnect
  <2>2. QED
    BY <1>1, <2>1, ReleaseFacts
<1>4. Registered(s)' <=> Registered(s)
  BY <1>1 DEF Registered
<1>5. Bridged(s)' <=> Bridged(s)
  BY <1>1 DEF Bridged
<1>6. QED
  BY <1>1, <1>2, <1>3, <1>4, <1>5, Bystander

\* Where the programs of a claim are: the streamer waits for START_STREAM, with or
\* without its ID read, and the viewer has its ACK or waits for it.
LEMMA InClaim ==
  ASSUME Ownership, CTypes, NEW s \in Session, Live(s), Turn(s), Claimed(s)
  PROVE  /\ peer[s] = "up"
         /\ io.other = s /\ io.self # s /\ io.step \in {"found", "acked"} =>
              \/ at[s] = "receive_id" /\ replies[s] = <<"ID">>
              \/ at[s] = "waitForStart" /\ replies[s] = <<>>
         /\ io.other = s /\ io.self # s /\ io.step = "started" =>
              \/ at[s] = "receive_id" /\ replies[s] = <<"ID", "START_STREAM">>
              \/ at[s] = "waitForStart" /\ replies[s] = <<"START_STREAM">>
              \/ at[s] = "streaming" /\ replies[s] = <<>>
         /\ io.self = s /\ io.other # s /\ io.step = "found" =>
              at[s] = "receive_found" /\ replies[s] = <<>>
         /\ io.self = s /\ io.other # s /\ io.step \in {"acked", "started"} =>
              \/ at[s] = "receive_found" /\ replies[s] = <<"ACK">>
              \/ at[s] = "viewing" /\ replies[s] = <<>>
<1> USE DEF Ownership
<1>1. sock[s] = "open" /\ reading[s] = "none" /\ ~Registered(s) /\ ~Bridged(s)
  BY DEF OneReader, StreamOfRole, BridgesDisjoint
<1>2. ~Aside(s) /\ io # At("registered", s, NoSession)
  BY DEF Aside, Claimed, At
<1>3. QED
  BY <1>1, <1>2
     DEF Turn, Quiet, Asked, OnOffer, HandedOver, Joined, Claimed, CTypes, Call, Live

\* Each step of a claim tells one of its two, and a failure closes whoever is left.
LEMMA ClaimTurn ==
  ASSUME Ownership, CTypes, NEW r \in Session, NEW t \in Session, CcreateBridge(r, t),
         NEW s \in Session, Live(s), Turn(s)
  PROVE  Turn(s)'
<1> USE DEF Ownership, TypeOK, registryVars, clientVars
<1>0. NoSession # s
  BY SessionAssumption
<1>1. CASE s \notin {r, t}
  BY <1>1, ClaimBystander
<1>2. CASE s \in {r, t}
  <2>1. /\ io.self = r /\ io.other = t /\ io.step \in {"found", "acked", "started"}
        /\ peer' = peer /\ r # t
    BY DEF CcreateBridge, SendFindAck, SendStartStream, OpenBridge, At, BridgesDisjoint
  <2>2. /\ Claimed(s) /\ sock[s] = "open" /\ reading[s] = "none" /\ ~Registered(s)
        /\ peer[s] = "up" /\ CanWrite(s)
    BY <1>2, <2>1, InClaim DEF Claimed, StreamOfRole, OneReader, BridgesDisjoint, CanWrite
  <2>3. ASSUME HandlerThrows(r), UNCHANGED senders_sessions
        PROVE  sock'[s] = "closed"
    <3>1. ~Registered(s)'
      BY <2>2, <2>3 DEF Registered
    <3>2. reading'[s] = "none" /\ io' = Idle
      BY <2>2, <2>3 DEF HandlerThrows
    <3>3. ~Referenced(s)'
      BY <1>0, <3>1, <3>2 DEF Referenced, Idle
    <3>4. Disconnect(r)[s] \in {"open", "closed"}
      BY <2>2 DEF Disconnect
    <3>5. QED
      BY <2>3, <3>3, <3>4 DEF HandlerThrows, Release
  <2>4. CASE SendFindAck(r, t) /\ Sends(r, "ACK")
    <3>1. io.step = "found" /\ UNCHANGED <<at, senders_sessions>>
      BY <2>4, SendsFacts DEF SendFindAck, At
    <3>2. CASE s = t
      <4>1. OnOffer(s)'
        BY <2>1, <2>3, <2>4, <3>1, <3>2 DEF SendFindAck, OnOffer, At
      <4>2. replies'[s] = replies[s]
        BY <2>1, <2>4, <3>2, SendsFacts
      <4>3. QED
        BY <2>1, <2>2, <3>1, <3>2, <4>1, <4>2, InClaim DEF Turn
    <3>3. CASE s = r
      <4>1. at[s] = "receive_found" /\ replies[s] = <<>>
        BY <2>1, <2>2, <3>1, <3>3, InClaim
      <4>2. replies'[s] = <<"ACK">>
        BY <2>2, <2>4, <3>3, <4>1, SendsFacts, Letters DEF Reply
      <4>3. Joined(s)'
        BY <2>2, <2>4, <3>3 DEF SendFindAck, Joined, At
      <4>4. QED
        BY <2>1, <2>2, <3>1, <4>1, <4>2, <4>3 DEF Turn
    <3>4. QED
      BY <1>2, <3>2, <3>3
  <2>5. CASE /\ SendStartStream(r, t)
             /\ IF CanWrite(t) THEN Sends(t, "START_STREAM") ELSE Sends(r, "DISCONNECT")
    <3>1. io.step = "acked" /\ UNCHANGED <<at, senders_sessions>>
      BY <2>5, SendsFacts DEF SendStartStream, At
    <3>2. CASE s = t
      <4>1. Sends(s, "START_STREAM") /\ io' = At("started", r, s)
        BY <2>2, <2>5, <3>2 DEF SendStartStream
      <4>2. HandedOver(s)'
        BY <4>1 DEF HandedOver, At
      <4>3. \/ at[s] = "receive_id" /\ replies'[s] = <<"ID", "START_STREAM">>
            \/ at[s] = "waitForStart" /\ replies'[s] = <<"START_STREAM">>
        <5>1. replies'[s] = Append(replies[s], "START_STREAM")
          BY <2>2, <4>1, SendsFacts
        <5>2. \/ at[s] = "receive_id" /\ replies[s] = <<"ID">>
              \/ at[s] = "waitForStart" /\ replies[s] = <<>>
          BY <2>1, <2>2, <3>1, <3>2, InClaim
        <5>3. QED
          BY <5>1, <5>2, Letters2, Zenon
      <4>4. QED
        BY <2>1, <2>2, <3>1, <4>2, <4>3 DEF Turn
    <3>3. CASE s = r /\ CanWrite(t)
      <4>1. Joined(s)'
        BY <2>5, <3>3 DEF SendStartStream, Joined, At
      <4>2. replies'[s] = replies[s]
        BY <2>1, <2>5, <3>3, SendsFacts
      <4>3. QED
        BY <2>1, <2>2, <3>1, <3>3, <4>1, <4>2, InClaim DEF Turn
    <3>4. CASE s = r /\ ~CanWrite(t)
      <4>1. Sends(s, "DISCONNECT") /\ sock'[s] = "closed"
        BY <2>3, <2>5, <3>1, <3>4 DEF SendStartStream
      <4>2. \/ at[s] = "receive_found" /\ replies'[s] = <<"ACK", "DISCONNECT">>
            \/ at[s] = "viewing" /\ replies'[s] = <<"DISCONNECT">>
        <5>1. replies'[s] = Append(replies[s], "DISCONNECT")
          BY <2>2, <4>1, SendsFacts
        <5>2. \/ at[s] = "receive_found" /\ replies[s] = <<"ACK">>
              \/ at[s] = "viewing" /\ replies[s] = <<>>
          BY <2>1, <2>2, <3>1, <3>4, InClaim
        <5>3. QED
          BY <5>1, <5>2, Letters2, Zenon
      <4>3. QED
        BY <2>1, <2>2, <3>1, <4>1, <4>2 DEF Turn
    <3>5. QED
      BY <1>2, <3>2, <3>3, <3>4
  <2>6. CASE OpenBridge(r, t) /\ SendsNothing
    <3>1. io.step = "started" /\ UNCHANGED <<at, replies>>
      BY <2>6 DEF OpenBridge, SendsNothing, At
    <3>2. Bridged(s)' \/ sock'[s] = "closed"
      <4>1. CASE bridges' = bridges \cup {<<t, r>>}
        <5>1. <<t, r>> \in bridges' /\ s \in {<<t, r>>[1], <<t, r>>[2]}
          BY <1>2, <4>1
        <5>2. QED
          BY <5>1 DEF Bridged
      <4>2. CASE sock' = [sock EXCEPT ![t] = "closed", ![r] = "closed"]
        BY <1>2, <4>2
      <4>3. QED
        BY <2>6, <4>1, <4>2 DEF OpenBridge
    <3>3. HandedOver(s)' /\ Joined(s)'
      BY <3>2 DEF HandedOver, Joined
    <3>4. QED
      BY <1>2, <2>1, <2>2, <3>1, <3>3, InClaim DEF Turn
  <2>7. QED
    BY <2>4, <2>5, <2>6 DEF CcreateBridge
<1>3. QED
  BY <1>1, <1>2

\* A sweep closes whom it takes off the registry; nothing else happens to anybody.
LEMMA SweepTurn ==
  ASSUME Ownership, CterminateTimeoutClients, NEW s \in Session, Turn(s)
  PROVE  Turn(s)'
<1> USE DEF Ownership, TypeOK, clientVars
<1>1. /\ UNCHANGED <<peer, inbox, reading, io, bridges, at, replies>>
      /\ senders_sessions' = [c \in Code |-> IF expired[c] THEN NoSession
                                                          ELSE senders_sessions[c]]
      /\ Release(sock)
  BY DEF CterminateTimeoutClients, terminateTimeoutClients, SendsNothing
<1>2. Registered(s)' => Registered(s)
  BY <1>1, SessionAssumption DEF Registered
<1>3. sock[s] \in {"none", "closed"} => sock'[s] = sock[s]
  BY <1>1, ReleaseFacts
<1>4. Bridged(s)' <=> Bridged(s)
  BY <1>1 DEF Bridged
<1>5. ASSUME Registered(s), ~Registered(s)', s \notin {io.self, io.other}
      PROVE  sock'[s] = "closed"
  <2>1. sock[s] = "open" /\ reading'[s] = "none"
    BY <1>1, <1>5 DEF StreamOfRole, OneReader
  <2>2. QED
    BY <1>1, <1>5, <2>1 DEF Release, Referenced
<1>6. ASSUME Registered(s), s \in {io.self, io.other}
      PROVE  io.step = "registered" /\ io.self = s
  <2>1. ~Claimed(s)
    BY <1>6 DEF BridgesDisjoint
  <2>2. io.step \in {"handshake", "registered"} /\ io.other = NoSession
    BY <1>6, <2>1, SessionAssumption DEF Claimed, IoStates, Idle
  <2>3. QED
    BY <1>6, <2>2, SessionAssumption DEF StreamOfRole
<1>7. QED
  BY <1>1, <1>2, <1>3, <1>4, <1>5, <1>6, Bystander
-----------------------------------------------------------------------------
(***************************************************************************)
(* The theorem.                                                            *)
(***************************************************************************)

\* The kinds of calls and answers there are.
LEMMA CTypesStep ==
  ASSUME CTypes, [CNext]_allVars
  PROVE  CTypes'
<1> USE DEF CTypes
<1>1. ASSUME NEW s \in Session, NEW answer \in Reply, Sends(s, answer)
      PROVE  CTypes'
  BY <1>1 DEF Sends
<1>2. CASE UNCHANGED <<program, at, replies>>
  BY <1>2
<1>3. ASSUME NEW s \in Session, at' \in [Session -> Call], program' = program,
             \/ replies' = replies
             \/ replies[s] # <<>> /\ replies' = [replies EXCEPT ![s] = Tail(@)]
      PROVE  CTypes'
  <2>1. replies[s] # <<>> => Tail(replies[s]) \in Seq(Reply)
    OBVIOUS
  <2>2. QED
    BY <1>3, <2>1
<1>4. ASSUME NEW s \in Session, ProgramStep(s) PROVE CTypes'
  <2>1. at' \in [Session -> Call] /\ program' = program
    BY <1>4 DEF ProgramStep, ProgramReads, connect, login, requestStreamerID,
                findOtherClient, receiveACK, receiveFound, receiveID, Reads,
                waitForStartStreamMessage, ConnectionBroken, Killed, Requests, Goes,
                Exits, Call
  <2>2. \/ replies' = replies
        \/ replies[s] # <<>> /\ replies' = [replies EXCEPT ![s] = Tail(@)]
    BY <1>4 DEF ProgramStep, ProgramReads, connect, login, requestStreamerID,
                findOtherClient, receiveACK, receiveFound, receiveID, Reads,
                waitForStartStreamMessage, ConnectionBroken, Killed, Requests
  <2>3. QED
    BY <1>3, <2>1, <2>2
<1>5. ASSUME NEW s \in Session, CHandleRead(s) \/ CSendId(s) PROVE CTypes'
  <2>1. UNCHANGED <<program, at, replies>> \/ \E answer \in Reply : Sends(s, answer)
    BY <1>5 DEF CHandleRead, CSendId, SendsNothing, Reply
  <2>2. QED
    BY <1>1, <1>2, <2>1
<1>6. ASSUME NEW r \in Session, NEW s \in Session, CcreateBridge(r, s) PROVE CTypes'
  <2>1. \/ UNCHANGED <<program, at, replies>>
        \/ \E t \in {r, s}, answer \in Reply : Sends(t, answer)
    BY <1>6 DEF CcreateBridge, SendsNothing, Reply
  <2>2. QED
    BY <1>1, <1>2, <2>1
<1>7. ASSUME NEW s \in Session, Foreign(s) \/ CReset(s) \/ CAccept(s) \/ CHandshake(s)
      PROVE  CTypes'
  BY <1>2, <1>7 DEF Foreign, CReset, CAccept, CHandshake, SendsNothing
<1>8. CASE \/ CBridgeEnds \/ CterminateTimeoutClients \/ \E code \in Code : CExpire(code)
           \/ UNCHANGED allVars
  BY <1>2, <1>8 DEF CBridgeEnds, CterminateTimeoutClients, CExpire, SendsNothing, allVars
<1>9. QED
  BY <1>4, <1>5, <1>6, <1>7, <1>8 DEF CNext

\* A program that has ended stays so, and none becomes another.
LEMMA LiveBefore ==
  ASSUME CTypes, [CNext]_allVars, NEW s \in Session, Live(s)'
  PROVE  Live(s)
<1> USE DEF CTypes, Live
<1>1. ASSUME UNCHANGED <<program, at>> PROVE Live(s)
  BY <1>1
<1>2. ASSUME NEW u \in Session, ProgramStep(u) PROVE Live(s)
  BY <1>2 DEF ProgramStep, ProgramReads, connect, login, requestStreamerID,
              findOtherClient, receiveACK, receiveFound, receiveID, Reads,
              waitForStartStreamMessage, ConnectionBroken, Killed, Requests, Goes,
              Exits
<1>3. ASSUME NEW u \in Session, \/ Foreign(u) \/ CReset(u) \/ CAccept(u) \/ CHandshake(u)
                                \/ CHandleRead(u) \/ CSendId(u)
      PROVE  Live(s)
  BY <1>1, <1>3 DEF Foreign, CReset, CAccept, CHandshake, CHandleRead, CSendId, Sends,
                    SendsNothing
<1>4. ASSUME NEW r \in Session, NEW u \in Session, CcreateBridge(r, u) PROVE Live(s)
  BY <1>1, <1>4 DEF CcreateBridge, Sends, SendsNothing
<1>5. CASE \/ CBridgeEnds \/ CterminateTimeoutClients \/ \E code \in Code : CExpire(code)
           \/ UNCHANGED allVars
  BY <1>1, <1>5 DEF CBridgeEnds, CterminateTimeoutClients, CExpire, SendsNothing, allVars
<1>6. QED
  BY <1>2, <1>3, <1>4, <1>5 DEF CNext

\* Nothing is kept of a foreign client.
LEMMA StrangersStep ==
  ASSUME TypeOK, CTypes, Strangers, [CNext]_allVars
  PROVE  Strangers'
<1> USE DEF CTypes, Strangers
<1>1. ASSUME UNCHANGED <<program, at>>,
             \/ replies' = replies
             \/ \E u \in Session, answer \in Reply : Sends(u, answer)
      PROVE  Strangers'
  BY <1>1 DEF Sends
<1>2. ASSUME NEW u \in Session, ProgramStep(u) PROVE Strangers'
  <2>1. program[u] # "foreign"
    BY <1>2 DEF ProgramStep, ProgramReads, connect, login, requestStreamerID,
                findOtherClient, receiveACK, receiveFound, receiveID, Reads,
                waitForStartStreamMessage, ConnectionBroken, Killed, Requests, Goes
  <2>2. /\ program' = program
        /\ \A t \in Session \ {u} : at'[t] = at[t] /\ replies'[t] = replies[t]
    BY <1>2, ProgramFrame
  <2>3. QED
    BY <2>1, <2>2
<1>3. ASSUME NEW u \in Session, \/ Foreign(u) \/ CReset(u) \/ CAccept(u) \/ CHandshake(u)
                                \/ CHandleRead(u) \/ CSendId(u)
      PROVE  Strangers'
  <2>1. UNCHANGED <<program, at>>
    BY <1>3 DEF Foreign, CReset, CAccept, CHandshake, CHandleRead, CSendId, Sends,
                SendsNothing
  <2>2. replies' = replies \/ \E answer \in Reply : Sends(u, answer)
    BY <1>3 DEF Foreign, CReset, CAccept, CHandshake, CHandleRead, CSendId,
                SendsNothing, Reply
  <2>3. QED
    BY <1>1, <2>1, <2>2
<1>4. ASSUME NEW r \in Session, NEW u \in Session, CcreateBridge(r, u) PROVE Strangers'
  <2>1. UNCHANGED <<program, at>>
    BY <1>4 DEF CcreateBridge, Sends, SendsNothing
  <2>2. replies' = replies \/ \E t \in Session, answer \in Reply : Sends(t, answer)
    BY <1>4 DEF CcreateBridge, SendsNothing, Reply
  <2>3. QED
    BY <1>1, <2>1, <2>2
<1>5. CASE \/ CBridgeEnds \/ CterminateTimeoutClients \/ \E code \in Code : CExpire(code)
           \/ UNCHANGED allVars
  BY <1>1, <1>5 DEF CBridgeEnds, CterminateTimeoutClients, CExpire, SendsNothing, allVars
<1>6. QED
  BY <1>2, <1>3, <1>4, <1>5 DEF CNext

\* Program and server stay agreed whose turn it is.
LEMMA TurnsStep ==
  ASSUME Dialogue, [CNext]_allVars
  PROVE  Turns'
<1> SUFFICES ASSUME NEW s \in Session, Live(s)' PROVE Turn(s)'
  BY DEF Turns
<1> USE DEF Dialogue
<1>0. Live(s) /\ Turn(s) /\ TypeOK
  BY LiveBefore DEF Turns, Ownership
<1>1. ASSUME NEW u \in Session, ProgramStep(u) \/ Foreign(u) \/ CReset(u)
      PROVE  Turn(s)'
  <2>1. CASE u # s
    <3>1. /\ UNCHANGED <<program, reading, io, senders_sessions, bridges>>
          /\ at'[s] = at[s] /\ replies'[s] = replies[s] /\ inbox'[s] = inbox[s]
          /\ peer'[s] = peer[s] /\ sock'[s] = sock[s]
      BY <1>0, <1>1, <2>1, ProgramFrame
    <3>2. (Registered(s)' <=> Registered(s)) /\ (Bridged(s)' <=> Bridged(s))
      BY <3>1 DEF Registered, Bridged
    <3>3. QED
      BY <1>0, <3>1, <3>2, Bystander
  <2>2. CASE u = s /\ ProgramStep(s)
    BY <1>0, <2>2, ProgramTurn
  <2>3. CASE u = s /\ (Foreign(s) \/ CReset(s))
    <3>1. ~Foreign(s)
      BY <1>0 DEF Foreign, Live
    <3>2. ~CReset(s)
      BY <1>0 DEF CReset, ConnectionReset, Turn
    <3>3. QED
      BY <2>3, <3>1, <3>2
  <2>4. QED
    BY <1>1, <2>1, <2>2, <2>3
<1>2. ASSUME NEW u \in Session, CAccept(u) \/ CHandshake(u) PROVE Turn(s)'
  BY <1>0, <1>2, AcceptTurn
<1>3. ASSUME NEW u \in Session, CSendId(u) PROVE Turn(s)'
  BY <1>0, <1>3, SendIdTurn
<1>4. ASSUME NEW u \in Session, CHandleRead(u) PROVE Turn(s)'
  <2>1. CASE HandleRegister(u) /\ SendsNothing
    BY <1>0, <2>1, RegisterTurn
  <2>2. CASE FindStreamer(u) /\ SendsNothing
    BY <1>0, <2>2, FindTurn
  <2>3. CASE \/ LoginAccepted(u) /\ Sends(u, "ACK")
             \/ (LoginRejected(u) \/ FindMisses(u)) /\ Sends(u, "NACK")
             \/ (RejectHeader(u) \/ LoginRefused(u)) /\ Sends(u, "DISCONNECT")
             \/ HandleUnexpected(u) /\ Sends(u, "RESPONSE")
             \/ ReadFails(u) /\ SendsNothing
    BY <1>0, <2>3, AnsweredTurn
  <2>4. QED
    BY <1>4, <2>1, <2>2, <2>3 DEF CHandleRead
<1>5. ASSUME NEW r \in Session, NEW t \in Session, CcreateBridge(r, t) PROVE Turn(s)'
  BY <1>0, <1>5, ClaimTurn
<1>6. CASE CterminateTimeoutClients
  BY <1>0, <1>6, SweepTurn
<1>7. CASE CBridgeEnds \/ (\E code \in Code : CExpire(code)) \/ UNCHANGED allVars
  <2>1. UNCHANGED <<peer, inbox, reading, sock, io, senders_sessions, bridges, at, replies>>
    BY <1>7 DEF CBridgeEnds, BridgeEnds, CExpire, Expire, SendsNothing, allVars, vars,
                clientVars, registryVars
  <2>2. (Registered(s)' <=> Registered(s)) /\ (Bridged(s)' <=> Bridged(s))
    BY <2>1 DEF Registered, Bridged
  <2>3. QED
    BY <1>0, <2>1, <2>2, Bystander
<1>8. QED
  BY <1>1, <1>2, <1>3, <1>4, <1>5, <1>6, <1>7 DEF CNext

LEMMA DialogueHolds == CSpec => []Dialogue
<1>1. CInit /\ Ownership => Dialogue
  <2> SUFFICES ASSUME CInit, Ownership PROVE Dialogue
    OBVIOUS
  <2>1. CTypes
    BY DEF CInit, CTypes, Call
  <2>2. Turns
    BY DEF CInit, Init, Turns, Turn
  <2>3. Strangers
    BY DEF CInit, Strangers
  <2>4. QED
    BY <2>1, <2>2, <2>3 DEF Dialogue
<1>2. Dialogue /\ Ownership' /\ [CNext]_allVars => Dialogue'
  BY CTypesStep, StrangersStep, TurnsStep DEF Dialogue, Ownership
<1>3. QED
  BY <1>1, <1>2, OwnershipComposed, PTL DEF CSpec

\* What a program reads is the answer to the request it has made, and one that goes
\* on to stream, or to view, has been given to the other or has lost its connection
\* (the blocking requests of ClientSocket, which number neither requests nor
\* answers).
THEOREM AnswersMatchHolds == CSpec => []AnswersMatch
<1>1. Dialogue => AnswersMatch
  <2> SUFFICES ASSUME Dialogue, NEW s \in Session
      PROVE  /\ at[s] # "ended" => replies[s] \in Expected(at[s])
             /\ at[s] \in {"streaming", "viewing"} =>
                  Claimed(s) \/ Bridged(s) \/ sock[s] = "closed"
    BY DEF AnswersMatch
  <2>1. CASE Live(s)
    <3>1. Turn(s) /\ at[s] \in Call
      BY <2>1 DEF Dialogue, Turns, CTypes
    <3>2. replies[s] \in Expected(at[s])
      BY <2>1, <3>1 DEF Turn, Expected, Call, Live
    <3>3. at[s] \in {"streaming", "viewing"} =>
            Claimed(s) \/ Bridged(s) \/ sock[s] = "closed"
      BY <3>1 DEF Turn, HandedOver, Joined, Claimed
    <3>4. QED
      BY <3>2, <3>3
  <2>2. CASE at[s] # "ended" /\ program[s] = "foreign"
    BY <2>2 DEF Dialogue, Strangers, Expected
  <2>3. QED
    BY <2>1, <2>2 DEF Live
<1>2. QED
  BY <1>1, DialogueHolds, PTL
=============================================================================
