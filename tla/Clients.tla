------------------------------- MODULE Clients -------------------------------
(***************************************************************************)
(* The proxy server together with the programs that connect to it: the     *)
(* streamer's and the viewer's main(), which call ClientSocket's blocking  *)
(* requests one after another, and foreign clients, which send whatever    *)
(* they like.  What the server answers travels in "replies" until the      *)
(* program reads it; a program that waits reads its connection and nothing *)
(* else, without a timeout.                                                *)
(*                                                                         *)
(* Every step of the server is one of ProxyServer's, with the answer it    *)
(* sends; every step of a program is one of ProxyServer's client steps, or *)
(* leaves the server's state alone.  What the programs do once they stream *)
(* or view is in modules Stream, Streamer and UserInput.                   *)
(*                                                                         *)
(* A definition introduced by "Mutant:" is no part of the model.           *)
(***************************************************************************)
EXTENDS ProxyServer, Sequences

VARIABLES
  program,   \* what runs at the client's end of each connection
  at,        \* the call that the program is in
  replies    \* what the server has sent to each program, unread

allVars == <<vars, program, at, replies>>

Program == {"streamer", "viewer", "foreign"}

\* The calls that wait for an answer.
Waiting == {"receiveACK", "receive_id", "waitForStart", "receive_found"}

CInit ==
  /\ Init
  /\ program \in [Session -> Program]
  /\ at = [s \in Session |-> "connect"]
  /\ replies = [s \in Session |-> <<>>]
-----------------------------------------------------------------------------
(***************************************************************************)
(* The programs.                                                           *)
(***************************************************************************)
Goes(s, from, to) ==
  /\ program[s] # "foreign"
  /\ at[s] = from
  /\ at' = [at EXCEPT ![s] = to]
  /\ UNCHANGED program

Requests(s, from, to, msg) ==
  /\ Goes(s, from, to)
  /\ ClientSend(s, msg)
  /\ UNCHANGED replies

\* The program ends, by an exception, by returning from main or because it is
\* killed; the connection goes with it.
Exits(s) ==
  /\ peer[s] = "up"
  /\ at' = [at EXCEPT ![s] = "ended"]
  /\ peer' = IF sock[s] = "closed" THEN peer ELSE [peer EXCEPT ![s] = "gone"]
  /\ UNCHANGED <<program, inbox, told, sock, reading, authed, io, registryVars,
                 bridges, server>>

\* ClientSocket's constructor; the client's half of the handshake ends with the
\* server's.
connect(s) ==
  /\ Goes(s, "connect", "login")
  /\ Connect(s)
  /\ UNCHANGED replies

\* Mutant: the ACK is left to the next request.
loginUnanswered(s) ==
  \E credentials \in {"known", "unknown"} :
    Requests(s, "login", IF program[s] = "streamer" THEN "requestStreamerID"
                                                    ELSE "findOtherClient",
             [type |-> "LOGIN", content |-> credentials])

login(s) ==
  \E credentials \in {"known", "unknown"} :
    Requests(s, "login", "receiveACK", [type |-> "LOGIN", content |-> credentials])

requestStreamerID(s) ==
  Requests(s, "requestStreamerID", "receive_id",
           [type |-> "REGISTER_STREAMER", content |-> "none"])

findOtherClient(s) ==
  \E code \in Code :
    Requests(s, "findOtherClient", "receive_found",
             [type |-> "FIND_STREAMER", content |-> code])

\* The program reads the next answer, which takes it on or ends it.
Reads(s, from, accepted, to) ==
  /\ program[s] # "foreign"
  /\ at[s] = from
  /\ replies[s] # <<>>
  /\ replies' = [replies EXCEPT ![s] = Tail(@)]
  /\ \/ /\ Head(replies[s]) \in accepted
        /\ Goes(s, from, to)
        /\ UNCHANGED vars
     \/ /\ Head(replies[s]) \notin accepted
        /\ Exits(s)

\* receiveACK throws on anything but ACK.
receiveACK(s) ==
  Reads(s, "receiveACK", {"ACK"}, IF program[s] = "streamer" THEN "requestStreamerID"
                                                             ELSE "findOtherClient")

\* The viewer's main returns when the streamer is not found.
receiveFound(s) == Reads(s, "receive_found", {"ACK"}, "viewing")

receiveID(s) == Reads(s, "receive_id", {"ID"}, "waitForStart")

\* Any message but START_STREAM is logged and the next one is waited for.  The
\* timeout is compared between two reads; the program's is as good as infinite.
waitForStartStreamMessage(s) ==
  /\ at[s] = "waitForStart"
  /\ replies[s] # <<>>
  /\ replies' = [replies EXCEPT ![s] = Tail(@)]
  /\ Goes(s, "waitForStart",
          IF Head(replies[s]) = "START_STREAM" THEN "streaming" ELSE "waitForStart")
  /\ UNCHANGED vars

\* A read, or the handshake, on a connection that the server has closed throws.
ConnectionBroken(s) ==
  /\ program[s] # "foreign"
  /\ at[s] \in Waiting \cup {"login"}
  /\ replies[s] = <<>>
  /\ sock[s] = "closed" \/ server = "down"
  /\ Exits(s)
  /\ UNCHANGED replies

Killed(s) ==
  /\ program[s] # "foreign"
  /\ at[s] # "ended"
  /\ Exits(s)
  /\ UNCHANGED replies

Foreign(s) ==
  /\ program[s] = "foreign"
  /\ Connect(s) \/ ClientLeave(s) \/ \E msg \in Message : ClientSend(s, msg)
  /\ UNCHANGED <<program, at, replies>>

\* A program never stops waiting on its own.
ProgramReads(s) ==
  \/ receiveACK(s) \/ receiveFound(s) \/ receiveID(s) \/ waitForStartStreamMessage(s)
  \/ ConnectionBroken(s)

ProgramStep(s) ==
  \/ connect(s) \/ login(s) \/ Killed(s)
  \/ program[s] = "streamer" /\ requestStreamerID(s)
  \/ program[s] = "viewer" /\ findOtherClient(s)
  \/ ProgramReads(s)
-----------------------------------------------------------------------------
(***************************************************************************)
(* The server's steps, with what they send.  A message for a client that   *)
(* has gone is lost; a send that fails (on a connection that was reset) is *)
(* one to such a client.                                                   *)
(***************************************************************************)
Sends(s, answer) ==
  /\ replies' = IF peer[s] = "up" /\ program[s] # "foreign"
                THEN [replies EXCEPT ![s] = Append(@, answer)] ELSE replies
  /\ UNCHANGED <<program, at>>

SendsNothing == UNCHANGED <<program, at, replies>>

CHandshake(s) == Handshake(s) /\ SendsNothing

CSendId(s) == SendId(s) /\ Sends(s, "ID")

CAccept(s) == Accept(s) /\ SendsNothing

CHandleRead(s) ==
  \/ LoginAccepted(s) /\ Sends(s, "ACK")
  \/ (LoginRejected(s) \/ FindMisses(s)) /\ Sends(s, "NACK")
  \/ (RejectHeader(s) \/ LoginRefused(s)) /\ Sends(s, "DISCONNECT")
  \/ HandleUnexpected(s) /\ Sends(s, "RESPONSE")
  \/ (ReadFails(s) \/ HandleRegister(s) \/ FindStreamer(s)) /\ SendsNothing

CcreateBridge(receiver, sender) ==
  \/ SendFindAck(receiver, sender) /\ Sends(receiver, "ACK")
  \/ /\ SendStartStream(receiver, sender)
     /\ IF CanWrite(sender) THEN Sends(sender, "START_STREAM")
                            ELSE Sends(receiver, "DISCONNECT")
  \/ OpenBridge(receiver, sender) /\ SendsNothing

CBridgeEnds == (\E b \in bridges : BridgeEnds(b)) /\ SendsNothing

CExpire(code) == Expire(code) /\ SendsNothing

CterminateTimeoutClients == terminateTimeoutClients /\ SendsNothing

CReset(s) == ConnectionReset(s) /\ SendsNothing

CNext ==
  \/ \E s \in Session :
       \/ ProgramStep(s) \/ Foreign(s) \/ CReset(s)
       \/ CAccept(s) \/ CHandshake(s) \/ CHandleRead(s) \/ CSendId(s)
  \/ \E r, s \in Session : CcreateBridge(r, s)
  \/ CBridgeEnds
  \/ CterminateTimeoutClients \/ \E code \in Code : CExpire(code)

(***************************************************************************)
(* Fairness: the server's is ProxyServer's, and a program that waits reads *)
(* what there is to read.  No program has to send, to leave or to stay.    *)
(***************************************************************************)
CFairness ==
  /\ \A s \in Session : WF_allVars(CHandshake(s) \/ CSendId(s))
  /\ \A s \in Session : SF_allVars(CAccept(s)) /\ SF_allVars(CHandleRead(s))
  /\ \A r, s \in Session : WF_allVars(CcreateBridge(r, s))
  /\ WF_allVars(CterminateTimeoutClients)
  /\ \A code \in Code : WF_allVars(CExpire(code))
  /\ \A s \in Session : WF_allVars(ProgramReads(s))

CSpec == CInit /\ [][CNext]_allVars /\ CFairness
-----------------------------------------------------------------------------
(***************************************************************************)
(* Properties.  ClaimSettles and ConnectionsServed of ProxyServer are      *)
(* checked here as well, with clients of every kind.                       *)
(***************************************************************************)
\* What may lie unread at a program, by the call it is in.
Expected(call) ==
  CASE call = "receiveACK"    -> {<<>>, <<"ACK">>, <<"NACK">>, <<"DISCONNECT">>}
    [] call = "receive_id"    -> {<<>>, <<"ID">>, <<"ID", "START_STREAM">>}
    [] call = "waitForStart"  -> {<<>>, <<"START_STREAM">>}
    [] call = "receive_found" -> {<<>>, <<"NACK">>, <<"ACK">>, <<"ACK", "DISCONNECT">>}
    [] call = "viewing"       -> {<<>>, <<"DISCONNECT">>}
    [] OTHER                  -> {<<>>}

\* A program only ever reads an answer to the request it has made, although the
\* protocol numbers neither and uses one ACK for two requests; what it has been
\* told holds: a program that goes on to stream, or to view, is in a claim or in
\* a bridge, or its connection has been closed (login, findOtherClient,
\* requestStreamerID, waitForStartStreamMessage read one message each).
AnswersMatch ==
  \A s \in Session :
    /\ at[s] # "ended" => replies[s] \in Expected(at[s])
    /\ at[s] \in {"streaming", "viewing"} =>
         Claimed(s) \/ Bridged(s) \/ sock[s] = "closed"

\* No program waits for ever, the streamer's included that waits for a viewer:
\* it has no timeout that works, but the cleaner's closes its connection
\* (waitForStartStreamMessage, receiveACK, receive).
WaitsEnd ==
  \A s \in Session, call \in Waiting : at[s] = call ~> at[s] # call
=============================================================================
