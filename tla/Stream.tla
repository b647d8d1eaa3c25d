-------------------------------- MODULE Stream --------------------------------
(***************************************************************************)
(* A stream: the streamer (peer_one) and the viewer (peer_two) at the two  *)
(* ends of a bridge, frames one way and user input the other.  What        *)
(* module Bridge counts as bytes are messages here.                        *)
(*                                                                         *)
(* The viewer is one thread with blocking calls: it receives one frame,    *)
(* then sends the input that is queued, and so on.  The streamer blocks in *)
(* nothing: its context thread reads input whenever there is some, and     *)
(* sends a frame whenever the one before has been taken.  Between them the *)
(* bridge blocks in its writes.                                            *)
(*                                                                         *)
(* Init also lets the bridge's ends be two foreign clients, which send,    *)
(* receive and leave as they like.                                         *)
(*                                                                         *)
(* A definition introduced by "Mutant:" is no part of the model.           *)
(***************************************************************************)
EXTENDS Bridge

CONSTANT
  MaxInputs   \* bound: messages the viewer, or a foreign client, sends; at most MaxBytes

ASSUME InputsAssumption == MaxInputs \in 0..MaxBytes

VARIABLES
  program,  \* what is at the ends: "applications" or "foreign" clients
  viewer,   \* the call the viewer is in, "ended" when run has returned or thrown
  shot      \* the streamer's screenshot: to be "taken", in a "write", or "off"; it
            \* is in "create" before its encoder is there

streamVars == <<vars, program, viewer, shot>>

streamer_end == 1
viewer_end == 2

SInit ==
  /\ Init
  /\ program \in {"applications", "foreign"}
  /\ viewer = "create"
  /\ shot = "create"
-----------------------------------------------------------------------------
(***************************************************************************)
(* The viewer: ScreenViewerClient::runLoop.                                *)
(***************************************************************************)
ViewerGoes(from, to) ==
  /\ program = "applications"
  /\ viewer = from
  /\ viewer' = to
  /\ UNCHANGED <<program, shot>>

\* The constructor makes the window, the renderer, a texture and the decoder ...
ViewerCreates == ViewerGoes("create", "receive") /\ UNCHANGED vars

\* ... or throws out of main at the first it cannot make.
ViewerCreateFails == ViewerGoes("create", "ended") /\ ClientLeaves(viewer_end)

\* receiveToBuffer returns a frame.
ViewerReceives == ViewerGoes("receive", "poll") /\ Receive(viewer_end)

\* handleIOEvents polls an event that is worth a message ...
PollsInput ==
  /\ sent[viewer_end] < MaxInputs
  /\ ViewerGoes("poll", "send")
  /\ UNCHANGED vars

\* ... and send blocks until the connection takes it.
ViewerSends == ViewerGoes("send", "poll") /\ Send(viewer_end)

\* The queue is empty, or max_poll_time is over.
PollEnds == ViewerGoes("poll", "receive") /\ UNCHANGED vars

\* The bridge's end of p's connection is closed, by close() or with its process.
Cut(p) == sock[p] = "closed" \/ server = "down"

\* The blocking call throws, run ends, and main returns.  What has not been
\* received may be lost: closing a socket with unread data resets it.
ViewerFails ==
  /\ Cut(viewer_end)
  /\ \E call \in {"receive", "send"} : ViewerGoes(call, "ended")
  /\ ClientLeaves(viewer_end)

\* SDL_QUIT exits out of handleIOEvents, and the process may be killed in the loop.
ViewerQuits ==
  /\ \E call \in {"receive", "send", "poll"} : ViewerGoes(call, "ended")
  /\ ClientLeaves(viewer_end)
-----------------------------------------------------------------------------
(***************************************************************************)
(* The streamer: scheduleAsyncSendScreenshots and the asynchronous reads.  *)
(***************************************************************************)
ShotGoes(from, to) ==
  /\ program = "applications"
  /\ client[streamer_end] = "up"
  /\ shot = from
  /\ shot' = to
  /\ UNCHANGED <<program, viewer>>

\* A first screenshot gives the encoder its size, its context and its frame are
\* made, and run schedules the first read and the first screenshot.
StreamerCreates == ShotGoes("create", "taken") /\ UNCHANGED vars

\* What cannot be had throws out of main: the display, its screens, the codec.
StreamerCreateFails == ShotGoes("create", "off") /\ ClientLeaves(streamer_end)

\* encode sends the frame to the codec and returns the packet it receives, an
\* empty one when none is ready: that is a message as well, in which the viewer
\* finds no picture.
Encodes ==
  /\ sent[streamer_end] < MaxBytes
  /\ ShotGoes("taken", "write")
  /\ UNCHANGED vars

\* The codec refuses the frame: encode returns no packet, and nothing schedules
\* another screenshot.
EncodeRefused ==
  /\ ShotGoes("taken", "off")
  /\ UNCHANGED vars

\* The connection has taken the frame, and its handler takes the next screenshot.
FrameSent == ShotGoes("write", "taken") /\ Send(streamer_end)

\* Mutant: a frame that could not be sent is sent again.
FrameRetried ==
  /\ Cut(streamer_end)
  /\ ShotGoes("write", "taken")
  /\ UNCHANGED vars

\* The write ends in an error, which is logged; its handler is not called.
FrameFails ==
  /\ Cut(streamer_end)
  /\ ShotGoes("write", "off")
  /\ UNCHANGED vars

\* Mutant: the context thread reads only while no frame is being sent.
StreamerReadsBetween ==
  /\ program = "applications"
  /\ shot \notin {"create", "write"}
  /\ Receive(streamer_end)
  /\ UNCHANGED <<program, viewer, shot>>

\* scheduleAsyncPollIOEvents: the handler queues the message and reads again.
StreamerReads ==
  /\ program = "applications"
  /\ shot # "create"
  /\ Receive(streamer_end)
  /\ UNCHANGED <<program, viewer, shot>>

\* A screenshot fails, which ends the process, or it is killed.
StreamerEnds ==
  /\ \E step \in {"taken", "write", "off"} : ShotGoes(step, "off")
  /\ ClientLeaves(streamer_end)
-----------------------------------------------------------------------------
Foreign(p) ==
  /\ program = "foreign"
  /\ (sent[p] < MaxInputs /\ Send(p)) \/ Receive(p) \/ ClientLeaves(p)
  /\ UNCHANGED <<program, viewer, shot>>

AnsweredByReset(p) == outq[p] # <<>> /\ ConnectionReset(p)

Apart(step) == step /\ UNCHANGED <<program, viewer, shot>>

ViewerStep ==
  \/ ViewerCreates \/ ViewerReceives \/ PollsInput \/ ViewerSends \/ PollEnds \/ ViewerFails

FrameStep ==
  \/ StreamerCreates \/ Encodes \/ EncodeRefused \/ FrameSent \/ FrameFails

SNext ==
  \/ ViewerStep \/ ViewerCreateFails \/ ViewerQuits
  \/ FrameStep \/ StreamerReads \/ StreamerCreateFails \/ StreamerEnds
  \/ \E p \in Peer : Foreign(p) \/ Apart(ConnectionReset(p))
  \/ Apart(IoStep)

(***************************************************************************)
(* Fairness: the io thread's is Bridge's.  The viewer's thread and the     *)
(* streamer's context thread go on when they can, and both of the latter's *)
(* handlers have their turn.  The kernel of an end that has gone answers   *)
(* what still arrives there with a reset.  Nobody has to leave.            *)
(***************************************************************************)
SFairness ==
  /\ \A p \in Peer : SF_streamVars(Apart(ReadCompletes(p)))
                     /\ SF_streamVars(Apart(ReadFails(p)))
                     /\ WF_streamVars(Apart(AnsweredByReset(p)))
  /\ SF_streamVars(Apart(WriteSome))
  /\ WF_streamVars(Apart(ReadAgain)) /\ WF_streamVars(Apart(WriteFails))
  /\ WF_streamVars(ViewerStep)
  /\ WF_streamVars(FrameStep) /\ WF_streamVars(StreamerReads)

SSpec == SInit /\ [][SNext]_streamVars /\ SFairness
-----------------------------------------------------------------------------
(***************************************************************************)
(* Properties; NothingLostOrReordered and Relayed of Bridge are checked    *)
(* here as well.                                                           *)
(***************************************************************************)
\* The viewer blocks in a send that the bridge does not read, the bridge in a
\* write that the viewer does not read, with both connections full.
Embrace ==
  /\ viewer = "send" /\ Len(inq[viewer_end]) = Window
  /\ writing.from = streamer_end /\ writing.bytes # <<>>
  /\ Len(outq[viewer_end]) = Window

\* What is sent arrives in both directions, and the streamer sends frame after
\* frame unless the encoder has refused one (the supply of both is bounded): while
\* both are there nothing but that embrace brings a stream to rest.  The bridge's
\* blocking writes to the streamer end, so that no cycle of waits passes through
\* it (scheduleAsyncPollIOEvents, scheduleAsyncSendScreenshots, runLoop, and the
\* handlers of Bridge).
StreamFlows ==
  <>[](program = "applications" =>
         \/ Left \/ Embrace
         \/ /\ \A p \in Peer : Len(received[Other(p)]) = sent[p]
            /\ sent[streamer_end] = MaxBytes \/ shot = "off")

\* One end does not go on without the other: when the streamer has gone the
\* viewer's run ends, unless it is caught in that embrace, and when the viewer
\* has gone the streamer takes no more screenshots (although its run does not
\* return).
EndsTogether ==
  /\ program = "applications" /\ client[streamer_end] # "up" ~>
       viewer = "ended" \/ Embrace
  /\ viewer = "ended" ~> shot = "off" \/ sent[streamer_end] = MaxBytes
=============================================================================
