------------------------------- MODULE UserInput -------------------------------
(***************************************************************************)
(* The way of an input event from the viewer's hands to the streamer's X   *)
(* server: SDL queues it, ScreenViewerClient polls the queue between two   *)
(* frames and sends a message, and X11IOController plays it back.          *)
(*                                                                         *)
(* A button mask is the set of its bits.  One coordinate stands for the    *)
(* two of a position; a window has both, as SDL's scale depends on them.   *)
(* Streamer and Bridge have the transport; here it keeps the order and     *)
(* holds a few messages.                                                   *)
(*                                                                         *)
(* A definition introduced by "Mutant:" is no part of the model.           *)
(***************************************************************************)
EXTENDS Integers, Sequences, FiniteSets

CONSTANTS
  Button,        \* ids of the mouse buttons SDL reports
  Key,           \* keys, as SDL reports them
  sdl_to_x11,    \* the table of KeysMapping.cpp: key -> X symbol
  KeysymToKeycode,  \* the streamer's keyboard map: symbol -> key code, 0 if none
  InitialSize,   \* of the window; the frame is as wide before there is one
  WindowSize,    \* sizes the user gives to the window
  FrameWidth,    \* width of the streamer's screen
  x_org,         \* where that screen begins on its X display
  MaxUsed,       \* bound: buttons and keys the user touches, and sizes of the window
  QueueBound,    \* bound: events in SDL's queue
  Window         \* bound: messages in flight; send blocks beyond it

\* SDLKeySymToX11: a key that is not in the table is its own symbol.
SDLKeySymToX11(key) == IF key \in DOMAIN sdl_to_x11 THEN sdl_to_x11[key] ELSE key

ASSUME ButtonAssumption == Button \subseteq 1..32  \* the bits of an int
ASSUME KeyAssumption ==
  \A k \in Key : KeysymToKeycode[SDLKeySymToX11(k)] \in 0..255
ASSUME SizeAssumption ==
  /\ InitialSize \in WindowSize /\ FrameWidth \in Nat \ {0}
  /\ WindowSize \subseteq [w : Nat \ {0}, h : Nat \ {0}]
ASSUME OriginAssumption == x_org \in Int
ASSUME BoundAssumption == QueueBound \in Nat /\ Window \in Nat

VARIABLES
  used,          \* the buttons and keys this user touches, and the window's sizes
  held,          \* what the user holds down
  pointer,       \* where the user's pointer is in the window
  size,          \* the size the window really has
  events,        \* SDL's queue
  loop,          \* the viewer is receiving a frame or polling events, or it has exited
  window_size,   \* window_width and window_height: the size the viewer knows
  logical,       \* the renderer's logical size
  frame_width,
  wire,          \* messages on their way to the streamer
  remote,        \* the streamer's X server: what it takes to be held, its pointer
  sentHeld,      \* history: what is held down going by the events handled
  exact,         \* history: the last motion was sent, and as where the user pointed
  lost           \* history: kinds of events that were polled and not handled

userVars    == <<used, held, pointer, size>>
viewerVars  == <<window_size, logical, frame_width>>
historyVars == <<sentHeld, exact, lost>>
vars == <<userVars, events, loop, viewerVars, wire, remote, historyVars>>

Outside == -1   \* the pointer is not in the window
Nothing == [buttons |-> {}, keys |-> {}]
NoSize == [w |-> 0, h |-> 0]

Init ==
  /\ used \in [buttons : SUBSET Button, keys : SUBSET Key, sizes : SUBSET WindowSize]
  /\ InitialSize \in used.sizes
  /\ Cardinality(used.buttons) + Cardinality(used.keys) + Cardinality(used.sizes) = MaxUsed
  /\ held = Nothing
  /\ pointer = Outside
  /\ size = InitialSize
  /\ events = <<>>
  /\ loop = "receive"
  /\ window_size = InitialSize
  /\ logical = NoSize
  /\ frame_width = InitialSize.w
  /\ wire = <<>>
  /\ remote = [buttons |-> {}, keys |-> {}, pointer |-> Outside]
  /\ sentHeld = Nothing
  /\ exact = FALSE
  /\ lost = {}
-----------------------------------------------------------------------------
(***************************************************************************)
(* MouseConfig.  Button ids are X11's; bits are counted from 0.            *)
(***************************************************************************)
LEFT_BUTTON_MASK    == {0}
MID_BUTTON_MASK     == {1}
RIGHT_BUTTON_MASK   == {2}
SCROLL_UP_MASK      == {3}
SCROLL_DOWN_MASK    == {4}
IS_CLICKED_MASK     == {5}
FORWARD_BUTTON_MASK == {6}
BACK_BUTTON_MASK    == {7}
MOVE == {}

\* Mutant: SDL's side buttons are numbered like all others.
convertToMaskByNumber(sdl_button_id) == {sdl_button_id - 1}

convertToMask(sdl_button_id) ==
  CASE sdl_button_id = 4 -> BACK_BUTTON_MASK
    [] sdl_button_id = 5 -> FORWARD_BUTTON_MASK
    [] OTHER             -> {sdl_button_id - 1}

setClicked(mask) == mask \cup IS_CLICKED_MASK

isClicked(mask) == mask \cap IS_CLICKED_MASK # {}

isScrollMoved(mask) == mask \cap (SCROLL_UP_MASK \cup SCROLL_DOWN_MASK) # {}

\* The first of these that is in the mask, in the order of the code.
extractButtonID(mask) ==
  CASE 0 \in mask -> 1
    [] 0 \notin mask /\ 1 \in mask -> 2
    [] mask \cap (0..1) = {} /\ 2 \in mask -> 3
    [] mask \cap (0..2) = {} /\ 3 \in mask -> 4
    [] mask \cap (0..3) = {} /\ 4 \in mask -> 5
    [] mask \cap (0..4) = {} /\ 6 \in mask -> 9
    [] mask \cap ((0..4) \cup {6}) = {} /\ 7 \in mask -> 8
    [] OTHER -> 0
-----------------------------------------------------------------------------
(***************************************************************************)
(* The user and SDL.  An event is queued as SDL has the window then; of    *)
(* that it tells nothing.  SDL takes events from the display when it is    *)
(* polled: that it may queue them at any time adds behaviours.             *)
(***************************************************************************)
\* C++'s division of integers, for b > 0.
QuotientTowardZero(a, b) == IF a >= 0 THEN a \div b ELSE -((-a) \div b)

\* SDL's event watch puts a mouse position into the renderer's logical size, which
\* it fits into the window: as wide as the window, or with a bar on either side.
Reported(x) ==
  LET bar == (size.w - (logical.w * size.h) \div logical.h) \div 2
  IN CASE logical = NoSize -> x
       [] logical # NoSize /\ logical.w * size.h < size.w * logical.h ->
            QuotientTowardZero((x - bar) * logical.h, size.h)
       [] OTHER -> (x * logical.w) \div size.w

\* History: the logical size is the window's, and positions are the window's own.
Aligned == logical \in {NoSize, size}

Enqueue(event) ==
  /\ loop # "exited"
  /\ Len(events) < QueueBound
  /\ events' = Append(events, event)
  /\ UNCHANGED <<used, loop, viewerVars, wire, remote, historyVars>>

\* "at", "size" and "aligned" are no part of the event; they are history: where the
\* user points, in a window of which size.
MotionEvent(x) ==
  [type |-> "motion", x |-> Reported(x), at |-> x, size |-> size, aligned |-> Aligned]

ButtonEvent(type, b) ==
  [type |-> type, id |-> b, x |-> Reported(pointer), at |-> pointer, size |-> size,
   aligned |-> Aligned]

UserPresses ==
  \/ \E b \in used.buttons \ held.buttons :
       /\ pointer # Outside
       /\ held' = [held EXCEPT !.buttons = @ \cup {b}]
       /\ Enqueue(ButtonEvent("button_down", b))
       /\ UNCHANGED <<pointer, size>>
  \/ \E k \in used.keys :  \* a key that is held repeats
       /\ held' = [held EXCEPT !.keys = @ \cup {k}]
       /\ Enqueue([type |-> "key_down", id |-> k])
       /\ UNCHANGED <<pointer, size>>

UserReleases ==
  \/ \E b \in held.buttons :
       /\ pointer # Outside
       /\ held' = [held EXCEPT !.buttons = @ \ {b}]
       /\ Enqueue(ButtonEvent("button_up", b))
       /\ UNCHANGED <<pointer, size>>
  \/ \E k \in held.keys :
       /\ held' = [held EXCEPT !.keys = @ \ {k}]
       /\ Enqueue([type |-> "key_up", id |-> k])
       /\ UNCHANGED <<pointer, size>>

UserMoves ==
  \E x \in 0..(size.w - 1) :
    /\ pointer' = x
    /\ Enqueue(MotionEvent(x))
    /\ UNCHANGED <<held, size>>

\* A wheel event is told up or down by the sign of "event.button.x", which is where
\* SDL's wheel event has its vertical movement; a sideways one has none and is down.
UserTurnsWheel ==
  \E up \in BOOLEAN :
    /\ Enqueue([type |-> "wheel", up |-> up])
    /\ UNCHANGED userVars

\* The window's border is dragged: the pointer comes back in with a motion.
UserResizes ==
  \E s \in used.sizes \ {size} :
    /\ size' = s
    /\ pointer' = Outside
    /\ Enqueue([type |-> "resized", size |-> s])
    /\ UNCHANGED held

UserQuits == Enqueue([type |-> "quit"]) /\ UNCHANGED userVars
-----------------------------------------------------------------------------
(***************************************************************************)
(* The viewer's loop: one message from the streamer, then the events that  *)
(* are queued, for max_poll_time at most.                                  *)
(***************************************************************************)
\* avcodec_receive_frame has a picture, which is as large as the streamer's
\* screen, or the packet was empty or gave none.
decode == {FrameWidth, 0}

\* getNewFrame: without a picture the last one stays; a message of another type is
\* only logged.  A picture is drawn in the size the viewer knows of.
ReceiveFrame ==
  /\ loop = "receive"
  /\ \E picture \in decode :
       IF picture = 0 THEN UNCHANGED <<frame_width, logical>>
                      ELSE frame_width' = picture /\ logical' = window_size
  /\ exact' = (exact /\ frame_width' = frame_width)
  /\ loop' = "poll"
  /\ UNCHANGED <<userVars, events, window_size, wire, remote, sentHeld, lost>>

PollNothing ==
  /\ loop = "poll"
  /\ events = <<>>
  /\ loop' = "receive"
  /\ UNCHANGED <<userVars, events, viewerVars, wire, remote, historyVars>>

\* The loop polls an event before it looks at the clock: when the time is up
\* the event it has just taken from the queue is dropped.
PollTimeout ==
  /\ loop = "poll"
  /\ events # <<>>
  /\ events' = Tail(events)
  /\ lost' = lost \cup {IF Head(events).type = "resized" THEN "resized" ELSE "input"}
  /\ exact' = (exact /\ Head(events).type \notin {"motion", "resized"})
  /\ loop' = "receive"
  /\ UNCHANGED <<userVars, viewerVars, wire, remote, sentHeld>>

\* The event is handled: Next has one of the actions below after this guard.
Polled(types) ==
  /\ loop = "poll"
  /\ events # <<>>
  /\ Head(events).type \in types
  /\ events' = Tail(events)
  /\ UNCHANGED <<userVars, logical, frame_width, remote, lost>>

Send(message) ==
  /\ Len(wire) < Window
  /\ wire' = Append(wire, message)

\* "spot" and "exact" are no part of the message; they are history, kept of a click:
\* where the user points, and whether the pointer has been sent there.
MouseInput(mask, x) ==
  [type |-> "MOUSE_INPUT", button_mask |-> mask, x |-> x, spot |-> 0, exact |-> FALSE]

ClickInput(mask, x, spot) ==
  [type |-> "MOUSE_INPUT", button_mask |-> mask, x |-> x, spot |-> spot, exact |-> exact]

Scaled(x) == QuotientTowardZero(x * frame_width, window_size.w)

\* History: the spot of the frame that the user points at with this event.
SpotOf(event) == (event.at * frame_width) \div event.size.w

\* History: nothing stands between that spot and the position that is sent.
AsPointed(event) == event.aligned /\ "resized" \notin lost

\* A motion within mouse_position_update_interval of the one before is not sent.
HandleMotion ==
  /\ Polled({"motion"})
  /\ \/ /\ Send(MouseInput(MOVE, Scaled(Head(events).x)))
        /\ exact' = AsPointed(Head(events))
     \/ UNCHANGED wire /\ exact' = FALSE
  /\ UNCHANGED <<loop, window_size, sentHeld>>

HandleWheel ==
  /\ Polled({"wheel"})
  /\ Send(MouseInput(IF Head(events).up THEN SCROLL_UP_MASK ELSE SCROLL_DOWN_MASK, 0))
  /\ UNCHANGED <<loop, window_size, sentHeld, exact>>

HandleButton ==
  /\ Polled({"button_down", "button_up"})
  /\ LET b == Head(events).id
         down == Head(events).type = "button_down"
         mask == convertToMask(b)
     IN /\ Send(ClickInput(IF down THEN setClicked(mask) ELSE mask,
                           Scaled(Head(events).x), SpotOf(Head(events))))
        /\ sentHeld' = [sentHeld EXCEPT !.buttons = IF down THEN @ \cup {b} ELSE @ \ {b}]
  /\ UNCHANGED <<loop, window_size, exact>>

HandleKey ==
  /\ Polled({"key_down", "key_up"})
  /\ LET k == Head(events).id
         down == Head(events).type = "key_down"
     IN /\ Send([type |-> "KEYBOARD_INPUT", down |-> down, key |-> SDLKeySymToX11(k)])
        /\ sentHeld' = [sentHeld EXCEPT !.keys = IF down THEN @ \cup {k} ELSE @ \ {k}]
  /\ UNCHANGED <<loop, window_size, exact>>

\* exit: whatever is held stays held at the other end.
HandleQuit ==
  /\ Polled({"quit"})
  /\ loop' = "exited"
  /\ UNCHANGED <<window_size, wire, sentHeld, exact>>

\* Mutant: the window keeps the size it was created with.
HandleResizedIgnored ==
  /\ Polled({"resized"})
  /\ exact' = FALSE
  /\ UNCHANGED <<loop, window_size, wire, sentHeld>>

HandleResized ==
  /\ Polled({"resized"})
  /\ window_size' = Head(events).size
  /\ exact' = FALSE
  /\ UNCHANGED <<loop, wire, sentHeld>>
-----------------------------------------------------------------------------
(***************************************************************************)
(* The streamer: X11IOController plays the message back.                   *)
(***************************************************************************)
\* XTestFakeButtonEvent and XTestFakeKeyEvent.
Fake(set, id, down) == IF down THEN set \cup {id} ELSE set \ {id}

Plays(type) ==
  /\ wire # <<>> /\ Head(wire).type = type
  /\ wire' = Tail(wire)
  /\ UNCHANGED <<userVars, events, loop, viewerVars, historyVars>>

\* Mutant: the motion is played back as if the screen began at 0.
handleMouseEventNoOrigin ==
  /\ Plays("MOUSE_INPUT")
  /\ LET mask == Head(wire).button_mask
         button == extractButtonID(mask)
     IN remote' =
          CASE mask = MOVE -> [remote EXCEPT !.pointer = Head(wire).x]
            [] mask # MOVE /\ (isScrollMoved(mask) \/ button = 0) -> remote
            [] OTHER -> [remote EXCEPT !.buttons = Fake(@, button, isClicked(mask))]

\* A scroll is a press and a release of the scroll's button at once.  The position
\* that comes with a click is not used.
handleMouseEvent ==
  /\ Plays("MOUSE_INPUT")
  /\ LET mask == Head(wire).button_mask
         button == extractButtonID(mask)
     IN remote' =
          CASE mask = MOVE -> [remote EXCEPT !.pointer = Head(wire).x + x_org]
            [] mask # MOVE /\ (isScrollMoved(mask) \/ button = 0) -> remote
            [] OTHER -> [remote EXCEPT !.buttons = Fake(@, button, isClicked(mask))]

\* Mutant: an unknown symbol is played back as key code 0.
handleKeyboardEventUnchecked ==
  /\ Plays("KEYBOARD_INPUT")
  /\ remote' = [remote EXCEPT
       !.keys = Fake(@, KeysymToKeycode[Head(wire).key], Head(wire).down)]

handleKeyboardEvent ==
  /\ Plays("KEYBOARD_INPUT")
  /\ LET keycode == KeysymToKeycode[Head(wire).key]
     IN remote' = IF keycode = 0 THEN remote
                  ELSE [remote EXCEPT !.keys = Fake(@, keycode, Head(wire).down)]
-----------------------------------------------------------------------------
Next ==
  \/ UserPresses \/ UserReleases \/ UserMoves \/ UserTurnsWheel \/ UserResizes
  \/ UserQuits
  \/ ReceiveFrame \/ PollNothing \/ PollTimeout
  \/ HandleMotion \/ HandleWheel \/ HandleButton \/ HandleKey \/ HandleResized
  \/ HandleQuit
  \/ handleMouseEvent \/ handleKeyboardEvent

Spec == Init /\ [][Next]_vars
-----------------------------------------------------------------------------
(***************************************************************************)
(* Properties.                                                             *)
(***************************************************************************)
\* The X11 button that is one of the five SDL has names for: 8 and 9 are X11's
\* back and forward.
XButton(b) == CASE b \in 1..3 -> b [] b = 4 -> 8 [] b = 5 -> 9

\* The X11 button an SDL button comes out as, 0 if as none.
PlayedAs(b) == extractButtonID(convertToMask(b))

Keycode(k) == KeysymToKeycode[SDLKeySymToX11(k)]

Inputs == [buttons : SUBSET used.buttons, keys : SUBSET used.keys]

\* The values every variable takes.
TypeOK ==
  /\ used \in [buttons : SUBSET Button, keys : SUBSET Key, sizes : SUBSET WindowSize]
  /\ held \in Inputs /\ sentHeld \in Inputs
  /\ pointer \in {Outside} \cup 0..(size.w - 1)
  /\ size \in used.sizes /\ window_size \in used.sizes
  /\ logical \in {NoSize} \cup used.sizes
  /\ frame_width \in {InitialSize.w, FrameWidth}
  /\ loop \in {"receive", "poll", "exited"}
  /\ Len(events) \leq QueueBound /\ Len(wire) \leq Window
  /\ remote.buttons \subseteq 1..9 /\ remote.keys \subseteq 1..255
  /\ exact \in BOOLEAN
  /\ lost \subseteq {"resized", "input"}

\* What the X server holds when these are held: each of the five buttons unless
\* another button of this mouse comes out as the same (a seventh and an eighth do),
\* each key unless another key has its key code (on another keyboard layout two may
\* share one), and nothing that has no button or key down behind it.
PlayedBack(down) ==
  /\ \A b \in used.buttons \cap (1..5) :
       (\A l \in used.buttons \ {b} : PlayedAs(l) # XButton(b)) =>
         (XButton(b) \in remote.buttons <=> b \in down.buttons)
  /\ remote.buttons \subseteq {PlayedAs(b) : b \in down.buttons} \ {0}
  /\ \A k \in used.keys :
       (\A l \in used.keys \ {k} : Keycode(l) # Keycode(k)) /\ Keycode(k) # 0 =>
         (Keycode(k) \in remote.keys <=> k \in down.keys)
  /\ remote.keys \subseteq {Keycode(k) : k \in down.keys} \ {0}

\* When every message has been played back, the streamer's X server holds down
\* the buttons and keys that the handled events say are held: a button is released
\* as the one it was pressed as, whatever else its mask carries, no button turns
\* into a scroll, and a scroll leaves nothing pressed.  When SDL's
\* queue is empty as well, they are what the user holds, unless the poll loop has
\* dropped an event.
HeldAsSent ==
  wire = <<>> =>
    /\ PlayedBack(sentHeld)
    /\ events = <<>> /\ "input" \notin lost => PlayedBack(held)

\* A position is sent as the spot of the frame that the user points at, whichever
\* way the window was resized while the event was in SDL's queue, if no resize event
\* was lost and the last picture before the event was drawn in the window's size.
\* From a resize to the next picture it need not be in the frame at all.
PointerInside ==
  [][Len(wire') > Len(wire) /\ Head(events).type \in {"motion", "button_down", "button_up"}
       /\ AsPointed(Head(events))
       => /\ wire'[Len(wire')].x = SpotOf(Head(events))
          /\ wire'[Len(wire')].x \in 0..(frame_width - 1)]_vars

IsClick(message) ==
  /\ message.type = "MOUSE_INPUT"
  /\ message.button_mask # MOVE /\ ~isScrollMoved(message.button_mask)

\* Although the position of a click is not looked at, it is played back on the spot
\* the user points at: the pointer has been moved there before, unless since the last
\* motion that was sent, and as where the user pointed, one was held back for its
\* rate, dropped or sent as another spot, or the scale has changed.
ClickLands ==
  wire # <<>> /\ IsClick(Head(wire)) /\ Head(wire).exact =>
    remote.pointer = Head(wire).spot + x_org
=============================================================================
