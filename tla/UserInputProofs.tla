---------------------------- MODULE UserInputProofs ----------------------------
(***************************************************************************)
(* Theorems about UserInput, for any buttons, keys, keyboard maps, window  *)
(* sizes and bounds of the two queues: what is held at the streamer is     *)
(* what was sent; and, while the renderer's logical size is the window's,  *)
(* positions are sent as what the user points at, and a click lands there. *)
(***************************************************************************)
EXTENDS UserInput, TLAPS

ButtonTypes == {"button_down", "button_up"}
KeyTypes == {"key_down", "key_up"}

MouseTypes == ButtonTypes \cup {"motion"}

\* The positions in a mouse event: what SDL reports, and where the user points.
Pointed(e) == e.at < e.size.w /\ (e.aligned => e.x = e.at)

ButtonEvents(ids, sizes) ==
  [type : ButtonTypes, id : ids, x : Int, at : Nat, size : sizes, aligned : BOOLEAN]

MotionEvents(sizes) ==
  [type : {"motion"}, x : Int, at : Nat, size : sizes, aligned : BOOLEAN]

\* What is in SDL's queue when the user touches only what is in u.
Event(u) ==
  {e \in ButtonEvents(u.buttons, u.sizes) : Pointed(e)}
    \cup [type : KeyTypes, id : u.keys]
    \cup {e \in MotionEvents(u.sizes) : Pointed(e)}
    \cup [type : {"wheel"}, up : BOOLEAN]
    \cup [type : {"resized"}, size : u.sizes]
    \cup [type : {"quit"}]

Mask == SUBSET (0..31)

Message ==
  [type : {"MOUSE_INPUT"}, button_mask : Mask, x : Int, spot : Int, exact : BOOLEAN]
    \cup [type : {"KEYBOARD_INPUT"}, down : BOOLEAN, key : {SDLKeySymToX11(k) : k \in Key}]

TypeInv ==
  /\ TypeOK
  /\ events \in Seq(Event(used))
  /\ wire \in Seq(Message)
  /\ remote \in [buttons : SUBSET (1..9), keys : SUBSET (1..255), pointer : Int]
-----------------------------------------------------------------------------
(***************************************************************************)
(* Queues.                                                                 *)
(***************************************************************************)

\* An element joins a queue at its end.
LEMMA Appended ==
  ASSUME NEW S, NEW s \in Seq(S), NEW e \in S
  PROVE  /\ Append(s, e) \in Seq(S) /\ Len(Append(s, e)) = Len(s) + 1
         /\ \A i \in 1..Len(s) : Append(s, e)[i] = s[i]
         /\ Append(s, e)[Len(s) + 1] = e
OBVIOUS

\* The first element leaves it.
LEMMA Taken ==
  ASSUME NEW S, NEW s \in Seq(S), s # <<>>
  PROVE  /\ Tail(s) \in Seq(S) /\ Len(Tail(s)) = Len(s) - 1
         /\ Len(s) \in Nat \ {0}
         /\ \A i \in 1..(Len(s) - 1) : Tail(s)[i] = s[i + 1]
         /\ Head(s) = s[1] /\ Head(s) \in S
OBVIOUS

\* v is the value f gives to the last element before the i-th that it has one for,
\* or base if there is no such element.
Known(s, f, base, i, v) ==
  \/ \E j \in 1..(i - 1) :
       /\ s[j] \in DOMAIN f /\ v = f[s[j]]
       /\ \A k \in (j + 1)..(i - 1) : s[k] \notin DOMAIN f
  \/ v = base /\ \A k \in 1..(i - 1) : s[k] \notin DOMAIN f

\* Before the first element there is nothing.
LEMMA KnownFirst ==
  ASSUME NEW s, NEW f, NEW base
  PROVE  Known(s, f, base, 1, base)
BY DEF Known

\* What is known of an element does not depend on those that come after it.
LEMMA KnownBefore ==
  ASSUME NEW S, NEW s \in Seq(S), NEW e \in S, NEW f, NEW base,
         NEW i \in 1..(Len(s) + 1), NEW v, Known(Append(s, e), f, base, i, v)
  PROVE  Known(s, f, base, i, v)
<1>1. \A j \in 1..(i - 1) : Append(s, e)[j] = s[j]
  BY Appended
<1>2. QED
  BY <1>1 DEF Known

\* After the end the element that has joined counts, if it has a value.
LEMMA KnownAfter ==
  ASSUME NEW S, NEW s \in Seq(S), NEW e \in S, NEW f, NEW base, NEW v,
         Known(Append(s, e), f, base, Len(s) + 2, v)
  PROVE  IF e \in DOMAIN f THEN v = f[e] ELSE Known(s, f, base, Len(s) + 1, v)
<1> DEFINE t == Append(s, e)
<1>1. /\ Len(s) \in Nat
      /\ \A j \in 1..Len(s) : t[j] = s[j]
      /\ t[Len(s) + 1] = e
  BY Appended
<1> HIDE DEF t
<1>2. Known(t, f, base, Len(s) + 2, v)
  BY DEF t
<1>3. CASE e \in DOMAIN f
  BY <1>1, <1>2, <1>3 DEF Known
<1>4. CASE e \notin DOMAIN f
  BY <1>1, <1>2, <1>4 DEF Known
<1>5. QED
  BY <1>3, <1>4

\* When the first element leaves, its value, if it has one, is the new base.
LEMMA KnownTaken ==
  ASSUME NEW S, NEW s \in Seq(S), s # <<>>, NEW f, NEW base, NEW next,
         Head(s) \in DOMAIN f => next = f[Head(s)],
         Head(s) \notin DOMAIN f => next = base,
         NEW i \in 1..Len(s), NEW v, Known(Tail(s), f, next, i, v)
  PROVE  Known(s, f, base, i + 1, v)
<1> DEFINE t == Tail(s)
<1>1. /\ Len(s) \in Nat \ {0} /\ Head(s) = s[1]
      /\ \A j \in 1..(Len(s) - 1) : t[j] = s[j + 1]
  BY Taken
<1> HIDE DEF t
<1>2. CASE \E j \in 1..(i - 1) : /\ t[j] \in DOMAIN f /\ v = f[t[j]]
                                 /\ \A k \in (j + 1)..(i - 1) : t[k] \notin DOMAIN f
  <2>1. PICK j \in 1..(i - 1) : /\ t[j] \in DOMAIN f /\ v = f[t[j]]
                                /\ \A k \in (j + 1)..(i - 1) : t[k] \notin DOMAIN f
    BY <1>2
  <2>2. j + 1 \in 1..((i + 1) - 1) /\ s[j + 1] = t[j]
    BY <1>1, <2>1
  <2>3. ASSUME NEW k \in ((j + 1) + 1)..((i + 1) - 1) PROVE s[k] \notin DOMAIN f
    <3>1. k - 1 \in (j + 1)..(i - 1) /\ k - 1 \in 1..(Len(s) - 1) /\ (k - 1) + 1 = k
      BY <1>1, <2>1
    <3>2. QED
      BY <1>1, <2>1, <3>1
  <2>4. QED
    BY <2>1, <2>2, <2>3 DEF Known
<1>3. CASE v = next /\ \A k \in 1..(i - 1) : t[k] \notin DOMAIN f
  <2>1. ASSUME NEW k \in 2..((i + 1) - 1) PROVE s[k] \notin DOMAIN f
    <3>1. k - 1 \in 1..(i - 1) /\ k - 1 \in 1..(Len(s) - 1) /\ (k - 1) + 1 = k
      BY <1>1
    <3>2. QED
      BY <1>1, <1>3, <3>1
  <2>2. 1 \in 1..((i + 1) - 1)
    BY <1>1
  <2>3. CASE s[1] \in DOMAIN f
    <3>1. v = f[s[1]] /\ \A k \in (1 + 1)..((i + 1) - 1) : s[k] \notin DOMAIN f
      BY <1>1, <1>3, <2>1, <2>3
    <3>2. QED
      BY <2>2, <2>3, <3>1 DEF Known
  <2>4. CASE s[1] \notin DOMAIN f
    <3>1. v = base /\ \A k \in 1..((i + 1) - 1) : s[k] \notin DOMAIN f
      BY <1>1, <1>3, <2>1, <2>4
    <3>2. QED
      BY <3>1 DEF Known
  <2>5. QED
    BY <2>3, <2>4
<1>4. QED
  <2>1. Known(t, f, next, i, v)
    BY DEF t
  <2>2. QED
    BY <1>2, <1>3, <2>1 DEF Known

\* Whatever is known before the i-th element is in A.
Only(s, f, base, i, A) == \A v : Known(s, f, base, i, v) => v \in A

\* The four lemmas for it.
LEMMA OnlyFirst ==
  ASSUME NEW s, NEW f, NEW base, NEW A, Only(s, f, base, 1, A)
  PROVE  base \in A
BY KnownFirst DEF Only

LEMMA OnlyBefore ==
  ASSUME NEW S, NEW s \in Seq(S), NEW e \in S, NEW f, NEW base, NEW A,
         NEW i \in 1..(Len(s) + 1), Only(s, f, base, i, A)
  PROVE  Only(Append(s, e), f, base, i, A)
BY KnownBefore DEF Only

LEMMA OnlyAfter ==
  ASSUME NEW S, NEW s \in Seq(S), NEW e \in S, NEW f, NEW base, NEW A,
         e \in DOMAIN f => f[e] \in A,
         e \notin DOMAIN f => Only(s, f, base, Len(s) + 1, A)
  PROVE  Only(Append(s, e), f, base, Len(Append(s, e)) + 1, A)
<1>1. Len(Append(s, e)) + 1 = Len(s) + 2
  BY Appended
<1>2. QED
  BY <1>1, KnownAfter DEF Only

LEMMA OnlyTaken ==
  ASSUME NEW S, NEW s \in Seq(S), s # <<>>, NEW f, NEW base, NEW next, NEW A,
         Head(s) \in DOMAIN f => next = f[Head(s)],
         Head(s) \notin DOMAIN f => next = base
  PROVE  /\ \A i \in 1..Len(s) :
              Only(s, f, base, i + 1, A) => Only(Tail(s), f, next, i, A)
         /\ Only(s, f, base, Len(s) + 1, A) => Only(Tail(s), f, next, Len(Tail(s)) + 1, A)
<1>1. \A i \in 1..Len(s) : Only(s, f, base, i + 1, A) => Only(Tail(s), f, next, i, A)
  BY KnownTaken DEF Only
<1>2. Len(s) \in 1..Len(s) /\ Len(Tail(s)) + 1 = Len(s)
  BY Taken
<1>3. QED
  BY <1>1, <1>2
-----------------------------------------------------------------------------
(***************************************************************************)
(* Typing.                                                                 *)
(***************************************************************************)

\* A position is scaled to one in the frame if it was one in the window.
LEMMA ScaledInside ==
  ASSUME NEW x \in Nat, NEW f \in Nat \ {0}, NEW w \in Nat \ {0}
  PROVE  (x * f) \div w \in Nat /\ (x < w => (x * f) \div w < f)
<1> DEFINE q == (x * f) \div w
<1>1. x * f \in Nat
  OBVIOUS
<1>2. q \in Int /\ w * q <= x * f /\ x * f < w * (q + 1)
  BY <1>1
<1> HIDE DEF q
<1>3. q >= 0
  <2>1. SUFFICES ASSUME q + 1 <= 0 PROVE FALSE
    BY <1>2
  <2>2. w * (q + 1) <= 0
    BY <1>2, <2>1
  <2>3. QED
    BY <1>1, <1>2, <2>2
<1>4. ASSUME x < w PROVE q < f
  <2>1. SUFFICES ASSUME f <= q PROVE FALSE
    BY <1>2
  <2>2. w * f <= w * q
    BY <1>2, <2>1
  <2>3. x * f < w * f
    BY <1>4
  <2>4. x * f \in Int /\ w * f \in Int /\ w * q \in Int
    BY <1>2
  <2>5. QED
    BY <1>2, <2>2, <2>3, <2>4
<1>5. QED
  BY <1>2, <1>3, <1>4 DEF q

\* What is multiplied and divided by the same is itself.
LEMMA DividedBack ==
  ASSUME NEW x \in Nat, NEW w \in Nat \ {0}
  PROVE  (x * w) \div w = x
<1> DEFINE q == (x * w) \div w
<1>1. x * w \in Nat
  OBVIOUS
<1>2. q \in Int /\ w * q <= x * w /\ x * w < w * (q + 1)
  BY <1>1
<1> HIDE DEF q
<1>3. ~(q + 1 <= x)
  <2>1. SUFFICES ASSUME q + 1 <= x PROVE FALSE
    OBVIOUS
  <2>2. w * (q + 1) <= w * x
    BY <1>2, <2>1
  <2>3. QED
    BY <1>1, <1>2, <2>2
<1>4. ~(x + 1 <= q)
  <2>1. SUFFICES ASSUME x + 1 <= q PROVE FALSE
    OBVIOUS
  <2>2. w * (x + 1) <= w * q
    BY <1>2, <2>1
  <2>3. w * (x + 1) = x * w + w
    OBVIOUS
  <2>4. w * q \in Int
    BY <1>2
  <2>5. QED
    BY <1>1, <1>2, <2>2, <2>3, <2>4
<1>5. q = x
  BY <1>2, <1>3, <1>4
<1>6. QED
  BY <1>5 DEF q

\* A mask has the bits of a byte, or of an int for a button without a name.
LEMMA MaskTypes ==
  /\ \A b \in Button : convertToMask(b) \in Mask /\ setClicked(convertToMask(b)) \in Mask
  /\ MOVE \in Mask /\ SCROLL_UP_MASK \in Mask /\ SCROLL_DOWN_MASK \in Mask
<1>1. ASSUME NEW b \in Button PROVE convertToMask(b) \in Mask
  <2>1. b \in 1..32 /\ b - 1 \in 0..31
    BY ButtonAssumption
  <2>2. QED
    BY <2>1 DEF convertToMask, BACK_BUTTON_MASK, FORWARD_BUTTON_MASK, Mask
<1>2. QED
  BY <1>1 DEF setClicked, IS_CLICKED_MASK, MOVE, SCROLL_UP_MASK, SCROLL_DOWN_MASK, Mask

\* The X server is asked for one of the buttons 1 to 9, or for none.
LEMMA ExtractType ==
  ASSUME NEW mask
  PROVE  extractButtonID(mask) \in 0..9
BY DEF extractButtonID

\* The sizes of the window are positive.
LEMMA Widths ==
  ASSUME TypeOK
  PROVE  /\ size.w \in Nat \ {0} /\ size.h \in Nat \ {0}
         /\ window_size.w \in Nat \ {0} /\ frame_width \in Nat \ {0}
         /\ size \in used.sizes /\ used.sizes \subseteq WindowSize
         /\ \A s \in used.sizes : s.w \in Nat \ {0} /\ s.h \in Nat \ {0}
         /\ used.buttons \subseteq Button /\ used.keys \subseteq Key
<1>1. /\ size \in used.sizes /\ window_size \in used.sizes /\ used.sizes \subseteq WindowSize
      /\ used.buttons \subseteq Button /\ used.keys \subseteq Key
      /\ frame_width \in {InitialSize.w, FrameWidth}
  BY DEF TypeOK
<1>2. \A s \in WindowSize : s.w \in Nat \ {0} /\ s.h \in Nat \ {0}
  BY SizeAssumption
<1>3. QED
  BY <1>1, <1>2, SizeAssumption

\* Dividing as C++ does is dividing as TLA+ does for what is not negative.
LEMMA QuotientType ==
  ASSUME NEW a \in Int, NEW b \in Nat \ {0}
  PROVE  /\ QuotientTowardZero(a, b) \in Int
         /\ a \in Nat => QuotientTowardZero(a, b) = a \div b
BY DEF QuotientTowardZero

\* SDL reports an integer, and the user's own position if the logical size is the
\* window's or there is none.
LEMMA ReportedType ==
  ASSUME TypeOK, NEW x \in Nat
  PROVE  Reported(x) \in Int /\ (Aligned => Reported(x) = x)
<1>1. /\ size.w \in Nat \ {0} /\ size.h \in Nat \ {0}
      /\ logical # NoSize => logical.w \in Nat \ {0} /\ logical.h \in Nat \ {0}
  BY Widths DEF TypeOK
<1>2. CASE logical = NoSize
  BY <1>2 DEF Reported
<1>3. CASE logical # NoSize
  <2> DEFINE bar == (size.w - (logical.w * size.h) \div logical.h) \div 2
  <2>1. (logical.w * size.h) \div logical.h \in Int
    BY <1>1, <1>3
  <2>2. bar \in Int
    BY <1>1, <2>1
  <2> HIDE DEF bar
  <2>3. QuotientTowardZero((x - bar) * logical.h, size.h) \in Int
    <3>1. (x - bar) * logical.h \in Int
      BY <1>1, <1>3, <2>2
    <3>2. QED
      BY <1>1, <3>1, QuotientType
  <2>4. (x * logical.w) \div size.w \in Int
    BY <1>1, <1>3
  <2>5. Reported(x) = IF logical.w * size.h < size.w * logical.h
                      THEN QuotientTowardZero((x - bar) * logical.h, size.h)
                      ELSE (x * logical.w) \div size.w
    BY <1>3 DEF Reported, bar
  <2>6. ASSUME logical = size PROVE Reported(x) = x
    <3>1. Reported(x) = (x * size.w) \div size.w
      <4>1. ~(size.w * size.h < size.w * size.h)
        BY <1>1
      <4>2. QED
        BY <2>5, <2>6, <4>1
    <3>2. QED
      BY <1>1, <3>1, DividedBack
  <2>7. QED
    BY <1>3, <2>3, <2>4, <2>5, <2>6 DEF Aligned
<1>4. QED
  BY <1>2, <1>3

\* Init gives every variable a value of its type.
LEMMA TypeInit == Init => TypeInv
<1> SUFFICES ASSUME Init PROVE TypeInv
  OBVIOUS
<1>1. TypeOK
  <2>1. /\ Len(events) <= QueueBound /\ Len(wire) <= Window
        /\ events = <<>> /\ wire = <<>>
    BY BoundAssumption DEF Init
  <2>2. held \in Inputs /\ sentHeld \in Inputs
    BY DEF Init, Inputs, Nothing
  <2>3. remote.buttons = {} /\ remote.keys = {} /\ exact = FALSE /\ lost = {}
    BY DEF Init
  <2>4. QED
    BY <2>1, <2>2, <2>3 DEF Init, TypeOK
<1>2. QED
  BY <1>1 DEF Init, TypeInv, Outside

\* Nobody but the user changes what is used, held and pointed at.
LEMMA EnqueueType ==
  ASSUME TypeInv, NEW e \in Event(used), Enqueue(e),
         held' \in Inputs, size' \in used.sizes,
         pointer' \in {Outside} \cup 0..(size'.w - 1)
  PROVE  TypeInv'
<1>1. events' \in Seq(Event(used)) /\ Len(events') <= QueueBound
  <2>1. Len(events) \in Nat
    BY DEF TypeInv
  <2>2. QED
    BY <2>1, BoundAssumption, Appended DEF TypeInv, Enqueue
<1>2. UNCHANGED <<used, loop, window_size, logical, frame_width, wire, remote, sentHeld,
                  exact, lost>>
  BY DEF Enqueue, historyVars, viewerVars
<1>3. QED
  BY <1>1, <1>2 DEF TypeInv, TypeOK, Inputs

\* The user's events.
LEMMA UserEvent ==
  ASSUME TypeInv
  PROVE  /\ \A x \in 0..(size.w - 1) : MotionEvent(x) \in Event(used)
         /\ \A type \in ButtonTypes, b \in used.buttons :
              pointer # Outside => ButtonEvent(type, b) \in Event(used)
<1>1. /\ TypeOK /\ size.w \in Nat /\ size \in used.sizes
      /\ pointer \in {Outside} \cup 0..(size.w - 1) /\ Aligned \in BOOLEAN
  <2>1. TypeOK
    BY DEF TypeInv
  <2>2. size.w \in Nat /\ size \in used.sizes
    BY <2>1, Widths
  <2>3. pointer \in {Outside} \cup 0..(size.w - 1)
    BY <2>1 DEF TypeOK
  <2>4. Aligned \in BOOLEAN
    BY DEF Aligned
  <2>5. QED
    BY <2>1, <2>2, <2>3, <2>4
<1>2. ASSUME NEW x \in 0..(size.w - 1)
      PROVE  x \in Nat /\ x < size.w /\ Reported(x) \in Int /\ (Aligned => Reported(x) = x)
  BY <1>1, ReportedType
<1>3. ASSUME NEW x \in 0..(size.w - 1) PROVE MotionEvent(x) \in Event(used)
  BY <1>1, <1>2 DEF MotionEvent, Event, MotionEvents, Pointed
<1>4. ASSUME NEW type \in ButtonTypes, NEW b \in used.buttons, pointer # Outside
      PROVE  ButtonEvent(type, b) \in Event(used)
  BY <1>1, <1>2, <1>4 DEF ButtonEvent, Event, ButtonEvents, Pointed
<1>5. QED
  BY <1>3, <1>4

\* The user's steps keep the types.
LEMMA UserTypeStep ==
  ASSUME TypeInv,
         UserPresses \/ UserReleases \/ UserMoves \/ UserTurnsWheel \/ UserResizes
           \/ UserQuits
  PROVE  TypeInv'
<1> USE DEF Inputs
<1>0. TypeOK
  BY DEF TypeInv
<1>1. /\ held \in Inputs /\ size \in used.sizes
      /\ pointer \in {Outside} \cup 0..(size.w - 1)
  BY <1>0 DEF TypeOK
<1>2. CASE UserPresses
  <2>1. ASSUME NEW b \in used.buttons, pointer # Outside,
               held' = [held EXCEPT !.buttons = @ \cup {b}],
               Enqueue(ButtonEvent("button_down", b)),
               UNCHANGED <<pointer, size>>
        PROVE  TypeInv'
    <3>1. ButtonEvent("button_down", b) \in Event(used)
      BY <1>1, <2>1, UserEvent DEF ButtonTypes
    <3>2. held' \in Inputs
      BY <1>1, <2>1
    <3>3. QED
      BY <1>1, <2>1, <3>1, <3>2, EnqueueType
  <2>2. ASSUME NEW k \in used.keys, held' = [held EXCEPT !.keys = @ \cup {k}],
               Enqueue([type |-> "key_down", id |-> k]), UNCHANGED <<pointer, size>>
        PROVE  TypeInv'
    <3>1. [type |-> "key_down", id |-> k] \in Event(used)
      BY DEF Event, KeyTypes
    <3>2. held' \in Inputs
      BY <1>1, <2>2
    <3>3. QED
      BY <1>1, <2>2, <3>1, <3>2, EnqueueType
  <2>3. QED
    BY <1>2, <2>1, <2>2 DEF UserPresses
<1>3. CASE UserReleases
  <2>1. ASSUME NEW b \in held.buttons, pointer # Outside,
               held' = [held EXCEPT !.buttons = @ \ {b}],
               Enqueue(ButtonEvent("button_up", b)),
               UNCHANGED <<pointer, size>>
        PROVE  TypeInv'
    <3>1. ButtonEvent("button_up", b) \in Event(used)
      BY <1>1, <2>1, UserEvent DEF ButtonTypes
    <3>2. held' \in Inputs
      BY <1>1, <2>1
    <3>3. QED
      BY <1>1, <2>1, <3>1, <3>2, EnqueueType
  <2>2. ASSUME NEW k \in held.keys, held' = [held EXCEPT !.keys = @ \ {k}],
               Enqueue([type |-> "key_up", id |-> k]), UNCHANGED <<pointer, size>>
        PROVE  TypeInv'
    <3>1. [type |-> "key_up", id |-> k] \in Event(used)
      BY <1>1 DEF Event, KeyTypes
    <3>2. held' \in Inputs
      BY <1>1, <2>2
    <3>3. QED
      BY <1>1, <2>2, <3>1, <3>2, EnqueueType
  <2>3. QED
    BY <1>3, <2>1, <2>2 DEF UserReleases
<1>4. CASE UserMoves
  <2>1. PICK x \in 0..(size.w - 1) :
          /\ pointer' = x /\ Enqueue(MotionEvent(x))
          /\ UNCHANGED <<held, size>>
    BY <1>4 DEF UserMoves
  <2>2. MotionEvent(x) \in Event(used)
    BY UserEvent
  <2>3. QED
    BY <1>1, <2>1, <2>2, EnqueueType
<1>5. CASE UserTurnsWheel
  <2>1. PICK up \in BOOLEAN : Enqueue([type |-> "wheel", up |-> up]) /\ UNCHANGED userVars
    BY <1>5 DEF UserTurnsWheel
  <2>2. [type |-> "wheel", up |-> up] \in Event(used)
    BY <2>1 DEF Event
  <2>3. QED
    BY <1>1, <2>1, <2>2, EnqueueType DEF userVars
<1>6. CASE UserResizes
  <2>1. PICK s \in used.sizes :
          /\ size' = s /\ pointer' = Outside
          /\ Enqueue([type |-> "resized", size |-> s]) /\ UNCHANGED held
    BY <1>6 DEF UserResizes
  <2>2. [type |-> "resized", size |-> s] \in Event(used)
    BY <2>1 DEF Event
  <2>3. QED
    BY <1>1, <2>1, <2>2, EnqueueType
<1>7. CASE UserQuits
  <2>1. [type |-> "quit"] \in Event(used)
    BY DEF Event
  <2>2. QED
    BY <1>1, <1>7, <2>1, EnqueueType DEF UserQuits, userVars
<1>8. QED
  BY <1>2, <1>3, <1>4, <1>5, <1>6, <1>7

\* What the elements of the two queues carry.
LEMMA EventFields ==
  ASSUME NEW u, NEW e \in Event(u)
  PROVE  /\ e.type \in ButtonTypes => e.id \in u.buttons
         /\ e.type \in MouseTypes =>
              /\ e.x \in Int /\ e.at \in Nat /\ e.size \in u.sizes /\ e.aligned \in BOOLEAN
              /\ Pointed(e)
         /\ e.type \in KeyTypes => e.id \in u.keys
         /\ e.type = "wheel" => e.up \in BOOLEAN
         /\ e.type = "resized" => e.size \in u.sizes
BY DEF Event, ButtonEvents, MotionEvents, MouseTypes, ButtonTypes, KeyTypes

LEMMA MessageFields ==
  ASSUME NEW m \in Message
  PROVE  /\ m.type \in {"MOUSE_INPUT", "KEYBOARD_INPUT"}
         /\ m.type = "MOUSE_INPUT" =>
              /\ m.button_mask \in Mask /\ m.x \in Int /\ m.spot \in Int
              /\ m.exact \in BOOLEAN
         /\ m.type = "KEYBOARD_INPUT" =>
              m.down \in BOOLEAN /\ KeysymToKeycode[m.key] \in 0..255
BY KeyAssumption DEF Message

\* Polling takes the first event.
LEMMA PolledFacts ==
  ASSUME TypeInv, NEW types, Polled(types)
  PROVE  /\ events # <<>> /\ events' = Tail(events)
         /\ Head(events) \in Event(used) /\ Head(events).type \in types
         /\ events' \in Seq(Event(used)) /\ Len(events') <= QueueBound
         /\ loop = "poll"
         /\ UNCHANGED <<used, held, pointer, size, logical, frame_width, remote, lost>>
<1>1. events \in Seq(Event(used)) /\ Len(events) <= QueueBound
  BY DEF TypeInv, TypeOK
<1>2. events # <<>> /\ events' = Tail(events)
  BY DEF Polled
<1>3. Len(events) \in Nat \ {0} /\ Len(Tail(events)) = Len(events) - 1
  BY <1>1, <1>2, Taken
<1>4. QED
  BY <1>1, <1>2, <1>3, Taken, BoundAssumption DEF Polled, userVars

\* A message that is sent has had room.
LEMMA SendFacts ==
  ASSUME TypeInv, NEW message \in Message, Send(message)
  PROVE  wire' \in Seq(Message) /\ Len(wire') <= Window /\ wire' = Append(wire, message)
<1>1. wire \in Seq(Message) /\ Len(wire) \in Nat
  BY DEF TypeInv
<1>2. QED
  BY <1>1, Appended, BoundAssumption DEF Send

\* The messages the handlers send.
LEMMA MouseMessage ==
  ASSUME NEW mask \in Mask, NEW x \in Int
  PROVE  MouseInput(mask, x) \in Message
BY DEF MouseInput, Message

LEMMA ButtonMessage ==
  ASSUME TypeInv, NEW mask \in Mask, NEW x \in Int, NEW spot \in Int
  PROVE  ClickInput(mask, x, spot) \in Message
BY DEF ClickInput, Message, TypeInv, TypeOK

\* The positions they send.
LEMMA EventPositions ==
  ASSUME TypeInv, NEW e \in Event(used), e.type \in MouseTypes
  PROVE  /\ Scaled(e.x) \in Int /\ SpotOf(e) \in Int /\ SpotOf(e) \in 0..(frame_width - 1)
         /\ e.aligned /\ e.size = window_size => Scaled(e.x) = SpotOf(e)
<1>1. /\ window_size.w \in Nat \ {0} /\ frame_width \in Nat \ {0}
      /\ \A s \in used.sizes : s.w \in Nat \ {0}
  BY Widths DEF TypeInv
<1>2. /\ e.x \in Int /\ e.at \in Nat /\ e.size.w \in Nat \ {0} /\ e.at < e.size.w
      /\ e.aligned => e.x = e.at
  BY <1>1, EventFields DEF Pointed
<1>3. Scaled(e.x) \in Int
  <2>1. e.x * frame_width \in Int
    BY <1>1, <1>2
  <2>2. QED
    BY <1>1, <2>1, QuotientType DEF Scaled
<1>4. SpotOf(e) \in Nat /\ SpotOf(e) < frame_width
  BY <1>1, <1>2, ScaledInside DEF SpotOf
<1>5. ASSUME e.aligned, e.size = window_size
      PROVE  Scaled(e.x) = SpotOf(e)
  <2>1. e.x = e.at /\ e.at * frame_width \in Nat
    BY <1>1, <1>2, <1>5
  <2>2. QuotientTowardZero(e.at * frame_width, window_size.w)
          = (e.at * frame_width) \div window_size.w
    <3> DEFINE a == e.at * frame_width
    <3>1. a \in Nat /\ a \in Int
      BY <2>1
    <3> HIDE DEF a
    <3>2. QuotientTowardZero(a, window_size.w) = a \div window_size.w
      BY <1>1, <3>1, QuotientType
    <3>3. QED
      BY <3>2 DEF a
  <2>3. Scaled(e.x) = QuotientTowardZero(e.at * frame_width, window_size.w)
    BY <2>1 DEF Scaled
  <2>4. SpotOf(e) = (e.at * frame_width) \div window_size.w
    BY <1>5 DEF SpotOf
  <2>5. QED
    BY <2>2, <2>3, <2>4
<1>6. QED
  BY <1>1, <1>3, <1>4, <1>5

\* A handler keeps the types if what it changes does.
LEMMA HandlerType ==
  ASSUME TypeInv, NEW types, Polled(types),
         wire' \in Seq(Message), Len(wire') <= Window,
         sentHeld' \in Inputs, exact' \in BOOLEAN,
         loop' \in {"poll", "exited"}, window_size' \in used.sizes
  PROVE  TypeInv'
<1>1. /\ events' \in Seq(Event(used)) /\ Len(events') <= QueueBound
      /\ UNCHANGED <<used, held, pointer, size, logical, frame_width, remote, lost>>
  BY PolledFacts
<1>2. QED
  BY <1>1 DEF TypeInv, TypeOK, Inputs

\* The poll loop's handlers keep the types.
LEMMA HandlerTypeStep ==
  ASSUME TypeInv,
         HandleMotion \/ HandleWheel \/ HandleButton \/ HandleKey \/ HandleResized
           \/ HandleQuit
  PROVE  TypeInv'
<1> DEFINE e == Head(events)
<1>0. /\ wire \in Seq(Message) /\ Len(wire) <= Window /\ sentHeld \in Inputs
      /\ exact \in BOOLEAN /\ window_size \in used.sizes /\ TypeOK
      /\ used.buttons \subseteq Button /\ used.keys \subseteq Key
  BY Widths DEF TypeInv, TypeOK
<1>1. CASE HandleMotion
  <2>1. /\ Polled({"motion"}) /\ UNCHANGED <<loop, window_size, sentHeld>>
        /\ exact' \in {AsPointed(e), FALSE}
        /\ Send(MouseInput(MOVE, Scaled(e.x))) \/ UNCHANGED wire
    BY <1>1 DEF HandleMotion
  <2>2. e \in Event(used) /\ e.type = "motion" /\ loop = "poll"
    BY <2>1, PolledFacts
  <2>3. /\ MouseInput(MOVE, Scaled(e.x)) \in Message
        /\ AsPointed(e) \in BOOLEAN
    BY <2>2, EventPositions, EventFields, MouseMessage, MaskTypes DEF MouseTypes, AsPointed
  <2>4. wire' \in Seq(Message) /\ Len(wire') <= Window
    BY <1>0, <2>1, <2>3, SendFacts
  <2>5. QED
    BY <1>0, <2>1, <2>2, <2>3, <2>4, HandlerType
<1>2. CASE HandleWheel
  <2> DEFINE mask == IF e.up THEN SCROLL_UP_MASK ELSE SCROLL_DOWN_MASK
  <2>1. /\ Polled({"wheel"}) /\ UNCHANGED <<loop, window_size, sentHeld, exact>>
        /\ Send(MouseInput(mask, 0))
    BY <1>2 DEF HandleWheel
  <2>2. mask \in Mask
    BY MaskTypes
  <2>3. MouseInput(mask, 0) \in Message
    BY <2>2, MouseMessage
  <2>4. wire' \in Seq(Message) /\ Len(wire') <= Window /\ loop = "poll"
    BY <2>1, <2>3, SendFacts, PolledFacts
  <2>5. QED
    BY <1>0, <2>1, <2>4, HandlerType
<1>3. CASE HandleButton
  <2> DEFINE down == e.type = "button_down"
             mask == IF down THEN setClicked(convertToMask(e.id)) ELSE convertToMask(e.id)
  <2>1. /\ Polled(ButtonTypes) /\ UNCHANGED <<loop, window_size, exact>>
        /\ Send(ClickInput(mask, Scaled(e.x), SpotOf(e)))
        /\ sentHeld' = [sentHeld EXCEPT !.buttons = IF down THEN @ \cup {e.id} ELSE @ \ {e.id}]
    BY <1>3 DEF HandleButton, ButtonTypes
  <2>2. e \in Event(used) /\ e.type \in ButtonTypes /\ loop = "poll"
    BY <2>1, PolledFacts
  <2>3. e.id \in used.buttons /\ Scaled(e.x) \in Int /\ SpotOf(e) \in Int
    BY <2>2, EventFields, EventPositions DEF MouseTypes
  <2>4. mask \in Mask
    BY <1>0, <2>3, MaskTypes
  <2>5. ClickInput(mask, Scaled(e.x), SpotOf(e)) \in Message
    BY <2>3, <2>4, ButtonMessage
  <2>6. wire' \in Seq(Message) /\ Len(wire') <= Window
    BY <2>1, <2>5, SendFacts
  <2>7. sentHeld' \in Inputs
    BY <1>0, <2>1, <2>3 DEF Inputs
  <2>8. QED
    BY <1>0, <2>1, <2>2, <2>6, <2>7, HandlerType
<1>4. CASE HandleKey
  <2> DEFINE down == e.type = "key_down"
             msg == [type |-> "KEYBOARD_INPUT", down |-> down, key |-> SDLKeySymToX11(e.id)]
  <2>1. /\ Polled(KeyTypes) /\ UNCHANGED <<loop, window_size, exact>>
        /\ Send(msg)
        /\ sentHeld' = [sentHeld EXCEPT !.keys = IF down THEN @ \cup {e.id} ELSE @ \ {e.id}]
    BY <1>4 DEF HandleKey, KeyTypes
  <2>2. e \in Event(used) /\ e.type \in KeyTypes /\ loop = "poll"
    BY <2>1, PolledFacts
  <2>3. e.id \in used.keys
    BY <2>2, EventFields
  <2>4. msg \in Message
    <3>1. SDLKeySymToX11(e.id) \in {SDLKeySymToX11(k) : k \in Key}
      BY <1>0, <2>3
    <3>2. QED
      BY <3>1 DEF Message
  <2>5. wire' \in Seq(Message) /\ Len(wire') <= Window
    BY <2>1, <2>4, SendFacts
  <2>6. sentHeld' \in Inputs
    BY <1>0, <2>1, <2>3 DEF Inputs
  <2>7. QED
    BY <1>0, <2>1, <2>2, <2>5, <2>6, HandlerType
<1>5. CASE HandleResized
  <2>1. /\ Polled({"resized"}) /\ UNCHANGED <<loop, wire, sentHeld>>
        /\ exact' = FALSE /\ window_size' = e.size
    BY <1>5 DEF HandleResized
  <2>2. e \in Event(used) /\ e.type = "resized" /\ loop = "poll"
    BY <2>1, PolledFacts
  <2>3. e.size \in used.sizes
    BY <2>2, EventFields
  <2>4. QED
    BY <1>0, <2>1, <2>2, <2>3, HandlerType
<1>6. CASE HandleQuit
  <2>1. /\ Polled({"quit"}) /\ loop' = "exited"
        /\ UNCHANGED <<window_size, wire, sentHeld, exact>>
    BY <1>6 DEF HandleQuit
  <2>2. QED
    BY <1>0, <2>1, HandlerType
<1>7. QED
  BY <1>1, <1>2, <1>3, <1>4, <1>5, <1>6

\* So do the loop's other steps.
LEMMA LoopTypeStep ==
  ASSUME TypeInv, ReceiveFrame \/ PollNothing \/ PollTimeout
  PROVE  TypeInv'
<1> USE DEF userVars, viewerVars, historyVars, Inputs
<1>1. CASE ReceiveFrame
  <2>1. /\ frame_width' \in {InitialSize.w, FrameWidth} /\ exact' \in BOOLEAN
        /\ loop' = "poll" /\ logical' \in {NoSize} \cup used.sizes
        /\ UNCHANGED <<userVars, events, window_size, wire, remote, sentHeld, lost>>
    BY <1>1 DEF ReceiveFrame, decode, TypeInv, TypeOK
  <2>2. QED
    BY <2>1 DEF TypeInv, TypeOK
<1>2. CASE PollNothing
  BY <1>2 DEF PollNothing, TypeInv, TypeOK
<1>3. CASE PollTimeout
  <2>1. events \in Seq(Event(used)) /\ Len(events) <= QueueBound /\ exact \in BOOLEAN
    BY DEF TypeInv, TypeOK
  <2>2. /\ events # <<>> /\ events' = Tail(events) /\ loop' = "receive"
        /\ lost' \subseteq lost \cup {"resized", "input"} /\ exact' \in BOOLEAN
        /\ UNCHANGED <<userVars, viewerVars, wire, remote, sentHeld>>
    BY <1>3 DEF PollTimeout
  <2>3. events' \in Seq(Event(used)) /\ Len(events') <= QueueBound
    <3>1. Len(events) \in Nat \ {0} /\ Len(Tail(events)) = Len(events) - 1
      BY <2>1, <2>2, Taken
    <3>2. QED
      BY <2>1, <2>2, <3>1, Taken, BoundAssumption
  <2>4. QED
    BY <2>2, <2>3 DEF TypeInv, TypeOK
<1>4. QED
  BY <1>1, <1>2, <1>3

\* What a message asks of X button x, and of key code c: nothing, if it is not in
\* the function's domain.  What it asks of the pointer.
At(set, x) == IF x \in set THEN "down" ELSE "up"

ButtonOrder(x) ==
  [m \in {n \in Message : /\ n.type = "MOUSE_INPUT" /\ n.button_mask # MOVE
                          /\ ~isScrollMoved(n.button_mask)
                          /\ extractButtonID(n.button_mask) = x}
     |-> IF isClicked(m.button_mask) THEN "down" ELSE "up"]

KeyOrder(c) ==
  [m \in {n \in Message : n.type = "KEYBOARD_INPUT" /\ KeysymToKeycode[n.key] = c}
     |-> IF m.down THEN "down" ELSE "up"]

MoveOrder ==
  [m \in {n \in Message : n.type = "MOUSE_INPUT" /\ n.button_mask = MOVE} |-> m.x + x_org]

\* Playing back takes the first message.
LEMMA PlaysFacts ==
  ASSUME TypeInv, NEW type, Plays(type)
  PROVE  /\ wire # <<>> /\ wire' = Tail(wire)
         /\ Head(wire) \in Message /\ Head(wire).type = type
         /\ wire' \in Seq(Message) /\ Len(wire') <= Window
         /\ UNCHANGED <<used, held, pointer, size, events, loop, window_size, logical,
                        frame_width, sentHeld, exact, lost>>
<1>1. wire \in Seq(Message) /\ Len(wire) <= Window
  BY DEF TypeInv, TypeOK
<1>2. wire # <<>> /\ wire' = Tail(wire)
  BY DEF Plays
<1>3. Len(wire) \in Nat \ {0} /\ Len(Tail(wire)) = Len(wire) - 1
  BY <1>1, <1>2, Taken
<1>4. QED
  BY <1>1, <1>2, <1>3, Taken, BoundAssumption DEF Plays, userVars, viewerVars, historyVars

LEMMA PlayedType ==
  ASSUME TypeInv, NEW type, Plays(type),
         remote' \in [buttons : SUBSET (1..9), keys : SUBSET (1..255), pointer : Int]
  PROVE  TypeInv'
<1>1. /\ wire' \in Seq(Message) /\ Len(wire') <= Window
      /\ UNCHANGED <<used, held, pointer, size, events, loop, window_size, logical,
                     frame_width, sentHeld, exact, lost>>
  BY PlaysFacts
<1>2. remote'.buttons \in SUBSET (1..9) /\ remote'.keys \in SUBSET (1..255)
  OBVIOUS
<1>3. TypeOK'
  BY <1>1, <1>2 DEF TypeInv, TypeOK, Inputs
<1>4. events' \in Seq(Event(used))'
  BY <1>1 DEF TypeInv
<1>5. QED
  BY <1>1, <1>3, <1>4 DEF TypeInv

\* The X server does what the message asks, and no more.
LEMMA MouseEffect ==
  ASSUME TypeInv, handleMouseEvent
  PROVE  /\ remote' \in [buttons : SUBSET (1..9), keys : SUBSET (1..255), pointer : Int]
         /\ remote'.keys = remote.keys
         /\ \A x \in 1..9 :
              /\ Head(wire) \in DOMAIN ButtonOrder(x) =>
                   At(remote'.buttons, x) = ButtonOrder(x)[Head(wire)]
              /\ Head(wire) \notin DOMAIN ButtonOrder(x) =>
                   At(remote'.buttons, x) = At(remote.buttons, x)
         /\ Head(wire) \in DOMAIN MoveOrder => remote'.pointer = MoveOrder[Head(wire)]
         /\ Head(wire) \notin DOMAIN MoveOrder => remote'.pointer = remote.pointer
<1> DEFINE m == Head(wire)
           mask == m.button_mask
           button == extractButtonID(mask)
<1>1. /\ m \in Message /\ m.type = "MOUSE_INPUT" /\ m.x \in Int
      /\ remote \in [buttons : SUBSET (1..9), keys : SUBSET (1..255), pointer : Int]
  BY PlaysFacts, MessageFields DEF handleMouseEvent, TypeInv
<1>2. button \in 0..9
  BY ExtractType
<1>3. /\ m \in DOMAIN MoveOrder <=> mask = MOVE
      /\ mask = MOVE => MoveOrder[m] = m.x + x_org
  BY <1>1 DEF MoveOrder
<1>4. ASSUME NEW x \in 1..9
      PROVE  /\ m \in DOMAIN ButtonOrder(x) <=>
                  mask # MOVE /\ ~isScrollMoved(mask) /\ button = x
             /\ m \in DOMAIN ButtonOrder(x) =>
                  ButtonOrder(x)[m] = IF isClicked(mask) THEN "down" ELSE "up"
  BY <1>1 DEF ButtonOrder
<1>5. remote' =
        CASE mask = MOVE -> [remote EXCEPT !.pointer = m.x + x_org]
          [] mask # MOVE /\ (isScrollMoved(mask) \/ button = 0) -> remote
          [] OTHER -> [remote EXCEPT !.buttons = Fake(@, button, isClicked(mask))]
  BY DEF handleMouseEvent
<1> HIDE DEF button, mask, m
<1>6. CASE mask = MOVE
  <2>1. remote' = [remote EXCEPT !.pointer = m.x + x_org] /\ m.x + x_org \in Int
    BY <1>1, <1>5, <1>6, OriginAssumption
  <2>2. remote'.buttons = remote.buttons /\ remote'.keys = remote.keys
        /\ remote'.pointer = m.x + x_org
    BY <1>1, <2>1
  <2>3. QED
    BY <1>1, <1>3, <1>4, <1>6, <2>1, <2>2 DEF m
<1>7. CASE mask # MOVE /\ (isScrollMoved(mask) \/ button = 0)
  <2>1. remote' = remote
    BY <1>5, <1>7
  <2>2. \A x \in 1..9 : m \notin DOMAIN ButtonOrder(x)
    BY <1>4, <1>7
  <2>3. QED
    BY <1>1, <1>3, <1>7, <2>1, <2>2 DEF m
<1>8. CASE mask # MOVE /\ ~isScrollMoved(mask) /\ button # 0
  <2>1. remote' = [remote EXCEPT !.buttons = Fake(@, button, isClicked(mask))]
    BY <1>5, <1>8
  <2>2. /\ remote'.buttons = Fake(remote.buttons, button, isClicked(mask))
        /\ remote'.keys = remote.keys /\ remote'.pointer = remote.pointer
    BY <1>1, <2>1
  <2>3. Fake(remote.buttons, button, isClicked(mask)) \in SUBSET (1..9)
    BY <1>1, <1>2, <1>8 DEF Fake
  <2>4. ASSUME NEW x \in 1..9
        PROVE  At(remote'.buttons, x) =
                 IF button = x THEN IF isClicked(mask) THEN "down" ELSE "up"
                               ELSE At(remote.buttons, x)
    BY <2>2 DEF Fake, At
  <2>5. remote' \in [buttons : SUBSET (1..9), keys : SUBSET (1..255), pointer : Int]
    BY <1>1, <2>1, <2>3
  <2>6. QED
    BY <1>3, <1>4, <1>8, <2>2, <2>4, <2>5 DEF m
<1>9. QED
  BY <1>6, <1>7, <1>8

LEMMA KeyboardEffect ==
  ASSUME TypeInv, handleKeyboardEvent
  PROVE  /\ remote' \in [buttons : SUBSET (1..9), keys : SUBSET (1..255), pointer : Int]
         /\ remote'.buttons = remote.buttons /\ remote'.pointer = remote.pointer
         /\ \A c \in 1..255 :
              /\ Head(wire) \in DOMAIN KeyOrder(c) =>
                   At(remote'.keys, c) = KeyOrder(c)[Head(wire)]
              /\ Head(wire) \notin DOMAIN KeyOrder(c) =>
                   At(remote'.keys, c) = At(remote.keys, c)
<1> DEFINE m == Head(wire)
           keycode == KeysymToKeycode[m.key]
<1>1. /\ m \in Message /\ m.type = "KEYBOARD_INPUT" /\ keycode \in 0..255
      /\ remote \in [buttons : SUBSET (1..9), keys : SUBSET (1..255), pointer : Int]
  <2>1. m \in Message /\ m.type = "KEYBOARD_INPUT"
    BY PlaysFacts DEF handleKeyboardEvent, TypeInv
  <2>2. keycode \in 0..255
    BY <2>1, MessageFields
  <2>3. remote \in [buttons : SUBSET (1..9), keys : SUBSET (1..255), pointer : Int]
    BY DEF TypeInv
  <2>4. QED
    BY <2>1, <2>2, <2>3
<1>2. ASSUME NEW c \in 1..255
      PROVE  /\ m \in DOMAIN KeyOrder(c) <=> keycode = c
             /\ m \in DOMAIN KeyOrder(c) =>
                  KeyOrder(c)[m] = IF m.down THEN "down" ELSE "up"
  <2>1. m \in DOMAIN KeyOrder(c) <=> keycode = c
    BY <1>1 DEF KeyOrder
  <2>2. m \in DOMAIN KeyOrder(c) =>
          KeyOrder(c)[m] = IF m.down THEN "down" ELSE "up"
    BY DEF KeyOrder
  <2>3. QED
    BY <2>1, <2>2
<1>3. remote' = IF keycode = 0 THEN remote
                ELSE [remote EXCEPT !.keys = Fake(@, keycode, m.down)]
  BY DEF handleKeyboardEvent
<1> HIDE DEF keycode, m
<1>4. CASE keycode = 0
  <2>1. remote' = remote
    BY <1>3, <1>4
  <2>2. \A c \in 1..255 : m \notin DOMAIN KeyOrder(c)
    BY <1>2, <1>4
  <2>3. QED
    BY <1>1, <2>1, <2>2 DEF m
<1>5. CASE keycode # 0
  <2>1. remote' = [remote EXCEPT !.keys = Fake(@, keycode, m.down)]
    BY <1>3, <1>5
  <2>2. /\ remote'.keys = Fake(remote.keys, keycode, m.down)
        /\ remote'.buttons = remote.buttons /\ remote'.pointer = remote.pointer
    BY <1>1, <2>1
  <2>3. Fake(remote.keys, keycode, m.down) \in SUBSET (1..255)
    BY <1>1, <1>5 DEF Fake
  <2>4. ASSUME NEW c \in 1..255
        PROVE  At(remote'.keys, c) =
                 IF keycode = c THEN IF m.down THEN "down" ELSE "up"
                                ELSE At(remote.keys, c)
    <3>1. /\ c \in remote'.keys <=> c \in Fake(remote.keys, keycode, m.down)
          /\ At(remote'.keys, c) = IF c \in remote'.keys THEN "down" ELSE "up"
          /\ At(remote.keys, c) = IF c \in remote.keys THEN "down" ELSE "up"
      BY <2>2 DEF At
    <3>2. c \in Fake(remote.keys, keycode, m.down) <=>
            IF keycode = c THEN m.down ELSE c \in remote.keys
      BY DEF Fake
    <3>3. QED
      BY <3>1, <3>2
  <2>5. remote' \in [buttons : SUBSET (1..9), keys : SUBSET (1..255), pointer : Int]
    BY <1>1, <2>1, <2>3
  <2>6. \A c \in 1..255 :
           /\ m \in DOMAIN KeyOrder(c) => At(remote'.keys, c) = KeyOrder(c)[m]
           /\ m \notin DOMAIN KeyOrder(c) => At(remote'.keys, c) = At(remote.keys, c)
    BY <1>2, <2>4
  <2>7. QED
    BY <2>2, <2>5, <2>6 DEF m
<1>6. QED
  BY <1>4, <1>5

\* Every step keeps the types.
LEMMA TypeStep ==
  ASSUME TypeInv, [Next]_vars
  PROVE  TypeInv'
<1>1. CASE handleMouseEvent
  <2>1. Plays("MOUSE_INPUT")
    BY <1>1 DEF handleMouseEvent
  <2>2. QED
    BY <1>1, <2>1, PlayedType, MouseEffect
<1>2. CASE handleKeyboardEvent
  <2>1. Plays("KEYBOARD_INPUT")
    BY <1>2 DEF handleKeyboardEvent
  <2>2. QED
    BY <1>2, <2>1, PlayedType, KeyboardEffect
<1>3. CASE UNCHANGED vars
  BY <1>3 DEF vars, userVars, viewerVars, historyVars, TypeInv, TypeOK, Inputs
<1>4. QED
  BY <1>1, <1>2, <1>3, UserTypeStep, LoopTypeStep, HandlerTypeStep DEF Next

\* Every variable keeps its type: the streamer's X server is asked for no button
\* and no key code that X11 does not have.
THEOREM InputTypeCorrect == Spec => []TypeOK
<1>1. TypeInv /\ [Next]_vars => TypeInv'
  BY TypeStep
<1>2. TypeInv => TypeOK
  BY DEF TypeInv
<1>3. QED
  BY TypeInit, <1>1, <1>2, PTL DEF Spec

-----------------------------------------------------------------------------
(***************************************************************************)
(* What is held.                                                           *)
(***************************************************************************)

\* What may be the last word about x, which the members of "all" are played back
\* as going by "as", when those in "down" are held: if it is "down", one of them is
\* behind it, and if it is "up", each of them shares x with another.
Words(down, all, as, x) ==
  {v \in {"down", "up"} :
     /\ v = "down" => \E b \in down : as[b] = x
     /\ v = "up" => \A b \in down : as[b] = x => \E l \in all \ {b} : as[l] = x}

AsButton == [b \in Button |-> PlayedAs(b)]
AsKey == [k \in Key |-> Keycode(k)]

\* The last message about an X button or a key code, or the X server if there is
\* none, goes by what the handled events say is held.
SentButtons ==
  \A x \in 1..9 :
    Only(wire, ButtonOrder(x), At(remote.buttons, x), Len(wire) + 1,
         Words(sentHeld.buttons, used.buttons, AsButton, x))

SentKeys ==
  \A c \in 1..255 :
    Only(wire, KeyOrder(c), At(remote.keys, c), Len(wire) + 1,
         Words(sentHeld.keys, used.keys, AsKey, c))

\* The last event of a button or a key, or else what has been handled, is what the
\* user does with it, unless an event was dropped.
ButtonPress(b) ==
  [e \in ButtonEvents({b}, WindowSize) |->
     IF e.type = "button_down" THEN "down" ELSE "up"]

KeyPress(k) ==
  [e \in [type : KeyTypes, id : {k}] |-> IF e.type = "key_down" THEN "down" ELSE "up"]

QueuedButtons ==
  "input" \notin lost =>
    \A b \in used.buttons :
      Only(events, ButtonPress(b), At(sentHeld.buttons, b), Len(events) + 1,
           {At(held.buttons, b)})

QueuedKeys ==
  "input" \notin lost =>
    \A k \in used.keys :
      Only(events, KeyPress(k), At(sentHeld.keys, k), Len(events) + 1,
           {At(held.keys, k)})

HeldInv == SentButtons /\ SentKeys /\ QueuedButtons /\ QueuedKeys

\* Pressing or releasing b says so of what b is played back as, and nothing of
\* anything else.
LEMMA WordsChange ==
  ASSUME NEW down, NEW all, NEW as, NEW x, NEW b \in all
  PROVE  /\ as[b] = x => /\ "down" \in Words(down \cup {b}, all, as, x)
                         /\ "up" \in Words(down \ {b}, all, as, x)
         /\ as[b] # x => /\ Words(down, all, as, x) \subseteq Words(down \cup {b}, all, as, x)
                         /\ Words(down, all, as, x) \subseteq Words(down \ {b}, all, as, x)
BY DEF Words

\* A button's mask is played back as that button, pressed if it was marked as
\* clicked: it is no motion and no scroll.
LEMMA ButtonMask ==
  ASSUME NEW b \in Button, NEW mask \in {convertToMask(b), setClicked(convertToMask(b))}
  PROVE  /\ mask # MOVE /\ ~isScrollMoved(mask)
         /\ extractButtonID(mask) = PlayedAs(b)
         /\ PlayedAs(b) # 0 => (isClicked(mask) <=> mask = setClicked(convertToMask(b)))
<1> USE DEF BACK_BUTTON_MASK, FORWARD_BUTTON_MASK, IS_CLICKED_MASK, SCROLL_UP_MASK,
            SCROLL_DOWN_MASK, MOVE, isScrollMoved, isClicked, setClicked
<1>1. PICK n \in 0..31 : convertToMask(b) = {n} /\ n \notin {3, 4}
  <2>1. b \in 1..32
    BY ButtonAssumption
  <2>2. CASE b = 4
    BY <2>2 DEF convertToMask
  <2>3. CASE b = 5
    BY <2>3 DEF convertToMask
  <2>4. CASE b \notin {4, 5}
    <3>1. convertToMask(b) = {b - 1}
      BY <2>4 DEF convertToMask
    <3>2. QED
      BY <2>1, <2>4, <3>1
  <2>5. QED
    BY <2>2, <2>3, <2>4
<1>2. mask \in {{n}, {n, 5}}
  BY <1>1
<1>3. PlayedAs(b) = extractButtonID({n})
  BY <1>1 DEF PlayedAs
<1>4. mask # MOVE /\ ~isScrollMoved(mask)
  BY <1>1, <1>2
<1>5. extractButtonID({n, 5}) = extractButtonID({n})
  BY DEF extractButtonID
<1>6. n = 5 => extractButtonID({n}) = 0
  BY DEF extractButtonID
<1>7. n # 5 => (isClicked(mask) <=> mask = {n, 5})
  BY <1>2
<1>8. QED
  BY <1>1, <1>2, <1>3, <1>4, <1>5, <1>6, <1>7

\* Who asks for what.
LEMMA Orders ==
  ASSUME NEW m \in Message
  PROVE  /\ m.type = "MOUSE_INPUT" => \A c : m \notin DOMAIN KeyOrder(c)
         /\ m.type = "KEYBOARD_INPUT" =>
              /\ \A x : m \notin DOMAIN ButtonOrder(x)
              /\ m \notin DOMAIN MoveOrder
         /\ m.type = "MOUSE_INPUT" /\ (m.button_mask = MOVE \/ isScrollMoved(m.button_mask)) =>
              \A x : m \notin DOMAIN ButtonOrder(x)
         /\ m.type = "MOUSE_INPUT" /\ m.button_mask # MOVE => m \notin DOMAIN MoveOrder
BY DEF KeyOrder, ButtonOrder, MoveOrder

\* At the start nothing is held.
LEMMA HeldInit ==
  ASSUME Init
  PROVE  HeldInv
<1>1. wire = <<>> /\ events = <<>> /\ remote.buttons = {} /\ remote.keys = {}
      /\ sentHeld.buttons = {} /\ sentHeld.keys = {}
      /\ held.buttons = {} /\ held.keys = {}
  BY DEF Init, Nothing
<1>2. \A x, all, as : "up" \in Words({}, all, as, x)
  BY DEF Words
<1>3. \A f, v : Known(<<>>, f, "up", Len(<<>>) + 1, v) => v = "up"
  BY DEF Known
<1>4. QED
  BY <1>1, <1>2, <1>3
     DEF HeldInv, SentButtons, SentKeys, QueuedButtons, QueuedKeys, Only, At

\* A message that asks for nothing, and what was sent before it.
LEMMA SentOther ==
  ASSUME TypeInv, NEW message \in Message, Send(message),
         UNCHANGED <<remote, used>>
  PROVE  /\ /\ \A x \in 1..9 : message \notin DOMAIN ButtonOrder(x)
            /\ sentHeld'.buttons = sentHeld.buttons /\ SentButtons
            => SentButtons'
         /\ /\ \A c \in 1..255 : message \notin DOMAIN KeyOrder(c)
            /\ sentHeld'.keys = sentHeld.keys /\ SentKeys
            => SentKeys'
<1>1. wire \in Seq(Message) /\ wire' = Append(wire, message)
  BY SendFacts DEF TypeInv
<1>2. ASSUME \A x \in 1..9 : message \notin DOMAIN ButtonOrder(x),
             sentHeld'.buttons = sentHeld.buttons, SentButtons
      PROVE  SentButtons'
  BY <1>1, <1>2, OnlyAfter DEF SentButtons
<1>3. ASSUME \A c \in 1..255 : message \notin DOMAIN KeyOrder(c),
             sentHeld'.keys = sentHeld.keys, SentKeys
      PROVE  SentKeys'
  BY <1>1, <1>3, OnlyAfter DEF SentKeys
<1>4. QED
  BY <1>2, <1>3

\* The message of a button is the last word about what it is played back as.
LEMMA SentButton ==
  ASSUME TypeInv, SentButtons, SentKeys, HandleButton
  PROVE  SentButtons' /\ SentKeys'
<1> DEFINE e == Head(events)
           b == e.id
           down == e.type = "button_down"
           mask == IF down THEN setClicked(convertToMask(b)) ELSE convertToMask(b)
           message == ClickInput(mask, Scaled(e.x), SpotOf(e))
<1>1. /\ Polled(ButtonTypes) /\ Send(message)
      /\ sentHeld' = [sentHeld EXCEPT !.buttons = IF down THEN @ \cup {b} ELSE @ \ {b}]
  BY DEF HandleButton, ButtonTypes
<1>2. /\ e \in Event(used) /\ e.type \in ButtonTypes
      /\ UNCHANGED <<used, remote>>
  BY <1>1, PolledFacts
<1>3. /\ b \in used.buttons /\ b \in Button
      /\ Scaled(e.x) \in Int /\ SpotOf(e) \in Int
  BY <1>2, EventFields, EventPositions, Widths DEF TypeInv, MouseTypes
<1>4. mask \in {convertToMask(b), setClicked(convertToMask(b))} /\ mask \in Mask
  BY <1>3, MaskTypes
<1>5. message \in Message /\ message.type = "MOUSE_INPUT" /\ message.button_mask = mask
  BY <1>3, <1>4, ButtonMessage DEF ClickInput
<1>6. sentHeld \in [buttons : SUBSET used.buttons, keys : SUBSET used.keys]
  BY DEF TypeInv, TypeOK, Inputs
<1>7. /\ sentHeld'.buttons = IF down THEN sentHeld.buttons \cup {b} ELSE sentHeld.buttons \ {b}
      /\ sentHeld'.keys = sentHeld.keys
  BY <1>1, <1>6
<1>8. convertToMask(b) # setClicked(convertToMask(b)) \/ PlayedAs(b) = 0
  <2>1. CASE PlayedAs(b) # 0
    <3>1. isClicked(setClicked(convertToMask(b)))
      BY <1>3, <2>1, ButtonMask
    <3>2. SUFFICES ASSUME convertToMask(b) = setClicked(convertToMask(b)) PROVE FALSE
      OBVIOUS
    <3>3. 5 \in convertToMask(b)
      BY <3>2 DEF setClicked, IS_CLICKED_MASK
    <3>4. b \in 1..32
      BY <1>3, ButtonAssumption
    <3>5. convertToMask(b) = {5}
      BY <3>3, <3>4 DEF convertToMask, BACK_BUTTON_MASK, FORWARD_BUTTON_MASK
    <3>6. extractButtonID({5}) = 0
      BY DEF extractButtonID
    <3>7. QED
      BY <2>1, <3>5, <3>6 DEF PlayedAs
  <2>2. QED
    BY <2>1
<1> HIDE DEF message, mask, down, b, e
<1>9. PlayedAs(b) # 0 => (isClicked(mask) <=> down)
  BY <1>3, <1>4, <1>8, ButtonMask DEF mask
<1>10. ASSUME NEW x \in 1..9
       PROVE  Only(wire', ButtonOrder(x), At(remote.buttons, x), Len(wire') + 1,
                   Words(sentHeld'.buttons, used.buttons, AsButton, x))
  <2>1. AsButton[b] = PlayedAs(b)
    BY <1>3 DEF AsButton
  <2>2. /\ message \in DOMAIN ButtonOrder(x) <=> PlayedAs(b) = x
        /\ PlayedAs(b) = x => ButtonOrder(x)[message] = IF down THEN "down" ELSE "up"
    BY <1>3, <1>4, <1>5, <1>9, ButtonMask DEF ButtonOrder
  <2>3. ASSUME PlayedAs(b) = x
        PROVE  ButtonOrder(x)[message] \in Words(sentHeld'.buttons, used.buttons, AsButton, x)
    <3>1. /\ "down" \in Words(sentHeld.buttons \cup {b}, used.buttons, AsButton, x)
          /\ "up" \in Words(sentHeld.buttons \ {b}, used.buttons, AsButton, x)
      BY <1>3, <2>1, <2>3, WordsChange
    <3>2. QED
      BY <1>7, <2>2, <2>3, <3>1
  <2>4. PlayedAs(b) # x =>
          Words(sentHeld.buttons, used.buttons, AsButton, x)
            \subseteq Words(sentHeld'.buttons, used.buttons, AsButton, x)
    BY <1>3, <1>7, <2>1, WordsChange
  <2>5. PlayedAs(b) # x =>
          Only(wire, ButtonOrder(x), At(remote.buttons, x), Len(wire) + 1,
               Words(sentHeld'.buttons, used.buttons, AsButton, x))
    BY <2>4 DEF SentButtons, Only
  <2>6. wire \in Seq(Message) /\ wire' = Append(wire, message)
    BY <1>1, <1>5, SendFacts DEF TypeInv
  <2>7. QED
    BY <1>5, <2>2, <2>3, <2>5, <2>6, OnlyAfter
<1>11. SentKeys'
  <2>1. \A c \in 1..255 : message \notin DOMAIN KeyOrder(c)
    BY <1>5, Orders
  <2>2. QED
    BY <1>1, <1>2, <1>5, <1>7, <2>1, SentOther
<1>12. QED
  BY <1>2, <1>10, <1>11 DEF SentButtons

\* The message of a key is the last word about its key code.
LEMMA SentKey ==
  ASSUME TypeInv, SentButtons, SentKeys, HandleKey
  PROVE  SentButtons' /\ SentKeys'
<1> DEFINE e == Head(events)
           k == e.id
           down == e.type = "key_down"
           message == [type |-> "KEYBOARD_INPUT", down |-> down, key |-> SDLKeySymToX11(k)]
<1>1. /\ Polled(KeyTypes) /\ Send(message)
      /\ sentHeld' = [sentHeld EXCEPT !.keys = IF down THEN @ \cup {k} ELSE @ \ {k}]
  BY DEF HandleKey, KeyTypes
<1>2. /\ e \in Event(used) /\ e.type \in KeyTypes
      /\ UNCHANGED <<used, remote>>
  BY <1>1, PolledFacts
<1>3. k \in used.keys /\ k \in Key
  BY <1>2, EventFields, Widths DEF TypeInv
<1>4. /\ message \in Message /\ message.type = "KEYBOARD_INPUT"
      /\ KeysymToKeycode[message.key] = Keycode(k) /\ message.down = down
  <2>1. SDLKeySymToX11(k) \in {SDLKeySymToX11(l) : l \in Key}
    BY <1>3
  <2>2. QED
    BY <2>1 DEF Message, Keycode
<1>5. sentHeld \in [buttons : SUBSET used.buttons, keys : SUBSET used.keys]
  BY DEF TypeInv, TypeOK, Inputs
<1>6. /\ sentHeld'.keys = IF down THEN sentHeld.keys \cup {k} ELSE sentHeld.keys \ {k}
      /\ sentHeld'.buttons = sentHeld.buttons
  BY <1>1, <1>5
<1> HIDE DEF message, down, k, e
<1>7. ASSUME NEW c \in 1..255
      PROVE  Only(wire', KeyOrder(c), At(remote.keys, c), Len(wire') + 1,
                  Words(sentHeld'.keys, used.keys, AsKey, c))
  <2>1. AsKey[k] = Keycode(k)
    BY <1>3 DEF AsKey
  <2>2. /\ message \in DOMAIN KeyOrder(c) <=> Keycode(k) = c
        /\ Keycode(k) = c => KeyOrder(c)[message] = IF down THEN "down" ELSE "up"
    BY <1>4 DEF KeyOrder
  <2>3. ASSUME Keycode(k) = c
        PROVE  KeyOrder(c)[message] \in Words(sentHeld'.keys, used.keys, AsKey, c)
    <3>1. /\ "down" \in Words(sentHeld.keys \cup {k}, used.keys, AsKey, c)
          /\ "up" \in Words(sentHeld.keys \ {k}, used.keys, AsKey, c)
      BY <1>3, <2>1, <2>3, WordsChange
    <3>2. QED
      BY <1>6, <2>2, <2>3, <3>1
  <2>4. Keycode(k) # c =>
          Words(sentHeld.keys, used.keys, AsKey, c)
            \subseteq Words(sentHeld'.keys, used.keys, AsKey, c)
    BY <1>3, <1>6, <2>1, WordsChange
  <2>5. Keycode(k) # c =>
          Only(wire, KeyOrder(c), At(remote.keys, c), Len(wire) + 1,
               Words(sentHeld'.keys, used.keys, AsKey, c))
    BY <2>4 DEF SentKeys, Only
  <2>6. wire \in Seq(Message) /\ wire' = Append(wire, message)
    BY <1>1, <1>4, SendFacts DEF TypeInv
  <2>7. QED
    BY <1>4, <2>2, <2>3, <2>5, <2>6, OnlyAfter
<1>8. SentButtons'
  <2>1. \A x \in 1..9 : message \notin DOMAIN ButtonOrder(x)
    BY <1>4, Orders
  <2>2. QED
    BY <1>1, <1>2, <1>4, <1>6, <2>1, SentOther
<1>9. QED
  BY <1>2, <1>7, <1>8 DEF SentKeys

\* A motion and a scroll change nothing about what is held.
LEMMA SentMotionOrWheel ==
  ASSUME TypeInv, SentButtons, SentKeys, HandleMotion \/ HandleWheel
  PROVE  SentButtons' /\ SentKeys'
<1>0. ASSUME NEW mask \in {MOVE, SCROLL_UP_MASK, SCROLL_DOWN_MASK}, NEW x \in Int,
             Send(MouseInput(mask, x)), UNCHANGED <<used, remote, sentHeld>>
      PROVE  SentButtons' /\ SentKeys'
  <2> DEFINE message == MouseInput(mask, x)
  <2>1. mask = MOVE \/ isScrollMoved(mask)
    BY DEF isScrollMoved, SCROLL_UP_MASK, SCROLL_DOWN_MASK
  <2>2. message \in Message /\ message.type = "MOUSE_INPUT" /\ message.button_mask = mask
    BY MouseMessage, MaskTypes DEF MouseInput
  <2> HIDE DEF message
  <2>3. /\ \A y \in 1..9 : message \notin DOMAIN ButtonOrder(y)
        /\ \A c \in 1..255 : message \notin DOMAIN KeyOrder(c)
    BY <2>1, <2>2, Orders
  <2>4. Send(message)
    BY <1>0 DEF message
  <2>5. QED
    BY <1>0, <2>2, <2>3, <2>4, SentOther
<1>1. CASE HandleMotion
  <2>1. /\ Polled({"motion"}) /\ sentHeld' = sentHeld
        /\ \/ Send(MouseInput(MOVE, Scaled(Head(events).x)))
           \/ UNCHANGED wire
    BY <1>1 DEF HandleMotion
  <2>2. /\ Scaled(Head(events).x) \in Int /\ SpotOf(Head(events)) \in Int
        /\ UNCHANGED <<used, remote>>
    BY <2>1, PolledFacts, EventPositions DEF MouseTypes
  <2>3. CASE UNCHANGED wire
    BY <2>1, <2>2, <2>3 DEF SentButtons, SentKeys
  <2>4. QED
    BY <1>0, <2>1, <2>2, <2>3
<1>2. CASE HandleWheel
  <2>1. /\ Polled({"wheel"}) /\ sentHeld' = sentHeld
        /\ Send(MouseInput(IF Head(events).up THEN SCROLL_UP_MASK ELSE SCROLL_DOWN_MASK, 0))
    BY <1>2 DEF HandleWheel
  <2>2. UNCHANGED <<used, remote>>
    BY <2>1, PolledFacts
  <2>3. QED
    BY <1>0, <2>1, <2>2
<1>3. QED
  BY <1>1, <1>2

\* Playing a message back makes it the state of the X server.
LEMMA SentPlayed ==
  ASSUME TypeInv, SentButtons, SentKeys, handleMouseEvent \/ handleKeyboardEvent
  PROVE  SentButtons' /\ SentKeys'
<1>0. /\ wire # <<>> /\ wire' = Tail(wire) /\ wire \in Seq(Message)
      /\ Head(wire) \in Message /\ UNCHANGED <<used, sentHeld>>
  BY PlaysFacts DEF handleMouseEvent, handleKeyboardEvent, TypeInv
<1>1. ASSUME NEW x \in 1..9
      PROVE  /\ Head(wire) \in DOMAIN ButtonOrder(x) =>
                  At(remote'.buttons, x) = ButtonOrder(x)[Head(wire)]
             /\ Head(wire) \notin DOMAIN ButtonOrder(x) =>
                  At(remote'.buttons, x) = At(remote.buttons, x)
  <2>1. CASE handleMouseEvent
    BY <2>1, MouseEffect
  <2>2. CASE handleKeyboardEvent
    <3>1. Head(wire).type = "KEYBOARD_INPUT"
      BY <2>2, PlaysFacts DEF handleKeyboardEvent
    <3>2. QED
      BY <1>0, <2>2, <3>1, KeyboardEffect, Orders
  <2>3. QED
    BY <2>1, <2>2
<1>2. ASSUME NEW c \in 1..255
      PROVE  /\ Head(wire) \in DOMAIN KeyOrder(c) =>
                  At(remote'.keys, c) = KeyOrder(c)[Head(wire)]
             /\ Head(wire) \notin DOMAIN KeyOrder(c) =>
                  At(remote'.keys, c) = At(remote.keys, c)
  <2>1. CASE handleKeyboardEvent
    BY <2>1, KeyboardEffect
  <2>2. CASE handleMouseEvent
    <3>1. Head(wire).type = "MOUSE_INPUT"
      BY <2>2, PlaysFacts DEF handleMouseEvent
    <3>2. QED
      BY <1>0, <2>2, <3>1, MouseEffect, Orders
  <2>3. QED
    BY <2>1, <2>2
<1>3. SentButtons'
  BY <1>0, <1>1, OnlyTaken DEF SentButtons
<1>4. SentKeys'
  BY <1>0, <1>2, OnlyTaken DEF SentKeys
<1>5. QED
  BY <1>3, <1>4

\* Every step keeps what is sent and what is played back in agreement.
LEMMA SentStep ==
  ASSUME TypeInv, SentButtons, SentKeys, [Next]_vars
  PROVE  SentButtons' /\ SentKeys'
<1>1. CASE UNCHANGED <<wire, remote, sentHeld, used>>
  BY <1>1 DEF SentButtons, SentKeys
<1>2. CASE \/ UserPresses \/ UserReleases \/ UserMoves \/ UserTurnsWheel \/ UserResizes
           \/ UserQuits \/ ReceiveFrame \/ PollNothing \/ PollTimeout
           \/ HandleResized \/ HandleQuit \/ UNCHANGED vars
  <2>1. UNCHANGED <<wire, remote, sentHeld, used>>
    BY <1>2 DEF UserPresses, UserReleases, UserMoves, UserTurnsWheel, UserResizes, UserQuits,
                ReceiveFrame, PollNothing, PollTimeout, HandleResized, HandleQuit, Polled,
                Enqueue, userVars, historyVars, vars
  <2>2. QED
    BY <1>1, <2>1
<1>3. QED
  BY <1>2, SentButton, SentKey, SentMotionOrWheel, SentPlayed DEF Next

\* What an event says of a button and of a key.
LEMMA Presses ==
  ASSUME TypeInv, NEW e \in Event(used)
  PROVE  /\ \A b : /\ e \in DOMAIN ButtonPress(b) <=> e.type \in ButtonTypes /\ e.id = b
                   /\ e \in DOMAIN ButtonPress(b) =>
                        ButtonPress(b)[e] = IF e.type = "button_down" THEN "down" ELSE "up"
         /\ \A k : /\ e \in DOMAIN KeyPress(k) <=> e.type \in KeyTypes /\ e.id = k
                   /\ e \in DOMAIN KeyPress(k) =>
                        KeyPress(k)[e] = IF e.type = "key_down" THEN "down" ELSE "up"
<1>1. used.sizes \subseteq WindowSize
  BY Widths DEF TypeInv
<1>2. QED
  BY <1>1 DEF Event, ButtonEvents, MotionEvents, ButtonPress, KeyPress, ButtonTypes, KeyTypes

\* An event is queued with what the user does.
LEMMA QueuedEnqueue ==
  ASSUME TypeInv, QueuedButtons, QueuedKeys, NEW e \in Event(used), Enqueue(e),
         \A b \in used.buttons :
           /\ e \in DOMAIN ButtonPress(b) => At(held'.buttons, b) = ButtonPress(b)[e]
           /\ e \notin DOMAIN ButtonPress(b) => At(held'.buttons, b) = At(held.buttons, b),
         \A k \in used.keys :
           /\ e \in DOMAIN KeyPress(k) => At(held'.keys, k) = KeyPress(k)[e]
           /\ e \notin DOMAIN KeyPress(k) => At(held'.keys, k) = At(held.keys, k)
  PROVE  QueuedButtons' /\ QueuedKeys'
<1>1. /\ events \in Seq(Event(used)) /\ events' = Append(events, e)
      /\ UNCHANGED <<used, sentHeld, lost>>
  BY DEF TypeInv, Enqueue, historyVars
<1>2. ASSUME "input" \notin lost', NEW b \in used.buttons
      PROVE  Only(events', ButtonPress(b), At(sentHeld.buttons, b), Len(events') + 1,
                  {At(held'.buttons, b)})
  <2>1. Only(events, ButtonPress(b), At(sentHeld.buttons, b), Len(events) + 1,
             {At(held.buttons, b)})
    BY <1>1, <1>2 DEF QueuedButtons
  <2>2. QED
    BY <1>1, <2>1, OnlyAfter
<1>3. ASSUME "input" \notin lost', NEW k \in used.keys
      PROVE  Only(events', KeyPress(k), At(sentHeld.keys, k), Len(events') + 1,
                  {At(held'.keys, k)})
  <2>1. Only(events, KeyPress(k), At(sentHeld.keys, k), Len(events) + 1,
             {At(held.keys, k)})
    BY <1>1, <1>3 DEF QueuedKeys
  <2>2. QED
    BY <1>1, <2>1, OnlyAfter
<1>4. QED
  BY <1>1, <1>2, <1>3 DEF QueuedButtons, QueuedKeys

\* An event that is handled becomes what has been handled.
LEMMA QueuedTaken ==
  ASSUME TypeInv, QueuedButtons, QueuedKeys,
         events # <<>>, events' = Tail(events), UNCHANGED <<used, held>>,
         "input" \notin lost' => "input" \notin lost,
         "input" \notin lost' =>
           /\ \A b \in used.buttons :
                /\ Head(events) \in DOMAIN ButtonPress(b) =>
                     At(sentHeld'.buttons, b) = ButtonPress(b)[Head(events)]
                /\ Head(events) \notin DOMAIN ButtonPress(b) =>
                     At(sentHeld'.buttons, b) = At(sentHeld.buttons, b)
           /\ \A k \in used.keys :
                /\ Head(events) \in DOMAIN KeyPress(k) =>
                     At(sentHeld'.keys, k) = KeyPress(k)[Head(events)]
                /\ Head(events) \notin DOMAIN KeyPress(k) =>
                     At(sentHeld'.keys, k) = At(sentHeld.keys, k)
  PROVE  QueuedButtons' /\ QueuedKeys'
<1>1. events \in Seq(Event(used))
  BY DEF TypeInv
<1>2. ASSUME "input" \notin lost', NEW b \in used.buttons
      PROVE  Only(events', ButtonPress(b), At(sentHeld'.buttons, b), Len(events') + 1,
                  {At(held.buttons, b)})
  <2>1. Only(events, ButtonPress(b), At(sentHeld.buttons, b), Len(events) + 1,
             {At(held.buttons, b)})
    BY <1>2 DEF QueuedButtons
  <2>2. QED
    BY <1>1, <1>2, <2>1, OnlyTaken
<1>3. ASSUME "input" \notin lost', NEW k \in used.keys
      PROVE  Only(events', KeyPress(k), At(sentHeld'.keys, k), Len(events') + 1,
                  {At(held.keys, k)})
  <2>1. Only(events, KeyPress(k), At(sentHeld.keys, k), Len(events) + 1,
             {At(held.keys, k)})
    BY <1>3 DEF QueuedKeys
  <2>2. QED
    BY <1>1, <1>3, <2>1, OnlyTaken
<1>4. QED
  BY <1>2, <1>3 DEF QueuedButtons, QueuedKeys

\* The user presses and releases.
LEMMA QueuedPress ==
  ASSUME TypeInv, QueuedButtons, QueuedKeys, UserPresses \/ UserReleases
  PROVE  QueuedButtons' /\ QueuedKeys'
<1>0. held \in [buttons : SUBSET used.buttons, keys : SUBSET used.keys]
  BY DEF TypeInv, TypeOK, Inputs
<1>1. ASSUME NEW type \in ButtonTypes, NEW b \in used.buttons, pointer # Outside,
             held' = [held EXCEPT !.buttons = IF type = "button_down" THEN @ \cup {b}
                                                                       ELSE @ \ {b}],
             Enqueue(ButtonEvent(type, b))
      PROVE  QueuedButtons' /\ QueuedKeys'
  <2> DEFINE e == ButtonEvent(type, b)
  <2>1. e \in Event(used) /\ e.type \in ButtonTypes /\ e.type = type /\ e.id = b
    BY <1>1, UserEvent DEF ButtonEvent
  <2>2. /\ held'.buttons = IF type = "button_down" THEN held.buttons \cup {b}
                                                   ELSE held.buttons \ {b}
        /\ held'.keys = held.keys
    BY <1>0, <1>1
  <2>3. Enqueue(e)
    BY <1>1
  <2> HIDE DEF e
  <2>4. e.type \notin KeyTypes
    BY <2>1 DEF ButtonTypes, KeyTypes
  <2>5. QED
    BY <2>1, <2>2, <2>3, <2>4, Presses, QueuedEnqueue DEF At
<1>2. ASSUME NEW type \in KeyTypes, NEW k \in used.keys,
             held' = [held EXCEPT !.keys = IF type = "key_down" THEN @ \cup {k} ELSE @ \ {k}],
             Enqueue([type |-> type, id |-> k])
      PROVE  QueuedButtons' /\ QueuedKeys'
  <2> DEFINE e == [type |-> type, id |-> k]
  <2>1. e \in Event(used) /\ e.type \in KeyTypes /\ e.type = type /\ e.id = k
    BY <1>2 DEF Event
  <2>2. /\ held'.keys = IF type = "key_down" THEN held.keys \cup {k} ELSE held.keys \ {k}
        /\ held'.buttons = held.buttons
    BY <1>0, <1>2
  <2>3. Enqueue(e)
    BY <1>2
  <2> HIDE DEF e
  <2>4. e.type \notin ButtonTypes
    BY <2>1 DEF ButtonTypes, KeyTypes
  <2>5. QED
    BY <2>1, <2>2, <2>3, <2>4, Presses, QueuedEnqueue DEF At
<1>3. CASE UserPresses
  <2>1. \/ \E b \in used.buttons :
             /\ pointer # Outside /\ held' = [held EXCEPT !.buttons = @ \cup {b}]
             /\ Enqueue(ButtonEvent("button_down", b))
        \/ \E k \in used.keys :
             /\ held' = [held EXCEPT !.keys = @ \cup {k}]
             /\ Enqueue([type |-> "key_down", id |-> k])
    BY <1>3 DEF UserPresses
  <2>2. QED
    BY <1>1, <1>2, <2>1 DEF ButtonTypes, KeyTypes
<1>4. CASE UserReleases
  <2>1. \/ \E b \in used.buttons :
             /\ pointer # Outside /\ held' = [held EXCEPT !.buttons = @ \ {b}]
             /\ Enqueue(ButtonEvent("button_up", b))
        \/ \E k \in used.keys :
             /\ held' = [held EXCEPT !.keys = @ \ {k}]
             /\ Enqueue([type |-> "key_up", id |-> k])
    BY <1>0, <1>4 DEF UserReleases
  <2>2. QED
    BY <1>1, <1>2, <2>1 DEF ButtonTypes, KeyTypes
<1>5. QED
  BY <1>3, <1>4

\* Whatever else the user does holds nothing down.
LEMMA QueuedOther ==
  ASSUME TypeInv, QueuedButtons, QueuedKeys,
         UserMoves \/ UserTurnsWheel \/ UserResizes \/ UserQuits
  PROVE  QueuedButtons' /\ QueuedKeys'
<1>1. PICK e \in Event(used) :
        /\ Enqueue(e) /\ held' = held
        /\ e.type \in {"motion", "wheel", "resized", "quit"}
  <2>1. CASE UserMoves
    BY <2>1, UserEvent DEF UserMoves, MotionEvent
  <2>2. CASE UserTurnsWheel
    BY <2>2 DEF UserTurnsWheel, Event, userVars
  <2>3. CASE UserResizes
    BY <2>3 DEF UserResizes, Event
  <2>4. CASE UserQuits
    BY <2>4 DEF UserQuits, Event, userVars
  <2>5. QED
    BY <2>1, <2>2, <2>3, <2>4
<1>2. /\ \A b \in used.buttons : e \notin DOMAIN ButtonPress(b)
      /\ \A k \in used.keys : e \notin DOMAIN KeyPress(k)
  BY <1>1, Presses DEF ButtonTypes, KeyTypes
<1>3. QED
  BY <1>1, <1>2, QueuedEnqueue

\* The handlers, and the loop when its time is up.
LEMMA QueuedHandled ==
  ASSUME TypeInv, QueuedButtons, QueuedKeys,
         \/ HandleMotion \/ HandleWheel \/ HandleButton \/ HandleKey \/ HandleResized
         \/ HandleQuit \/ PollTimeout
  PROVE  QueuedButtons' /\ QueuedKeys'
<1> DEFINE e == Head(events)
<1>0. sentHeld \in [buttons : SUBSET used.buttons, keys : SUBSET used.keys]
  BY DEF TypeInv, TypeOK, Inputs
<1>1. CASE HandleButton
  <2>1. /\ Polled(ButtonTypes)
        /\ sentHeld' = [sentHeld EXCEPT !.buttons =
                          IF e.type = "button_down" THEN @ \cup {e.id} ELSE @ \ {e.id}]
    BY <1>1 DEF HandleButton, ButtonTypes
  <2>2. /\ events # <<>> /\ events' = Tail(events) /\ UNCHANGED <<used, held, lost>>
        /\ e \in Event(used) /\ e.type \in ButtonTypes
    BY <2>1, PolledFacts
  <2>3. /\ sentHeld'.buttons = IF e.type = "button_down" THEN sentHeld.buttons \cup {e.id}
                                                         ELSE sentHeld.buttons \ {e.id}
        /\ sentHeld'.keys = sentHeld.keys
    BY <1>0, <2>1
  <2>4. e.type \notin KeyTypes
    BY <2>2 DEF ButtonTypes, KeyTypes
  <2>5. QED
    BY <2>2, <2>3, <2>4, Presses, QueuedTaken DEF At
<1>2. CASE HandleKey
  <2>1. /\ Polled(KeyTypes)
        /\ sentHeld' = [sentHeld EXCEPT !.keys =
                          IF e.type = "key_down" THEN @ \cup {e.id} ELSE @ \ {e.id}]
    BY <1>2 DEF HandleKey, KeyTypes
  <2>2. /\ events # <<>> /\ events' = Tail(events) /\ UNCHANGED <<used, held, lost>>
        /\ e \in Event(used) /\ e.type \in KeyTypes
    BY <2>1, PolledFacts
  <2>3. /\ sentHeld'.keys = IF e.type = "key_down" THEN sentHeld.keys \cup {e.id}
                                                   ELSE sentHeld.keys \ {e.id}
        /\ sentHeld'.buttons = sentHeld.buttons
    BY <1>0, <2>1
  <2>4. e.type \notin ButtonTypes
    BY <2>2 DEF ButtonTypes, KeyTypes
  <2>5. QED
    BY <2>2, <2>3, <2>4, Presses, QueuedTaken DEF At
<1>3. CASE HandleMotion \/ HandleWheel \/ HandleResized \/ HandleQuit
  <2>1. PICK types \in {{"motion"}, {"wheel"}, {"resized"}, {"quit"}} :
          Polled(types) /\ sentHeld' = sentHeld
    BY <1>3 DEF HandleMotion, HandleWheel, HandleResized, HandleQuit
  <2>2. /\ events # <<>> /\ events' = Tail(events) /\ UNCHANGED <<used, held, lost>>
        /\ e \in Event(used) /\ e.type \in types
    BY <2>1, PolledFacts
  <2>3. e.type \notin ButtonTypes /\ e.type \notin KeyTypes
    BY <2>1, <2>2 DEF ButtonTypes, KeyTypes
  <2>4. QED
    BY <2>1, <2>2, <2>3, Presses, QueuedTaken
<1>4. CASE PollTimeout
  <2>1. /\ events # <<>> /\ events' = Tail(events) /\ UNCHANGED <<used, held, sentHeld>>
        /\ lost' = lost \cup {IF e.type = "resized" THEN "resized" ELSE "input"}
    BY <1>4 DEF PollTimeout, userVars
  <2>2. e \in Event(used)
    BY <2>1, Taken DEF TypeInv
  <2>3. "input" \notin lost' => "input" \notin lost /\ e.type = "resized"
    BY <2>1
  <2>4. "input" \notin lost' => e.type \notin ButtonTypes /\ e.type \notin KeyTypes
    BY <2>3 DEF ButtonTypes, KeyTypes
  <2>5. QED
    BY <2>1, <2>2, <2>3, <2>4, Presses, QueuedTaken
<1>5. QED
  BY <1>1, <1>2, <1>3, <1>4

\* Every step keeps the queue and what the user does in agreement.
LEMMA QueuedStep ==
  ASSUME TypeInv, QueuedButtons, QueuedKeys, [Next]_vars
  PROVE  QueuedButtons' /\ QueuedKeys'
<1>1. CASE ReceiveFrame \/ PollNothing \/ handleMouseEvent \/ handleKeyboardEvent
           \/ UNCHANGED vars
  <2>1. UNCHANGED <<used, held, events, sentHeld, lost>>
    BY <1>1 DEF ReceiveFrame, PollNothing, handleMouseEvent, handleKeyboardEvent, Plays,
                userVars, historyVars, vars
  <2>2. QED
    BY <2>1 DEF QueuedButtons, QueuedKeys
<1>2. QED
  BY <1>1, QueuedPress, QueuedOther, QueuedHandled DEF Next

\* No key code of the X server is 0.
LEMMA NotZero == \A c \in 1..255 : c # 0
OBVIOUS

\* When both queues are empty, what is held here, there and going by the messages
\* is the same.
LEMMA HeldEverywhere ==
  ASSUME TypeInv, HeldInv
  PROVE  HeldAsSent
<1> SUFFICES ASSUME wire = <<>>
             PROVE  /\ PlayedBack(sentHeld)
                    /\ events = <<>> /\ "input" \notin lost => PlayedBack(held)
  BY DEF HeldAsSent
<1>0. /\ held \in [buttons : SUBSET used.buttons, keys : SUBSET used.keys]
      /\ sentHeld \in [buttons : SUBSET used.buttons, keys : SUBSET used.keys]
      /\ remote.buttons \subseteq 1..9 /\ remote.keys \subseteq 1..255
      /\ used.buttons \subseteq Button /\ used.keys \subseteq Key
      /\ Len(<<>>) + 1 = 1
  <2>1. /\ held \in Inputs /\ sentHeld \in Inputs
        /\ remote.buttons \subseteq 1..9 /\ remote.keys \subseteq 1..255
    BY DEF TypeInv, TypeOK
  <2>2. used.buttons \subseteq Button /\ used.keys \subseteq Key
    BY Widths DEF TypeInv
  <2>3. Len(<<>>) + 1 = 1
    OBVIOUS
  <2>4. QED
    BY <2>1, <2>2, <2>3, Zenon DEF Inputs
<1>1. \A x \in 1..9 :
        At(remote.buttons, x) \in Words(sentHeld.buttons, used.buttons, AsButton, x)
  BY <1>0, OnlyFirst DEF HeldInv, SentButtons
<1>2. ASSUME NEW c \in 1..255
      PROVE  At(remote.keys, c) \in Words(sentHeld.keys, used.keys, AsKey, c)
  <2>1. Only(wire, KeyOrder(c), At(remote.keys, c), Len(wire) + 1,
             Words(sentHeld.keys, used.keys, AsKey, c))
    BY DEF HeldInv, SentKeys
  <2>2. Len(wire) + 1 = 1
    BY <1>0
  <2>3. QED
    BY <2>1, <2>2, OnlyFirst
<1>3. /\ \A b \in used.buttons : AsButton[b] = PlayedAs(b)
      /\ \A k \in used.keys : AsKey[k] = Keycode(k)
  BY <1>0 DEF AsButton, AsKey
<1>4. PlayedBack(sentHeld)
  <2>1. ASSUME NEW b \in used.buttons \cap (1..5),
               \A l \in used.buttons \ {b} : PlayedAs(l) # XButton(b)
        PROVE  XButton(b) \in remote.buttons <=> b \in sentHeld.buttons
    <3>1. XButton(b) \in 1..9 /\ PlayedAs(b) = XButton(b)
      BY DEF XButton, PlayedAs, extractButtonID, convertToMask, BACK_BUTTON_MASK,
             FORWARD_BUTTON_MASK
    <3>2. At(remote.buttons, XButton(b))
            \in Words(sentHeld.buttons, used.buttons, AsButton, XButton(b))
      BY <1>1, <3>1
    <3>3. QED
      BY <1>0, <1>3, <2>1, <3>1, <3>2 DEF At, Words
  <2>2. ASSUME NEW x \in remote.buttons
        PROVE  x \in {PlayedAs(b) : b \in sentHeld.buttons} \ {0}
    <3>1. x \in 1..9
      BY <1>0
    <3>2. At(remote.buttons, x) = "down"
      BY DEF At
    <3>3. \E b \in sentHeld.buttons : AsButton[b] = x
      BY <1>1, <3>1, <3>2 DEF Words
    <3>4. QED
      BY <1>0, <1>3, <3>1, <3>3
  <2>3. ASSUME NEW k \in used.keys,
               \A l \in used.keys \ {k} : Keycode(l) # Keycode(k), Keycode(k) # 0
        PROVE  Keycode(k) \in remote.keys <=> k \in sentHeld.keys
    <3>1. Keycode(k) \in 1..255
      <4>1. k \in Key
        BY <1>0
      <4>2. Keycode(k) \in 0..255
        BY <4>1, KeyAssumption DEF Keycode
      <4>3. QED
        BY <2>3, <4>2
    <3>2. At(remote.keys, Keycode(k))
            \in Words(sentHeld.keys, used.keys, AsKey, Keycode(k))
      BY <1>2, <3>1
    <3>3. QED
      BY <1>0, <1>3, <2>3, <3>1, <3>2 DEF At, Words
  <2>4. ASSUME NEW c \in remote.keys
        PROVE  c \in {Keycode(k) : k \in sentHeld.keys} \ {0}
    <3>1. c \in 1..255
      BY <1>0
    <3>2. At(remote.keys, c) = "down"
      BY DEF At
    <3>3. PICK k \in sentHeld.keys : AsKey[k] = c
      <4>1. "down" \in Words(sentHeld.keys, used.keys, AsKey, c)
        BY <1>2, <3>1, <3>2
      <4>2. QED
        BY <4>1 DEF Words
    <3>4. Keycode(k) = c
      BY <1>0, <1>3, <3>3
    <3>5. c # 0
      BY <3>1, NotZero, Zenon
    <3>6. QED
      BY <3>4, <3>5
  <2>5. QED
    BY <2>1, <2>2, <2>3, <2>4 DEF PlayedBack
<1>5. ASSUME events = <<>>, "input" \notin lost
      PROVE  held = sentHeld
  <2>0. Len(events) + 1 = 1
    BY <1>0, <1>5
  <2>1. ASSUME NEW b \in used.buttons PROVE At(sentHeld.buttons, b) = At(held.buttons, b)
    <3>1. Only(events, ButtonPress(b), At(sentHeld.buttons, b), Len(events) + 1,
               {At(held.buttons, b)})
      BY <1>5 DEF HeldInv, QueuedButtons
    <3>2. At(sentHeld.buttons, b) \in {At(held.buttons, b)}
      BY <2>0, <3>1, OnlyFirst
    <3>3. QED
      BY <3>2
  <2>2. ASSUME NEW k \in used.keys PROVE At(sentHeld.keys, k) = At(held.keys, k)
    <3>1. Only(events, KeyPress(k), At(sentHeld.keys, k), Len(events) + 1,
               {At(held.keys, k)})
      BY <1>5 DEF HeldInv, QueuedKeys
    <3>2. At(sentHeld.keys, k) \in {At(held.keys, k)}
      BY <2>0, <3>1, OnlyFirst
    <3>3. QED
      BY <3>2
  <2>3. held.buttons = sentHeld.buttons /\ held.keys = sentHeld.keys
    BY <1>0, <2>1, <2>2 DEF At
  <2>4. QED
    BY <1>0, <2>3
<1>6. QED
  BY <1>4, <1>5

\* When every message has been played back, the streamer's X server holds what the
\* handled events say is held; and what the user holds, when none is queued either
\* and none was dropped: for any buttons, table and keyboard map.
THEOREM HeldAsSentHolds == Spec => []HeldAsSent
<1>1. Init => TypeInv /\ HeldInv
  BY TypeInit, HeldInit
<1>2. TypeInv /\ HeldInv /\ [Next]_vars => TypeInv' /\ HeldInv'
  BY TypeStep, SentStep, QueuedStep DEF HeldInv
<1>3. TypeInv /\ HeldInv => HeldAsSent
  BY HeldEverywhere
<1>4. QED
  BY <1>1, <1>2, <1>3, PTL DEF Spec

-----------------------------------------------------------------------------
(***************************************************************************)
(* The sizes of the window.                                                *)
(***************************************************************************)

\* The size a resize event tells.
SizeTold == [e \in [type : {"resized"}, size : WindowSize] |-> e.size]

\* A mouse event in the queue is from the window as the last resize event before it
\* has it, or as the viewer knows it; after the whole queue that is the window's size.
InsideInv ==
  "resized" \notin lost =>
    /\ \A i \in 1..Len(events) : events[i].type \in MouseTypes =>
         Only(events, SizeTold, window_size, i, {events[i].size})
    /\ Only(events, SizeTold, window_size, Len(events) + 1, {size})

\* Only a resize event tells a size.
LEMMA SizesTold ==
  ASSUME TypeInv, NEW e \in Event(used)
  PROVE  /\ e \in DOMAIN SizeTold <=> e.type = "resized"
         /\ e.type = "resized" => SizeTold[e] = e.size
<1>1. used.sizes \subseteq WindowSize
  BY Widths DEF TypeInv
<1>2. QED
  BY <1>1 DEF Event, ButtonEvents, MotionEvents, SizeTold, ButtonTypes, KeyTypes

\* An event is queued in the window as it is.
LEMMA InsideEnqueue ==
  ASSUME TypeInv, InsideInv, NEW e \in Event(used), Enqueue(e),
         IF e.type = "resized" THEN size' = e.size ELSE size' = size,
         e.type \in MouseTypes => e.size = size
  PROVE  InsideInv'
<1>0. /\ events \in Seq(Event(used)) /\ events' = Append(events, e)
      /\ Len(events) \in Nat
      /\ UNCHANGED <<window_size, lost>>
  BY DEF TypeInv, Enqueue, viewerVars, historyVars
<1>1. /\ Len(events') = Len(events) + 1 /\ events'[Len(events) + 1] = e
      /\ \A i \in 1..Len(events) : events'[i] = events[i]
  BY <1>0, Appended
<1> SUFFICES ASSUME "resized" \notin lost
             PROVE  /\ \A i \in 1..Len(events') : events'[i].type \in MouseTypes =>
                         Only(events', SizeTold, window_size, i, {events'[i].size})
                    /\ Only(events', SizeTold, window_size, Len(events') + 1, {size'})
  BY <1>0 DEF InsideInv
<1>2. Only(events, SizeTold, window_size, Len(events) + 1, {size})
  BY DEF InsideInv
<1>3. ASSUME NEW i \in 1..Len(events'), events'[i].type \in MouseTypes
      PROVE  Only(events', SizeTold, window_size, i, {events'[i].size})
  <2>1. i \in 1..(Len(events) + 1)
    BY <1>1
  <2>2. Only(events, SizeTold, window_size, i, {events'[i].size})
    <3>1. CASE i \in 1..Len(events)
      BY <1>1, <1>3, <3>1 DEF InsideInv
    <3>2. CASE i = Len(events) + 1
      <4>1. events'[i].size = size
        BY <1>1, <1>3, <3>2
      <4>2. QED
        BY <1>2, <3>2, <4>1 DEF Only
    <3>3. QED
      BY <2>1, <3>1, <3>2
  <2>3. QED
    BY <1>0, <2>1, <2>2, OnlyBefore
<1>4. Only(events', SizeTold, window_size, Len(events') + 1, {size'})
  BY <1>0, <1>2, SizesTold, OnlyAfter
<1>5. QED
  BY <1>3, <1>4

\* Whatever the user does queues an event with the pointer's position, the position
\* it moves to, or the window's new size.
LEMMA UserEvents ==
  ASSUME TypeInv,
         UserPresses \/ UserReleases \/ UserMoves \/ UserTurnsWheel \/ UserResizes
           \/ UserQuits
  PROVE  \E e \in Event(used) :
           /\ Enqueue(e)
           /\ e.type \in ButtonTypes => e.at = pointer
           /\ e.type \in MouseTypes => e.size = size
           /\ IF e.type = "motion" THEN pointer' = e.at
              ELSE IF e.type = "resized" THEN pointer' = Outside
              ELSE pointer' = pointer
           /\ IF e.type = "resized" THEN size' = e.size ELSE size' = size
<1>0. held \in Inputs
  BY DEF TypeInv, TypeOK
<1>1. ASSUME NEW type \in ButtonTypes, NEW b \in used.buttons, pointer # Outside,
             Enqueue(ButtonEvent(type, b)), UNCHANGED <<pointer, size>>
      PROVE  \E e \in Event(used) :
               /\ Enqueue(e) /\ e.type \in ButtonTypes /\ e.at = pointer /\ e.size = size
               /\ UNCHANGED <<pointer, size>>
  <2>1. ButtonEvent(type, b) \in Event(used)
    BY <1>1, UserEvent
  <2>2. /\ ButtonEvent(type, b).type = type /\ ButtonEvent(type, b).at = pointer
        /\ ButtonEvent(type, b).size = size
    BY DEF ButtonEvent
  <2>3. QED
    BY <1>1, <2>1, <2>2
<1>2. ASSUME NEW type \in KeyTypes, NEW k \in used.keys,
             Enqueue([type |-> type, id |-> k]), UNCHANGED <<pointer, size>>
      PROVE  \E e \in Event(used) :
               /\ Enqueue(e) /\ e.type \in KeyTypes
               /\ UNCHANGED <<pointer, size>>
  <2>1. [type |-> type, id |-> k] \in Event(used)
    BY DEF Event
  <2>2. QED
    BY <1>2, <2>1
<1>3. CASE UserPresses \/ UserReleases
  <2>1. held.buttons \subseteq used.buttons /\ held.keys \subseteq used.keys
    BY <1>0 DEF Inputs
  <2>2. \/ \E type \in ButtonTypes, b \in used.buttons :
             /\ pointer # Outside
             /\ Enqueue(ButtonEvent(type, b))
             /\ UNCHANGED <<pointer, size>>
        \/ \E type \in KeyTypes, k \in used.keys :
             /\ Enqueue([type |-> type, id |-> k])
             /\ UNCHANGED <<pointer, size>>
    <3>1. CASE UserPresses
      BY <3>1 DEF UserPresses, ButtonTypes, KeyTypes
    <3>2. CASE UserReleases
      BY <2>1, <3>2 DEF UserReleases, ButtonTypes, KeyTypes
    <3>3. QED
      BY <1>3, <3>1, <3>2
  <2>3. PICK e \in Event(used) :
          /\ Enqueue(e) /\ UNCHANGED <<pointer, size>>
          /\ e.type \in KeyTypes \/ (e.type \in ButtonTypes /\ e.at = pointer /\ e.size = size)
    BY <1>1, <1>2, <2>2
  <2>4. /\ e.type # "motion" /\ e.type # "resized"
        /\ e.type \in ButtonTypes => e.at = pointer
        /\ e.type \in MouseTypes => e.size = size
    BY <2>3 DEF ButtonTypes, KeyTypes, MouseTypes
  <2>5. pointer' = pointer /\ size' = size /\ Enqueue(e)
    BY <2>3
  <2>6. QED
    BY <2>4, <2>5, Zenon
<1>4. CASE UserMoves
  <2>1. PICK x \in 0..(size.w - 1) :
          /\ pointer' = x /\ Enqueue(MotionEvent(x))
          /\ UNCHANGED <<held, size>>
    BY <1>4 DEF UserMoves
  <2>2. /\ MotionEvent(x) \in Event(used) /\ MotionEvent(x).type = "motion"
        /\ MotionEvent(x).at = x /\ MotionEvent(x).size = size
    BY UserEvent DEF MotionEvent
  <2>3. QED
    BY <2>1, <2>2 DEF ButtonTypes
<1>5. CASE UserTurnsWheel
  <2>1. PICK up \in BOOLEAN : Enqueue([type |-> "wheel", up |-> up]) /\ UNCHANGED userVars
    BY <1>5 DEF UserTurnsWheel
  <2>2. [type |-> "wheel", up |-> up] \in Event(used)
    BY <2>1 DEF Event
  <2>3. QED
    BY <2>1, <2>2 DEF ButtonTypes, MouseTypes, userVars
<1>6. CASE UserResizes
  <2>1. PICK s \in used.sizes :
          /\ size' = s /\ pointer' = Outside
          /\ Enqueue([type |-> "resized", size |-> s]) /\ UNCHANGED held
    BY <1>6 DEF UserResizes
  <2>2. [type |-> "resized", size |-> s] \in Event(used)
    BY <2>1 DEF Event
  <2>3. QED
    BY <2>1, <2>2 DEF ButtonTypes, MouseTypes
<1>7. CASE UserQuits
  <2>1. [type |-> "quit"] \in Event(used)
    BY DEF Event
  <2>2. QED
    BY <1>7, <2>1 DEF UserQuits, userVars, ButtonTypes, MouseTypes
<1>8. QED
  BY <1>3, <1>4, <1>5, <1>6, <1>7

\* What the user does is queued.
LEMMA InsideUser ==
  ASSUME TypeInv, InsideInv,
         UserPresses \/ UserReleases \/ UserMoves \/ UserTurnsWheel \/ UserResizes
           \/ UserQuits
  PROVE  InsideInv'
<1>1. PICK e \in Event(used) :
        /\ Enqueue(e)
        /\ IF e.type = "resized" THEN size' = e.size ELSE size' = size
        /\ e.type \in MouseTypes => e.size = size
  BY UserEvents
<1>2. QED
  BY <1>1, InsideEnqueue

\* The first event is taken, and the viewer learns what it tells.
LEMMA InsideTaken ==
  ASSUME TypeInv, InsideInv, events # <<>>, events' = Tail(events), size' = size,
         "resized" \notin lost' =>
           /\ "resized" \notin lost
           /\ IF Head(events).type = "resized" THEN window_size' = Head(events).size
                                               ELSE window_size' = window_size
  PROVE  InsideInv'
<1>0. events \in Seq(Event(used))
  BY DEF TypeInv
<1>1. /\ Len(events) \in Nat \ {0} /\ Len(events') = Len(events) - 1
      /\ \A i \in 1..(Len(events) - 1) : events'[i] = events[i + 1]
      /\ Head(events) \in Event(used)
  BY <1>0, Taken
<1> SUFFICES ASSUME "resized" \notin lost'
             PROVE  /\ \A i \in 1..Len(events') : events'[i].type \in MouseTypes =>
                         Only(events', SizeTold, window_size', i, {events'[i].size})
                    /\ Only(events', SizeTold, window_size', Len(events') + 1, {size})
  BY DEF InsideInv
<1>2. /\ Head(events) \in DOMAIN SizeTold => window_size' = SizeTold[Head(events)]
      /\ Head(events) \notin DOMAIN SizeTold => window_size' = window_size
  BY <1>1, SizesTold
<1>3. \A i \in 1..Len(events) : \A A :
        Only(events, SizeTold, window_size, i + 1, A) =>
          Only(events', SizeTold, window_size', i, A)
  BY <1>0, <1>2, OnlyTaken
<1>4. ASSUME NEW i \in 1..Len(events'), events'[i].type \in MouseTypes
      PROVE  Only(events', SizeTold, window_size', i, {events'[i].size})
  <2>1. i \in 1..Len(events) /\ i + 1 \in 1..Len(events) /\ events'[i] = events[i + 1]
    BY <1>1
  <2>2. Only(events, SizeTold, window_size, i + 1, {events'[i].size})
    BY <1>4, <2>1 DEF InsideInv
  <2>3. QED
    BY <1>3, <2>1, <2>2
<1>5. Only(events', SizeTold, window_size', Len(events') + 1, {size})
  BY <1>0, <1>2, OnlyTaken DEF InsideInv
<1>6. QED
  BY <1>4, <1>5

\* Every step keeps the mouse events in the window they are from.
LEMMA InsideStep ==
  ASSUME TypeInv, InsideInv, [Next]_vars
  PROVE  InsideInv'
<1>1. CASE ReceiveFrame \/ PollNothing \/ handleMouseEvent \/ handleKeyboardEvent
           \/ UNCHANGED vars
  <2>1. UNCHANGED <<size, events, window_size, lost>>
    BY <1>1 DEF ReceiveFrame, PollNothing, handleMouseEvent, handleKeyboardEvent, Plays,
                userVars, viewerVars, historyVars, vars
  <2>2. QED
    BY <2>1 DEF InsideInv
<1>2. CASE HandleResized
  <2>1. Polled({"resized"}) /\ window_size' = Head(events).size
    BY <1>2 DEF HandleResized
  <2>2. QED
    BY <2>1, PolledFacts, InsideTaken
<1>3. CASE HandleMotion \/ HandleWheel \/ HandleButton \/ HandleKey \/ HandleQuit
  <2>1. PICK types \in {{"motion"}, {"wheel"}, ButtonTypes, KeyTypes, {"quit"}} :
          Polled(types) /\ window_size' = window_size
    BY <1>3 DEF HandleMotion, HandleWheel, HandleButton, HandleKey, HandleQuit, ButtonTypes,
                KeyTypes
  <2>2. Head(events).type # "resized"
    BY <2>1, PolledFacts DEF ButtonTypes, KeyTypes
  <2>3. QED
    BY <2>1, <2>2, PolledFacts, InsideTaken
<1>4. CASE PollTimeout
  <2>1. /\ events # <<>> /\ events' = Tail(events) /\ UNCHANGED <<size, window_size>>
        /\ lost' = lost \cup {IF Head(events).type = "resized" THEN "resized" ELSE "input"}
    BY <1>4 DEF PollTimeout, userVars, viewerVars
  <2>2. QED
    BY <2>1, InsideTaken
<1>5. QED
  BY <1>1, <1>2, <1>3, <1>4, InsideUser DEF Next

\* The first mouse event in the queue is from the window that the viewer knows.
LEMMA HeadSize ==
  ASSUME TypeInv, InsideInv, events # <<>>, Head(events).type \in MouseTypes,
         "resized" \notin lost
  PROVE  Head(events).size = window_size
<1>1. events \in Seq(Event(used)) /\ Len(events) \in Nat \ {0} /\ Head(events) = events[1]
  BY Taken DEF TypeInv
<1>2. Only(events, SizeTold, window_size, 1, {Head(events).size})
  BY <1>1 DEF InsideInv
<1>3. window_size \in {Head(events).size}
  BY <1>2, OnlyFirst
<1>4. QED
  BY <1>3

\* A position that is sent is one of the first event in the queue.
LEMMA InsideSent ==
  ASSUME TypeInv, InsideInv, [Next]_vars,
         Len(wire') > Len(wire), Head(events).type \in MouseTypes, AsPointed(Head(events))
  PROVE  /\ wire'[Len(wire')].x = SpotOf(Head(events))
         /\ wire'[Len(wire')].x \in 0..(frame_width - 1)
<1> DEFINE e == Head(events)
<1>0. wire \in Seq(Message) /\ Len(wire) \in Nat
  BY DEF TypeInv
<1>1. CASE HandleMotion \/ HandleButton
  <2>1. PICK types \in {{"motion"}, ButtonTypes} : Polled(types)
    BY <1>1 DEF HandleMotion, HandleButton, ButtonTypes
  <2>2. /\ events # <<>> /\ e \in Event(used)
        /\ e.type = "motion" => types = {"motion"}
    BY <2>1, PolledFacts DEF ButtonTypes
  <2>3. /\ Scaled(e.x) = SpotOf(e) /\ Scaled(e.x) \in Int /\ SpotOf(e) \in Int
        /\ SpotOf(e) \in 0..(frame_width - 1)
    BY <2>2, HeadSize, EventPositions DEF AsPointed
  <2>4. PICK m \in Message : Send(m) /\ m.x = Scaled(e.x)
    <3>1. CASE HandleMotion
      <4>1. Send(MouseInput(MOVE, Scaled(e.x)))
        BY <1>0, <3>1 DEF HandleMotion
      <4>2. MouseInput(MOVE, Scaled(e.x)) \in Message
        BY <2>3, MouseMessage, MaskTypes
      <4>3. QED
        BY <4>1, <4>2 DEF MouseInput
    <3>2. CASE HandleButton
      <4>1. PICK mask \in {convertToMask(e.id), setClicked(convertToMask(e.id))} :
              Polled(ButtonTypes) /\ Send(ClickInput(mask, Scaled(e.x), SpotOf(e)))
        BY <3>2 DEF HandleButton, ButtonTypes
      <4>2. e.id \in Button
        BY <2>2, <4>1, PolledFacts, EventFields, Widths DEF TypeInv
      <4>3. mask \in Mask
        BY <4>1, <4>2, MaskTypes
      <4>4. ClickInput(mask, Scaled(e.x), SpotOf(e)) \in Message
        BY <2>3, <4>3, ButtonMessage
      <4>5. QED
        BY <4>1, <4>4 DEF ClickInput
    <3>3. QED
      BY <1>1, <3>1, <3>2
  <2>5. wire' = Append(wire, m)
    BY <2>4, SendFacts
  <2>6. wire'[Len(wire')] = m
    BY <1>0, <2>4, <2>5, Appended
  <2>7. QED
    BY <2>3, <2>4, <2>6
<1>2. CASE HandleWheel \/ HandleKey \/ HandleResized \/ HandleQuit
  <2>1. PICK types \in {{"wheel"}, KeyTypes, {"resized"}, {"quit"}} : Polled(types)
    BY <1>2 DEF HandleWheel, HandleKey, HandleResized, HandleQuit, KeyTypes
  <2>2. QED
    BY <2>1, PolledFacts DEF MouseTypes, ButtonTypes, KeyTypes
<1>3. CASE handleMouseEvent \/ handleKeyboardEvent
  <2>1. wire # <<>> /\ wire' = Tail(wire)
    BY <1>3, PlaysFacts DEF handleMouseEvent, handleKeyboardEvent
  <2>2. QED
    BY <1>0, <2>1, Taken
<1>4. CASE UNCHANGED wire
  BY <1>0, <1>4
<1>5. CASE UserPresses \/ UserReleases \/ UserMoves \/ UserTurnsWheel \/ UserResizes
           \/ UserQuits \/ ReceiveFrame \/ PollNothing \/ PollTimeout \/ UNCHANGED vars
  <2>1. UNCHANGED wire
    BY <1>5 DEF UserPresses, UserReleases, UserMoves, UserTurnsWheel, UserResizes, UserQuits,
                ReceiveFrame, PollNothing, PollTimeout, Enqueue, vars
  <2>2. QED
    BY <1>4, <2>1
<1>6. QED
  BY <1>1, <1>2, <1>3, <1>5 DEF Next

\* At the start nothing is queued.
LEMMA InsideInit ==
  ASSUME Init
  PROVE  InsideInv
<1>1. events = <<>> /\ Len(events) = 0 /\ window_size = size
  BY DEF Init
<1>2. \A v : Known(<<>>, SizeTold, size, 1, v) => v = size
  BY DEF Known
<1>3. QED
  BY <1>1, <1>2 DEF InsideInv, Only

\* A position is sent as the spot of the streamer's screen that the user points at,
\* whatever the sizes of the window and the screen and whenever the window is resized,
\* if the event was queued while the renderer's logical size was the window's and the
\* loop has dropped no resize event.
THEOREM PointerInsideHolds == Spec => PointerInside
<1>1. Init => TypeInv /\ InsideInv
  BY TypeInit, InsideInit
<1>2. TypeInv /\ InsideInv /\ [Next]_vars => TypeInv' /\ InsideInv'
  BY TypeStep, InsideStep
<1>3. TypeInv /\ InsideInv /\ [Next]_vars =>
        [Len(wire') > Len(wire) /\ Head(events).type \in {"motion", "button_down", "button_up"}
           /\ AsPointed(Head(events))
           => /\ wire'[Len(wire')].x = SpotOf(Head(events))
              /\ wire'[Len(wire')].x \in 0..(frame_width - 1)]_vars
  BY InsideSent DEF MouseTypes, ButtonTypes
<1>4. QED
  BY <1>1, <1>2, <1>3, PTL DEF Spec, PointerInside

-----------------------------------------------------------------------------
(***************************************************************************)
(* Where a click lands.                                                    *)
(***************************************************************************)

\* Where the pointer is after an event, if the event tells.
PointerTold ==
  [e \in MotionEvents(WindowSize) \cup [type : {"resized"}, size : WindowSize] |->
     IF e.type = "motion" THEN e.at ELSE Outside]

\* The pointer is where the last motion or resize event left it, the viewer having
\* last handled one that left it at "seen"; a button event is where the pointer was.
Aimed(seen) ==
  /\ \A i \in 1..Len(events) : events[i].type \in ButtonTypes =>
       Only(events, PointerTold, seen, i, {events[i].at})
  /\ Only(events, PointerTold, seen, Len(events) + 1, {pointer})

\* The spot of the frame for x in the window as the viewer knows it.
SpotAt(x) == (x * frame_width) \div window_size.w

\* That is where the messages move the streamer's pointer, if the last motion was
\* sent, and as where the user pointed.
Followed(seen) ==
  exact => /\ "resized" \notin lost
           /\ Only(wire, MoveOrder, remote.pointer, Len(wire) + 1, {SpotAt(seen) + x_org})

\* A click's message goes where the messages before it move the streamer's pointer.
ClicksFollow ==
  \A i \in 1..Len(wire) : IsClick(wire[i]) /\ wire[i].exact =>
    Only(wire, MoveOrder, remote.pointer, i, {wire[i].spot + x_org})

ClickInv == ClicksFollow /\ \E seen \in Int : Aimed(seen) /\ Followed(seen)

\* Only a motion and a resize event tell where the pointer is.
LEMMA PointersTold ==
  ASSUME TypeInv, NEW e \in Event(used)
  PROVE  /\ e \in DOMAIN PointerTold <=> e.type \in {"motion", "resized"}
         /\ e.type = "motion" => PointerTold[e] = e.at
         /\ e.type = "resized" => PointerTold[e] = Outside
<1>1. used.sizes \subseteq WindowSize
  BY Widths DEF TypeInv
<1>2. QED
  BY <1>1 DEF Event, ButtonEvents, MotionEvents, PointerTold, ButtonTypes, KeyTypes

\* The user's events are queued where the pointer is.
LEMMA AimedUser ==
  ASSUME TypeInv, NEW seen \in Int, Aimed(seen),
         UserPresses \/ UserReleases \/ UserMoves \/ UserTurnsWheel \/ UserResizes
           \/ UserQuits
  PROVE  Aimed(seen)'
<1>1. PICK e \in Event(used) :
        /\ Enqueue(e)
        /\ e.type \in ButtonTypes => e.at = pointer
        /\ IF e.type = "motion" THEN pointer' = e.at
           ELSE IF e.type = "resized" THEN pointer' = Outside
           ELSE pointer' = pointer
  BY UserEvents
<1>2. events \in Seq(Event(used)) /\ events' = Append(events, e) /\ Len(events) \in Nat
  BY <1>1 DEF TypeInv, Enqueue
<1>3. /\ Len(events') = Len(events) + 1 /\ events'[Len(events) + 1] = e
      /\ \A i \in 1..Len(events) : events'[i] = events[i]
  BY <1>2, Appended
<1>4. ASSUME NEW i \in 1..Len(events'), events'[i].type \in ButtonTypes
      PROVE  Only(events', PointerTold, seen, i, {events'[i].at})
  <2>1. i \in 1..(Len(events) + 1)
    BY <1>3
  <2>2. Only(events, PointerTold, seen, i, {events'[i].at})
    <3>1. CASE i \in 1..Len(events)
      BY <1>3, <1>4, <3>1 DEF Aimed
    <3>2. CASE i = Len(events) + 1
      BY <1>1, <1>3, <1>4, <3>2 DEF Aimed
    <3>3. QED
      BY <2>1, <3>1, <3>2
  <2>3. QED
    BY <1>2, <2>1, <2>2, OnlyBefore
<1>5. Only(events', PointerTold, seen, Len(events') + 1, {pointer'})
  BY <1>1, <1>2, PointersTold, OnlyAfter DEF Aimed
<1>6. QED
  BY <1>4, <1>5 DEF Aimed

\* The viewer takes the first event and has seen where it leaves the pointer.
LEMMA AimedTaken ==
  ASSUME TypeInv, NEW seen \in Int, Aimed(seen),
         events # <<>>, events' = Tail(events), pointer' = pointer, NEW next \in Int,
         IF Head(events).type = "motion" THEN next = Head(events).at
         ELSE IF Head(events).type = "resized" THEN next = Outside
         ELSE next = seen
  PROVE  /\ Aimed(next)'
         /\ Head(events).type \in ButtonTypes => Head(events).at = seen
<1>0. events \in Seq(Event(used))
  BY DEF TypeInv
<1>1. /\ Len(events) \in Nat \ {0} /\ Len(events') = Len(events) - 1
      /\ \A i \in 1..(Len(events) - 1) : events'[i] = events[i + 1]
      /\ Head(events) \in Event(used) /\ Head(events) = events[1]
  BY <1>0, Taken
<1>2. /\ Head(events) \in DOMAIN PointerTold => next = PointerTold[Head(events)]
      /\ Head(events) \notin DOMAIN PointerTold => next = seen
  BY <1>1, PointersTold
<1>3. \A i \in 1..Len(events) : \A A :
        Only(events, PointerTold, seen, i + 1, A) => Only(events', PointerTold, next, i, A)
  BY <1>0, <1>2, OnlyTaken
<1>4. ASSUME NEW i \in 1..Len(events'), events'[i].type \in ButtonTypes
      PROVE  Only(events', PointerTold, next, i, {events'[i].at})
  <2>1. i \in 1..Len(events) /\ i + 1 \in 1..Len(events) /\ events'[i] = events[i + 1]
    BY <1>1
  <2>2. Only(events, PointerTold, seen, i + 1, {events'[i].at})
    BY <1>4, <2>1 DEF Aimed
  <2>3. QED
    BY <1>3, <2>1, <2>2
<1>5. Only(events', PointerTold, next, Len(events') + 1, {pointer'})
  BY <1>0, <1>2, OnlyTaken DEF Aimed
<1>6. ASSUME Head(events).type \in ButtonTypes PROVE Head(events).at = seen
  <2>1. Only(events, PointerTold, seen, 1, {events[1].at})
    BY <1>1, <1>6 DEF Aimed
  <2>2. seen \in {events[1].at}
    BY <2>1, OnlyFirst
  <2>3. QED
    BY <1>1, <2>2
<1>7. QED
  BY <1>4, <1>5, <1>6 DEF Aimed

\* What a message asks of the pointer.
LEMMA Moves ==
  ASSUME NEW m \in Message
  PROVE  /\ m \in DOMAIN MoveOrder <=> m.type = "MOUSE_INPUT" /\ m.button_mask = MOVE
         /\ m \in DOMAIN MoveOrder => MoveOrder[m] = m.x + x_org /\ ~IsClick(m)
BY DEF MoveOrder, IsClick

\* A message is sent: a motion, or a click where the pointer will be, or another.
LEMMA ClicksSent ==
  ASSUME TypeInv, ClicksFollow, NEW m \in Message, Send(m), remote' = remote,
         IsClick(m) /\ m.exact =>
           Only(wire, MoveOrder, remote.pointer, Len(wire) + 1, {m.spot + x_org})
  PROVE  ClicksFollow'
<1>1. wire \in Seq(Message) /\ wire' = Append(wire, m) /\ Len(wire) \in Nat
  BY SendFacts DEF TypeInv
<1>2. /\ Len(wire') = Len(wire) + 1 /\ wire'[Len(wire) + 1] = m
      /\ \A i \in 1..Len(wire) : wire'[i] = wire[i]
  BY <1>1, Appended
<1>3. ASSUME NEW i \in 1..Len(wire'), IsClick(wire'[i]), wire'[i].exact
      PROVE  Only(wire', MoveOrder, remote.pointer, i, {wire'[i].spot + x_org})
  <2>1. i \in 1..(Len(wire) + 1)
    BY <1>2
  <2>2. Only(wire, MoveOrder, remote.pointer, i, {wire'[i].spot + x_org})
    <3>1. CASE i \in 1..Len(wire)
      BY <1>2, <1>3, <3>1 DEF ClicksFollow
    <3>2. CASE i = Len(wire) + 1
      BY <1>2, <1>3, <3>2
    <3>3. QED
      BY <2>1, <3>1, <3>2
  <2>3. QED
    BY <1>1, <2>1, <2>2, OnlyBefore
<1>4. QED
  BY <1>3 DEF ClicksFollow

\* A message that is no motion leaves the pointer where it was going.
LEMMA FollowedSent ==
  ASSUME TypeInv, NEW seen \in Int, Followed(seen), NEW m \in Message, Send(m),
         UNCHANGED <<remote, exact, lost, frame_width, window_size>>, m \notin DOMAIN MoveOrder
  PROVE  Followed(seen)'
<1>1. wire \in Seq(Message) /\ wire' = Append(wire, m)
  BY SendFacts DEF TypeInv
<1>2. SpotAt(seen)' = SpotAt(seen)
  BY DEF SpotAt
<1>3. ASSUME exact
      PROVE  Only(wire', MoveOrder, remote.pointer, Len(wire') + 1, {SpotAt(seen) + x_org})
  BY <1>1, <1>3, OnlyAfter DEF Followed
<1>4. QED
  BY <1>2, <1>3 DEF Followed

\* A motion that is sent is followed, and none is if it is not sent.
LEMMA ClickMotion ==
  ASSUME TypeInv, InsideInv, ClickInv, HandleMotion
  PROVE  ClickInv'
<1> DEFINE e == Head(events)
           message == MouseInput(MOVE, Scaled(e.x))
<1>1. /\ Polled({"motion"}) /\ UNCHANGED window_size
      /\ \/ Send(message) /\ exact' = AsPointed(e)
         \/ UNCHANGED wire /\ exact' = FALSE
  BY DEF HandleMotion
<1>2. /\ events # <<>> /\ events' = Tail(events)
      /\ UNCHANGED <<pointer, remote, frame_width, lost>>
      /\ e \in Event(used) /\ e.type = "motion" /\ e.type \in MouseTypes
  BY <1>1, PolledFacts DEF MouseTypes
<1>3. PICK seen \in Int : Aimed(seen) /\ Followed(seen)
  BY DEF ClickInv
<1>4. PICK x \in Int : x = e.at
  BY <1>2, EventFields
<1>5. Aimed(x)'
  BY <1>2, <1>3, <1>4, AimedTaken
<1>6. /\ message \in Message /\ message.type = "MOUSE_INPUT" /\ message.button_mask = MOVE
      /\ message.x = Scaled(e.x)
  BY <1>2, EventPositions, MouseMessage, MaskTypes DEF MouseInput
<1>7. AsPointed(e) => Scaled(e.x) = SpotAt(x) /\ "resized" \notin lost
  <2>1. SUFFICES ASSUME AsPointed(e) PROVE Scaled(e.x) = SpotAt(x)
    BY DEF AsPointed
  <2>2. e.size = window_size
    BY <1>2, <2>1, HeadSize DEF AsPointed
  <2>3. Scaled(e.x) = SpotOf(e)
    BY <1>2, <2>1, <2>2, EventPositions DEF AsPointed
  <2>4. QED
    BY <1>4, <2>2, <2>3 DEF SpotOf, SpotAt
<1> HIDE DEF message
<1>8. CASE Send(message) /\ exact' = AsPointed(e)
  <2>1. message \in DOMAIN MoveOrder /\ ~IsClick(message)
        /\ MoveOrder[message] = Scaled(e.x) + x_org
    BY <1>6, Moves
  <2>2. ClicksFollow'
    BY <1>2, <1>6, <1>8, <2>1, ClicksSent DEF ClickInv
  <2>3. wire \in Seq(Message) /\ wire' = Append(wire, message)
    BY <1>6, <1>8, SendFacts DEF TypeInv
  <2>4. Only(wire', MoveOrder, remote.pointer, Len(wire') + 1, {Scaled(e.x) + x_org})
    BY <1>6, <2>1, <2>3, OnlyAfter
  <2>5. SpotAt(x)' = SpotAt(x)
    BY <1>1, <1>2 DEF SpotAt
  <2>6. ASSUME AsPointed(e)
        PROVE  Only(wire', MoveOrder, remote.pointer, Len(wire') + 1, {SpotAt(x) + x_org})
    BY <1>7, <2>4, <2>6
  <2>7. Followed(x)'
    BY <1>2, <1>7, <1>8, <2>5, <2>6 DEF Followed
  <2>8. QED
    BY <1>5, <2>2, <2>7 DEF ClickInv
<1>9. CASE UNCHANGED wire /\ exact' = FALSE
  <2>1. Followed(x)'
    BY <1>9 DEF Followed
  <2>2. ClicksFollow'
    BY <1>2, <1>9 DEF ClickInv, ClicksFollow
  <2>3. QED
    BY <1>5, <2>1, <2>2 DEF ClickInv
<1>10. QED
  BY <1>1, <1>8, <1>9

\* A button's message goes where the pointer was left, a scroll's and a key's nowhere.
LEMMA ClickMessage ==
  ASSUME TypeInv, InsideInv, ClickInv, HandleWheel \/ HandleButton \/ HandleKey
  PROVE  ClickInv'
<1> DEFINE e == Head(events)
<1>1. PICK seen \in Int : Aimed(seen) /\ Followed(seen)
  BY DEF ClickInv
<1>2. PICK types \in {{"wheel"}, ButtonTypes, KeyTypes} :
        Polled(types) /\ UNCHANGED <<window_size, exact>>
  BY DEF HandleWheel, HandleButton, HandleKey, ButtonTypes, KeyTypes
<1>3. /\ events # <<>> /\ events' = Tail(events)
      /\ UNCHANGED <<pointer, remote, frame_width, lost>>
      /\ e \in Event(used) /\ e.type \in types
      /\ e.type # "motion" /\ e.type # "resized"
  BY <1>2, PolledFacts DEF ButtonTypes, KeyTypes
<1>4. Aimed(seen)' /\ (e.type \in ButtonTypes => e.at = seen)
  BY <1>1, <1>3, AimedTaken
<1>5. PICK m \in Message :
        /\ Send(m) /\ m \notin DOMAIN MoveOrder
        /\ IsClick(m) => m.exact = exact /\ (exact => m.spot = SpotAt(seen))
  <2>1. CASE HandleWheel
    <3>1. PICK mask \in {SCROLL_UP_MASK, SCROLL_DOWN_MASK} : Send(MouseInput(mask, 0))
      BY <2>1 DEF HandleWheel
    <3>2. mask # MOVE /\ isScrollMoved(mask) /\ mask \in Mask
      BY MaskTypes DEF SCROLL_UP_MASK, SCROLL_DOWN_MASK, MOVE, isScrollMoved
    <3>3. /\ MouseInput(mask, 0) \in Message /\ MouseInput(mask, 0).button_mask = mask
          /\ MouseInput(mask, 0).type = "MOUSE_INPUT"
      BY <3>2, MouseMessage DEF MouseInput
    <3>4. QED
      BY <3>1, <3>2, <3>3, Moves DEF IsClick
  <2>2. CASE HandleButton
    <3>1. PICK mask \in {convertToMask(e.id), setClicked(convertToMask(e.id))} :
            Polled(ButtonTypes) /\ Send(ClickInput(mask, Scaled(e.x), SpotOf(e)))
      BY <2>2 DEF HandleButton, ButtonTypes
    <3>2. e.type \in ButtonTypes
      BY <3>1, PolledFacts
    <3>3. /\ e.id \in Button /\ e.at = seen
          /\ Scaled(e.x) \in Int /\ SpotOf(e) \in Int
      BY <1>3, <1>4, <3>2, EventFields, EventPositions, Widths DEF TypeInv, MouseTypes
    <3>4. mask # MOVE /\ mask \in Mask
      BY <3>3, ButtonMask, MaskTypes
    <3>5. /\ ClickInput(mask, Scaled(e.x), SpotOf(e)) \in Message
          /\ ClickInput(mask, Scaled(e.x), SpotOf(e)).button_mask = mask
          /\ ClickInput(mask, Scaled(e.x), SpotOf(e)).type = "MOUSE_INPUT"
          /\ ClickInput(mask, Scaled(e.x), SpotOf(e)).spot = SpotOf(e)
          /\ ClickInput(mask, Scaled(e.x), SpotOf(e)).exact = exact
      BY <3>3, <3>4, ButtonMessage DEF ClickInput
    <3>6. exact => SpotOf(e) = SpotAt(seen)
      <4>1. SUFFICES ASSUME exact PROVE e.size = window_size
        BY <3>3 DEF SpotOf, SpotAt
      <4>2. "resized" \notin lost
        BY <1>1, <4>1 DEF Followed
      <4>3. QED
        BY <1>3, <3>2, <4>2, HeadSize DEF MouseTypes
    <3>7. QED
      BY <3>1, <3>4, <3>5, <3>6, Moves
  <2>3. CASE HandleKey
    <3>1. PICK down \in BOOLEAN : /\ Polled(KeyTypes)
            /\ Send([type |-> "KEYBOARD_INPUT", down |-> down, key |-> SDLKeySymToX11(e.id)])
      BY <2>3 DEF HandleKey, KeyTypes
    <3>2. e.type \in KeyTypes
      BY <3>1, PolledFacts
    <3>3. e.id \in Key
      BY <1>3, <3>2, EventFields, Widths DEF TypeInv
    <3>4. [type |-> "KEYBOARD_INPUT", down |-> down, key |-> SDLKeySymToX11(e.id)] \in Message
      BY <3>3 DEF Message
    <3>5. QED
      BY <3>1, <3>4, Moves DEF IsClick
  <2>4. QED
    BY <2>1, <2>2, <2>3
<1>6. Followed(seen)'
  BY <1>1, <1>2, <1>3, <1>5, FollowedSent
<1>7. IsClick(m) /\ m.exact =>
        Only(wire, MoveOrder, remote.pointer, Len(wire) + 1, {m.spot + x_org})
  BY <1>1, <1>5 DEF Followed
<1>8. ClicksFollow'
  BY <1>3, <1>5, <1>7, ClicksSent DEF ClickInv
<1>9. QED
  BY <1>4, <1>6, <1>8 DEF ClickInv

\* The first event is taken and nothing is sent: if the event moved the pointer, or
\* the scale is another, the streamer's pointer is no longer exact.
LEMMA ClickSkipped ==
  ASSUME TypeInv, ClickInv, events # <<>>, events' = Tail(events),
         UNCHANGED <<pointer, wire, remote, frame_width>>,
         exact' => /\ exact /\ window_size' = window_size
                   /\ "resized" \in lost' => "resized" \in lost
                   /\ Head(events).type \notin {"motion", "resized"}
  PROVE  ClickInv'
<1>1. PICK seen \in Int : Aimed(seen) /\ Followed(seen)
  BY DEF ClickInv
<1>2. Head(events) \in Event(used)
  BY Taken DEF TypeInv
<1>3. PICK next \in Int :
        IF Head(events).type = "motion" THEN next = Head(events).at
        ELSE IF Head(events).type = "resized" THEN next = Outside
        ELSE next = seen
  BY <1>2, EventFields DEF Outside, MouseTypes
<1>4. Aimed(next)'
  BY <1>1, <1>3, AimedTaken
<1>5. Followed(next)'
  <2>1. exact' => next = seen
    BY <1>3
  <2>2. exact' => SpotAt(next)' = SpotAt(seen)
    BY <2>1 DEF SpotAt
  <2>3. QED
    BY <1>1, <2>2 DEF Followed
<1>6. ClicksFollow'
  BY DEF ClickInv, ClicksFollow
<1>7. QED
  BY <1>4, <1>5, <1>6 DEF ClickInv

\* Playing a message back moves the pointer as the message asks.
LEMMA ClickPlayed ==
  ASSUME TypeInv, ClickInv, handleMouseEvent \/ handleKeyboardEvent
  PROVE  ClickInv'
<1>1. PICK seen \in Int : Aimed(seen) /\ Followed(seen)
  BY DEF ClickInv
<1>2. /\ wire # <<>> /\ wire' = Tail(wire) /\ wire \in Seq(Message) /\ Head(wire) \in Message
      /\ UNCHANGED <<events, pointer, exact, lost, frame_width, window_size>>
  BY PlaysFacts DEF handleMouseEvent, handleKeyboardEvent, TypeInv
<1>3. /\ Head(wire) \in DOMAIN MoveOrder => remote'.pointer = MoveOrder[Head(wire)]
      /\ Head(wire) \notin DOMAIN MoveOrder => remote'.pointer = remote.pointer
  <2>1. CASE handleMouseEvent
    BY <2>1, MouseEffect
  <2>2. CASE handleKeyboardEvent
    <3>1. Head(wire).type = "KEYBOARD_INPUT"
      BY <2>2, PlaysFacts DEF handleKeyboardEvent
    <3>2. QED
      BY <1>2, <2>2, <3>1, KeyboardEffect, Orders
  <2>3. QED
    BY <2>1, <2>2
<1>4. /\ \A i \in 1..Len(wire) : \A A :
           Only(wire, MoveOrder, remote.pointer, i + 1, A) =>
             Only(wire', MoveOrder, remote'.pointer, i, A)
      /\ \A A : Only(wire, MoveOrder, remote.pointer, Len(wire) + 1, A) =>
                  Only(wire', MoveOrder, remote'.pointer, Len(wire') + 1, A)
  BY <1>2, <1>3, OnlyTaken
<1>5. Aimed(seen)'
  BY <1>1, <1>2 DEF Aimed
<1>6. Followed(seen)'
  <2>1. SpotAt(seen)' = SpotAt(seen)
    BY <1>2 DEF SpotAt
  <2>2. QED
    BY <1>1, <1>2, <1>4, <2>1 DEF Followed
<1>7. ClicksFollow'
  <2>1. ASSUME NEW i \in 1..Len(wire'), IsClick(wire'[i]), wire'[i].exact
        PROVE  Only(wire', MoveOrder, remote'.pointer, i, {wire'[i].spot + x_org})
    <3>1. i \in 1..Len(wire) /\ i + 1 \in 1..Len(wire) /\ wire'[i] = wire[i + 1]
      <4>1. /\ Len(wire) \in Nat \ {0} /\ Len(wire') = Len(wire) - 1
            /\ \A j \in 1..(Len(wire) - 1) : wire'[j] = wire[j + 1]
        BY <1>2, Taken
      <4>2. QED
        BY <4>1
    <3>2. Only(wire, MoveOrder, remote.pointer, i + 1, {wire'[i].spot + x_org})
      BY <2>1, <3>1 DEF ClickInv, ClicksFollow
    <3>3. QED
      BY <1>4, <3>1, <3>2
  <2>2. QED
    BY <2>1 DEF ClicksFollow
<1>8. QED
  BY <1>5, <1>6, <1>7 DEF ClickInv

\* Every step keeps the clicks where the pointer goes.
LEMMA ClickStep ==
  ASSUME TypeInv, InsideInv, ClickInv, [Next]_vars
  PROVE  ClickInv'
<1>0. PICK seen \in Int : Aimed(seen) /\ Followed(seen)
  BY DEF ClickInv
<1>1. CASE UserPresses \/ UserReleases \/ UserMoves \/ UserTurnsWheel \/ UserResizes
           \/ UserQuits
  <2>1. UNCHANGED <<wire, remote, exact, lost, frame_width, window_size>>
    BY <1>1 DEF UserPresses, UserReleases, UserMoves, UserTurnsWheel, UserResizes, UserQuits,
                Enqueue, viewerVars, historyVars
  <2>2. Aimed(seen)'
    BY <1>0, <1>1, AimedUser
  <2>3. Followed(seen)' /\ ClicksFollow'
    BY <1>0, <2>1 DEF Followed, SpotAt, ClickInv, ClicksFollow
  <2>4. QED
    BY <2>2, <2>3 DEF ClickInv
<1>2. CASE ReceiveFrame \/ PollNothing \/ UNCHANGED vars
  <2>1. /\ UNCHANGED <<events, pointer, wire, remote, lost, window_size>>
        /\ exact' => exact /\ frame_width' = frame_width
    <3>1. CASE ReceiveFrame
      BY <3>1, Zenon DEF ReceiveFrame, userVars
    <3>2. CASE PollNothing \/ UNCHANGED vars
      BY <3>2 DEF PollNothing, userVars, viewerVars, historyVars, vars
    <3>3. QED
      BY <1>2, <3>1, <3>2
  <2>2. Aimed(seen)'
    BY <1>0, <2>1 DEF Aimed
  <2>3. Followed(seen)' /\ ClicksFollow'
    BY <1>0, <2>1 DEF Followed, SpotAt, ClickInv, ClicksFollow
  <2>4. QED
    BY <2>2, <2>3 DEF ClickInv
<1>3. CASE HandleResized \/ HandleQuit
  <2>1. PICK types \in {{"resized"}, {"quit"}} :
          /\ Polled(types) /\ UNCHANGED wire
          /\ exact' => exact /\ window_size' = window_size /\ types = {"quit"}
    BY <1>3 DEF HandleResized, HandleQuit
  <2>2. QED
    BY <2>1, PolledFacts, ClickSkipped
<1>4. CASE PollTimeout
  <2>1. /\ events # <<>> /\ events' = Tail(events)
        /\ UNCHANGED <<pointer, wire, remote, frame_width, window_size>>
        /\ exact' => exact /\ Head(events).type \notin {"motion", "resized"}
        /\ Head(events).type # "resized" => ("resized" \in lost' => "resized" \in lost)
    BY <1>4 DEF PollTimeout, userVars, viewerVars
  <2>2. QED
    BY <2>1, ClickSkipped
<1>5. QED
  BY <1>1, <1>2, <1>3, <1>4, ClickMotion, ClickMessage, ClickPlayed DEF Next

\* At the start nothing is on its way and the pointer is outside.
LEMMA ClickInit ==
  ASSUME Init
  PROVE  ClickInv
<1>1. /\ events = <<>> /\ wire = <<>> /\ pointer = Outside /\ exact = FALSE
      /\ Len(events) = 0 /\ Len(wire) = 0 /\ Outside \in Int
  BY DEF Init, Outside
<1>2. Aimed(Outside)
  <2>1. \A v : Known(<<>>, PointerTold, Outside, 1, v) => v = Outside
    BY DEF Known
  <2>2. QED
    BY <1>1, <2>1 DEF Aimed, Only
<1>3. Followed(Outside) /\ ClicksFollow
  BY <1>1 DEF Followed, ClicksFollow
<1>4. QED
  BY <1>1, <1>2, <1>3 DEF ClickInv

\* A click is played back on the spot the user points at, although its own position
\* is not looked at, unless since the last motion that was sent, and as where the user
\* pointed, one was held back, dropped or sent as another spot, or the scale has changed:
\* for any sizes, and wherever the streamer's screen begins.
THEOREM ClickLandsHolds == Spec => []ClickLands
<1>1. Init => TypeInv /\ InsideInv /\ ClickInv
  BY TypeInit, InsideInit, ClickInit
<1>2. TypeInv /\ InsideInv /\ ClickInv /\ [Next]_vars => TypeInv' /\ InsideInv' /\ ClickInv'
  BY TypeStep, InsideStep, ClickStep
<1>3. TypeInv /\ ClickInv => ClickLands
  <2>1. SUFFICES ASSUME TypeInv, ClickInv, wire # <<>>, IsClick(Head(wire)), Head(wire).exact
                 PROVE  remote.pointer = Head(wire).spot + x_org
    BY DEF ClickLands
  <2>2. Len(wire) \in Nat \ {0} /\ Head(wire) = wire[1]
    BY <2>1, Taken DEF TypeInv
  <2>3. Only(wire, MoveOrder, remote.pointer, 1, {wire[1].spot + x_org})
    BY <2>1, <2>2 DEF ClickInv, ClicksFollow
  <2>4. remote.pointer \in {wire[1].spot + x_org}
    BY <2>3, OnlyFirst
  <2>5. QED
    BY <2>2, <2>4
<1>4. QED
  BY <1>1, <1>2, <1>3, PTL DEF Spec
===============================================================================
