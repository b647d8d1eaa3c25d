------------------------- MODULE SessionsManagerProofs -------------------------
(***************************************************************************)
(* Theorems about SessionsManager, for any number of callers, sessions,    *)
(* codes and cleaners: the types of its variables, mutual exclusion, the   *)
(* agreement of the registry with the sessions on offer, one end for every *)
(* registration, and none before its time; and in what way alone its       *)
(* threads can wait for each other.                                        *)
(***************************************************************************)
EXTENDS SessionsManager, TLAPS

Registering(t) == caller[t].step \in {"lock_register", "register"}
Finding(t) == caller[t].step \in {"lock_find", "contains", "extract"}

\* A call carries what its steps use: a session to register, a code to find.
CallersFit ==
  \A t \in Caller : /\ Registering(t) => caller[t].arg \in Session
                    /\ Finding(t) => caller[t].arg \in Code

\* A cleaner that no initCleanerThread has made does nothing.
NotYetMade == \A i \in Cleaner : i > inits => cleaner[i] = "none"

\* A session that is being registered is registered by one caller only, and
\* has not been on offer before.
RegisteredOnce ==
  /\ \A t \in Caller : Registering(t) => fate[caller[t].arg] = "arriving"
  /\ \A t, u \in Caller :
       Registering(t) /\ Registering(u) /\ caller[t].arg = caller[u].arg => t = u

TypeInv == TypeOK /\ CallersFit /\ NotYetMade

-----------------------------------------------------------------------------
(***************************************************************************)
(* Typing.                                                                 *)
(***************************************************************************)

\* An entry grows older up to the age that counts as overdue, and the clock is
\* set back no further than MaxShift before the entry's time_point.
LEMMA AgedType ==
  ASSUME NEW a \in Age, NEW ticks \in Int, a + ticks >= -MaxShift
  PROVE  Aged(a, ticks) \in Age
BY TimeoutAssumption, ShiftAssumption DEF Age, Aged

\* A tick keeps the types of both ages.
LEMMA OlderType ==
  /\ \A a \in Age : Older(a) \in Age
  /\ \A a \in 0..(ClientTimeout + 1) : Older(a) \in 0..(ClientTimeout + 1)
BY TimeoutAssumption, ShiftAssumption DEF Age, Older, Aged

\* A new entry is younger than any timeout.
LEMMA ZeroAge == 0 \in Age /\ 0 \in 0..(ClientTimeout + 1)
BY TimeoutAssumption, ShiftAssumption DEF Age

\* Settled gives every session a fate.
LEMMA SettledType ==
  ASSUME TypeOK, NEW codes, NEW outcome \in Fates
  PROVE  Settled(codes, outcome) \in [Session -> Fates]
BY DEF TypeOK, Settled

\* What is left of the offers when some have ended is of the types it was.
LEMMA OffersEndType ==
  ASSUME TypeOK, OffersEnd
  PROVE  /\ onOffer' \in [Session -> 0..(ClientTimeout + 1)]
         /\ misdated' \in SUBSET Session
BY ZeroAge DEF TypeOK, OffersEnd

\* Init gives every variable a value of its type.
LEMMA TypeInit == Init => TypeInv
BY SessionAssumption, TimeoutAssumption, InitsAssumption, ShiftAssumption
   DEF Init, TypeInv, TypeOK, CallersFit, NotYetMade, Registering, Finding,
       Idle, Age, CallerSteps, Fates, Cleaner

\* A caller's steps keep the types: register and find read the right kind of
\* argument.
LEMMA CallerTypeStep ==
  ASSUME TypeInv, NEW t \in Caller, CallerNext(t) \/ CallerStep(t)
  PROVE  TypeInv'
<1> USE DEF registryVars, historyVars, offerVars, threadVars, TypeInv, CallersFit,
            NotYetMade, Registering, Finding
<1>1. ASSUME NEW s \in Session, CallRegister(t, s) PROVE TypeInv'
  BY <1>1 DEF TypeOK, CallRegister, Call, CallerSteps, Fates
<1>2. ASSUME NEW c \in Code, CallFind(t, c) PROVE TypeInv'
  BY <1>2 DEF TypeOK, CallFind, Call, CallerSteps
<1>3. CASE Lock(t)
  BY <1>3 DEF TypeOK, Lock, CallerSteps
<1>4. CASE registerStreamer(t)
  <2>1. Settled({SessionId}, "displaced") \in [Session -> Fates]
    BY SettledType DEF Fates
  <2>2. fate' \in [Session -> Fates]
    BY <1>4, <2>1 DEF registerStreamer, Fates
  <2>3. senders_sessions' \in [Code -> Session \cup {NoSession}]
    BY <1>4 DEF registerStreamer, TypeOK
  <2>4. age' \in [Code -> Age]
    BY <1>4, ZeroAge DEF registerStreamer, TypeOK
  <2>5. caller' \in [Caller ->
                     [step : CallerSteps, arg : Session \cup Code \cup {NoSession}]]
    BY <1>4 DEF registerStreamer, TypeOK, Idle, CallerSteps
  <2>6. TypeOK'
    BY <1>4, <2>2, <2>3, <2>4, <2>5, OffersEndType DEF registerStreamer, TypeOK
  <2>7. CallersFit' /\ NotYetMade'
    BY <1>4 DEF registerStreamer, TypeOK, Idle, CallerSteps
  <2> QED
    BY <2>6, <2>7
<1>5. CASE FindContains(t)
  BY <1>5 DEF TypeOK, FindContains, Idle, CallerSteps
<1>6. CASE FindExtract(t)
  <2>1. fate' \in [Session -> Fates]
    BY <1>6, SettledType DEF FindExtract, Fates
  <2>2. age' \in [Code -> Age]
    BY <1>6, ZeroAge DEF FindExtract, TypeOK
  <2> QED
    BY <1>6, <2>1, <2>2, OffersEndType DEF FindExtract, TypeOK, Idle, CallerSteps
<1> QED
  BY <1>1, <1>2, <1>3, <1>4, <1>5, <1>6 DEF CallerNext, CallerStep

\* A cleaner's steps keep the types.
LEMMA CleanerTypeStep ==
  ASSUME TypeInv, NEW i \in Cleaner, CleanerStep(i)
  PROVE  TypeInv'
<1> USE DEF registryVars, historyVars, offerVars, TypeInv, CallersFit, NotYetMade,
            Registering, Finding, Move
<1>1. CASE CheckStop(i)
  BY <1>1 DEF CheckStop, TypeOK
<1>2. CASE LockForSweep(i)
  BY <1>2 DEF LockForSweep, TypeOK
<1>3. CASE terminateTimeoutClients(i)
  <2>1. fate' \in [Session -> Fates]
    BY <1>3, SettledType DEF terminateTimeoutClients, Fates
  <2>2. age' \in [Code -> Age]
    BY <1>3, ZeroAge DEF terminateTimeoutClients, TypeOK
  <2>3. senders_sessions' \in [Code -> Session \cup {NoSession}]
    BY <1>3 DEF terminateTimeoutClients, TypeOK
  <2> QED
    BY <1>3, <2>1, <2>2, <2>3, OffersEndType DEF terminateTimeoutClients, TypeOK
<1>4. CASE WaitInterval(i)
  BY <1>4 DEF WaitInterval, TypeOK
<1> QED
  BY CleanerStep(i), <1>1, <1>2, <1>3, <1>4 DEF CleanerStep

\* The main thread's steps keep the types.
LEMMA MainTypeStep ==
  ASSUME TypeInv, initCleanerThread \/ CallReset \/ MainStep
  PROVE  TypeInv'
<1> USE DEF registryVars, historyVars, offerVars, TypeInv, CallersFit, NotYetMade,
            Registering, Finding
<1>1. CASE initCleanerThread
  <2>1. /\ inits' \in 0..MaxInits
        /\ connections_controller' \in 0..inits'
    BY <1>1, InitsAssumption DEF initCleanerThread, TypeOK
  <2>2. \A i \in Cleaner : i > inits' => cleaner'[i] = "none"
    BY <1>1, InitsAssumption DEF initCleanerThread, TypeOK, Cleaner
  <2>3. main' \in {"idle", "join_replaced"} /\ stop' \in [Cleaner -> BOOLEAN]
    BY <1>1 DEF initCleanerThread, TypeOK
  <2>4. cleaner' \in [Cleaner -> {"none", "check", "lock", "sweep", "wait", "done"}]
    BY <1>1 DEF initCleanerThread, TypeOK
  <2> QED
    BY <1>1, <2>1, <2>2, <2>3, <2>4 DEF initCleanerThread, TypeOK
<1>2. CASE CallReset
  BY <1>2 DEF CallReset, TypeOK
<1>3. CASE JoinReplaced
  BY <1>3 DEF JoinReplaced, TypeOK
<1>4. CASE ResetClear
  <2>1. fate' \in [Session -> Fates]
    BY <1>4, SettledType DEF ResetClear, Fates
  <2>2. age' \in [Code -> Age]
    BY <1>4, ZeroAge DEF ResetClear
  <2> QED
    BY <1>4, <2>1, <2>2, OffersEndType DEF ResetClear, TypeOK
<1>5. CASE ResetJoin
  BY <1>5 DEF ResetJoin, TypeOK
<1> QED
  BY <1>1, <1>2, <1>3, <1>4, <1>5 DEF MainStep

\* Every step keeps the types.
LEMMA TypeStep ==
  ASSUME TypeInv, [Next]_vars
  PROVE  TypeInv'
<1>1. CASE Tick
  <2>1. age' \in [Code -> Age]
    BY <1>1, OlderType DEF Tick, EntriesAge, Older, TypeInv, TypeOK
  <2>2. onOffer' \in [Session -> 0..(ClientTimeout + 1)]
    BY <1>1, OlderType DEF Tick, TypeInv, TypeOK
  <2>3. QED
    BY <1>1, <2>1, <2>2
       DEF Tick, TypeInv, TypeOK, CallersFit, NotYetMade, Registering, Finding,
           threadVars
<1>3. CASE SetClock
  <2>1. PICK ticks \in (-MaxShift)..MaxShift :
          /\ \A c \in Code : senders_sessions[c] # NoSession => age[c] + ticks >= -MaxShift
          /\ EntriesAge(ticks)
    BY <1>3 DEF SetClock
  <2>2. age' \in [Code -> Age]
    BY <2>1, AgedType, ShiftAssumption DEF EntriesAge, TypeInv, TypeOK
  <2>3. /\ misdated' \in SUBSET Session
        /\ UNCHANGED <<m, senders_sessions, caller, threadVars, fate, onOffer>>
    BY <1>3 DEF SetClock, TypeInv, TypeOK
  <2>4. QED
    BY <2>2, <2>3 DEF TypeInv, TypeOK, CallersFit, NotYetMade, Registering, Finding,
                      threadVars
<1>2. CASE UNCHANGED vars
  BY <1>2 DEF vars, registryVars, historyVars, offerVars, threadVars, TypeInv, TypeOK,
              CallersFit, NotYetMade, Registering, Finding
<1> QED
  BY <1>1, <1>2, <1>3, CallerTypeStep, CleanerTypeStep, MainTypeStep DEF Next

\* Every variable keeps its type, whatever the numbers of threads and codes.
THEOREM TypeCorrect == Spec => []TypeOK
<1>1. TypeInv /\ [Next]_vars => TypeInv'
  BY TypeStep
<1>2. TypeInv => TypeOK
  BY DEF TypeInv
<1> QED
  BY TypeInit, <1>1, <1>2, PTL DEF Spec

-----------------------------------------------------------------------------
(***************************************************************************)
(* Mutual exclusion.  With the types it is inductive: every step into a    *)
(* section needs m free, which says that nobody is inside, and every step  *)
(* that frees m is one of the only thread inside.                          *)
(***************************************************************************)

\* At the start nobody is inside.
LEMMA MutexInit == Init => MutualExclusion
BY DEF Init, MutualExclusion, CallerInside, CleanerInside, MainInside, Idle

\* A caller locks alone and unlocks as it leaves.
LEMMA CallerMutexStep ==
  ASSUME TypeInv, MutualExclusion, NEW t \in Caller, CallerNext(t) \/ CallerStep(t)
  PROVE  MutualExclusion'
<1> USE DEF registryVars, historyVars, offerVars, threadVars, MutualExclusion,
            CallerInside, CleanerInside, MainInside
<1>0. caller \in [Caller -> [step : CallerSteps, arg : Session \cup Code \cup {NoSession}]]
  BY DEF TypeInv, TypeOK
<1>1. ASSUME NEW s \in Session, CallRegister(t, s) PROVE MutualExclusion'
  BY <1>0, <1>1 DEF CallRegister, Call, Idle
<1>2. ASSUME NEW c \in Code, CallFind(t, c) PROVE MutualExclusion'
  BY <1>0, <1>2 DEF CallFind, Call, Idle
<1>3. CASE Lock(t)
  BY <1>0, <1>3 DEF Lock
<1>4. CASE registerStreamer(t)
  BY <1>0, <1>4 DEF registerStreamer, Idle
<1>5. CASE FindContains(t)
  BY <1>0, <1>5 DEF FindContains, Idle
<1>6. CASE FindExtract(t)
  BY <1>0, <1>6 DEF FindExtract, Idle
<1> QED
  BY <1>1, <1>2, <1>3, <1>4, <1>5, <1>6 DEF CallerNext, CallerStep

\* So does a cleaner; while it sweeps no find is about to extract an entry.
LEMMA CleanerMutexStep ==
  ASSUME TypeInv, MutualExclusion, NEW i \in Cleaner, CleanerStep(i)
  PROVE  MutualExclusion'
<1> USE DEF registryVars, historyVars, offerVars, MutualExclusion, Move,
            CallerInside, CleanerInside, MainInside
<1>0. cleaner \in [Cleaner -> {"none", "check", "lock", "sweep", "wait", "done"}]
  BY DEF TypeInv, TypeOK
<1>1. CASE CheckStop(i)
  BY <1>0, <1>1 DEF CheckStop
<1>2. CASE LockForSweep(i)
  BY <1>0, <1>2 DEF LockForSweep
<1>3. CASE terminateTimeoutClients(i)
  BY <1>0, <1>3 DEF terminateTimeoutClients
<1>4. CASE WaitInterval(i)
  BY <1>0, <1>4 DEF WaitInterval
<1> QED
  BY CleanerStep(i), <1>1, <1>2, <1>3, <1>4 DEF CleanerStep

\* reset clears the registry only when nobody else is inside, and is inside
\* itself until the cleaner is joined; a new cleaner starts outside.
LEMMA MainMutexStep ==
  ASSUME TypeInv, MutualExclusion, initCleanerThread \/ CallReset \/ MainStep
  PROVE  MutualExclusion'
<1> USE DEF registryVars, historyVars, offerVars, MutualExclusion,
            CallerInside, CleanerInside, MainInside
<1>1. CASE initCleanerThread
  <2>1. inits + 1 \in Cleaner /\ cleaner[inits + 1] = "none"
    BY <1>1, InitsAssumption
       DEF initCleanerThread, TypeInv, TypeOK, NotYetMade, Cleaner
  <2>2. \A j \in Cleaner : CleanerInside(j)' <=> CleanerInside(j)
    BY <1>1, <2>1 DEF initCleanerThread, TypeInv, TypeOK
  <2> QED
    BY <1>1, <2>2 DEF initCleanerThread
<1>2. CASE CallReset
  BY <1>2 DEF CallReset
<1>3. CASE JoinReplaced
  BY <1>3 DEF JoinReplaced
<1>4. CASE ResetClear
  BY <1>4 DEF ResetClear
<1>5. CASE ResetJoin
  BY <1>5 DEF ResetJoin
<1> QED
  BY <1>1, <1>2, <1>3, <1>4, <1>5 DEF MainStep

\* Every step keeps mutual exclusion.
LEMMA MutexStep ==
  ASSUME TypeInv, MutualExclusion, [Next]_vars
  PROVE  MutualExclusion'
<1>1. CASE Tick \/ SetClock \/ UNCHANGED vars
  BY <1>1 DEF Tick, SetClock, vars, registryVars, historyVars, offerVars, threadVars,
              MutualExclusion, CallerInside, CleanerInside, MainInside
<1> QED
  BY <1>1, CallerMutexStep, CleanerMutexStep, MainMutexStep DEF Next

\* At most one thread is between a lock and its unlock, m is held exactly
\* then, and what a find has seen is there when it extracts it.
THEOREM MutualExclusionHolds == Spec => []MutualExclusion
<1>1. Init => TypeInv /\ MutualExclusion
  BY TypeInit, MutexInit
<1>2. TypeInv /\ MutualExclusion /\ [Next]_vars => TypeInv' /\ MutualExclusion'
  BY TypeStep, MutexStep
<1> QED
  BY <1>1, <1>2, PTL DEF Spec

-----------------------------------------------------------------------------
(***************************************************************************)
(* The registry.  A session is offered by the step that enters it, and     *)
(* every step that removes an entry settles its session's fate.  That no   *)
(* session is entered twice is RegisteredOnce.                             *)
(***************************************************************************)
RegistryInv == RegistryIsOffers /\ RegisteredOnce

\* At the start nothing is registered or on offer.
LEMMA RegistryInit == Init => RegistryInv
BY SessionAssumption
   DEF Init, RegistryInv, RegistryIsOffers, RegisteredOnce, Registering, Idle

\* Taking the entries of some codes away and settling their sessions' fates
\* leaves the registry and the offers in agreement.
LEMMA RemovalKeepsOffers ==
  ASSUME TypeInv, RegistryInv, NEW codes \in SUBSET Code,
         NEW outcome \in {"claimed", "timed_out", "cleared"},
         senders_sessions' = [c \in Code |-> IF c \in codes THEN NoSession
                                                           ELSE senders_sessions[c]],
         fate' = Settled(codes, outcome),
         \A t \in Caller : caller'[t] = caller[t] \/ caller'[t] = Idle
  PROVE  RegistryInv'
<1>1. \A c \in Code : senders_sessions[c] \in Session \cup {NoSession}
  BY DEF TypeInv, TypeOK
<1>2. \A s \in Session : fate'[s] = IF \E c \in codes : senders_sessions[c] = s
                                      THEN outcome ELSE fate[s]
  BY DEF Settled
<1>3. RegistryIsOffers'
  BY <1>1, <1>2, SessionAssumption DEF RegistryInv, RegistryIsOffers
<1>4. ASSUME NEW t \in Caller, Registering(t)'
      PROVE  Registering(t) /\ caller'[t] = caller[t] /\ fate'[caller[t].arg] = "arriving"
  <2>1. caller'[t] = caller[t] /\ Registering(t)
    BY <1>4 DEF Registering, Idle
  <2>2. caller[t].arg \in Session /\ fate[caller[t].arg] = "arriving"
    BY <2>1 DEF TypeInv, CallersFit, RegistryInv, RegisteredOnce
  <2>3. \A c \in codes : senders_sessions[c] # caller[t].arg
    BY <2>2 DEF RegistryInv, RegistryIsOffers
  <2> QED
    BY <1>2, <2>1, <2>2, <2>3
<1>5. RegisteredOnce'
  BY <1>4 DEF RegistryInv, RegisteredOnce, Registering
<1> QED
  BY <1>3, <1>5 DEF RegistryInv

\* Entering a session settles the one it displaces.
LEMMA RegisterKeepsOffers ==
  ASSUME TypeInv, RegistryInv, NEW t \in Caller, registerStreamer(t)
  PROVE  RegistryInv'
<1> DEFINE new == caller[t].arg
<1>1. /\ Registering(t)
      /\ new \in Session
      /\ fate[new] = "arriving"
  BY DEF registerStreamer, Registering, TypeInv, CallersFit, RegistryInv, RegisteredOnce
<1>2. \A c \in Code : senders_sessions[c] # new
  BY <1>1 DEF RegistryInv, RegistryIsOffers
<1>3. \A c \in Code : senders_sessions'[c] = IF c = SessionId THEN new
                                                             ELSE senders_sessions[c]
  BY DEF registerStreamer, TypeInv, TypeOK
<1>4. \A s \in Session : fate'[s] = IF s = new THEN "offered"
                                    ELSE IF senders_sessions[SessionId] = s
                                           THEN "displaced" ELSE fate[s]
  BY DEF registerStreamer, Settled
<1>5. RegistryIsOffers'
  BY <1>1, <1>2, <1>3, <1>4, CodeAssumption, SessionAssumption
     DEF RegistryInv, RegistryIsOffers
<1>6. ASSUME NEW u \in Caller, Registering(u)'
      PROVE  /\ Registering(u) /\ caller'[u] = caller[u]
             /\ fate'[caller[u].arg] = "arriving"
  <2>1. u # t /\ caller'[u] = caller[u] /\ Registering(u)
    BY <1>6 DEF registerStreamer, Registering, Idle, TypeInv, TypeOK
  <2>2. /\ caller[u].arg \in Session
        /\ fate[caller[u].arg] = "arriving"
        /\ caller[u].arg # new
    BY <1>1, <2>1 DEF TypeInv, CallersFit, RegistryInv, RegisteredOnce
  <2>3. senders_sessions[SessionId] # caller[u].arg
    BY <2>2, CodeAssumption DEF RegistryInv, RegistryIsOffers
  <2> QED
    BY <1>4, <2>1, <2>2, <2>3
<1>7. RegisteredOnce'
  BY <1>6 DEF RegistryInv, RegisteredOnce, Registering
<1> QED
  BY <1>5, <1>7 DEF RegistryInv

\* A step that leaves the registry and the fates alone, and starts no
\* registration, changes nothing here.
LEMMA RegistryUnchanged ==
  ASSUME RegistryInv, UNCHANGED <<senders_sessions, fate>>,
         \A t \in Caller : Registering(t)' => Registering(t) /\ caller'[t].arg = caller[t].arg
  PROVE  RegistryInv'
BY DEF RegistryInv, RegistryIsOffers, RegisteredOnce, Registering

\* Every step keeps the registry and the offers in agreement.
LEMMA RegistryStep ==
  ASSUME TypeInv, RegistryInv, [Next]_vars
  PROVE  RegistryInv'
<1> USE DEF registryVars, historyVars, offerVars, threadVars
<1>0. /\ caller \in [Caller -> [step : CallerSteps, arg : Session \cup Code \cup {NoSession}]]
      /\ senders_sessions \in [Code -> Session \cup {NoSession}]
      /\ fate \in [Session -> Fates]
  BY DEF TypeInv, TypeOK
<1>1. CASE Tick \/ SetClock \/ UNCHANGED vars
  BY <1>1, RegistryUnchanged DEF Tick, SetClock, vars, Registering
<1>2. ASSUME NEW t \in Caller, CallerNext(t) \/ CallerStep(t) PROVE RegistryInv'
  <2>1. ASSUME NEW s \in Session, CallRegister(t, s) PROVE RegistryInv'
    <3>1. \A u \in Caller : Registering(u) => caller[u].arg # s
      BY <2>1 DEF CallRegister, RegistryInv, RegisteredOnce
    <3>2. \A u \in Caller : u # t => caller'[u] = caller[u]
      BY <1>0, <2>1 DEF CallRegister
    <3>3. caller'[t] = Call("lock_register", s) /\ ~Registering(t)
      BY <1>0, <2>1 DEF CallRegister, Registering, Idle
    <3>4. fate' = [fate EXCEPT ![s] = "arriving"] /\ fate[s] = "none"
      BY <2>1 DEF CallRegister
    <3>5. \A r \in Session : fate'[r] = IF r = s THEN "arriving" ELSE fate[r]
      BY <1>0, <3>4
    <3>6. RegistryIsOffers'
      BY <2>1, <3>4, <3>5 DEF CallRegister, RegistryInv, RegistryIsOffers
    <3>7. RegisteredOnce'
      <4>1. \A u \in Caller : u # t => (Registering(u)' <=> Registering(u))
        BY <3>2 DEF Registering
      <4>2. \A u \in Caller : Registering(u) => caller[u].arg \in Session
        BY DEF TypeInv, CallersFit
      <4> QED
        BY <3>1, <3>2, <3>3, <3>5, <4>1, <4>2 DEF RegistryInv, RegisteredOnce, Call
    <3> QED
      BY <3>6, <3>7 DEF RegistryInv
  <2>2. ASSUME NEW c \in Code, CallFind(t, c) PROVE RegistryInv'
    BY <1>0, <2>2, RegistryUnchanged DEF CallFind, Call, Registering
  <2>3. CASE Lock(t)
    BY <1>0, <2>3, RegistryUnchanged DEF Lock, Registering
  <2>4. CASE registerStreamer(t)
    BY <2>4, RegisterKeepsOffers
  <2>5. CASE FindContains(t)
    BY <1>0, <2>5, RegistryUnchanged DEF FindContains, Registering, Idle
  <2>6. CASE FindExtract(t)
    <3> DEFINE codes == {caller[t].arg}
    <3>1. codes \in SUBSET Code
      BY <2>6 DEF FindExtract, TypeInv, CallersFit, Finding
    <3>2. senders_sessions' = [c \in Code |-> IF c \in codes THEN NoSession
                                                            ELSE senders_sessions[c]]
      BY <1>0, <2>6 DEF FindExtract
    <3>3. \A u \in Caller : caller'[u] = caller[u] \/ caller'[u] = Idle
      BY <1>0, <2>6 DEF FindExtract
    <3>4. fate' = Settled(codes, "claimed")
      BY <2>6 DEF FindExtract
    <3> QED
      BY <3>1, <3>2, <3>3, <3>4, RemovalKeepsOffers
  <2> QED
    BY <1>2, <2>1, <2>2, <2>3, <2>4, <2>5, <2>6 DEF CallerNext, CallerStep
<1>3. ASSUME NEW i \in Cleaner, CleanerStep(i) PROVE RegistryInv'
  <2>1. CASE terminateTimeoutClients(i)
    <3> DEFINE gone == {c \in Code : Overdue(c)}
    <3>1. /\ senders_sessions' = [c \in Code |-> IF c \in gone THEN NoSession
                                                              ELSE senders_sessions[c]]
          /\ fate' = Settled(gone, "timed_out")
          /\ caller' = caller
      BY <2>1 DEF terminateTimeoutClients
    <3> QED
      BY <3>1, RemovalKeepsOffers
  <2>2. CASE CheckStop(i) \/ LockForSweep(i) \/ WaitInterval(i)
    BY <2>2, RegistryUnchanged DEF CheckStop, LockForSweep, WaitInterval, Registering
  <2> QED
    BY <1>3, <2>1, <2>2 DEF CleanerStep
<1>4. CASE ResetClear
  <2>1. /\ senders_sessions' = [c \in Code |-> IF c \in Code THEN NoSession
                                                            ELSE senders_sessions[c]]
        /\ fate' = Settled(Code, "cleared")
        /\ caller' = caller
    BY <1>4 DEF ResetClear
  <2> QED
    BY <2>1, RemovalKeepsOffers
<1>5. CASE initCleanerThread \/ CallReset \/ JoinReplaced \/ ResetJoin
  BY <1>5, RegistryUnchanged
     DEF initCleanerThread, CallReset, JoinReplaced, ResetJoin, Registering
<1> QED
  BY <1>1, <1>2, <1>3, <1>4, <1>5 DEF Next, MainStep

\* A session is registered, under one code, exactly while it is on offer.
THEOREM RegistryIsOffersHolds == Spec => []RegistryIsOffers
<1>1. Init => TypeInv /\ RegistryInv
  BY TypeInit, RegistryInit
<1>2. TypeInv /\ RegistryInv /\ [Next]_vars => TypeInv' /\ RegistryInv'
  BY TypeStep, RegistryStep
<1>3. RegistryInv => RegistryIsOffers
  BY DEF RegistryInv
<1> QED
  BY <1>1, <1>2, <1>3, PTL DEF Spec

\* Settled touches only sessions that are registered, and those are on offer.
LEMMA SettledOffers ==
  ASSUME RegistryInv, NEW codes \in SUBSET Code, NEW outcome,
         NEW s \in Session, fate[s] # "offered"
  PROVE  Settled(codes, outcome)[s] = fate[s]
BY DEF RegistryInv, RegistryIsOffers, Settled

\* No step changes the fate of a session whose registration has ended.
LEMMA FateStep ==
  ASSUME TypeInv, RegistryInv, Next,
         NEW s \in Session, fate[s] \notin {"none", "arriving", "offered"}
  PROVE  fate'[s] = fate[s]
<1> USE DEF registryVars, historyVars, offerVars, threadVars
<1>0. fate \in [Session -> Fates]
  BY DEF TypeInv, TypeOK
<1>1. CASE Tick \/ SetClock
  BY <1>1 DEF Tick, SetClock
<1>2. ASSUME NEW t \in Caller, CallerNext(t) \/ CallerStep(t) PROVE fate'[s] = fate[s]
  <2>1. ASSUME NEW r \in Session, CallRegister(t, r) PROVE fate'[s] = fate[s]
    BY <1>0, <2>1 DEF CallRegister
  <2>2. ASSUME NEW c \in Code, CallFind(t, c) PROVE fate'[s] = fate[s]
    BY <2>2 DEF CallFind
  <2>3. CASE registerStreamer(t)
    <3>1. caller[t].arg \in Session /\ fate[caller[t].arg] = "arriving"
      BY <2>3 DEF registerStreamer, Registering, TypeInv, CallersFit,
                  RegistryInv, RegisteredOnce
    <3>2. fate'[s] = Settled({SessionId}, "displaced")[s]
      BY <2>3, <3>1 DEF registerStreamer, Settled
    <3> QED
      BY <3>2, SettledOffers, CodeAssumption
  <2>4. CASE FindExtract(t)
    <3>1. caller[t].arg \in Code
      BY <2>4 DEF FindExtract, TypeInv, CallersFit, Finding
    <3> QED
      BY <2>4, <3>1, SettledOffers DEF FindExtract
  <2>5. CASE Lock(t) \/ FindContains(t)
    BY <2>5 DEF Lock, FindContains
  <2> QED
    BY <1>2, <2>1, <2>2, <2>3, <2>4, <2>5 DEF CallerNext, CallerStep
<1>3. ASSUME NEW i \in Cleaner, CleanerStep(i) PROVE fate'[s] = fate[s]
  <2>1. CASE terminateTimeoutClients(i)
    BY <2>1, SettledOffers DEF terminateTimeoutClients
  <2> QED
    BY <1>3, <2>1 DEF CleanerStep, CheckStop, LockForSweep, WaitInterval
<1>4. CASE ResetClear
  BY <1>4, SettledOffers DEF ResetClear
<1>5. CASE initCleanerThread \/ CallReset \/ JoinReplaced \/ ResetJoin
  BY <1>5 DEF initCleanerThread, CallReset, JoinReplaced, ResetJoin
<1> QED
  BY <1>1, <1>2, <1>3, <1>4, <1>5 DEF Next, MainStep

\* A registration ends once: what a find has claimed, a streamer displaced, a
\* timeout swept or a reset cleared, no later step settles again.
THEOREM OneFateHolds == Spec => OneFate
<1> DEFINE Once == \A s \in Session :
      fate[s] \notin {"none", "arriving", "offered"} => fate'[s] = fate[s]
<1>1. Init => TypeInv /\ RegistryInv
  BY TypeInit, RegistryInit
<1>2. TypeInv /\ RegistryInv /\ [Next]_vars => TypeInv' /\ RegistryInv'
  BY TypeStep, RegistryStep
<1>3. TypeInv /\ RegistryInv /\ [Next]_vars => [Once]_vars
  BY FateStep
<1> QED
  BY <1>1, <1>2, <1>3, PTL DEF Spec, OneFate
-----------------------------------------------------------------------------
(***************************************************************************)
(* The age of a registration.                                              *)
(***************************************************************************)

\* An entry is as old as the offer it stands for, unless the clock has been set
\* since it was made; a session that is not on offer has no age and no such past.
AgeIsOnOffer ==
  /\ \A c \in Code, s \in Session :
       senders_sessions[c] = s /\ s \notin misdated => age[c] = onOffer[s]
  /\ \A s \in Session : fate[s] # "offered" => onOffer[s] = 0 /\ s \notin misdated

AgeInv == TypeInv /\ RegistryInv /\ AgeIsOnOffer

\* A session that stays on offer keeps its age, and one that does not has none.
LEMMA OffersEndAges ==
  ASSUME AgeInv, OffersEnd, NEW s \in Session
  PROVE  /\ fate'[s] = "offered" => /\ onOffer'[s] = onOffer[s]
                                    /\ s \in misdated' <=> s \in misdated
         /\ fate'[s] # "offered" => onOffer'[s] = 0 /\ s \notin misdated'
BY DEF OffersEnd

\* Entries go, nobody is registered.
LEMMA RemovalKeepsAges ==
  ASSUME AgeInv, RegistryInv', NEW codes \in SUBSET Code,
         senders_sessions' = [c \in Code |-> IF c \in codes THEN NoSession
                                                           ELSE senders_sessions[c]],
         \A c \in Code \ codes : age'[c] = age[c],
         OffersEnd
  PROVE  AgeIsOnOffer'
<1>1. ASSUME NEW c \in Code, NEW s \in Session, senders_sessions'[c] = s, s \notin misdated'
      PROVE  age'[c] = onOffer'[s]
  <2>1. c \notin codes /\ senders_sessions[c] = s
    BY <1>1, SessionAssumption
  <2>2. fate'[s] = "offered"
    BY <1>1 DEF RegistryInv, RegistryIsOffers
  <2>3. QED
    BY <1>1, <2>1, <2>2, OffersEndAges DEF AgeInv, AgeIsOnOffer
<1>2. QED
  BY <1>1, OffersEndAges DEF AgeIsOnOffer

\* Every step keeps the two ages the same, but for the setting of the clock: a
\* new entry starts at zero whoever was registered under its code before.
LEMMA AgeStep ==
  ASSUME AgeInv, RegistryInv', [Next]_vars
  PROVE  AgeIsOnOffer'
<1> USE DEF registryVars, historyVars, offerVars, threadVars
<1>0. /\ senders_sessions \in [Code -> Session \cup {NoSession}]
      /\ age \in [Code -> Age] /\ onOffer \in [Session -> 0..(ClientTimeout + 1)]
      /\ fate \in [Session -> Fates]
  BY DEF AgeInv, TypeInv, TypeOK
<1>1. CASE UNCHANGED <<registryVars, historyVars>>
  BY <1>1 DEF AgeInv, AgeIsOnOffer
<1>2. CASE Tick
  <2>1. /\ senders_sessions' = senders_sessions /\ fate' = fate /\ misdated' = misdated
        /\ \A c \in Code : senders_sessions[c] # NoSession => age'[c] = Older(age[c])
        /\ \A s \in Session : onOffer'[s] = IF fate[s] = "offered"
                                              THEN Older(onOffer[s]) ELSE onOffer[s]
    BY <1>2 DEF Tick, EntriesAge, Older
  <2>2. \A c \in Code, s \in Session : senders_sessions[c] = s => fate[s] = "offered"
    BY DEF AgeInv, RegistryInv, RegistryIsOffers
  <2>3. QED
    BY <2>1, <2>2, SessionAssumption DEF AgeInv, AgeIsOnOffer
<1>3. CASE SetClock
  <2>1. /\ senders_sessions' = senders_sessions /\ fate' = fate /\ onOffer' = onOffer
        /\ misdated' = misdated \cup {s \in Session : fate[s] = "offered"}
    BY <1>3 DEF SetClock
  <2>2. \A c \in Code, s \in Session : senders_sessions[c] = s => s \in misdated'
    BY <2>1 DEF AgeInv, RegistryInv, RegistryIsOffers
  <2>3. QED
    BY <2>1, <2>2 DEF AgeInv, AgeIsOnOffer
<1>4. ASSUME NEW t \in Caller, CallerNext(t) \/ CallerStep(t) PROVE AgeIsOnOffer'
  <2>1. ASSUME NEW s \in Session, CallRegister(t, s) PROVE AgeIsOnOffer'
    BY <1>0, <2>1 DEF CallRegister, AgeInv, AgeIsOnOffer
  <2>2. CASE registerStreamer(t)
    <3>1. PICK s \in Session : s = caller[t].arg /\ fate[s] = "arriving"
      BY <2>2 DEF registerStreamer, AgeInv, TypeInv, CallersFit, Registering,
                  RegistryInv, RegisteredOnce
    <3>2. /\ senders_sessions' = [senders_sessions EXCEPT ![SessionId] = s]
          /\ age' = [age EXCEPT ![SessionId] = 0]
          /\ fate'[s] = "offered"
          /\ OffersEnd
      BY <2>2, <3>1 DEF registerStreamer, Settled
    <3>3. onOffer'[s] = 0
      BY <3>1, <3>2, OffersEndAges DEF AgeInv, AgeIsOnOffer
    <3>4. ASSUME NEW c \in Code, NEW r \in Session,
                 senders_sessions'[c] = r, r \notin misdated'
          PROVE  age'[c] = onOffer'[r]
      <4>1. CASE c = SessionId
        BY <1>0, <3>2, <3>3, <3>4, <4>1
      <4>2. CASE c # SessionId
        <5>1. senders_sessions[c] = r /\ age'[c] = age[c]
          BY <1>0, <3>2, <3>4, <4>2
        <5>2. fate'[r] = "offered"
          BY <3>4 DEF RegistryInv, RegistryIsOffers
        <5>3. QED
          BY <3>2, <3>4, <5>1, <5>2, OffersEndAges DEF AgeInv, AgeIsOnOffer
      <4>3. QED
        BY <4>1, <4>2
    <3>5. QED
      BY <3>2, <3>4, OffersEndAges DEF AgeIsOnOffer
  <2>3. CASE FindExtract(t)
    <3>1. PICK code \in Code : code = caller[t].arg
      BY <2>3 DEF FindExtract, AgeInv, TypeInv, CallersFit, Finding
    <3>2. /\ senders_sessions' = [c \in Code |-> IF c \in {code} THEN NoSession
                                                               ELSE senders_sessions[c]]
          /\ \A c \in Code \ {code} : age'[c] = age[c]
          /\ OffersEnd
      BY <1>0, <2>3, <3>1 DEF FindExtract
    <3>3. QED
      BY <3>2, RemovalKeepsAges
  <2>4. QED
    BY <1>1, <1>4, <2>1, <2>2, <2>3
       DEF CallerNext, CallerStep, CallFind, Lock, FindContains
<1>5. ASSUME NEW i \in Cleaner, CleanerStep(i) PROVE AgeIsOnOffer'
  <2>1. CASE terminateTimeoutClients(i)
    <3> DEFINE gone == {c \in Code : Overdue(c)}
    <3>1. /\ senders_sessions' = [c \in Code |-> IF c \in gone THEN NoSession
                                                              ELSE senders_sessions[c]]
          /\ \A c \in Code \ gone : age'[c] = age[c]
          /\ OffersEnd
      BY <2>1 DEF terminateTimeoutClients
    <3> HIDE DEF gone
    <3>2. gone \in SUBSET Code
      BY DEF gone
    <3>3. QED
      BY <3>1, <3>2, RemovalKeepsAges
  <2>2. QED
    BY <1>1, <1>5, <2>1 DEF CleanerStep, CheckStop, LockForSweep, WaitInterval
<1>6. CASE ResetClear
  <2>1. /\ senders_sessions' = [c \in Code |-> IF c \in Code THEN NoSession
                                                            ELSE senders_sessions[c]]
        /\ \A c \in Code \ Code : age'[c] = age[c]
        /\ OffersEnd
    BY <1>6 DEF ResetClear
  <2>2. QED
    BY <2>1, RemovalKeepsAges
<1>7. QED
  BY <1>1, <1>2, <1>3, <1>4, <1>5, <1>6
     DEF Next, MainStep, initCleanerThread, CallReset, JoinReplaced, ResetJoin, vars

\* Only the sweep times a session out, and only one whose entry is overdue.
LEMMA TimedOutStep ==
  ASSUME AgeInv, Next, NEW s \in Session,
         fate[s] # "timed_out", fate'[s] = "timed_out"
  PROVE  onOffer[s] > ClientTimeout \/ s \in misdated
<1> USE DEF registryVars, historyVars, offerVars, threadVars
<1>0. fate \in [Session -> Fates]
  BY DEF AgeInv, TypeInv, TypeOK
<1>1. ASSUME NEW t \in Caller, CallerNext(t) \/ CallerStep(t) PROVE FALSE
  <2>1. CASE registerStreamer(t)
    BY <2>1 DEF registerStreamer, Settled
  <2>2. CASE FindExtract(t)
    BY <2>2 DEF FindExtract, Settled
  <2>3. QED
    BY <1>0, <1>1, <2>1, <2>2
       DEF CallerNext, CallerStep, CallRegister, CallFind, Lock, FindContains
<1>2. ASSUME NEW i \in Cleaner, CleanerStep(i)
      PROVE  onOffer[s] > ClientTimeout \/ s \in misdated
  <2>1. terminateTimeoutClients(i)
    BY <1>2 DEF CleanerStep, CheckStop, LockForSweep, WaitInterval
  <2>2. \E c \in Code : Overdue(c) /\ senders_sessions[c] = s
    BY <2>1 DEF terminateTimeoutClients, Settled
  <2>3. QED
    BY <2>2 DEF Overdue, AgeInv, AgeIsOnOffer
<1>3. CASE ResetClear
  BY <1>3 DEF ResetClear, Settled
<1>4. QED
  BY <1>1, <1>2, <1>3
     DEF Next, MainStep, Tick, SetClock, initCleanerThread, CallReset, JoinReplaced,
         ResetJoin

\* The cleaner takes no streamer that has been on offer for client_timeout or
\* less, whatever was registered under its code before and whoever sweeps, unless
\* the wall clock was set while it was on offer.
THEOREM SweptForAgeHolds == Spec => SweptForAge
<1> DEFINE ForAge == \A s \in Session :
      fate[s] # "timed_out" /\ fate'[s] = "timed_out" =>
        onOffer[s] > ClientTimeout \/ s \in misdated
<1>1. Init => AgeInv
  BY TypeInit, RegistryInit, SessionAssumption DEF Init, AgeInv, AgeIsOnOffer
<1>2. AgeInv /\ [Next]_vars => AgeInv'
  BY TypeStep, RegistryStep, AgeStep DEF AgeInv
<1>3. AgeInv /\ [Next]_vars => [ForAge]_vars
  BY TimedOutStep
<1>4. QED
  BY <1>1, <1>2, <1>3, PTL DEF Spec, SweptForAge
-----------------------------------------------------------------------------
(***************************************************************************)
(* Waiting.  A thread waits for the mutex or for a cleaner to end.  Who    *)
(* holds the mutex goes on by itself, except for reset, which waits for a  *)
(* cleaner that may be waiting for the mutex.                              *)
(***************************************************************************)

\* Cleaner i has been started and has not returned.
Live(i) == cleaner[i] \notin {"none", "done"}

\* There is one cleaner, besides the one that it replaces and that is joined.
OneCleaner ==
  \A i \in Cleaner :
    Live(i) => \/ i = connections_controller
               \/ main = "join_replaced" /\ i = connections_controller - 1

\* The thread that is joined has been started and has been told to stop.
JoinsStopped ==
  /\ main = "join_replaced" =>
       /\ connections_controller - 1 \in Cleaner
       /\ cleaner[connections_controller - 1] # "none"
       /\ stop[connections_controller - 1]
  /\ main = "join_reset" =>
       /\ connections_controller \in Cleaner
       /\ stop[connections_controller]

\* The joinable cleaner is the one that was made last.
Newest ==
  /\ connections_controller \in {0, inits}
  /\ connections_controller # 0 => cleaner[connections_controller] # "none"

JoinInv == Newest /\ OneCleaner /\ JoinsStopped

\* The guards of what threads do by themselves: those of CallerStep, CleanerStep and
\* MainStep.
CanGo ==
  \/ \E t \in Caller : CallerInside(t)
  \/ \E i \in Cleaner : cleaner[i] \in {"check", "sweep", "wait"}
  \/ /\ m = "free"
     /\ \/ \E t \in Caller : caller[t].step \in {"lock_register", "lock_find"}
        \/ \E i \in Cleaner : cleaner[i] = "lock"
        \/ main = "lock_reset"
  \/ main = "join_replaced" /\ cleaner[connections_controller - 1] = "done"
  \/ main = "join_reset" /\ cleaner[connections_controller] = "done"

AllReturned ==
  /\ \A t \in Caller : caller[t].step = "idle"
  /\ \A i \in Cleaner : ~Live(i)
  /\ main = "idle"

\* reset holds the mutex and joins a cleaner that waits for it.
ResetWaitsForItself ==
  main = "join_reset" /\ cleaner[connections_controller] = "lock"

\* Some thread can go on, or nobody is in a call, or reset waits for itself: that
\* is the one way in which the registry blocks.
StuckOnlyInReset == CanGo \/ AllReturned \/ ResetWaitsForItself

\* At the start there is no cleaner.
LEMMA JoinInit == Init => JoinInv
BY DEF Init, JoinInv, Newest, OneCleaner, JoinsStopped, Live

\* What is joinable has been made.
LEMMA ControllerIsCleaner ==
  ASSUME TypeInv, connections_controller # 0
  PROVE  connections_controller \in Cleaner
<1>1. connections_controller \in 0..inits /\ inits \in 0..MaxInits
  BY DEF TypeInv, TypeOK
<1>2. QED
  BY <1>1, InitsAssumption DEF Cleaner

\* A cleaner's step starts no other and tells nobody to go on.
LEMMA CleanerJoinStep ==
  ASSUME TypeInv, JoinInv, NEW i \in Cleaner, CleanerStep(i)
  PROVE  JoinInv'
<1>1. cleaner \in [Cleaner -> {"none", "check", "lock", "sweep", "wait", "done"}]
  BY DEF TypeInv, TypeOK
<1>2. /\ UNCHANGED <<stop, inits, connections_controller, main>>
      /\ \E from \in {"check", "lock", "sweep", "wait"},
            to \in {"check", "lock", "sweep", "wait", "done"} : Move(i, from, to)
  BY DEF CleanerStep, CheckStop, LockForSweep, terminateTimeoutClients, WaitInterval, Move
<1>3. PICK to \in {"check", "lock", "sweep", "wait", "done"} :
        /\ cleaner' = [cleaner EXCEPT ![i] = to]
        /\ cleaner[i] \in {"check", "lock", "sweep", "wait"}
  BY <1>2 DEF Move
<1>4. ASSUME NEW j \in Cleaner
      PROVE  /\ Live(j)' => Live(j)
             /\ cleaner[j] # "none" => cleaner'[j] # "none"
  <2>1. CASE j = i
    BY <1>1, <1>3, <2>1 DEF Live
  <2>2. CASE j # i
    BY <1>1, <1>3, <2>2 DEF Live
  <2>3. QED
    BY <2>1, <2>2
<1>5. connections_controller # 0 => connections_controller \in Cleaner
  BY ControllerIsCleaner
<1>6. Newest'
  BY <1>2, <1>4, <1>5 DEF JoinInv, Newest
<1>7. OneCleaner'
  BY <1>2, <1>4 DEF JoinInv, OneCleaner
<1>8. JoinsStopped'
  BY <1>2, <1>4 DEF JoinInv, JoinsStopped
<1>9. QED
  BY <1>6, <1>7, <1>8 DEF JoinInv

\* initCleanerThread makes a cleaner and joins the one before.
LEMMA InitJoinStep ==
  ASSUME TypeInv, JoinInv, initCleanerThread
  PROVE  JoinInv'
<1> DEFINE n == inits + 1
<1>1. /\ inits \in Nat /\ n \in Cleaner /\ n # 0 /\ n - 1 = inits
      /\ cleaner \in [Cleaner -> {"none", "check", "lock", "sweep", "wait", "done"}]
      /\ stop \in [Cleaner -> BOOLEAN] /\ connections_controller \in 0..inits
  BY InitsAssumption DEF initCleanerThread, TypeInv, TypeOK, Cleaner
<1>2. /\ main = "idle" /\ inits' = n /\ connections_controller' = n
      /\ cleaner' = [cleaner EXCEPT ![n] = "check"]
  BY DEF initCleanerThread
<1> HIDE DEF n
<1>3. cleaner'[n] = "check" /\ \A j \in Cleaner : j # n => cleaner'[j] = cleaner[j]
  BY <1>1, <1>2
<1>4. Newest'
  BY <1>2, <1>3 DEF Newest
<1>5. CASE connections_controller = 0
  <2>1. main' = "idle"
    BY <1>2, <1>5 DEF initCleanerThread
  <2>2. \A j \in Cleaner : ~Live(j)
    BY <1>2, <1>5 DEF JoinInv, OneCleaner, Cleaner
  <2>3. OneCleaner'
    BY <1>2, <1>3, <2>2 DEF OneCleaner, Live
  <2>4. JoinsStopped'
    BY <2>1 DEF JoinsStopped
  <2>5. QED
    BY <1>4, <2>3, <2>4 DEF JoinInv
<1>6. CASE connections_controller # 0
  <2>1. /\ main' = "join_replaced"
        /\ stop' = [stop EXCEPT ![connections_controller] = TRUE]
    BY <1>6 DEF initCleanerThread
  <2>2. /\ connections_controller = inits /\ inits \in Cleaner /\ inits # n
        /\ cleaner[inits] # "none"
    BY <1>1, <1>6 DEF JoinInv, Newest, TypeInv, TypeOK, Cleaner
  <2>3. OneCleaner'
    <3>1. SUFFICES ASSUME NEW j \in Cleaner, Live(j)'
                   PROVE  \/ j = n
                          \/ j = n - 1
      BY <1>2, <2>1 DEF OneCleaner
    <3>2. Live(j)'
      BY <3>1
    <3>3. CASE j = n
      BY <3>3
    <3>4. CASE j # n
      <4>1. Live(j)
        BY <1>3, <3>2, <3>4 DEF Live
      <4>2. j = inits
        BY <1>2, <2>2, <4>1 DEF JoinInv, OneCleaner
      <4>3. QED
        BY <1>1, <4>2
    <3>5. QED
      BY <3>3, <3>4
  <2>4. JoinsStopped'
    <3>1. stop'[inits] /\ cleaner'[inits] # "none"
      BY <1>1, <1>3, <2>1, <2>2
    <3>2. connections_controller' - 1 = inits
      BY <1>1, <1>2
    <3>3. QED
      BY <2>1, <2>2, <3>1, <3>2 DEF JoinsStopped
  <2>5. QED
    BY <1>4, <2>3, <2>4 DEF JoinInv
<1>7. QED
  BY <1>5, <1>6

\* The main thread's other steps: a join returns when the thread has ended.
LEMMA MainJoinStep ==
  ASSUME TypeInv, JoinInv, CallReset \/ MainStep
  PROVE  JoinInv'
<1>1. CASE CallReset
  BY <1>1 DEF CallReset, JoinInv, Newest, OneCleaner, JoinsStopped, Live
<1>2. CASE JoinReplaced
  <2>1. /\ main' = "idle" /\ UNCHANGED <<cleaner, stop, inits, connections_controller>>
        /\ cleaner[connections_controller - 1] = "done"
    BY <1>2 DEF JoinReplaced
  <2>2. OneCleaner'
    BY <2>1 DEF JoinInv, OneCleaner, Live
  <2>3. QED
    BY <2>1, <2>2 DEF JoinInv, Newest, JoinsStopped
<1>3. CASE ResetClear
  <2>1. UNCHANGED <<cleaner, inits, connections_controller>> /\ main = "lock_reset"
    BY <1>3 DEF ResetClear
  <2>2. Newest' /\ OneCleaner'
    BY <2>1 DEF JoinInv, Newest, OneCleaner, Live
  <2>3. CASE connections_controller = 0
    <3>1. main' = "idle"
      BY <1>3, <2>3 DEF ResetClear
    <3>2. QED
      BY <2>2, <3>1 DEF JoinInv, JoinsStopped
  <2>4. CASE connections_controller # 0
    <3>1. /\ main' = "join_reset"
          /\ stop' = [stop EXCEPT ![connections_controller] = TRUE]
      BY <1>3, <2>4 DEF ResetClear
    <3>2. connections_controller \in Cleaner /\ stop \in [Cleaner -> BOOLEAN]
      BY <2>4, ControllerIsCleaner DEF TypeInv, TypeOK
    <3>3. QED
      BY <2>1, <2>2, <3>1, <3>2 DEF JoinInv, JoinsStopped
  <2>5. QED
    BY <2>3, <2>4
<1>4. CASE ResetJoin
  <2>1. /\ main = "join_reset" /\ main' = "idle" /\ connections_controller' = 0
        /\ cleaner[connections_controller] = "done" /\ UNCHANGED <<cleaner, stop, inits>>
    BY <1>4 DEF ResetJoin
  <2>2. \A j \in Cleaner : ~Live(j)
    BY <2>1 DEF JoinInv, OneCleaner, Live
  <2>3. QED
    BY <2>1, <2>2 DEF JoinInv, Newest, OneCleaner, JoinsStopped, Live
<1>5. QED
  BY <1>1, <1>2, <1>3, <1>4 DEF MainStep

\* Every step keeps it.
LEMMA JoinStep ==
  ASSUME TypeInv, JoinInv, [Next]_vars
  PROVE  JoinInv'
<1>1. ASSUME UNCHANGED threadVars PROVE JoinInv'
  BY <1>1 DEF threadVars, JoinInv, Newest, OneCleaner, JoinsStopped, Live
<1>2. CASE Tick \/ SetClock \/ UNCHANGED vars
  BY <1>1, <1>2 DEF Tick, SetClock, vars
<1>3. ASSUME NEW t \in Caller, CallerNext(t) \/ CallerStep(t) PROVE JoinInv'
  BY <1>1, <1>3 DEF CallerNext, CallerStep, CallRegister, CallFind, Lock,
                    registerStreamer, FindContains, FindExtract
<1>4. QED
  BY <1>2, <1>3, CleanerJoinStep, InitJoinStep, MainJoinStep DEF Next

\* The registry does not block its users: while a call or a cleaner has not
\* returned some thread can go on, for any number of callers and cleaners, unless
\* reset joins a cleaner that waits for the mutex reset holds (initCleanerThread,
\* reset and terminateTimeoutClients).
THEOREM StuckOnlyInResetHolds == Spec => []StuckOnlyInReset
<1>1. TypeInv /\ MutualExclusion /\ JoinInv => StuckOnlyInReset
  <2>1. SUFFICES ASSUME TypeInv, MutualExclusion, JoinInv, ~CanGo, ~ResetWaitsForItself
                 PROVE  AllReturned
    BY DEF StuckOnlyInReset
  <2>2. /\ \A t \in Caller : caller[t].step \in CallerSteps
        /\ \A i \in Cleaner :
             cleaner[i] \in {"none", "check", "lock", "sweep", "wait", "done"}
        /\ main \in {"idle", "join_replaced", "lock_reset", "join_reset"}
        /\ m \in {"free", "held"}
    BY <2>1 DEF TypeInv, TypeOK
  <2>3. main # "join_reset"
    <3>1. SUFFICES ASSUME main = "join_reset" PROVE FALSE
      OBVIOUS
    <3>2. connections_controller \in Cleaner /\ cleaner[connections_controller] # "none"
      <4>1. connections_controller \in Cleaner
        BY <2>1, <3>1 DEF JoinInv, JoinsStopped
      <4>2. connections_controller # 0
        BY <4>1, InitsAssumption DEF Cleaner
      <4>3. QED
        BY <2>1, <4>1, <4>2 DEF JoinInv, Newest
    <3>3. cleaner[connections_controller] \notin {"check", "sweep", "wait", "done", "lock"}
      BY <2>1, <3>1, <3>2 DEF CanGo, ResetWaitsForItself
    <3>4. QED
      BY <2>2, <3>2, <3>3
  <2>4. m = "free"
    <3>1. /\ ~\E t \in Caller : CallerInside(t)
          /\ ~\E i \in Cleaner : CleanerInside(i)
      BY <2>1 DEF CanGo, CleanerInside
    <3>2. ~MainInside
      BY <2>3 DEF MainInside
    <3>3. QED
      BY <2>1, <2>2, <3>1, <3>2 DEF MutualExclusion
  <2>5. \A t \in Caller : caller[t].step = "idle"
    BY <2>1, <2>2, <2>4 DEF CanGo, CallerInside, CallerSteps
  <2>6. \A i \in Cleaner : ~Live(i)
    BY <2>1, <2>2, <2>4 DEF CanGo, Live
  <2>7. main # "lock_reset"
    BY <2>1, <2>4 DEF CanGo
  <2>8. main # "join_replaced"
    <3>1. SUFFICES ASSUME main = "join_replaced" PROVE FALSE
      OBVIOUS
    <3>2. /\ connections_controller - 1 \in Cleaner
          /\ cleaner[connections_controller - 1] # "none"
      BY <2>1, <3>1 DEF JoinInv, JoinsStopped
    <3>3. cleaner[connections_controller - 1] = "done"
      BY <2>6, <3>2 DEF Live
    <3>4. QED
      BY <2>1, <3>1, <3>3 DEF CanGo
  <2>9. QED
    BY <2>2, <2>3, <2>5, <2>6, <2>7, <2>8 DEF AllReturned
<1>2. Init => TypeInv /\ MutualExclusion /\ JoinInv
  BY TypeInit, MutexInit, JoinInit
<1>3. TypeInv /\ MutualExclusion /\ JoinInv /\ [Next]_vars =>
        TypeInv' /\ MutualExclusion' /\ JoinInv'
  BY TypeStep, MutexStep, JoinStep
<1>4. QED
  BY <1>1, <1>2, <1>3, PTL DEF Spec

\* A cleaner that has been replaced or reset has ended: there is never more than one
\* besides the one that is being joined (the assignment to connections_controller).
THEOREM OneCleanerHolds == Spec => []OneCleaner
<1>1. Init => TypeInv /\ JoinInv
  BY TypeInit, JoinInit
<1>2. TypeInv /\ JoinInv /\ [Next]_vars => TypeInv' /\ JoinInv'
  BY TypeStep, JoinStep
<1>3. JoinInv => OneCleaner
  BY DEF JoinInv
<1>4. QED
  BY <1>1, <1>2, <1>3, PTL DEF Spec
=============================================================================
