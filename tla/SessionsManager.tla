---------------------------- MODULE SessionsManager ----------------------------
(***************************************************************************)
(* ServerSessionsManager: the registry of waiting streamers, its mutex m,  *)
(* the clock that ages the entries, and the jthread that cleans it.        *)
(*                                                                         *)
(* Callers are threads that call registerStreamer and                      *)
(* createBridgeWithStreamer (of the latter only what it does with the      *)
(* registry; ProxyServer has the rest).  The server has one such thread;   *)
(* the class locks for any number.  The main thread calls                  *)
(* initCleanerThread and reset, as the tests do.  Every std::jthread that  *)
(* initCleanerThread has made is a cleaner with a number of its own.       *)
(*                                                                         *)
(* A definition introduced by "Mutant:" is no part of the model.           *)
(***************************************************************************)
EXTENDS Integers, FiniteSets

CONSTANTS
  Caller,         \* threads that register and find streamers
  Session,        \* sessions that may be registered, once each
  NoSession,      \* an empty shared_ptr
  Code,           \* session codes a viewer may ask for
  SessionId,      \* the code every streamer is registered under
  ClientTimeout,  \* client_timeout, in ticks of the clock
  MaxInits,       \* bound: calls of initCleanerThread
  MaxShift        \* bound: by how many ticks the clock may be set

ASSUME SessionAssumption == NoSession \notin Session
ASSUME CodeAssumption == SessionId \in Code
ASSUME TimeoutAssumption == ClientTimeout \in Nat
ASSUME InitsAssumption == MaxInits \in Nat
ASSUME ShiftAssumption == MaxShift \in Nat

VARIABLES
  m,                      \* the mutex: "free" or "held"
  senders_sessions,       \* code -> registered streamer
  age,                    \* code -> now - time_point of the entry
  caller,                 \* where each caller is
  cleaner,                \* where each cleaner thread is
  stop,                   \* stop_requested of each cleaner's token
  inits,                  \* number of cleaners made so far
  connections_controller, \* the joinable cleaner, 0 if none
  main,                   \* where the main thread is
  fate,                   \* history: what became of each session
  onOffer,                \* history: how long each session is on offer
  misdated                \* history: of those, whose clock has been set since

registryVars == <<senders_sessions, age>>
offerVars    == <<onOffer, misdated>>
historyVars  == <<fate, offerVars>>
threadVars   == <<cleaner, stop, inits, connections_controller, main>>

vars == <<m, registryVars, caller, threadVars, historyVars>>

Cleaner == 1..MaxInits
Idle == [step |-> "idle", arg |-> NoSession]
Call(step, arg) == [step |-> step, arg |-> arg]

\* By the wall clock an entry may come from the future.  "Older than the timeout"
\* is one age: set back by a tick, it may be within the timeout again.
Age == (-MaxShift)..(ClientTimeout + 1)
Aged(a, ticks) == IF a + ticks > ClientTimeout THEN ClientTimeout + 1 ELSE a + ticks
Older(a) == Aged(a, 1)

Init ==
  /\ m = "free"
  /\ senders_sessions = [c \in Code |-> NoSession]
  /\ age = [c \in Code |-> 0]
  /\ caller = [t \in Caller |-> Idle]
  /\ cleaner = [i \in Cleaner |-> "none"]
  /\ stop = [i \in Cleaner |-> FALSE]
  /\ inits = 0
  /\ connections_controller = 0
  /\ main = "idle"
  /\ fate = [s \in Session |-> "none"]
  /\ onOffer = [s \in Session |-> 0]
  /\ misdated = {}

\* now - time_point of every entry, when the clock has moved.
EntriesAge(ticks) ==
  age' = [c \in Code |-> IF senders_sessions[c] = NoSession THEN age[c]
                                                     ELSE Aged(age[c], ticks)]

\* Time passes, for the entries and for the sessions on offer.
Tick ==
  /\ \/ \E c \in Code : senders_sessions[c] # NoSession /\ age[c] \leq ClientTimeout
     \/ \E s \in Session : fate[s] = "offered" /\ onOffer[s] \leq ClientTimeout
  /\ EntriesAge(1)
  /\ onOffer' = [s \in Session |-> IF fate[s] = "offered" THEN Older(onOffer[s])
                                                          ELSE onOffer[s]]
  /\ UNCHANGED <<m, senders_sessions, caller, threadVars, fate, misdated>>

\* The wall clock, which time_point and now are read from, is set.
SetClock ==
  \E ticks \in (-MaxShift)..MaxShift \ {0} :
    /\ \E c \in Code : senders_sessions[c] # NoSession
    /\ \A c \in Code : senders_sessions[c] # NoSession => age[c] + ticks >= -MaxShift
    /\ EntriesAge(ticks)
    /\ misdated' = misdated \cup {s \in Session : fate[s] = "offered"}
    /\ UNCHANGED <<m, senders_sessions, caller, threadVars, fate, onOffer>>

\* The sessions in a set of entries get their fate when the entries go.
Settled(codes, outcome) ==
  [s \in Session |-> IF \E c \in codes : senders_sessions[c] = s
                       THEN outcome ELSE fate[s]]

\* What is remembered of an offer goes with it.
OffersEnd ==
  /\ onOffer' = [s \in Session |-> IF fate'[s] = "offered" THEN onOffer[s] ELSE 0]
  /\ misdated' = {s \in misdated : fate'[s] = "offered"}
-----------------------------------------------------------------------------
(***************************************************************************)
(* Calls of registerStreamer and createBridgeWithStreamer.                 *)
(***************************************************************************)
CallRegister(t, s) ==
  /\ caller[t] = Idle
  /\ fate[s] = "none"
  /\ fate' = [fate EXCEPT ![s] = "arriving"]
  /\ caller' = [caller EXCEPT ![t] = Call("lock_register", s)]
  /\ UNCHANGED <<m, registryVars, threadVars, offerVars>>

CallFind(t, code) ==
  /\ caller[t] = Idle
  /\ caller' = [caller EXCEPT ![t] = Call("lock_find", code)]
  /\ UNCHANGED <<m, registryVars, threadVars, historyVars>>

\* Mutant: the caller goes on without the mutex.
LockNothing(t) ==
  /\ \/ /\ caller[t].step = "lock_register"
        /\ caller' = [caller EXCEPT ![t].step = "register"]
     \/ /\ caller[t].step = "lock_find"
        /\ caller' = [caller EXCEPT ![t].step = "contains"]
  /\ UNCHANGED <<m, registryVars, threadVars, historyVars>>

Lock(t) ==
  /\ m = "free"
  /\ m' = "held"
  /\ \/ /\ caller[t].step = "lock_register"
        /\ caller' = [caller EXCEPT ![t].step = "register"]
     \/ /\ caller[t].step = "lock_find"
        /\ caller' = [caller EXCEPT ![t].step = "contains"]
  /\ UNCHANGED <<registryVars, threadVars, historyVars>>

\* Mutant: only the session is assigned: the entry keeps the time_point of
\* the streamer it had before.
RegisterKeepsTimePoint(t) ==
  /\ caller[t].step = "register"
  /\ senders_sessions' = [senders_sessions EXCEPT ![SessionId] = caller[t].arg]
  /\ fate' = [Settled({SessionId}, "displaced") EXCEPT ![caller[t].arg] = "offered"]
  /\ m' = "free"
  /\ caller' = [caller EXCEPT ![t] = Idle]
  /\ OffersEnd
  /\ UNCHANGED <<age, threadVars>>

\* Mutant: time_point is left at the epoch, which is older than any age.
RegisterWithoutTimePoint(t) ==
  /\ caller[t].step = "register"
  /\ senders_sessions' = [senders_sessions EXCEPT ![SessionId] = caller[t].arg]
  /\ age' = [age EXCEPT ![SessionId] = ClientTimeout + 2]
  /\ fate' = [Settled({SessionId}, "displaced") EXCEPT ![caller[t].arg] = "offered"]
  /\ m' = "free"
  /\ caller' = [caller EXCEPT ![t] = Idle]
  /\ OffersEnd
  /\ UNCHANGED threadVars

\* Erase the entry of the streamer before, assign the new one, unlock.
registerStreamer(t) ==
  /\ caller[t].step = "register"
  /\ senders_sessions' = [senders_sessions EXCEPT ![SessionId] = caller[t].arg]
  /\ age' = [age EXCEPT ![SessionId] = 0]
  /\ fate' = [Settled({SessionId}, "displaced") EXCEPT ![caller[t].arg] = "offered"]
  /\ m' = "free"
  /\ caller' = [caller EXCEPT ![t] = Idle]
  /\ OffersEnd
  /\ UNCHANGED threadVars

\* Mutant: a find that finds nothing keeps the mutex.
FindContainsKeepsLock(t) ==
  /\ caller[t].step = "contains"
  /\ caller' = IF senders_sessions[caller[t].arg] # NoSession
                  THEN [caller EXCEPT ![t].step = "extract"]
                  ELSE [caller EXCEPT ![t] = Idle]
  /\ UNCHANGED <<m, registryVars, threadVars, historyVars>>

\* is_streamer_found; nothing found unlocks on return.
FindContains(t) ==
  /\ caller[t].step = "contains"
  /\ IF senders_sessions[caller[t].arg] # NoSession
       THEN /\ caller' = [caller EXCEPT ![t].step = "extract"]
            /\ UNCHANGED m
       ELSE /\ caller' = [caller EXCEPT ![t] = Idle]
            /\ m' = "free"
  /\ UNCHANGED <<registryVars, threadVars, historyVars>>

\* Mutant: the entry is read, not extracted.
FindCopies(t) ==
  /\ caller[t].step = "extract"
  /\ fate' = Settled({caller[t].arg}, "claimed")
  /\ m' = "free"
  /\ caller' = [caller EXCEPT ![t] = Idle]
  /\ OffersEnd
  /\ UNCHANGED <<registryVars, threadVars>>

\* extract, then lock.unlock().
FindExtract(t) ==
  /\ caller[t].step = "extract"
  /\ senders_sessions' = [senders_sessions EXCEPT ![caller[t].arg] = NoSession]
  /\ age' = [age EXCEPT ![caller[t].arg] = 0]
  /\ fate' = Settled({caller[t].arg}, "claimed")
  /\ m' = "free"
  /\ caller' = [caller EXCEPT ![t] = Idle]
  /\ OffersEnd
  /\ UNCHANGED threadVars
-----------------------------------------------------------------------------
(***************************************************************************)
(* The loop of a cleaner thread.                                           *)
(***************************************************************************)
Move(i, from, to) ==
  /\ cleaner[i] = from
  /\ cleaner' = [cleaner EXCEPT ![i] = to]

\* while (!stop_token.stop_requested())
CheckStop(i) ==
  /\ Move(i, "check", IF stop[i] THEN "done" ELSE "lock")
  /\ UNCHANGED <<m, registryVars, caller, stop, inits, connections_controller,
                 main, historyVars>>

LockForSweep(i) ==
  /\ m = "free"
  /\ m' = "held"
  /\ Move(i, "lock", "sweep")
  /\ UNCHANGED <<registryVars, caller, stop, inits, connections_controller,
                 main, historyVars>>

\* elapsed_time > client_timeout
Overdue(c) == senders_sessions[c] # NoSession /\ age[c] > ClientTimeout

\* Mutant: the cleaner ends after one pass, having swept nothing.
SweepOnce(i) ==
  /\ Move(i, "sweep", "done")
  /\ m' = "free"
  /\ UNCHANGED <<registryVars, caller, stop, inits, connections_controller,
                 main, historyVars>>

\* The loop over the entries, and unlock on return.
terminateTimeoutClients(i) ==
  LET gone == {c \in Code : Overdue(c)} IN
  /\ Move(i, "sweep", "wait")
  /\ senders_sessions' = [c \in Code |-> IF c \in gone THEN NoSession
                                                      ELSE senders_sessions[c]]
  /\ age' = [c \in Code |-> IF c \in gone THEN 0 ELSE age[c]]
  /\ fate' = Settled(gone, "timed_out")
  /\ m' = "free"
  /\ OffersEnd
  /\ UNCHANGED <<caller, stop, inits, connections_controller, main>>

\* cv.wait_for(check_interval): nobody notifies cv, the interval elapses, or
\* the predicate (stop requested) holds at once.
WaitInterval(i) ==
  /\ Move(i, "wait", "check")
  /\ UNCHANGED <<m, registryVars, caller, stop, inits, connections_controller,
                 main, historyVars>>
-----------------------------------------------------------------------------
(***************************************************************************)
(* The main thread.  Assigning to connections_controller starts the new    *)
(* cleaner, then stops and joins the one it replaces.                      *)
(***************************************************************************)
initCleanerThread ==
  /\ main = "idle"
  /\ inits < MaxInits
  /\ inits' = inits + 1
  /\ cleaner' = [cleaner EXCEPT ![inits + 1] = "check"]
  /\ connections_controller' = inits + 1
  /\ IF connections_controller = 0
       THEN UNCHANGED <<stop, main>>
       ELSE /\ stop' = [stop EXCEPT ![connections_controller] = TRUE]
            /\ main' = "join_replaced"
  /\ UNCHANGED <<m, registryVars, caller, historyVars>>

JoinReplaced ==
  /\ main = "join_replaced"
  /\ cleaner[connections_controller - 1] = "done"
  /\ main' = "idle"
  /\ UNCHANGED <<m, registryVars, caller, cleaner, stop, inits,
                 connections_controller, historyVars>>

CallReset ==
  /\ main = "idle"
  /\ main' = "lock_reset"
  /\ UNCHANGED <<m, registryVars, caller, cleaner, stop, inits,
                 connections_controller, historyVars>>

\* lock, clear and, if there is a cleaner, request_stop: the mutex stays held
\* while the cleaner is joined.
ResetClear ==
  /\ main = "lock_reset"
  /\ m = "free"
  /\ senders_sessions' = [c \in Code |-> NoSession]
  /\ age' = [c \in Code |-> 0]
  /\ fate' = Settled(Code, "cleared")
  /\ IF connections_controller = 0
       THEN /\ main' = "idle"
            /\ UNCHANGED <<m, stop>>
       ELSE /\ main' = "join_reset"
            /\ m' = "held"
            /\ stop' = [stop EXCEPT ![connections_controller] = TRUE]
  /\ OffersEnd
  /\ UNCHANGED <<caller, cleaner, inits, connections_controller>>

ResetJoin ==
  /\ main = "join_reset"
  /\ cleaner[connections_controller] = "done"
  /\ connections_controller' = 0
  /\ main' = "idle"
  /\ m' = "free"
  /\ UNCHANGED <<registryVars, caller, cleaner, stop, inits, historyVars>>
-----------------------------------------------------------------------------
CallerNext(t) ==
  \/ \E s \in Session : CallRegister(t, s)
  \/ \E c \in Code : CallFind(t, c)

CallerStep(t) == Lock(t) \/ registerStreamer(t) \/ FindContains(t) \/ FindExtract(t)

CleanerStep(i) ==
  CheckStop(i) \/ LockForSweep(i) \/ terminateTimeoutClients(i) \/ WaitInterval(i)

MainStep == JoinReplaced \/ ResetClear \/ ResetJoin

Next ==
  \/ Tick \/ SetClock
  \/ \E t \in Caller : CallerNext(t) \/ CallerStep(t)
  \/ \E i \in Cleaner : CleanerStep(i)
  \/ initCleanerThread
  \/ CallReset
  \/ MainStep

Spec == Init /\ [][Next]_vars

(***************************************************************************)
(* Every thread that can go on goes on, and one that waits for the mutex   *)
(* gets it if it is freed again and again.  Nobody need call anything, and *)
(* the clock may stand still.                                              *)
(***************************************************************************)
Fairness ==
  /\ \A t \in Caller : SF_vars(CallerStep(t))
  /\ \A i \in Cleaner : SF_vars(CleanerStep(i))
  /\ SF_vars(MainStep)

FairSpec == Spec /\ Fairness
-----------------------------------------------------------------------------
(***************************************************************************)
(* Properties.                                                             *)
(***************************************************************************)
CallerSteps == {"idle", "lock_register", "register", "lock_find", "contains", "extract"}

Fates == {"none", "arriving", "offered", "displaced", "claimed", "timed_out", "cleared"}

\* The values every variable takes.
TypeOK ==
  /\ m \in {"free", "held"}
  /\ senders_sessions \in [Code -> Session \cup {NoSession}]
  /\ age \in [Code -> Age]
  /\ caller \in [Caller -> [step : CallerSteps, arg : Session \cup Code \cup {NoSession}]]
  /\ cleaner \in [Cleaner -> {"none", "check", "lock", "sweep", "wait", "done"}]
  /\ stop \in [Cleaner -> BOOLEAN]
  /\ inits \in 0..MaxInits
  /\ connections_controller \in 0..inits
  /\ main \in {"idle", "join_replaced", "lock_reset", "join_reset"}
  /\ fate \in [Session -> Fates]
  /\ onOffer \in [Session -> 0..(ClientTimeout + 1)]
  /\ misdated \in SUBSET Session

CallerInside(t) == caller[t].step \in {"register", "contains", "extract"}
CleanerInside(i) == cleaner[i] = "sweep"
MainInside == main = "join_reset"

\* At most one thread is between a lock and the unlock that ends it, and the
\* mutex is held exactly then, so what a find has seen it still finds when it
\* extracts the entry.
MutualExclusion ==
  /\ \A t, u \in Caller : CallerInside(t) /\ CallerInside(u) => t = u
  /\ \A i, j \in Cleaner : CleanerInside(i) /\ CleanerInside(j) => i = j
  /\ \A t \in Caller, i \in Cleaner : ~(CallerInside(t) /\ CleanerInside(i))
  /\ MainInside => /\ \A t \in Caller : ~CallerInside(t)
                   /\ \A i \in Cleaner : ~CleanerInside(i)
  /\ m = "held" <=> \/ \E t \in Caller : CallerInside(t)
                    \/ \E i \in Cleaner : CleanerInside(i)
                    \/ MainInside
  /\ \A t \in Caller :
       caller[t].step = "extract" => senders_sessions[caller[t].arg] # NoSession

\* A session is in the registry exactly while it is on offer, under one code:
\* no entry outlives a claim, and none is dropped without its session knowing
\* what became of it.
RegistryIsOffers ==
  /\ \A s \in Session : fate[s] = "offered" <=> \E c \in Code : senders_sessions[c] = s
  /\ \A c, d \in Code :
       senders_sessions[c] = senders_sessions[d] => c = d \/ senders_sessions[c] = NoSession

\* A registration ends once and in one way: claimed by one find, displaced by
\* one streamer, timed out, or cleared by reset.
OneFate ==
  [][\A s \in Session :
       fate[s] \notin {"none", "arriving", "offered"} => fate'[s] = fate[s]]_vars

\* The cleaner never takes a streamer that has been on offer for client_timeout
\* or less, whoever was registered under the code before it.  Setting the clock
\* does harm to those that are on offer then, and to no later registration.
SweptForAge ==
  [][\A s \in Session :
       fate[s] # "timed_out" /\ fate'[s] = "timed_out" =>
         onOffer[s] > ClientTimeout \/ s \in misdated]_vars

\* While there is a cleaner, a streamer that has been on offer for longer goes,
\* unless reset begins; one that was on offer when the clock was set may have to
\* wait for the clock.
StaleReaped ==
  \A s \in Session :
    connections_controller # 0 /\ fate[s] = "offered" /\ onOffer[s] > ClientTimeout ~>
      fate[s] # "offered" \/ s \in misdated \/ main \in {"lock_reset", "join_reset"}

\* Every call of registerStreamer and createBridgeWithStreamer gets through
\* the registry, unless it meets a reset that is joining the cleaner, and
\* initCleanerThread gets past the cleaner it replaces, whose join returns.
CallsReturn ==
  /\ \A t \in Caller : caller[t] # Idle ~> caller[t] = Idle \/ main = "join_reset"
  /\ main = "join_replaced" ~> main = "idle"

\* What the tests' TearDown takes for granted: reset returns.
ResetReturns == main = "lock_reset" ~> main = "idle"
=============================================================================
