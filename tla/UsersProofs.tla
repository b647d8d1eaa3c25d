------------------------------ MODULE UsersProofs ------------------------------
(***************************************************************************)
(* Theorems about Users, for any emails, passwords, io threads and         *)
(* add_user programs: a password lets nobody in but its own user, what is  *)
(* stored stays, and a refusal has a cause.                                *)
(***************************************************************************)
EXTENDS Users, TLAPS

\* A call that has begun carries an email and a password.
CallsFit ==
  /\ \A t \in Thread :
       call[t].step # "idle" => call[t].email \in Email /\ call[t].password \in Password
  /\ \A a \in Adder :
       adder[a].step # "idle" => /\ adder[a].email \in Email
                                 /\ adder[a].password \in Password
                                 /\ adder[a].hash = adder[a].password

\* A thread has a transaction on the connection exactly while its query and the
\* comparison run.
Registered ==
  \A t \in Thread : t \in transactions <=> call[t].step \in {"exec", "validate"}

TypeInv == TypeOK /\ CallsFit /\ Registered

\* Unless two transactions have met there is one at a time.
OneTransaction == ~raced => \A t, u \in transactions : t = u

\* What a thread has read is what the table holds for its email, if anything.
HasRead ==
  ~raced => \A t \in Thread :
              call[t].step = "validate" => call[t].hash \in {NoPassword, table[call[t].email]}

\* A row about to be committed is nobody's yet, and nobody else's is waiting.
Uncommitted ==
  \A a \in Adder :
    adder[a].step = "commit" => table[adder[a].email] = NoPassword /\ KeyFree(a)

\* What add_user has been told holds.
ToldAdders ==
  \A a \in Adder :
    /\ adder[a].step = "added" => table[adder[a].email] = adder[a].password
    /\ adder[a].step = "exists" => table[adder[a].email] # NoPassword

Rows  == TypeInv /\ Uncommitted /\ ToldAdders
Login == TypeInv /\ OneTransaction /\ HasRead /\ KnownOnly

CallSteps  == Returned \cup {"begin", "register", "exec", "validate"}
AdderSteps == {"idle", "insert", "commit", "exists", "added", "failed"}
-----------------------------------------------------------------------------
(***************************************************************************)
(* Typing.                                                                 *)
(***************************************************************************)

\* Init gives every variable a value of its type.
LEMMA TypeInit == Init => TypeInv
<1> SUFFICES ASSUME Init PROVE TypeInv
  OBVIOUS
<1>1. NoCall \in Call({"idle"}) /\ NoCall.step = "idle"
  BY DEF NoCall, Call
<1>2. TypeOK
  BY <1>1 DEF Init, TypeOK, Call, Returned
<1>3. CallsFit /\ Registered
  BY <1>1 DEF Init, CallsFit, Registered
<1>4. QED
  BY <1>2, <1>3 DEF TypeInv

\* A step of a call keeps what the call carries.
LEMMA StepType ==
  ASSUME TypeInv, NEW t \in Thread, NEW from, NEW to \in CallSteps \ {"idle"},
         from # "idle", Step(t, from, to), raced' \in BOOLEAN,
         transactions' = IF to \in {"exec", "validate"} THEN transactions \cup {t}
                                                        ELSE transactions \ {t}
  PROVE  TypeInv'
<1>1. TypeOK'
  BY DEF TypeInv, TypeOK, Step, Call, CallSteps, Returned
<1>2. CallsFit'
  BY DEF TypeInv, TypeOK, CallsFit, Step, Call, CallSteps, Returned
<1>3. Registered'
  BY DEF TypeInv, TypeOK, Registered, Step, Call, CallSteps, Returned
<1>4. QED
  BY <1>1, <1>2, <1>3 DEF TypeInv

\* The same of add_user.
LEMMA AdderType ==
  ASSUME TypeInv, NEW a \in Adder, NEW from, NEW to \in AdderSteps \ {"idle"},
         from # "idle", AdderStep(a, from, to), table' \in {table, Stored(a)}
  PROVE  TypeInv'
<1>1. adder[a].hash \in Password
  BY DEF TypeInv, CallsFit, AdderStep
<1>2. table' \in [Email -> Password \cup {NoPassword}]
  BY <1>1 DEF TypeInv, TypeOK, Stored
<1>3. adder' \in [Adder -> Call(AdderSteps)]
  BY DEF TypeInv, TypeOK, AdderStep, Call, AdderSteps
<1>4. CallsFit'
  BY DEF TypeInv, TypeOK, CallsFit, AdderStep, Call
<1>5. QED
  BY <1>2, <1>3, <1>4 DEF TypeInv, TypeOK, Registered, AdderStep, AdderSteps

\* Every step keeps the types.
LEMMA TypeStep ==
  ASSUME TypeInv, [Next]_vars
  PROVE  TypeInv'
<1>1. CASE UNCHANGED vars
  BY <1>1 DEF vars, TypeInv, TypeOK, CallsFit, Registered
<1>2. ASSUME NEW t \in Thread, NEW email \in Email, NEW password \in Password,
             authenticate(t, email, password)
      PROVE  TypeInv'
  BY <1>2 DEF authenticate, TypeInv, TypeOK, CallsFit, Registered, Call, Returned
<1>3. ASSUME NEW t \in Thread, Begin(t) \/ Register(t) \/ ExecThrows(t) \/ Validate(t)
      PROVE  TypeInv'
  <2>1. raced' \in BOOLEAN
    BY <1>3 DEF Begin, Register, ExecThrows, Validate, TypeInv, TypeOK
  <2>2. CASE Begin(t)
    <3>1. transactions' = transactions \ {t}
      BY <2>2 DEF Begin, TypeInv, Registered, Step
    <3>2. QED
      BY <2>1, <2>2, <3>1, StepType DEF Begin, CallSteps, Returned
  <2>3. CASE Register(t)
    <3>1. t \notin transactions
      BY <2>3 DEF Register, TypeInv, Registered, Step
    <3>2. link # "up" => transactions' = transactions \ {t}
      BY <2>3, <3>1 DEF Register
    <3>3. QED
      BY <2>1, <2>3, <3>2, StepType DEF Register, CallSteps, Returned
  <2>4. CASE ExecThrows(t)
    BY <2>1, <2>4, StepType DEF ExecThrows, CallSteps, Returned
  <2>5. CASE Validate(t)
    BY <2>1, <2>5, StepType DEF Validate, CallSteps, Returned
  <2>6. QED
    BY <1>3, <2>2, <2>3, <2>4, <2>5
<1>4. ASSUME NEW t \in Thread, Exec(t)
      PROVE  TypeInv'
  <2>1. PICK e \in Queried(t) :
          call' = [call EXCEPT ![t] = [@ EXCEPT !.step = "validate", !.hash = table[e]]]
    BY <1>4 DEF Exec
  <2>2. e \in Email
    BY <2>1, <1>4 DEF Queried, Exec, TypeInv, TypeOK, CallsFit, Registered
  <2>3. table[e] \in Password \cup {NoPassword}
    BY <2>2 DEF TypeInv, TypeOK
  <2>4. \A u \in Thread :
          /\ u # t => call'[u] = call[u]
          /\ call'[t].step = "validate" /\ call'[t].hash = table[e]
          /\ call'[t].email = call[t].email /\ call'[t].password = call[t].password
    BY <2>1 DEF TypeInv, TypeOK, Call
  <2>5. TypeOK'
    <3>1. call' \in [Thread -> Call(CallSteps)]
      <4>1. call \in [Thread -> Call(CallSteps)]
        BY DEF TypeInv, TypeOK, CallSteps
      <4>2. [call[t] EXCEPT !.step = "validate", !.hash = table[e]] \in Call(CallSteps)
        BY <2>3, <4>1 DEF Call, CallSteps
      <4>3. QED
        BY <2>1, <4>1, <4>2
    <3>2. QED
      BY <1>4, <3>1 DEF Exec, TypeInv, TypeOK, CallSteps
  <2>6. CallsFit' /\ Registered'
    BY <1>4, <2>4 DEF Exec, TypeInv, TypeOK, CallsFit, Registered
  <2>7. QED
    BY <2>5, <2>6 DEF TypeInv
<1>5. ASSUME NEW a \in Adder, NEW email \in Email, NEW password \in Password,
             addUser(a, email, password)
      PROVE  TypeInv'
  BY <1>5 DEF addUser, TypeInv, TypeOK, CallsFit, Registered, Call
<1>6. ASSUME NEW a \in Adder, Insert(a) \/ Commit(a) \/ AdderFails(a)
      PROVE  TypeInv'
  <2>1. CASE Insert(a)
    BY <2>1, AdderType DEF Insert, AdderSteps
  <2>2. CASE Commit(a)
    BY <2>2, AdderType DEF Commit, AdderSteps
  <2>3. CASE AdderFails(a)
    BY <2>3, AdderType DEF AdderFails, AdderSteps
  <2>4. QED
    BY <1>6, <2>1, <2>2, <2>3
<1>7. CASE LinkBreaks
  BY <1>7 DEF LinkBreaks, TypeInv, TypeOK, CallsFit, Registered
<1>8. QED
  BY <1>1, <1>2, <1>3, <1>4, <1>5, <1>6, <1>7 DEF Next, ThreadStep, AddUserStep

\* Every variable keeps its type (NoPassword stands for an empty result and for
\* what a call has not read yet).
THEOREM TypeCorrect == Spec => []TypeOK
<1>1. TypeInv => TypeOK
  BY DEF TypeInv
<1>2. QED
  BY <1>1, TypeInit, TypeStep, PTL DEF Spec
-----------------------------------------------------------------------------
(***************************************************************************)
(* The table: rows are stored once.                                        *)
(***************************************************************************)

\* A step that neither stores a row nor moves an add_user keeps what is known of
\* the rows.
LEMMA RowsUntouched ==
  ASSUME Rows, TypeInv', UNCHANGED <<table, adder>>
  PROVE  Rows'
BY DEF Rows, Uncommitted, ToldAdders, KeyFree

\* No row of anybody else is affected when an add_user ends its transaction,
\* with its own row stored or not.
LEMMA StoreStep ==
  ASSUME Rows, TypeInv', NEW a \in Adder, NEW to \in {"added", "failed"},
         AdderStep(a, "commit", to), table' \in {table, Stored(a)},
         to = "added" => table' = Stored(a)
  PROVE  /\ Rows'
         /\ \A e \in Email : table[e] # NoPassword => table'[e] = table[e]
<1> DEFINE mail == adder[a].email
<1>1. /\ mail \in Email /\ adder[a].hash = adder[a].password
      /\ adder[a].password \in Password /\ table[mail] = NoPassword
      /\ KeyFree(a)
  BY DEF Rows, TypeInv, CallsFit, Uncommitted, AdderStep
<1>2. \A e \in Email : e # mail => table'[e] = table[e]
  BY DEF Stored, Rows, TypeInv, TypeOK
<1>3. \A e \in Email : table[e] # NoPassword => table'[e] = table[e]
  BY <1>1, <1>2
<1>4. to = "added" => table'[mail] = adder[a].password
  BY <1>1 DEF Stored, Rows, TypeInv, TypeOK
<1>5. /\ adder'[a].step = to /\ adder'[a].email = mail
      /\ adder'[a].password = adder[a].password
      /\ \A b \in Adder \ {a} : adder'[b] = adder[b]
  BY DEF AdderStep, Rows, TypeInv, TypeOK, Call
<1>6. Uncommitted'
  <2> SUFFICES ASSUME NEW b \in Adder, adder'[b].step = "commit"
               PROVE  table'[adder'[b].email] = NoPassword /\ KeyFree(b)'
    BY DEF Uncommitted
  <2>1. b # a /\ adder'[b] = adder[b]
    BY <1>5
  <2>2. adder[b].email # mail /\ adder[b].email \in Email
    BY <1>1, <2>1 DEF KeyFree, Rows, TypeInv, CallsFit
  <2>3. table[adder[b].email] = NoPassword /\ KeyFree(b)
    BY <2>1 DEF Rows, Uncommitted
  <2>4. KeyFree(b)'
    BY <1>5, <2>1, <2>3 DEF KeyFree
  <2>5. QED
    BY <1>2, <2>1, <2>2, <2>3, <2>4
<1>7. ToldAdders'
  <2> SUFFICES ASSUME NEW b \in Adder
               PROVE  /\ adder'[b].step = "added" =>
                           table'[adder'[b].email] = adder'[b].password
                      /\ adder'[b].step = "exists" =>
                           table'[adder'[b].email] # NoPassword
    BY DEF ToldAdders
  <2>1. CASE b = a
    BY <1>4, <1>5, <2>1
  <2>2. CASE b # a
    <3>1. adder[b].step # "idle" => adder[b].email \in Email /\ adder[b].password \in Password
      BY DEF Rows, TypeInv, CallsFit
    <3>2. QED
      BY <1>3, <1>5, <2>2, <3>1, PasswordAssumption DEF Rows, ToldAdders
  <2>3. QED
    BY <2>1, <2>2
<1>8. QED
  BY <1>3, <1>6, <1>7 DEF Rows

\* An add_user that goes on without storing keeps the rows: the insert waits for
\* whoever is about to commit the same email.
LEMMA InsertStep ==
  ASSUME Rows, TypeInv', NEW a \in Adder, Insert(a) \/ AdderStep(a, "insert", "failed"),
         UNCHANGED table
  PROVE  Rows'
<1>1. /\ adder[a].step = "insert" /\ adder'[a].email = adder[a].email
      /\ adder'[a].step \in {"commit", "exists", "failed"}
      /\ \A b \in Adder \ {a} : adder'[b] = adder[b]
  BY DEF Insert, AdderStep, Rows, TypeInv, TypeOK, Call
<1>2. adder'[a].step = "commit" => table[adder[a].email] = NoPassword /\ KeyFree(a)
  BY DEF Insert, AdderStep, Rows, TypeInv, TypeOK, Call
<1>3. adder'[a].step = "exists" => table[adder[a].email] # NoPassword
  BY DEF Insert, AdderStep, Rows, TypeInv, TypeOK, Call
<1>4. Uncommitted'
  BY <1>1, <1>2 DEF Rows, Uncommitted, KeyFree
<1>5. ToldAdders'
  BY <1>1, <1>3 DEF Rows, ToldAdders
<1>6. QED
  BY <1>4, <1>5 DEF Rows

\* addUser is called: its email is not in use by a commit of its own.
LEMMA AddUserCall ==
  ASSUME Rows, TypeInv', NEW a \in Adder, NEW email \in Email, NEW password \in Password,
         addUser(a, email, password)
  PROVE  Rows'
<1>1. /\ adder'[a].step = "insert" /\ table' = table
      /\ \A b \in Adder \ {a} : adder'[b] = adder[b]
  BY DEF addUser, Rows, TypeInv, TypeOK
<1>2. Uncommitted'
  BY <1>1 DEF Rows, Uncommitted, KeyFree
<1>3. ToldAdders'
  BY <1>1 DEF Rows, ToldAdders
<1>4. QED
  BY <1>2, <1>3 DEF Rows

\* Every step keeps what is known of the rows, and the rows.
LEMMA RowsStep ==
  ASSUME Rows, [Next]_vars
  PROVE  /\ Rows'
         /\ \A e \in Email : table[e] # NoPassword => table'[e] = table[e]
<1>0. TypeInv'
  BY TypeStep DEF Rows
<1>1. CASE UNCHANGED <<table, adder>>
  BY <1>0, <1>1, RowsUntouched
<1>2. ASSUME NEW a \in Adder, NEW email \in Email, NEW password \in Password,
             addUser(a, email, password)
      PROVE  Rows' /\ table' = table
  BY <1>0, <1>2, AddUserCall DEF addUser
<1>3. ASSUME NEW a \in Adder, Insert(a)
      PROVE  Rows' /\ table' = table
  BY <1>0, <1>3, InsertStep DEF Insert
<1>4. ASSUME NEW a \in Adder, Commit(a)
      PROVE  /\ Rows'
             /\ \A e \in Email : table[e] # NoPassword => table'[e] = table[e]
  BY <1>0, <1>4, StoreStep DEF Commit
<1>5. ASSUME NEW a \in Adder, AdderFails(a)
      PROVE  /\ Rows'
             /\ \A e \in Email : table[e] # NoPassword => table'[e] = table[e]
  BY <1>0, <1>5, InsertStep, StoreStep DEF AdderFails
<1>6. ASSUME NEW t \in Thread, ThreadStep(t)
      PROVE  UNCHANGED <<table, adder>>
  BY <1>6 DEF ThreadStep, authenticate, Begin, Register, Exec, ExecThrows, Validate, Step
<1>7. QED
  BY <1>1, <1>2, <1>3, <1>4, <1>5, <1>6 DEF Next, AddUserStep, LinkBreaks, vars

\* A user's password is the first one stored for it, and add_user reports what
\* the table holds (addUser; the primary key of database_schema.sql).
THEOREM FirstStaysHolds == Spec => FirstStays
<1>1. Init => Rows
  <2>1. Init => \A a \in Adder : adder[a].step = "idle"
    BY DEF Init, NoCall
  <2>2. QED
    BY <2>1, TypeInit DEF Rows, Uncommitted, ToldAdders
<1>2. Rows /\ [Next]_vars => Rows'
  BY RowsStep
<1>3. Rows /\ Rows' /\ [Next]_vars =>
        [/\ \A e \in Email : table[e] # NoPassword => table'[e] = table[e]
         /\ \A a \in Adder :
              /\ adder'[a].step = "added" => table'[adder'[a].email] = adder'[a].password
              /\ adder'[a].step = "exists" => table'[adder'[a].email] # NoPassword]_vars
  BY RowsStep DEF Rows, ToldAdders
<1>4. QED
  BY <1>1, <1>2, <1>3, PTL DEF Spec, FirstStays
-----------------------------------------------------------------------------
(***************************************************************************)
(* The logins: what is read is the table's, as long as transactions do not *)
(* meet.                                                                   *)
(***************************************************************************)

\* What is known of another thread's call survives a step that leaves the call
\* alone and no stored row changes.
LEMMA OthersKeep ==
  ASSUME Login, NEW u \in Thread, call'[u] = call[u], ~raced,
         \A e \in Email : table[e] # NoPassword => table'[e] = table[e]
  PROVE  /\ call'[u].step = "validate" =>
              call'[u].hash \in {NoPassword, table'[call'[u].email]}
         /\ call'[u].step = "true" => table'[call'[u].email] = call'[u].password
<1>1. call[u].step \in {"validate", "true"} =>
        call[u].email \in Email /\ call[u].password \in Password
  BY DEF Login, TypeInv, CallsFit
<1>2. CASE call[u].step = "validate"
  <2>1. call[u].hash \in {NoPassword, table[call[u].email]}
    BY <1>2 DEF Login, HasRead
  <2>2. QED
    BY <1>1, <1>2, <2>1
<1>3. CASE call[u].step = "true"
  <2>1. table[call[u].email] = call[u].password
    BY <1>3 DEF Login, KnownOnly
  <2>2. QED
    BY <1>1, <1>3, <2>1, PasswordAssumption
<1>4. QED
  BY <1>2, <1>3

\* A step of one call keeps what is known of all, when it keeps it of its own.
LEMMA LoginCallStep ==
  ASSUME Login, TypeInv', NEW t \in Thread, UNCHANGED table,
         \A u \in Thread \ {t} : call'[u] = call[u],
         raced => raced', OneTransaction',
         ~raced' /\ call'[t].step = "validate" =>
           call'[t].hash \in {NoPassword, table[call'[t].email]},
         ~raced' /\ call'[t].step = "true" => table[call'[t].email] = call'[t].password
  PROVE  Login'
<1>1. HasRead' /\ KnownOnly'
  BY OthersKeep DEF HasRead, KnownOnly
<1>2. QED
  BY <1>1 DEF Login

\* A thread that leaves its transaction, or has none, leaves at most one.
LEMMA FewerTransactions ==
  ASSUME OneTransaction, transactions' \subseteq transactions, UNCHANGED raced
  PROVE  OneTransaction'
BY DEF OneTransaction

\* Every step keeps what is known of the calls.
LEMMA LoginStep ==
  ASSUME Login, Rows, [Next]_vars
  PROVE  Login'
<1>0. TypeInv' /\ (\A e \in Email : table[e] # NoPassword => table'[e] = table[e])
  BY TypeStep, RowsStep DEF Login
<1>1. CASE UNCHANGED <<call, transactions, raced>>
  <2>1. OneTransaction'
    BY <1>1 DEF Login, OneTransaction
  <2>2. HasRead' /\ KnownOnly'
    BY <1>0, <1>1, OthersKeep DEF HasRead, KnownOnly
  <2>3. QED
    BY <1>0, <2>1, <2>2 DEF Login
<1>2. ASSUME NEW t \in Thread, NEW email \in Email, NEW password \in Password,
             authenticate(t, email, password)
      PROVE  Login'
  <2>1. call'[t].step = "begin" /\ \A u \in Thread \ {t} : call'[u] = call[u]
    BY <1>2 DEF authenticate, Login, TypeInv, TypeOK
  <2>2. UNCHANGED <<table, transactions, raced>>
    BY <1>2 DEF authenticate
  <2>3. OneTransaction'
    BY <2>2, FewerTransactions DEF Login
  <2>4. QED
    BY <1>0, <2>1, <2>2, <2>3, LoginCallStep
<1>3. ASSUME NEW t \in Thread, Begin(t)
      PROVE  Login'
  <2>1. /\ call'[t].step \in {"register", "throws"}
        /\ \A u \in Thread \ {t} : call'[u] = call[u]
    BY <1>3 DEF Begin, Step, Login, TypeInv, TypeOK, Call
  <2>2. UNCHANGED <<table, transactions, raced>>
    BY <1>3 DEF Begin, Step
  <2>3. OneTransaction'
    BY <2>2, FewerTransactions DEF Login
  <2>4. QED
    BY <1>0, <2>1, <2>2, <2>3, LoginCallStep
<1>4. ASSUME NEW t \in Thread, Register(t)
      PROVE  Login'
  <2>1. /\ call'[t].step \in {"exec", "throws"}
        /\ \A u \in Thread \ {t} : call'[u] = call[u]
    BY <1>4 DEF Register, Step, Login, TypeInv, TypeOK, Call
  <2>2. UNCHANGED table /\ (raced => raced')
    BY <1>4 DEF Register, Step
  <2>3. OneTransaction'
    BY <1>4 DEF Register, Login, OneTransaction
  <2>4. QED
    BY <1>0, <2>1, <2>2, <2>3, LoginCallStep
<1>5. ASSUME NEW t \in Thread, Exec(t)
      PROVE  Login'
  <2>1. PICK e \in Queried(t) :
          call' = [call EXCEPT ![t] = [@ EXCEPT !.step = "validate", !.hash = table[e]]]
    BY <1>5 DEF Exec
  <2>2. /\ call'[t].step = "validate" /\ call'[t].hash = table[e]
        /\ call'[t].email = call[t].email
        /\ \A u \in Thread \ {t} : call'[u] = call[u]
    BY <2>1 DEF Login, TypeInv, TypeOK, Call
  <2>3. UNCHANGED <<table, transactions, raced>>
    BY <1>5 DEF Exec
  <2>4. ~raced => e = call[t].email
    <3>1. t \in transactions
      BY <1>5 DEF Exec, Login, TypeInv, Registered
    <3>2. ~raced => transactions \ {t} = {}
      BY <3>1 DEF Login, OneTransaction
    <3>3. QED
      BY <2>1, <3>2 DEF Queried
  <2>5. OneTransaction'
    BY <2>3, FewerTransactions DEF Login
  <2>6. QED
    BY <1>0, <2>2, <2>3, <2>4, <2>5, LoginCallStep
<1>6. ASSUME NEW t \in Thread, ExecThrows(t)
      PROVE  Login'
  <2>1. call'[t].step = "throws" /\ \A u \in Thread \ {t} : call'[u] = call[u]
    BY <1>6 DEF ExecThrows, Step, Login, TypeInv, TypeOK, Call
  <2>2. UNCHANGED <<table, raced>> /\ transactions' \subseteq transactions
    BY <1>6 DEF ExecThrows, Step
  <2>3. OneTransaction'
    BY <2>2, FewerTransactions DEF Login
  <2>4. QED
    BY <1>0, <2>1, <2>2, <2>3, LoginCallStep
<1>7. ASSUME NEW t \in Thread, Validate(t)
      PROVE  Login'
  <2>1. /\ call'[t].step \in {"true", "false"}
        /\ call'[t].step = "true" => /\ call[t].hash # NoPassword
                                     /\ call[t].hash = call[t].password
        /\ call'[t].email = call[t].email /\ call'[t].password = call[t].password
        /\ \A u \in Thread \ {t} : call'[u] = call[u]
    BY <1>7 DEF Validate, Step, Login, TypeInv, TypeOK, Call
  <2>2. UNCHANGED <<table, raced>> /\ transactions' \subseteq transactions
    BY <1>7 DEF Validate, Step
  <2>3. OneTransaction'
    BY <2>2, FewerTransactions DEF Login
  <2>4. ~raced => call[t].hash \in {NoPassword, table[call[t].email]}
    BY <1>7 DEF Validate, Step, Login, HasRead
  <2>5. QED
    BY <1>0, <2>1, <2>2, <2>3, <2>4, LoginCallStep
<1>8. ASSUME NEW a \in Adder, AddUserStep(a)
      PROVE  UNCHANGED <<call, transactions, raced>>
  BY <1>8 DEF AddUserStep, addUser, Insert, Commit, AdderFails, AdderStep
<1>9. QED
  BY <1>1, <1>2, <1>3, <1>4, <1>5, <1>6, <1>7, <1>8 DEF Next, ThreadStep, LinkBreaks, vars

\* Init has nobody's call and nobody's row.
LEMMA LoginInit == Init => Rows /\ Login
<1> SUFFICES ASSUME Init PROVE Rows /\ Login
  OBVIOUS
<1>1. /\ \A a \in Adder : adder[a].step = "idle"
      /\ \A t \in Thread : call[t].step = "idle"
      /\ transactions = {}
  BY DEF Init, NoCall
<1>2. QED
  BY <1>1, TypeInit
     DEF Rows, Login, Uncommitted, ToldAdders, OneTransaction, HasRead, KnownOnly

\* Nobody is let in without the password of the email given, as long as no two
\* transactions have met (authenticate).
THEOREM KnownOnlyHolds == Spec => []KnownOnly
<1>1. (Rows /\ Login) /\ [Next]_vars => (Rows /\ Login)'
  BY RowsStep, LoginStep
<1>2. Login => KnownOnly
  BY DEF Login
<1>3. QED
  BY <1>1, <1>2, LoginInit, PTL DEF Spec

\* A step that turns away a known user has one of the three causes.
LEMMA RefusalStep ==
  ASSUME Login, [Next]_vars, NEW t \in Thread, TurnedAway(t)
  PROVE  transactions \ {t} # {} \/ raced \/ link = "broken"
<1>0. /\ call[t].step \notin Returned /\ call'[t].step \in {"false", "throws"}
      /\ table[call[t].email] = call[t].password
  BY DEF TurnedAway
<1>1. call'[t] # call[t]
  BY <1>0 DEF Returned
<1>2. CASE Begin(t)
  <2>1. transactions # {}
    BY <1>0, <1>2 DEF Begin, Step, Login, TypeInv, TypeOK, Call
  <2>2. t \notin transactions
    BY <1>2 DEF Begin, Step, Login, TypeInv, Registered
  <2>3. QED
    BY <2>1, <2>2
<1>3. CASE Register(t)
  <2>1. link # "up"
    BY <1>0, <1>3 DEF Register, Step, Login, TypeInv, TypeOK, Call
  <2>2. QED
    BY <2>1 DEF Login, TypeInv, TypeOK
<1>4. CASE ExecThrows(t)
  <2>1. t \in transactions
    BY <1>4 DEF ExecThrows, Step, Login, TypeInv, Registered
  <2>2. QED
    BY <1>4, <2>1 DEF ExecThrows
<1>5. CASE Validate(t)
  <2>1. call[t].step = "validate" /\ call[t].hash # NoPassword
    BY <1>5 DEF Validate, Step, TurnedAway
  <2>2. call[t].hash # call[t].password
    BY <1>0, <1>5, <2>1 DEF Validate, Step, Login, TypeInv, TypeOK, Call
  <2>3. ~raced => call[t].hash = table[call[t].email]
    BY <2>1 DEF Login, HasRead
  <2>4. QED
    BY <1>0, <2>2, <2>3
<1>6. CASE Exec(t)
  <2>1. call'[t].step = "validate"
    BY <1>6 DEF Exec, Login, TypeInv, TypeOK, Call
  <2>2. QED
    BY <1>0, <2>1
<1>7. ASSUME NEW u \in Thread, ThreadStep(u), u # t
      PROVE  call'[t] = call[t]
  BY <1>7 DEF ThreadStep, authenticate, Begin, Register, Exec, ExecThrows, Validate,
              Step, Login, TypeInv, TypeOK
<1>8. ASSUME NEW email \in Email, NEW password \in Password,
             authenticate(t, email, password)
      PROVE  FALSE
  BY <1>0, <1>8 DEF authenticate
<1>9. ASSUME (\E a \in Adder : AddUserStep(a)) \/ LinkBreaks \/ UNCHANGED vars
      PROVE  call' = call
  BY <1>9 DEF AddUserStep, addUser, Insert, Commit, AdderFails, AdderStep, LinkBreaks, vars
<1>10. QED
  BY <1>1, <1>2, <1>3, <1>4, <1>5, <1>6, <1>7, <1>8, <1>9 DEF Next, ThreadStep

\* A known user with the right password is turned away only for another's
\* transaction or a lost connection: no call leaves its transaction behind.
THEOREM RefusedForCauseHolds == Spec => RefusedForCause
<1>1. (Rows /\ Login) /\ [Next]_vars => (Rows /\ Login)'
  BY RowsStep, LoginStep
<1>2. (Rows /\ Login) /\ [Next]_vars =>
        [\A t \in Thread :
           TurnedAway(t) => transactions \ {t} # {} \/ raced \/ link = "broken"]_vars
  BY RefusalStep
<1>3. QED
  BY <1>1, <1>2, LoginInit, PTL DEF Spec, RefusedForCause
=============================================================================
