--------------------------------- MODULE Users ---------------------------------
(***************************************************************************)
(* UsersManager and its database.  ScreenViewerServer makes one            *)
(* UsersManager, with one pqxx::connection, and gives it to both of its    *)
(* servers: the io thread of the sessions server and that of the proxy     *)
(* server authenticate over it, and nothing keeps them apart.  add_user is *)
(* a program of its own with a connection of its own.                      *)
(*                                                                         *)
(* The database (external) keeps a table whose primary key is the email;   *)
(* an insert of a key that another transaction has inserted waits for the  *)
(* end of that transaction.  A pqxx::connection allows one transaction: it *)
(* throws at the second one.  It looks before it registers, without a      *)
(* lock, so that two threads may both pass; their queries then share the   *)
(* protocol's stream, which is undefined: a query may throw, or return its *)
(* own result or the other's.  A password stands for its hash.             *)
(*                                                                         *)
(* A definition introduced by "Mutant:" is no part of the model.           *)
(***************************************************************************)
EXTENDS Naturals

CONSTANTS
  Email,
  Password,
  NoPassword,   \* stands for an empty result
  Thread,       \* the server's io threads
  Adder         \* add_user programs

ASSUME PasswordAssumption == NoPassword \notin Password

VARIABLES
  table,        \* "user": email -> password_hash, committed
  link,         \* the server's connection to the database: "up" or "broken"
  transactions, \* the threads with a transaction registered on the connection
  call,         \* each thread's call of authenticate, or the last one
  adder,        \* each add_user program's call of addUser
  raced         \* history: two transactions have been registered at once

vars == <<table, link, transactions, call, adder, raced>>

NoCall == [step |-> "idle", email |-> NoPassword, password |-> NoPassword,
           hash |-> NoPassword]

Init ==
  /\ table = [e \in Email |-> NoPassword]
  /\ link = "up"
  /\ transactions = {}
  /\ call = [t \in Thread |-> NoCall]
  /\ adder = [a \in Adder |-> NoCall]
  /\ raced = FALSE
-----------------------------------------------------------------------------
(***************************************************************************)
(* authenticate, called by a session of each server.                       *)
(***************************************************************************)
Returned == {"idle", "true", "false", "throws"}

Step(t, from, to) ==
  /\ call[t].step = from
  /\ call' = [call EXCEPT ![t].step = to]
  /\ UNCHANGED <<table, link, adder>>

\* A LOGIN arrives whose email and password are these.
authenticate(t, email, password) ==
  /\ call[t].step \in Returned
  /\ call' = [call EXCEPT ![t] = [step |-> "begin", email |-> email,
                                  password |-> password, hash |-> NoPassword]]
  /\ UNCHANGED <<table, link, transactions, adder, raced>>

\* pqxx::work's constructor finds a transaction on the connection and throws, or
\* finds none; two transactions that have met may have unregistered each other.
Begin(t) ==
  /\ \/ /\ transactions = {} \/ raced
        /\ Step(t, "begin", "register")
     \/ /\ transactions # {}
        /\ Step(t, "begin", "throws")
  /\ UNCHANGED <<transactions, raced>>

\* ... and registers its own, with a BEGIN that a broken connection refuses.
Register(t) ==
  /\ Step(t, "register", IF link = "up" THEN "exec" ELSE "throws")
  /\ transactions' = IF link = "up" THEN transactions \cup {t} ELSE transactions
  /\ raced' = (raced \/ transactions' \ {t} # {})

\* The result of the prepared statement GET_PASSWORD_HASH: of this thread's
\* query or, when another transaction is open, of that one's.
Queried(t) ==
  {call[t].email} \cup {call[u].email : u \in transactions \ {t}}

\* Mutant: the first row of the table is taken, whatever its email.
ExecFirstRow(t) ==
  /\ call[t].step = "exec"
  /\ link = "up"
  /\ \E e \in Email :
       call' = [call EXCEPT ![t] = [@ EXCEPT !.step = "validate", !.hash = table[e]]]
  /\ UNCHANGED <<table, link, transactions, adder, raced>>

Exec(t) ==
  /\ call[t].step = "exec"
  /\ link = "up"
  /\ \E e \in Queried(t) :
       call' = [call EXCEPT ![t] = [@ EXCEPT !.step = "validate", !.hash = table[e]]]
  /\ UNCHANGED <<table, link, transactions, adder, raced>>

\* The query fails; the transaction is left by the exception.
ExecThrows(t) ==
  /\ link = "broken" \/ transactions # {t}
  /\ Step(t, "exec", "throws")
  /\ transactions' = transactions \ {t}
  /\ UNCHANGED raced

\* Mutant: the transaction of a refused login stays on the connection.
ValidateKeepsOpen(t) ==
  /\ Step(t, "validate",
          IF call[t].hash # NoPassword /\ call[t].hash = call[t].password
            THEN "true" ELSE "false")
  /\ transactions' = IF call'[t].step = "true" THEN transactions \ {t} ELSE transactions
  /\ UNCHANGED raced

\* An empty result is false, and otherwise the password is compared, which takes
\* its time; the transaction is still open.
Validate(t) ==
  /\ Step(t, "validate",
          IF call[t].hash # NoPassword /\ call[t].hash = call[t].password
            THEN "true" ELSE "false")
  /\ transactions' = transactions \ {t}
  /\ UNCHANGED raced

\* The connection to the database is lost; nothing connects again.
LinkBreaks ==
  /\ link = "up"
  /\ link' = "broken"
  /\ UNCHANGED <<table, transactions, call, adder, raced>>
-----------------------------------------------------------------------------
(***************************************************************************)
(* addUser, called once by each add_user program.                          *)
(***************************************************************************)
AdderStep(a, from, to) ==
  /\ adder[a].step = from
  /\ adder' = [adder EXCEPT ![a].step = to]
  /\ UNCHANGED <<link, transactions, call, raced>>

addUser(a, email, password) ==
  /\ adder[a].step = "idle"
  /\ adder' = [adder EXCEPT ![a] = [step |-> "insert", email |-> email,
                                    password |-> password, hash |-> password]]
  /\ UNCHANGED <<table, link, transactions, call, raced>>

\* Nobody else's insert of the same email is waiting for its commit.
KeyFree(a) ==
  \A b \in Adder \ {a} : adder[b].step = "commit" => adder[b].email # adder[a].email

Stored(a) == [table EXCEPT ![adder[a].email] = adder[a].hash]

\* Mutant: the table has no primary key and a later row hides the earlier one.
InsertAnyway(a) ==
  /\ KeyFree(a)
  /\ AdderStep(a, "insert", "commit")
  /\ UNCHANGED table

\* unique_violation becomes a UsersManagerException.
Insert(a) ==
  /\ KeyFree(a)
  /\ AdderStep(a, "insert",
               IF table[adder[a].email] = NoPassword THEN "commit" ELSE "exists")
  /\ UNCHANGED table

Commit(a) ==
  /\ AdderStep(a, "commit", "added")
  /\ table' = Stored(a)

\* The program's own connection is lost: before the commit nothing is stored;
\* in it, nobody knows whether it was.
AdderFails(a) ==
  \/ AdderStep(a, "insert", "failed") /\ UNCHANGED table
  \/ AdderStep(a, "commit", "failed") /\ table' \in {table, Stored(a)}
-----------------------------------------------------------------------------
ThreadStep(t) ==
  \/ \E email \in Email, password \in Password : authenticate(t, email, password)
  \/ Begin(t) \/ Register(t) \/ Exec(t) \/ ExecThrows(t) \/ Validate(t)

AddUserStep(a) ==
  \/ \E email \in Email, password \in Password : addUser(a, email, password)
  \/ Insert(a) \/ Commit(a) \/ AdderFails(a)

Next ==
  \/ \E t \in Thread : ThreadStep(t)
  \/ \E a \in Adder : AddUserStep(a)
  \/ LinkBreaks

Spec == Init /\ [][Next]_vars
-----------------------------------------------------------------------------
(***************************************************************************)
(* Properties.                                                             *)
(***************************************************************************)
Call(steps) == [step : steps, email : Email \cup {NoPassword},
                password : Password \cup {NoPassword}, hash : Password \cup {NoPassword}]

\* The values every variable takes.
TypeOK ==
  /\ table \in [Email -> Password \cup {NoPassword}]
  /\ link \in {"up", "broken"}
  /\ transactions \subseteq Thread
  /\ call \in [Thread -> Call(Returned \cup {"begin", "register", "exec", "validate"})]
  /\ adder \in [Adder -> Call({"idle", "insert", "commit", "exists", "added", "failed"})]
  /\ raced \in BOOLEAN

\* As long as no two transactions have met on the connection, a client is let in
\* only with the password of the very email it gave (authenticate fails closed:
\* on an empty result, on an exception, on another user's password).
KnownOnly ==
  ~raced => \A t \in Thread : call[t].step = "true" =>
              table[call[t].email] = call[t].password

\* A user's password is the one of the add_user that was the first to get its
\* row stored: no row is ever changed or taken back, and whoever is told that the
\* user exists finds one (addUser; the primary key of database_schema.sql).
FirstStays ==
  [][/\ \A e \in Email : table[e] # NoPassword => table'[e] = table[e]
     /\ \A a \in Adder :
          /\ adder'[a].step = "added" => table'[adder'[a].email] = adder'[a].password
          /\ adder'[a].step = "exists" => table'[adder'[a].email] # NoPassword]_vars

\* The step turns away a client that has given the password of a stored user.
TurnedAway(t) ==
  /\ call[t].step \notin Returned
  /\ call'[t].step \in {"false", "throws"}
  /\ table[call[t].email] = call[t].password
  /\ call[t].step = "validate" => call[t].hash # NoPassword

\* Such a client is turned away only when another thread has a transaction on the
\* connection at that moment, or has met this one's, or when the connection to
\* the database is lost: no call leaves its transaction behind (authenticate).
RefusedForCause ==
  [][\A t \in Thread :
       TurnedAway(t) => transactions \ {t} # {} \/ raced \/ link = "broken"]_vars

\* What the tests of the users manager want: a stored user is let in with the
\* right password.  (A lost connection to the database is not held against it.)
KnownUserLetIn ==
  [][\A t \in Thread : TurnedAway(t) => link = "broken"]_vars
=============================================================================
