------------------------------ MODULE Rendezvous ------------------------------
(***************************************************************************)
(* What the proxy server promises, without its threads, sockets and        *)
(* handlers.  A session that has logged in is a member.  A member may put  *)
(* itself on offer under the code the server gives it; another may claim   *)
(* the offer of a code, which takes it off the registry, and the claim     *)
(* ends in exactly one way: the two are paired, or both are let go.        *)
(*                                                                         *)
(* ProxyServer implements this specification: see Promise there.           *)
(***************************************************************************)
EXTENDS Naturals

CONSTANTS Session, NoSession, Code, SessionId

VARIABLES
  role,    \* what each session is to the server
  offers   \* who is on offer under each code

rvars == <<role, offers>>

Role == {"outside", "member", "offering", "claiming", "claimed", "paired", "left"}

RTypeOK ==
  /\ role \in [Session -> Role]
  /\ offers \in [Code -> Session \cup {NoSession}]

RInit ==
  /\ role = [s \in Session |-> "outside"]
  /\ offers = [c \in Code |-> NoSession]

Join(s) ==
  /\ role[s] = "outside"
  /\ role' = [role EXCEPT ![s] = "member"]
  /\ UNCHANGED offers

\* A session that is not on offer and in no claim leaves or is refused.
Leave(s) ==
  /\ role[s] \in {"outside", "member"}
  /\ role' = [role EXCEPT ![s] = "left"]
  /\ UNCHANGED offers

\* The server has one code for everybody: the streamer on offer before is
\* let go.
Offer(s) ==
  /\ role[s] = "member"
  /\ role' = [t \in Session |-> IF t = s THEN "offering"
                                ELSE IF t = offers[SessionId] THEN "left"
                                ELSE role[t]]
  /\ offers' = [offers EXCEPT ![SessionId] = s]

\* Offers time out, any number of them at once.
TimeOut ==
  /\ \E C \in SUBSET {c \in Code : offers[c] # NoSession} :
       /\ C # {}
       /\ role' = [s \in Session |-> IF \E c \in C : offers[c] = s
                                       THEN "left" ELSE role[s]]
       /\ offers' = [c \in Code |-> IF c \in C THEN NoSession ELSE offers[c]]

Claim(viewer, code) ==
  /\ role[viewer] = "member"
  /\ offers[code] # NoSession
  /\ role' = [role EXCEPT ![viewer] = "claiming", ![offers[code]] = "claimed"]
  /\ offers' = [offers EXCEPT ![code] = NoSession]

\* One claim is settled before the next: role does not say who claims whom
\* because there is never more than one claim.
Settle(outcome) ==
  \E viewer, streamer \in Session :
    /\ role[viewer] = "claiming"
    /\ role[streamer] = "claimed"
    /\ role' = [role EXCEPT ![viewer] = outcome, ![streamer] = outcome]
    /\ UNCHANGED offers

Pair == Settle("paired")

Abandon == Settle("left")

RNext ==
  \/ \E s \in Session : Join(s) \/ Leave(s) \/ Offer(s)
  \/ \E s \in Session, c \in Code : Claim(s, c)
  \/ TimeOut
  \/ Pair
  \/ Abandon

RSpec == RInit /\ [][RNext]_rvars
=============================================================================
