--------------------------- MODULE MCSessionsManager ---------------------------
(***************************************************************************)
(* SessionsManager with one or two calling threads, two sessions, one or   *)
(* two codes, two cleaner threads one after the other, a timeout of one    *)
(* tick and a clock that is set by one tick, or not at all.                *)
(***************************************************************************)
EXTENDS SessionsManager, TLC

CONSTANTS t1, t2, s1, s2, test, other

OneCaller   == {t1}
OneCode     == {test}
TwoCallers  == {t1, t2}
TwoSessions == {s1, s2}
Codes       == {test, other}
=============================================================================
