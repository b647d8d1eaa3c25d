---------------------------- MODULE MCProxyServer ----------------------------
(***************************************************************************)
(* ProxyServer on a small instance: three connections, the code every      *)
(* streamer gets ("test" in registerStreamer) and one nobody has.          *)
(***************************************************************************)
EXTENDS ProxyServer, TLC

CONSTANTS s1, s2, s3, test, other

ThreeSessions == {s1, s2, s3}
Codes         == {test, other}

\* Connections are interchangeable.
Symmetry == Permutations(ThreeSessions)
=============================================================================
