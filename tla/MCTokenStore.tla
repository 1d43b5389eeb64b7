---------------------------- MODULE MCTokenStore ----------------------------
(* TLC instance of TokenStore.  In the code the margin is 15 s, the        *)
(* timeout 30 s, the leeway and the shortest rotated lifetime 60 s.  Here  *)
(* margin and timeout are one tick, the lifetime is two, and the server    *)
(* has no leeway: the strictest server the margin makes up for.  The       *)
(* theorems of TokenStoreProofs are about all values.                      *)
EXTENDS TokenStore

\* A server whose tokens are too short-lived to be rotated, and one whose
\* tokens are rotated; each asks for labels of its own.
MCFlags ==
  {[lifetime |-> 0, labels |-> "x"], [lifetime |-> 2, labels |-> "y"]}
=============================================================================
