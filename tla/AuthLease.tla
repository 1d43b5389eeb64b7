----------------------------- MODULE AuthLease -----------------------------
(***************************************************************************)
(* What the token check in front of /metrics/v1/receive promises: a        *)
(* request is served only with a token that the authorization service      *)
(* grants, or has granted less than Lease ago.  It may be turned away at   *)
(* any time.  AuthCache.tla, which asks the service through a cache, is    *)
(* shown to implement this.                                                *)
(***************************************************************************)
EXTENDS Integers

CONSTANTS
  Handlers,   \* the goroutines that serve requests
  Tokens,     \* the tokens clients send
  NoToken,    \* a handler that serves no request
  Lease       \* how long a revoked token may still be good

VARIABLES
  valid,      \* the tokens the service grants
  age,        \* per token: the time since it was revoked, at most Lease,
              \* which it also is while the token is granted
  serving     \* per handler: the token of the request it serves, or NoToken

leaseVars == <<valid, age, serving>>

Capped(n) == IF n > Lease THEN Lease ELSE n

LeaseInit ==
  /\ valid \in SUBSET Tokens
  /\ age = [t \in Tokens |-> Lease]
  /\ serving = [h \in Handlers |-> NoToken]

GrantToken(t) ==
  /\ t \notin valid
  /\ valid' = valid \cup {t}
  /\ age' = [age EXCEPT ![t] = Lease]
  /\ UNCHANGED serving

RevokeToken(t) ==
  /\ t \in valid
  /\ valid' = valid \ {t}
  /\ age' = [age EXCEPT ![t] = 0]
  /\ UNCHANGED serving

TimePasses ==
  /\ age' = [t \in Tokens |-> Capped(age[t] + 1)]
  /\ UNCHANGED <<valid, serving>>

Serve(h, t) ==
  /\ serving[h] = NoToken
  /\ t \in valid \/ age[t] < Lease
  /\ serving' = [serving EXCEPT ![h] = t]
  /\ UNCHANGED <<valid, age>>

\* Some requests are done, or the server is.
Done(S) ==
  /\ serving' = [h \in Handlers |-> IF h \in S THEN NoToken ELSE serving[h]]
  /\ UNCHANGED <<valid, age>>

LeaseNext ==
  \/ TimePasses
  \/ \E t \in Tokens : GrantToken(t) \/ RevokeToken(t)
  \/ \E h \in Handlers, t \in Tokens : Serve(h, t)
  \/ \E S \in SUBSET Handlers : Done(S)

LeaseSpec == LeaseInit /\ [][LeaseNext]_leaseVars
=============================================================================
