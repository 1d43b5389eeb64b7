---------------------------- MODULE RateLimiter ----------------------------
(***************************************************************************)
(* The per-cluster upload rate limit of telemeter-server                   *)
(* (pkg/server/ratelimited.go) with the token bucket it is built on        *)
(* (TokenBucket.tla).                                                      *)
(*                                                                         *)
(* Several handler goroutines serve requests at once.  A handler reads the *)
(* clock first and only then queues for the mutex of the store, so stamps  *)
(* reach a limiter out of order.  The critical section of                  *)
(* ratelimitStore.limit calls nothing that blocks and is one action.       *)
(***************************************************************************)
EXTENDS TokenBucket, Sequences

CONSTANTS
  Clusters,    \* the cluster IDs that send uploads
  NoCluster,   \* a request whose context carries no cluster ID
  Handlers,    \* the goroutines net/http serves requests on
  MaxTime      \* bound on the clock

ASSUME RateLimiterAssumption ==
  /\ MaxTime \in Nat
  /\ NoCluster \notin Clusters

VARIABLES
  clock,       \* what now() returns
  pc,          \* per handler: where it is in the handler func
  cluster,     \* per handler: the cluster ID in its request's context
  stamp,       \* per handler: the instant it read from now()
  limits,      \* ratelimitStore.limits: the limiter of each cluster, if any
  passed,      \* history: the stamps of the requests given to next.ServeHTTP, in
               \* the order in which the limiter let them through
  refused      \* history: stamps of the requests answered with 429

vars == <<clock, pc, cluster, stamp, limits, passed, refused>>

Time == 0..MaxTime

Limiter == [tokens : 0..Limit, last : Time]

NoLimiter == [tokens |-> -1, last |-> -1]    \* the key is not in the map

\* Type correctness; the limiter is asked only for requests with a cluster ID.
TypeOK ==
  /\ clock \in Time
  /\ pc \in [Handlers -> {"idle", "start", "limit", "next"}]
  /\ cluster \in [Handlers -> Clusters \cup {NoCluster}]
  /\ stamp \in [Handlers -> Time]
  /\ limits \in [Clusters -> Limiter \cup {NoLimiter}]
  /\ passed \in [Clusters -> Seq(Time)]
  /\ refused \in [Clusters -> SUBSET Time]
  /\ \A h \in Handlers : pc[h] \in {"limit", "next"} => cluster[h] \in Clusters

-----------------------------------------------------------------------------
(* The handlers. *)

Init ==
  /\ clock = 0
  /\ pc = [h \in Handlers |-> "idle"]
  /\ cluster = [h \in Handlers |-> NoCluster]
  /\ stamp = [h \in Handlers |-> 0]
  /\ limits = [c \in Clusters |-> NoLimiter]
  /\ passed = [c \in Clusters |-> <<>>]
  /\ refused = [c \in Clusters |-> {}]

\* A request reaches the middleware.
Arrive(h, c) ==
  /\ pc[h] = "idle"
  /\ pc' = [pc EXCEPT ![h] = "start"]
  /\ cluster' = [cluster EXCEPT ![h] = c]
  /\ UNCHANGED <<clock, stamp, limits, passed, refused>>

\* The handler func returns and its locals with it.
Return(h) ==
  /\ pc' = [pc EXCEPT ![h] = "idle"]
  /\ cluster' = [cluster EXCEPT ![h] = NoCluster]
  /\ stamp' = [stamp EXCEPT ![h] = 0]

\* No cluster ID in the context: 500, the limiter is not consulted.
RejectNoCluster(h) ==
  /\ pc[h] = "start"
  /\ cluster[h] = NoCluster
  /\ Return(h)
  /\ UNCHANGED <<clock, limits, passed, refused>>

\* now() is evaluated as an argument of s.limit, before the mutex is taken.
ReadClock(h) ==
  /\ pc[h] = "start"
  /\ cluster[h] # NoCluster
  /\ stamp' = [stamp EXCEPT ![h] = clock]
  /\ pc' = [pc EXCEPT ![h] = "limit"]
  /\ UNCHANGED <<clock, cluster, limits, passed, refused>>

\* s.limit under the mutex: make the limiter on first use, ask it, and pass
\* the request on or answer 429.
LimitRequest(h) ==
  /\ pc[h] = "limit"
  /\ LET c   == cluster[h]
         t   == stamp[h]
         lim == IF limits[c] = NoLimiter THEN NewLimiter ELSE limits[c]
     IN  /\ limits' = [limits EXCEPT ![c] = Reserve(lim, t)]
         /\ IF Allows(lim, t)
              THEN /\ passed' = [passed EXCEPT ![c] = Append(@, t)]
                   /\ pc' = [pc EXCEPT ![h] = "next"]
                   /\ UNCHANGED <<cluster, stamp, refused>>
              ELSE /\ refused' = [refused EXCEPT ![c] = @ \cup {t}]
                   /\ Return(h)
                   /\ UNCHANGED passed
  /\ UNCHANGED clock

\* next.ServeHTTP returns, whatever it answered: the token stays spent.
NextReturns(h) ==
  /\ pc[h] = "next"
  /\ Return(h)
  /\ UNCHANGED <<clock, limits, passed, refused>>

Tick ==
  /\ clock < MaxTime
  /\ clock' = clock + 1
  /\ UNCHANGED <<pc, cluster, stamp, limits, passed, refused>>

Next ==
  \/ Tick
  \/ \E h \in Handlers :
       \/ \E c \in Clusters \cup {NoCluster} : Arrive(h, c)
       \/ RejectNoCluster(h)
       \/ ReadClock(h)
       \/ LimitRequest(h)
       \/ NextReturns(h)

Spec == Init /\ [][Next]_vars

-----------------------------------------------------------------------------
(* Properties. *)

\* Of any two uploads of one cluster that were passed on, the one that got the
\* mutex later is stamped at least Limit after the other, whatever the order in
\* which their handlers read the clock: the bucket never runs backwards and never
\* grants a burst, not even of two requests with one stamp.  A limit of zero is
\* no limit.
Spacing ==
  \A c \in Clusters : \A i, j \in DOMAIN passed[c] :
    Limit > 0 /\ i < j => passed[c][i] + Limit <= passed[c][j]

\* A cluster is refused only on account of an upload that was passed: being
\* refused costs nothing, so retrying cannot lock a cluster out.  (The upload
\* that stands in the way may be stamped later than the one refused, when the
\* two handlers raced for the mutex.)
RefusedOnlyForPassed ==
  \A c \in Clusters : \A t \in refused[c] :
    \E i \in DOMAIN passed[c] : t < passed[c][i] + Limit

\* A limiter is an exact summary of its cluster's history: it exists only once
\* an upload was passed, its bucket is then empty as of the stamp passed last,
\* and no upload passed is stamped later, although handlers reach the mutex in
\* any order.
BucketMatchesHistory ==
  \A c \in Clusters :
    IF limits[c] = NoLimiter
      THEN passed[c] = <<>> /\ refused[c] = {}
      ELSE Limit > 0 => /\ limits[c].tokens = 0
                        /\ passed[c] # <<>>
                        /\ limits[c].last = passed[c][Len(passed[c])]
                        /\ \A i \in DOMAIN passed[c] : passed[c][i] <= limits[c].last

\* The two numbers kept per cluster decide as the full history would:
\* telemeter-server's limiter implements UploadQuota.
Quota == INSTANCE UploadQuota WITH Instants <- Time
ImplementsQuota == Quota!QuotaSpec
=============================================================================
