---------------------------- MODULE UploadQuota ----------------------------
(***************************************************************************)
(* What the upload rate limit of telemeter-server promises, stated over    *)
(* the whole history of every cluster: a request stamped t is passed       *)
(* exactly when t lies at least Limit after every upload of the same       *)
(* cluster that was passed before, and is refused otherwise.  No server    *)
(* could keep this history; RateLimiter.tla, which keeps two numbers per   *)
(* cluster as the code does, is shown to implement it.                     *)
(***************************************************************************)
EXTENDS Integers, Sequences

CONSTANTS
  Clusters,   \* the cluster IDs
  Instants,   \* the instants an upload can be stamped with
  Limit       \* the minimal distance of two uploads of one cluster

VARIABLES
  passed,     \* per cluster: the stamps of the uploads let through, in order
  refused     \* per cluster: the stamps of the uploads answered with 429

quotaVars == <<passed, refused>>

\* An upload of c stamped t keeps its distance from every upload before it.
\* A limit of zero is no limit.
InQuota(c, t) == Limit = 0 \/ \A i \in DOMAIN passed[c] : passed[c][i] + Limit <= t

QuotaInit ==
  /\ passed = [c \in Clusters |-> <<>>]
  /\ refused = [c \in Clusters |-> {}]

Pass(c, t) ==
  /\ InQuota(c, t)
  /\ passed' = [passed EXCEPT ![c] = Append(@, t)]
  /\ UNCHANGED refused

Refuse(c, t) ==
  /\ ~ InQuota(c, t)
  /\ refused' = [refused EXCEPT ![c] = @ \cup {t}]
  /\ UNCHANGED passed

QuotaNext == \E c \in Clusters, t \in Instants : Pass(c, t) \/ Refuse(c, t)

QuotaSpec == QuotaInit /\ [][QuotaNext]_quotaVars
=============================================================================
