------------------------- MODULE RateLimiterProofs -------------------------
(***************************************************************************)
(* Proofs about RateLimiter, for any set of clusters and handlers, any     *)
(* limit and any clock bound.                                              *)
(*                                                                         *)
(* Spacing alone is not inductive: whether the next upload keeps its       *)
(* distance depends on the bucket, not on the history.                     *)
(* BucketMatchesHistory ties the two together, and with it one step of     *)
(* LimitRequest decides as the history would (DecidesLikeHistory).         *)
(***************************************************************************)
EXTENDS RateLimiter, TLAPS

\* The bucket operators: an allowed request finds a full bucket and leaves it
\* empty, stamped with the request; a refused one leaves it alone.
LEMMA ReserveType ==
  ASSUME NEW lim \in Limiter, NEW t \in Time
  PROVE  /\ Reserve(lim, t) \in Limiter
         /\ Limit # 0 /\ Allows(lim, t) => Reserve(lim, t) = [tokens |-> 0, last |-> t]
         /\ Limit = 0 \/ ~ Allows(lim, t) => Reserve(lim, t) = lim
<1>1. lim.tokens \in 0..Limit /\ lim.last \in Time
  BY DEF Limiter
<1>2. Advance(lim, t) \in 0..Limit
  BY <1>1, RateLimiterAssumption, LimitAssumption DEF Advance, Time
<1>3. Limit # 0 /\ Allows(lim, t) => Advance(lim, t) - Limit = 0
  BY <1>2, RateLimiterAssumption, LimitAssumption DEF Allows
<1>4. Limit # 0 /\ Allows(lim, t) => Reserve(lim, t) = [tokens |-> 0, last |-> t]
  BY <1>3 DEF Reserve
<1>5. Limit = 0 \/ ~ Allows(lim, t) => Reserve(lim, t) = lim
  BY DEF Reserve
<1>6. [tokens |-> 0, last |-> t] \in Limiter
  BY RateLimiterAssumption, LimitAssumption DEF Limiter
<1> QED
  BY <1>4, <1>5, <1>6

\* A fresh limiter allows its first request, whatever its stamp.
LEMMA FreshAllows ==
  ASSUME NEW t \in Time
  PROVE  NewLimiter \in Limiter /\ Allows(NewLimiter, t)
BY RateLimiterAssumption, LimitAssumption DEF NewLimiter, Limiter, Allows, Advance, Time

\* An empty bucket allows exactly the requests Limit or more after its stamp;
\* one stamped before it is refused.
LEMMA EmptyAllows ==
  ASSUME NEW lim \in Limiter, NEW t \in Time, Limit > 0, lim.tokens = 0
  PROVE  Allows(lim, t) <=> lim.last + Limit <= t
BY RateLimiterAssumption, LimitAssumption DEF Limiter, Allows, Advance, Time

\* The value that stands for an absent limiter is not a limiter.
LEMMA AbsentIsNoLimiter == NoLimiter \notin Limiter
<1>1. ASSUME NoLimiter \in Limiter PROVE FALSE
  <2>1. NoLimiter.last \in Time
    BY <1>1 DEF Limiter
  <2>2. NoLimiter.last = -1
    BY DEF NoLimiter
  <2> QED
    BY <2>1, <2>2, RateLimiterAssumption, LimitAssumption DEF Time
<1> QED
  BY <1>1

\* A history with one more stamp.
LEMMA OneMore ==
  ASSUME NEW s \in Seq(Time), NEW t \in Time
  PROVE  /\ Append(s, t) \in Seq(Time)
         /\ Append(s, t) # <<>>
         /\ Len(Append(s, t)) = Len(s) + 1 /\ Len(s) \in Nat
         /\ DOMAIN Append(s, t) = 1..(Len(s) + 1) /\ DOMAIN s = 1..Len(s)
         /\ \A i \in 1..Len(s) : Append(s, t)[i] = s[i]
         /\ Append(s, t)[Len(s) + 1] = t
OBVIOUS

-----------------------------------------------------------------------------
\* Type correctness of the limiter and of the handlers around it.
THEOREM TypeCorrect == Spec => []TypeOK
<1>1. Init => TypeOK
  BY RateLimiterAssumption, LimitAssumption DEF Init, TypeOK, Time
<1>2. TypeOK /\ [Next]_vars => TypeOK'
  <2> SUFFICES ASSUME TypeOK, [Next]_vars PROVE TypeOK'
    OBVIOUS
  <2> USE RateLimiterAssumption, LimitAssumption
  <2>1. ASSUME Tick PROVE TypeOK'
    BY <2>1 DEF Tick, TypeOK, Time
  <2>2. ASSUME NEW h \in Handlers, NEW c \in Clusters \cup {NoCluster}, Arrive(h, c)
        PROVE TypeOK'
    BY <2>2 DEF Arrive, TypeOK
  <2>3. ASSUME NEW h \in Handlers, RejectNoCluster(h) PROVE TypeOK'
    BY <2>3 DEF RejectNoCluster, Return, TypeOK, Time
  <2>4. ASSUME NEW h \in Handlers, ReadClock(h) PROVE TypeOK'
    BY <2>4 DEF ReadClock, TypeOK
  <2>5. ASSUME NEW h \in Handlers, LimitRequest(h) PROVE TypeOK'
    <3> DEFINE c == cluster[h]
               t == stamp[h]
               lim == IF limits[c] = NoLimiter THEN NewLimiter ELSE limits[c]
    <3>1. c \in Clusters /\ t \in Time
      BY <2>5 DEF TypeOK, LimitRequest
    <3>2. lim \in Limiter
      BY <3>1, FreshAllows DEF TypeOK
    <3>2a. Reserve(lim, t) \in Limiter
      BY <3>1, <3>2, ReserveType
    <3>3. limits' = [limits EXCEPT ![c] = Reserve(lim, t)]
      BY <2>5 DEF LimitRequest
    <3>4. limits' \in [Clusters -> Limiter \cup {NoLimiter}]
      BY <3>1, <3>2a, <3>3 DEF TypeOK
    <3>5. CASE Allows(lim, t)
      <4>1. passed' = [passed EXCEPT ![c] = Append(@, t)]
        BY <2>5, <3>5 DEF LimitRequest
      <4>2. passed' \in [Clusters -> Seq(Time)]
        BY <3>1, <4>1, OneMore DEF TypeOK
      <4>3. /\ pc' = [pc EXCEPT ![h] = "next"]
            /\ UNCHANGED <<clock, cluster, stamp, refused>>
        BY <2>5, <3>5 DEF LimitRequest
      <4> QED
        BY <3>1, <3>4, <4>2, <4>3 DEF TypeOK
    <3>6. CASE ~ Allows(lim, t)
      <4>1. /\ passed' = passed
            /\ pc' = [pc EXCEPT ![h] = "idle"]
            /\ cluster' = [cluster EXCEPT ![h] = NoCluster]
            /\ stamp' = [stamp EXCEPT ![h] = 0]
            /\ refused' = [refused EXCEPT ![c] = @ \cup {t}]
            /\ clock' = clock
        BY <2>5, <3>6 DEF LimitRequest, Return
      <4> QED
        BY <3>1, <3>4, <4>1 DEF TypeOK, Time
    <3> QED
      BY <3>5, <3>6
  <2>6. ASSUME NEW h \in Handlers, NextReturns(h) PROVE TypeOK'
    BY <2>6 DEF NextReturns, Return, TypeOK, Time
  <2>7. CASE UNCHANGED vars
    BY <2>7 DEF vars, TypeOK
  <2> QED
    BY <2>1, <2>2, <2>3, <2>4, <2>5, <2>6, <2>7 DEF Next
<1> QED
  BY <1>1, <1>2, PTL DEF Spec

-----------------------------------------------------------------------------
\* One run of the critical section decides as the history of the cluster
\* would, provided the bucket summarises that history.
LEMMA DecidesLikeHistory ==
  ASSUME TypeOK, BucketMatchesHistory, NEW c \in Clusters, NEW t \in Time,
         NEW lim, lim = IF limits[c] = NoLimiter THEN NewLimiter ELSE limits[c]
  PROVE  /\ lim \in Limiter
         /\ Allows(lim, t) <=> Quota!InQuota(c, t)
<1>1. CASE limits[c] = NoLimiter
  <2>1. passed[c] = <<>>
    BY <1>1 DEF BucketMatchesHistory
  <2> QED
    BY <1>1, <2>1, FreshAllows DEF Quota!InQuota
<1>2. CASE limits[c] # NoLimiter
  <2>1. lim \in Limiter
    BY <1>2 DEF TypeOK
  <2>2. CASE Limit = 0
    BY <2>1, <2>2 DEF Allows, Quota!InQuota
  <2>3. CASE Limit > 0
    <3>1. /\ lim.tokens = 0
          /\ passed[c] # <<>>
          /\ lim.last = passed[c][Len(passed[c])]
          /\ \A i \in DOMAIN passed[c] : passed[c][i] <= lim.last
      BY <1>2, <2>3 DEF BucketMatchesHistory
    <3>2. Allows(lim, t) <=> lim.last + Limit <= t
      BY <2>1, <2>3, <3>1, EmptyAllows
    <3>3. /\ passed[c] \in Seq(Time) /\ lim.last \in Time
          /\ \A i \in DOMAIN passed[c] : passed[c][i] \in Time
      BY <2>1 DEF TypeOK, Limiter
    <3>4. Len(passed[c]) \in DOMAIN passed[c]
      BY <3>1, <3>3
    <3>5. (lim.last + Limit <= t) <=> (\A i \in DOMAIN passed[c] : passed[c][i] + Limit <= t)
      BY <3>1, <3>3, <3>4, RateLimiterAssumption, LimitAssumption DEF Time
    <3> QED
      BY <2>1, <2>3, <3>2, <3>5 DEF Quota!InQuota
  <2> QED
    BY <2>2, <2>3, RateLimiterAssumption, LimitAssumption
<1> QED
  BY <1>1, <1>2

\* The bucket summarises the history in every reachable state.
THEOREM BucketSummary == Spec => []BucketMatchesHistory
<1>1. Init => BucketMatchesHistory
  BY DEF Init, BucketMatchesHistory
<1>2. TypeOK /\ BucketMatchesHistory /\ [Next]_vars => BucketMatchesHistory'
  <2> SUFFICES ASSUME TypeOK, BucketMatchesHistory, [Next]_vars
               PROVE  BucketMatchesHistory'
    OBVIOUS
  <2>1. CASE UNCHANGED <<limits, passed, refused>>
    BY <2>1 DEF BucketMatchesHistory
  <2>2. ASSUME NEW h \in Handlers, LimitRequest(h) PROVE BucketMatchesHistory'
    <3> DEFINE c == cluster[h]
               t == stamp[h]
               lim == IF limits[c] = NoLimiter THEN NewLimiter ELSE limits[c]
    <3>1. c \in Clusters /\ t \in Time
      BY <2>2 DEF TypeOK, LimitRequest
    <3>2. lim \in Limiter /\ (Allows(lim, t) <=> Quota!InQuota(c, t))
      BY <3>1, DecidesLikeHistory
    <3>3. limits' = [limits EXCEPT ![c] = Reserve(lim, t)]
      BY <2>2 DEF LimitRequest
    <3>4. limits'[c] = Reserve(lim, t) /\ limits'[c] # NoLimiter
      BY <3>1, <3>2, <3>3, ReserveType, AbsentIsNoLimiter DEF TypeOK
    <3>5. \A d \in Clusters : d # c =>
            limits'[d] = limits[d] /\ passed'[d] = passed[d] /\ refused'[d] = refused[d]
      BY <2>2, <3>1, <3>3 DEF LimitRequest, TypeOK
    <3>6. ASSUME Limit > 0
          PROVE  /\ limits'[c].tokens = 0
                 /\ passed'[c] # <<>>
                 /\ limits'[c].last = passed'[c][Len(passed'[c])]
                 /\ \A i \in DOMAIN passed'[c] : passed'[c][i] <= limits'[c].last
      <4>1. CASE Allows(lim, t)
        <5>1. limits'[c].tokens = 0 /\ limits'[c].last = t
          BY <3>1, <3>2, <3>4, <3>6, <4>1, ReserveType
        <5>2. passed'[c] = Append(passed[c], t)
          BY <2>2, <3>1, <4>1 DEF LimitRequest, TypeOK
        <5>3. \A i \in DOMAIN passed[c] : passed[c][i] + Limit <= t
          BY <3>2, <3>6, <4>1 DEF Quota!InQuota
        <5>4. passed[c] \in Seq(Time) /\ \A i \in DOMAIN passed[c] : passed[c][i] \in Time
          BY <3>1 DEF TypeOK
        <5>5. \A i \in DOMAIN passed[c] : passed[c][i] <= t
          BY <3>1, <3>6, <5>3, <5>4, RateLimiterAssumption, LimitAssumption DEF Time
        <5>6. t <= t
          BY <3>1, RateLimiterAssumption DEF Time
        <5> QED
          BY <3>1, <5>1, <5>2, <5>4, <5>5, <5>6, OneMore
      <4>2. CASE ~ Allows(lim, t)
        <5>1. limits'[c] = lim /\ passed'[c] = passed[c]
          BY <2>2, <3>1, <3>2, <3>4, <4>2, ReserveType DEF LimitRequest
        <5>2. limits[c] # NoLimiter
          BY <3>1, <4>2, FreshAllows
        <5> QED
          BY <3>1, <3>6, <5>1, <5>2 DEF BucketMatchesHistory
      <4> QED
        BY <4>1, <4>2
    <3> QED
      BY <3>4, <3>5, <3>6 DEF BucketMatchesHistory
  <2> QED
    BY <2>1, <2>2 DEF Next, vars, Tick, Arrive, RejectNoCluster, ReadClock, NextReturns
<1> QED
  BY <1>1, <1>2, TypeCorrect, PTL DEF Spec

\* The two numbers the server keeps per cluster decide exactly as the full
\* history would: the limiter implements UploadQuota.
THEOREM QuotaImplemented == Spec => ImplementsQuota
<1>1. Init => Quota!QuotaInit
  BY DEF Init, Quota!QuotaInit
<1>2. TypeOK /\ BucketMatchesHistory /\ [Next]_vars
        => [Quota!QuotaNext]_(Quota!quotaVars)
  <2> SUFFICES ASSUME TypeOK, BucketMatchesHistory, [Next]_vars
               PROVE  Quota!QuotaNext \/ UNCHANGED <<passed, refused>>
    BY DEF Quota!quotaVars
  <2>1. ASSUME NEW h \in Handlers, LimitRequest(h) PROVE Quota!QuotaNext
    <3> DEFINE c == cluster[h]
               t == stamp[h]
               lim == IF limits[c] = NoLimiter THEN NewLimiter ELSE limits[c]
    <3>1. c \in Clusters /\ t \in Time
      BY <2>1 DEF TypeOK, LimitRequest
    <3>2. Allows(lim, t) <=> Quota!InQuota(c, t)
      BY <3>1, DecidesLikeHistory
    <3>3. Quota!Pass(c, t) \/ Quota!Refuse(c, t)
      BY <2>1, <3>2 DEF LimitRequest, Quota!Pass, Quota!Refuse
    <3> QED
      BY <3>1, <3>3 DEF Quota!QuotaNext
  <2> QED
    BY <2>1 DEF Next, vars, Tick, Arrive, RejectNoCluster, ReadClock, NextReturns
<1> QED
  BY <1>1, <1>2, TypeCorrect, BucketSummary, PTL
     DEF Spec, ImplementsQuota, Quota!QuotaSpec

-----------------------------------------------------------------------------
\* Uploads of one cluster are passed at least Limit apart, and a cluster is
\* refused only on account of one that was passed.
THEOREM QuotaKept == Spec => [](Spacing /\ RefusedOnlyForPassed)
<1>1. Init => Spacing /\ RefusedOnlyForPassed
  BY DEF Init, Spacing, RefusedOnlyForPassed
<1>2. TypeOK /\ BucketMatchesHistory /\ Spacing /\ RefusedOnlyForPassed /\ [Next]_vars
        => (Spacing /\ RefusedOnlyForPassed)'
  <2> SUFFICES ASSUME TypeOK, BucketMatchesHistory, Spacing, RefusedOnlyForPassed,
                      [Next]_vars
               PROVE  Spacing' /\ RefusedOnlyForPassed'
    OBVIOUS
  <2>1. CASE UNCHANGED <<passed, refused>>
    BY <2>1 DEF Spacing, RefusedOnlyForPassed
  <2>2. ASSUME NEW h \in Handlers, LimitRequest(h)
        PROVE  Spacing' /\ RefusedOnlyForPassed'
    <3> DEFINE c == cluster[h]
               t == stamp[h]
               lim == IF limits[c] = NoLimiter THEN NewLimiter ELSE limits[c]
    <3>1. c \in Clusters /\ t \in Time /\ passed[c] \in Seq(Time)
          /\ \A i \in DOMAIN passed[c] : passed[c][i] \in Time
      BY <2>2 DEF TypeOK, LimitRequest
    <3>2. Allows(lim, t) <=> Quota!InQuota(c, t)
      BY <3>1, DecidesLikeHistory
    <3>3. CASE Allows(lim, t)
      <4>1. passed' = [passed EXCEPT ![c] = Append(@, t)] /\ refused' = refused
        BY <2>2, <3>3 DEF LimitRequest
      <4>2. passed'[c] = Append(passed[c], t)
            /\ \A d \in Clusters : d # c => passed'[d] = passed[d]
        BY <3>1, <4>1 DEF TypeOK
      <4>3. Limit = 0 \/ \A i \in DOMAIN passed[c] : passed[c][i] + Limit <= t
        BY <3>2, <3>3 DEF Quota!InQuota
      <4>4. /\ DOMAIN passed'[c] = DOMAIN passed[c] \cup {Len(passed[c]) + 1}
            /\ DOMAIN passed[c] = 1..Len(passed[c]) /\ Len(passed[c]) \in Nat
            /\ \A i \in DOMAIN passed[c] : passed'[c][i] = passed[c][i]
            /\ passed'[c][Len(passed[c]) + 1] = t
        BY <3>1, <4>2, OneMore
      <4>5. ASSUME NEW d \in Clusters, NEW i \in DOMAIN passed'[d], NEW j \in DOMAIN passed'[d],
                   Limit > 0, i < j
            PROVE  passed'[d][i] + Limit <= passed'[d][j]
        <5>1. CASE d # c
          BY <4>2, <4>5, <5>1 DEF Spacing
        <5>2. CASE d = c /\ j \in DOMAIN passed[c]
          <6>1. i \in DOMAIN passed[c]
            BY <4>4, <4>5, <5>2
          <6> QED
            BY <3>1, <4>4, <4>5, <5>2, <6>1 DEF Spacing
        <5>3. CASE d = c /\ j = Len(passed[c]) + 1
          <6>1. i \in DOMAIN passed[c]
            BY <4>4, <4>5, <5>3
          <6> QED
            BY <4>3, <4>4, <4>5, <5>3, <6>1
        <5> QED
          BY <4>4, <5>1, <5>2, <5>3
      <4>6. ASSUME NEW d \in Clusters, NEW u \in refused'[d]
            PROVE  \E i \in DOMAIN passed'[d] : u < passed'[d][i] + Limit
        <5>1. PICK i \in DOMAIN passed[d] : u < passed[d][i] + Limit
          BY <4>1 DEF RefusedOnlyForPassed
        <5>2. i \in DOMAIN passed'[d] /\ passed'[d][i] = passed[d][i]
          BY <4>2, <4>4
        <5> QED
          BY <5>1, <5>2
      <4> QED
        BY <4>5, <4>6 DEF Spacing, RefusedOnlyForPassed
    <3>4. CASE ~ Allows(lim, t)
      <4>1. refused' = [refused EXCEPT ![c] = @ \cup {t}] /\ passed' = passed
        BY <2>2, <3>4 DEF LimitRequest
      <4>2. \E i \in DOMAIN passed[c] : t < passed[c][i] + Limit
        BY <3>1, <3>2, <3>4, RateLimiterAssumption, LimitAssumption DEF Quota!InQuota, Time
      <4> QED
        BY <3>1, <4>1, <4>2 DEF Spacing, RefusedOnlyForPassed, TypeOK
    <3> QED
      BY <3>3, <3>4
  <2> QED
    BY <2>1, <2>2 DEF Next, vars, Tick, Arrive, RejectNoCluster, ReadClock, NextReturns
<1> QED
  BY <1>1, <1>2, TypeCorrect, BucketSummary, PTL DEF Spec
=============================================================================
