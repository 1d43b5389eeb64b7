---------------------------- MODULE TokenBucket ----------------------------
(***************************************************************************)
(* The token bucket behind the upload rate limit: golang.org/x/time/rate   *)
(* as pkg/server/ratelimited.go uses it, with a burst of 1.                *)
(*                                                                         *)
(* The library counts tokens in a float64 that grows by elapsed/Limit.     *)
(* The model counts the same quantity in units of time: a full bucket is   *)
(* Limit units, and an upload costs Limit units.                           *)
(***************************************************************************)
EXTENDS Integers

CONSTANT Limit   \* the duration given to Ratelimit

ASSUME LimitAssumption == Limit \in Nat

\* NewLimiter(Every(Limit), 1): a full bucket, last touched at the zero time.
NewLimiter == [tokens |-> Limit, last |-> 0]

\* Mutant of Advance: a stamp before last counts as time passed.
AdvanceEitherWay(lim, t) ==
  LET elapsed == IF t < lim.last THEN lim.last - t ELSE t - lim.last
      tokens  == lim.tokens + elapsed
  IN  IF tokens > Limit THEN Limit ELSE tokens

\* Mutant of Advance: the bucket overflows.
AdvanceUncapped(lim, t) ==
  lim.tokens + (IF t < lim.last THEN 0 ELSE t - lim.last)

\* The tokens at time t: what has dripped in since last, up to the burst.  A
\* stamp before last counts as no time passed.
Advance(lim, t) ==
  LET elapsed == IF t < lim.last THEN 0 ELSE t - lim.last
      tokens  == lim.tokens + elapsed
  IN  IF tokens > Limit THEN Limit ELSE tokens

\* Every(0) is the infinite rate, which always allows and keeps no account.
Allows(lim, t) == Limit = 0 \/ Advance(lim, t) - Limit >= 0

\* Mutant of Reserve: a refused request is charged too.
ReserveCharged(lim, t) == [tokens |-> Advance(lim, t) - Limit, last |-> t]

\* Mutant of Reserve: a refused request moves last.
ReserveStamped(lim, t) ==
  [tokens |-> IF Allows(lim, t) THEN Advance(lim, t) - Limit ELSE lim.tokens,
   last   |-> t]

\* reserveN updates the bucket only when the event is allowed.
Reserve(lim, t) ==
  IF Limit # 0 /\ Allows(lim, t)
    THEN [tokens |-> Advance(lim, t) - Limit, last |-> t]
    ELSE lim
=============================================================================
