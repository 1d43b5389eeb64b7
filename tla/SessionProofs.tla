--------------------------- MODULE SessionProofs ---------------------------
(***************************************************************************)
(* Proofs about Session, for every interval, retry, limit and size of a    *)
(* body: what a call returns is whole, a client is refused for a cause, and*)
(* not more often than fits into the limit.                                *)
(*                                                                         *)
(* The first needs what the goroutine of a call has done so far (CallInv). *)
(* The other two need how far the limiter and the timer of Run are apart:  *)
(* the bucket is full or has been empty for as long as last says           *)
(* (BucketInv), and that, with what the timer still has to run, covers the *)
(* limit (CauseInv) or the refusals so far (RefusalInv).                   *)
(***************************************************************************)
EXTENDS Session, TLAPS

Statuses == {"200", "401", "429", "error"}

\* Type correctness, but for the three flags, of which nothing is needed.
TypeInv ==
  /\ op \in {"none", "Retrieve", "Send"}
  /\ caller \in {"idle", "do", "select", "closed", "returned"}
  /\ fn \in {"none", "status", "decode", "drain", "ended"}
  /\ resp \in [code : Statuses \cup {"none"}, size : Nat]
  /\ got \in Nat
  /\ err \in {"nil", "error"}
  /\ result \in {"none", "ok", "error"}
  /\ timer \in Nat
  /\ outcome \in {"none", "ok", "empty", "error"}
  /\ upload \in {"none", "travels", "handled"} \cup Statuses
  /\ lim \in [tokens : {0, Limit}, last : (-Limit)..0]
  /\ woken \in {"start", "timer", "reload"}
  /\ cause \subseteq {"unseen", "reload", "restart"}
  /\ refusals \in Nat

\* What the goroutine of a call has seen of the response when it is where it is.
CallInv ==
  /\ op = "none" <=> caller = "idle"
  /\ caller \in {"idle", "do"} => fn = "none"
  /\ caller = "returned" => fn \in {"none", "ended"} /\ result # "none"
  /\ caller = "returned" /\ result = "ok" => fn = "ended" /\ err = "nil"
  /\ fn \in {"none", "status"} => got = 0
  /\ fn = "decode" => op = "Retrieve" /\ resp.code = "200"
                      /\ got <= resp.size /\ got <= MaxBytes
  /\ fn = "drain" => op = "Send" /\ (err = "nil" => resp.code = "200")
  /\ fn = "ended" /\ err = "nil" =>
       /\ resp.code = "200"
       /\ op = "Retrieve" => got = resp.size /\ got <= MaxBytes
  /\ upload # "none" => op = "Send"

\* How long ago the last upload was charged, up to Limit.
Elapsed == -lim.last

\* Without a cause, the next upload finds a full bucket.
CauseInv ==
  cause = {} =>
    /\ upload # "429"
    /\ \/ lim.tokens = Limit
       \/ caller = "idle" /\ Elapsed + timer >= Limit
       \/ caller # "idle" /\ Elapsed >= Limit

\* The time n retries take.
Retries(n) == n * Retry

\* Refusals of timed forwards are Retry apart, and there is as much time before
\* the next one could be refused.
RefusalInv ==
  /\ refusals <= MaxRefusals
  /\ lim.tokens # Limit =>
       /\ Retries(refusals) <= Elapsed + Retry \/ Elapsed >= Limit
       /\ caller = "idle" =>
            Retries(refusals) <= Elapsed + timer \/ Elapsed + timer >= Limit
       /\ woken = "timer" /\ (op = "Retrieve" \/ upload = "travels") =>
            Retries(refusals) <= Elapsed \/ Elapsed >= Limit

IInv == TypeInv /\ CallInv /\ CauseInv /\ RefusalInv

-----------------------------------------------------------------------------
(* The bucket and the retries. *)

LEMMA AllowsIff ==
  ASSUME TypeInv PROVE Allows(lim, 0) <=> lim.tokens = Limit \/ Elapsed >= Limit
BY LimitAssumption DEF TypeInv, Allows, Advance, Elapsed

\* An upload that is let through leaves the bucket empty as of now (unless there
\* is no limit); one that is refused leaves it alone.
LEMMA ReserveIs ==
  ASSUME TypeInv
  PROVE  /\ Allows(lim, 0) /\ Limit # 0 => Reserve(lim, 0) = [tokens |-> 0, last |-> 0]
         /\ ~ Allows(lim, 0) => Reserve(lim, 0) = lim
         /\ Limit = 0 => Allows(lim, 0) /\ Reserve(lim, 0) = lim
<1>1. Advance(lim, 0) <= Limit /\ Advance(lim, 0) \in Int
  BY LimitAssumption DEF TypeInv, Advance
<1>2. Allows(lim, 0) /\ Limit # 0 => Advance(lim, 0) - Limit = 0
  BY <1>1, LimitAssumption DEF Allows
<1> QED
  BY <1>2 DEF Reserve, Allows

LEMMA RetriesStep ==
  ASSUME NEW n \in Nat
  PROVE  Retries(n) \in Nat /\ Retries(n + 1) = Retries(n) + Retry /\ Retries(0) = 0
BY SessionAssumption DEF Retries

LEMMA MaxIsNat == MaxRefusals \in Nat
BY SessionAssumption, LimitAssumption DEF MaxRefusals

\* One more refusal fits if the limit is not over after the earlier ones.
LEMMA RefusalFits ==
  ASSUME NEW n \in Nat, Retries(n) < Limit PROVE n + 1 <= MaxRefusals
<1> DEFINE m == Limit + Retry - 1
           q == m \div Retry
<1>1. m \in Nat /\ Retry \in Nat /\ Retry > 0
  BY SessionAssumption, LimitAssumption
<1>2. q \in Int /\ m < (q + 1) * Retry
  BY <1>1
<1>3. (n + 1) * Retry <= m
  <2>1. Retries(n) \in Nat /\ Retries(n + 1) = Retries(n) + Retry
    BY RetriesStep
  <2>2. Retries(n + 1) <= m
    BY <1>1, <2>1, LimitAssumption
  <2> QED
    BY <2>2 DEF Retries
<1>4. (n + 1) * Retry < (q + 1) * Retry
  <2> HIDE DEF m, q
  <2> QED
    BY <1>1, <1>2, <1>3
<1>5. n + 1 < q + 1
  <2> HIDE DEF m, q
  <2> QED
    BY <1>1, <1>2, <1>4
<1> QED
  BY <1>2, <1>5 DEF MaxRefusals

-----------------------------------------------------------------------------
(* The parts of the invariant are preserved. *)

LEMMA TypeStep == ASSUME TypeInv, CallInv, [Next]_vars PROVE TypeInv'
<1> USE SessionAssumption, LimitAssumption, MaxBytesAssumption DEF TypeInv, Statuses
<1>1. CASE Wake \/ Reload \/ ClientRestart
  <2>1. CASE Wake
    BY <2>1 DEF Wake, Forward, Call, NoResponse, server
  <2>2. CASE Reload
    BY <2>2 DEF Reload, Forward, Call, NoResponse, server
  <2>3. CASE ClientRestart
    BY <2>3 DEF ClientRestart, Forward, Call, NoResponse
  <2> QED
    BY <1>1, <2>1, <2>2, <2>3
<1>2. CASE RetrieveReturns
  BY <1>2 DEF RetrieveReturns, Sleep, Call, EndCall, NoResponse, history
<1>3. CASE SendReturns
  BY <1>3 DEF SendReturns, CallInv, Sleep, EndCall, NoResponse
<1>4. CASE PrometheusAnswers \/ AnswerArrives \/ CallExpires
  <2>1. CASE PrometheusAnswers
    BY <2>1 DEF PrometheusAnswers, Do, worker, server, history
  <2>2. CASE AnswerArrives
    BY <2>2 DEF AnswerArrives, Do, worker, server, history
  <2>3. CASE CallExpires
    BY <2>3 DEF CallExpires, Expire, worker, server, history
  <2> QED
    BY <1>4, <2>1, <2>2, <2>3
<1>5. CASE GiveUp
  BY <1>5 DEF GiveUp, DoFails, Return, worker, history
<1>6. CASE CallSteps
  BY <1>6 DEF CallSteps, FnRetrieve, FnSend, FnDecode, FnDrain, FnBreaks, FnEnds,
     SelectDone, SelectExpired, WaitDone, Return, worker, server, history
<1>7. CASE LimitUpload \/ LateUpload
  <2>1. lim' \in [tokens : {0, Limit}, last : (-Limit)..0]
    BY <1>7, ReserveIs DEF LimitUpload, LateUpload, Charge
  <2>2. cause' \subseteq {"unseen", "reload", "restart"} /\ refusals' \in Nat
    <3>1. cause' = cause \/ cause' = {"unseen"}
      BY <1>7 DEF LimitUpload, LateUpload, Charge
    <3>2. refusals' \in {0, refusals, refusals + 1}
      BY <1>7 DEF LimitUpload, LateUpload
    <3>3. cause' \subseteq {"unseen", "reload", "restart"}
      BY <3>1
    <3>4. refusals' \in Nat
      BY <3>2
    <3> QED
      BY <3>3, <3>4
  <2>3. UNCHANGED <<call, worker, woken>>
        /\ (upload' = upload \/ upload' \in {"handled", "429"})
    BY <1>7 DEF LimitUpload, LateUpload
  <2> QED
    BY <2>1, <2>2, <2>3 DEF call, worker
<1>8. CASE HandleUpload \/ RefuseToken \/ Heal
  <2>1. UNCHANGED <<call, worker, lim, history>>
    BY <1>8 DEF HandleUpload, RefuseToken, Heal, server
  <2>2. upload' = upload \/ upload' \in {"200", "401", "error"}
    BY <1>8 DEF HandleUpload, RefuseToken, Heal, server
  <2> QED
    BY <2>1, <2>2 DEF call, worker, history
<1>9. CASE ServerRestart
  BY <1>9 DEF ServerRestart, NewLimiter, call, worker, history
<1>10. CASE Tick
  <2>1. lim' \in [tokens : {0, Limit}, last : (-Limit)..0]
    BY <1>10 DEF Tick
  <2> QED
    BY <1>10, <2>1 DEF Tick, call, history
<1>11. CASE UNCHANGED vars
  BY <1>11 DEF vars, call
<1> QED
  BY <1>1, <1>2, <1>3, <1>4, <1>5, <1>6, <1>7, <1>8, <1>9, <1>10, <1>11 DEF Next, Progress

LEMMA CallStep == ASSUME TypeInv, CallInv, [Next]_vars PROVE CallInv'
<1> USE MaxBytesAssumption DEF CallInv
<1>1. CASE Wake \/ Reload \/ ClientRestart
  BY <1>1 DEF Wake, Reload, ClientRestart, Forward, Call, Sleeping, server, TypeInv
<1>2. CASE RetrieveReturns
  BY <1>2 DEF RetrieveReturns, Sleep, Call, EndCall, TypeInv
<1>3. CASE SendReturns
  BY <1>3 DEF SendReturns, Sleep, EndCall, TypeInv
<1>4. CASE PrometheusAnswers \/ AnswerArrives \/ CallExpires
  BY <1>4 DEF PrometheusAnswers, AnswerArrives, CallExpires, Do, Expire, server, TypeInv
<1>5. CASE GiveUp
  BY <1>5 DEF GiveUp, DoFails, Return, TypeInv
<1>6. CASE CallSteps
  <2> USE DEF server, TypeInv
  <2>1. CASE FnRetrieve \/ FnSend \/ FnDrain \/ FnBreaks
    BY <1>6, <2>1 DEF CallSteps, FnRetrieve, FnSend, FnDrain, FnBreaks, FnEnds
  <2>2. CASE FnDecode
    BY <1>6, <2>2 DEF CallSteps, FnDecode, FnEnds, TooLong
  <2>3. CASE SelectDone \/ SelectExpired \/ WaitDone
    BY <1>6, <2>3 DEF CallSteps, SelectDone, SelectExpired, WaitDone, Return
  <2> QED
    BY <1>6, <2>1, <2>2, <2>3 DEF CallSteps
<1>7. CASE LimitUpload \/ LateUpload \/ HandleUpload \/ RefuseToken
  BY <1>7 DEF LimitUpload, LateUpload, HandleUpload, RefuseToken, call
<1>8. CASE Heal \/ ServerRestart \/ Tick \/ UNCHANGED vars
  BY <1>8 DEF Heal, ServerRestart, Tick, vars, call, server
<1> QED
  BY <1>1, <1>2, <1>3, <1>4, <1>5, <1>6, <1>7, <1>8 DEF Next, Progress

LEMMA CauseStep == ASSUME TypeInv, CallInv, CauseInv, [Next]_vars PROVE CauseInv'
<1> USE SessionAssumption, LimitAssumption DEF CauseInv, Elapsed
<1>1. CASE Wake \/ Reload \/ ClientRestart
  BY <1>1 DEF Wake, Reload, ClientRestart, Forward, Call, Sleeping, server, TypeInv
<1>2. CASE RetrieveReturns
  BY <1>2 DEF RetrieveReturns, Sleep, Call, EndCall, history, TypeInv
\* The interval the timer is set to covers the limit.
<1>3. CASE SendReturns
  BY <1>3 DEF SendReturns, Sleep, EndCall, TypeInv
<1>4. CASE PrometheusAnswers \/ AnswerArrives \/ CallExpires
  BY <1>4 DEF PrometheusAnswers, AnswerArrives, CallExpires, Do, Expire, worker, server,
     history, TypeInv
<1>5. CASE GiveUp
  BY <1>5 DEF GiveUp, DoFails, Return, worker, history, TypeInv
<1>6. CASE CallSteps
  BY <1>6 DEF CallSteps, FnRetrieve, FnSend, FnDecode, FnDrain, FnBreaks, FnEnds,
     SelectDone, SelectExpired, WaitDone, Return, worker, server, history, TypeInv
\* A refusal without a cause would contradict the invariant.
<1>7. CASE LimitUpload \/ LateUpload
  <2>1. CASE cause' = cause /\ lim' = lim
    <3>1. CASE LateUpload
      BY <2>1, <3>1 DEF LateUpload, call, worker
    <3>2. CASE LimitUpload
      <4>1. caller # "idle" /\ (Allows(lim, 0) <=> lim.tokens = Limit \/ Elapsed >= Limit)
        BY <3>2, AllowsIff DEF LimitUpload, CallInv
      <4> QED
        BY <2>1, <3>2, <4>1 DEF LimitUpload, call, worker, TypeInv
    <3> QED
      BY <1>7, <3>1, <3>2
  <2>2. CASE cause' = {"unseen"}
    BY <2>2
  <2> QED
    BY <1>7, <2>1, <2>2, ReserveIs DEF LimitUpload, LateUpload, Charge
<1>8. CASE HandleUpload \/ RefuseToken \/ Heal
  BY <1>8 DEF HandleUpload, RefuseToken, Heal, call, worker, server, history
<1>9. CASE ServerRestart
  BY <1>9 DEF ServerRestart, NewLimiter, history
<1>10. CASE Tick
  BY <1>10 DEF Tick, call, history, TypeInv
<1>11. CASE UNCHANGED vars
  BY <1>11 DEF vars, call
<1> QED
  BY <1>1, <1>2, <1>3, <1>4, <1>5, <1>6, <1>7, <1>8, <1>9, <1>10, <1>11 DEF Next, Progress

LEMMA RefusalStep == ASSUME TypeInv, CallInv, RefusalInv, [Next]_vars PROVE RefusalInv'
<1> DEFINE N == Retries(refusals)
<1>0. N \in Nat /\ (refusals = 0 => N = 0)
  BY RetriesStep DEF TypeInv
<1> USE SessionAssumption, LimitAssumption DEF RefusalInv, Elapsed
<1>1. CASE Wake \/ Reload \/ ClientRestart
  BY <1>0, <1>1 DEF Wake, Reload, ClientRestart, Forward, Call, Sleeping, server, TypeInv
<1>2. CASE RetrieveReturns
  BY <1>0, <1>2 DEF RetrieveReturns, Sleep, Call, EndCall, history, CallInv, TypeInv
<1>3. CASE SendReturns
  BY <1>0, <1>3 DEF SendReturns, Sleep, EndCall, CallInv, TypeInv
<1>4. CASE PrometheusAnswers \/ AnswerArrives \/ CallExpires
  BY <1>0, <1>4 DEF PrometheusAnswers, AnswerArrives, CallExpires, Do, Expire, worker, server,
     history, TypeInv
<1>5. CASE GiveUp
  BY <1>0, <1>5 DEF GiveUp, DoFails, Return, worker, history, TypeInv
<1>6. CASE CallSteps
  BY <1>0, <1>6 DEF CallSteps, FnRetrieve, FnSend, FnDecode, FnDrain, FnBreaks, FnEnds,
     SelectDone, SelectExpired, WaitDone, Return, worker, server, history, CallInv, TypeInv
\* A charge begins a new count; a refusal that counts came when there was time
\* for it.
<1>7. CASE LimitUpload \/ LateUpload
  <2>1. CASE refusals' = 0 /\ lim' = Reserve(lim, 0) /\ Allows(lim, 0)
    <3>1. lim'.tokens # Limit => lim' = [tokens |-> 0, last |-> 0]
      <4>1. CASE Limit = 0
        BY <2>1, <4>1, ReserveIs DEF TypeInv
      <4>2. CASE Limit # 0
        BY <2>1, <4>2, ReserveIs
      <4> QED
        BY <4>1, <4>2
    <3>2. Retries(refusals') = 0 /\ 0 <= MaxRefusals
      BY <2>1, RetriesStep, MaxIsNat DEF TypeInv
    <3>3. timer' \in Nat
      BY <1>7 DEF LimitUpload, LateUpload, worker, TypeInv
    <3> QED
      BY <2>1, <3>1, <3>2, <3>3
  <2>2. CASE refusals' = refusals /\ lim' = lim
    BY <1>0, <1>7, <2>2 DEF LimitUpload, LateUpload, call, worker, CallInv, TypeInv
  <2>3. CASE LimitUpload /\ ~ Allows(lim, 0) /\ woken = "timer" /\ refusals' = refusals + 1
    <3>1. lim' = lim /\ upload' = "429" /\ op' = "Send" /\ caller' = caller /\ caller # "idle"
      BY <2>3, ReserveIs DEF LimitUpload, Charge, call, CallInv
    <3>2. lim.tokens # Limit /\ Elapsed < Limit /\ N <= Elapsed
      <4>1. lim.tokens # Limit /\ ~(Elapsed >= Limit)
        BY <2>3, AllowsIff
      <4> QED
        BY <1>0, <2>3, <4>1 DEF LimitUpload, TypeInv
    <3>3. refusals + 1 <= MaxRefusals
      BY <1>0, <3>2, RefusalFits DEF TypeInv
    <3>4. Retries(refusals + 1) = N + Retry
      BY RetriesStep DEF TypeInv
    <3> QED
      BY <1>0, <2>3, <3>1, <3>2, <3>3, <3>4 DEF TypeInv
  <2> QED
    BY <1>7, <2>1, <2>2, <2>3, ReserveIs DEF LimitUpload, LateUpload, Charge
<1>8. CASE HandleUpload \/ RefuseToken \/ Heal
  BY <1>8 DEF HandleUpload, RefuseToken, Heal, call, worker, server, history
<1>9. CASE ServerRestart
  BY <1>9 DEF ServerRestart, NewLimiter, history
<1>10. CASE Tick
  BY <1>0, <1>10 DEF Tick, call, history, TypeInv
<1>11. CASE UNCHANGED vars
  BY <1>11 DEF vars, call
<1> QED
  BY <1>1, <1>2, <1>3, <1>4, <1>5, <1>6, <1>7, <1>8, <1>9, <1>10, <1>11 DEF Next, Progress

LEMMA Initial == Init => IInv
<1>1. Retries(0) = 0 /\ MaxRefusals \in Nat
  BY RetriesStep, MaxIsNat
<1> QED
  BY <1>1, SessionAssumption, LimitAssumption
     DEF Init, IInv, TypeInv, Statuses, CallInv, CauseInv, RefusalInv, NoResponse, NewLimiter

\* The inductive invariant holds in every reachable state.
THEOREM Invariance == Spec => []IInv
<1>1. IInv /\ [Next]_vars => IInv'
  BY TypeStep, CallStep, CauseStep, RefusalStep DEF IInv
<1> QED
  BY <1>1, Initial, PTL DEF Spec

\* What Retrieve returns without an error is the whole answer and within the
\* limit, and when a call has returned its goroutine has ended.
THEOREM AnswersWhole == Spec => []AnswerWhole
<1>1. IInv => AnswerWhole
  BY DEF IInv, CallInv, TypeInv, AnswerWhole
<1> QED
  BY <1>1, Invariance, PTL

\* A client is refused only after an upload it did not see succeed, a reload or a
\* restart.
THEOREM RefusalsCaused == Spec => []RefusedForCause
<1>1. IInv => RefusedForCause
  BY DEF IInv, CauseInv, RefusedForCause
<1> QED
  BY <1>1, Invariance, PTL

\* The refusals that a charged upload brings its client fit into the limit.
THEOREM RefusalsFit == Spec => []RefusalsBounded
<1>1. IInv => RefusalsBounded
  BY DEF IInv, RefusalInv, RefusalsBounded
<1> QED
  BY <1>1, Invariance, PTL
=============================================================================
