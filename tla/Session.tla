------------------------------ MODULE Session ------------------------------
(***************************************************************************)
(* telemeter-client and telemeter-server in time: Worker.Run, which        *)
(* forwards and then sleeps for its interval, or for a minute after an     *)
(* error (pkg/forwarder); the calls of the metrics client it makes         *)
(* (MetricsClient.tla); and the rate limit of the server (TokenBucket.tla, *)
(* pkg/server/ratelimited.go), which is charged when an upload arrives,    *)
(* before it is validated, forwarded and answered.                         *)
(*                                                                         *)
(* The two sides agree on nothing but durations: interval and limit have   *)
(* the same default.  Requests and answers are lost or late, an upload may *)
(* reach the server after the client gave it up, and either side may be    *)
(* restarted.  After Heal there are no more faults.                        *)
(*                                                                         *)
(* Time is relative: the present is 0, and Tick moves the timers and the   *)
(* limiter's last stamp, which is kept no further back than matters.       *)
(***************************************************************************)
EXTENDS MetricsClient, TokenBucket

CONSTANTS
  Interval,   \* --interval; also the timeout of each call
  Retry       \* how long Run sleeps after an error

ASSUME SessionAssumption ==
  /\ Interval \in Nat \ {0}
  /\ Retry \in Nat \ {0}
  /\ Limit <= Interval       \* the defaults are equal

VARIABLES
  timer,      \* ticks until Run wakes up, or until the context of a call ends
  outcome,    \* how the last forward ended; "none" while one is under way
  upload,     \* where the upload is that the client waits for
  late,       \* an upload that the client gave up is still on its way
  lim,        \* the cluster's limiter
  healthy,    \* there are no more faults
  woken,      \* history: what started this forward
  cause,      \* history: what may explain a refusal, since the last charge
  refusals    \* history: refusals of timed forwards since the last charge

vars == <<call, timer, outcome, upload, late, lim, healthy, woken, cause, refusals>>

server  == <<upload, late, lim>>
history == <<woken, cause, refusals>>

Sleeping == caller = "idle"

\* As many refusals as fit into Limit, one every Retry.
MaxRefusals == (Limit + Retry - 1) \div Retry

Init ==
  /\ op = "Retrieve" /\ caller = "do" /\ fn = "none"
  /\ expired = FALSE
  /\ resp = NoResponse /\ got = 0 /\ err = "nil" /\ result = "none"
  /\ timer = Interval
  /\ outcome = "none"
  /\ upload = "none" /\ late = FALSE
  /\ lim = NewLimiter
  /\ healthy = FALSE
  /\ woken = "start"
  /\ cause = {}
  /\ refusals = 0

-----------------------------------------------------------------------------
(* The Worker. *)

\* forward begins.
Forward(why) ==
  /\ Call("Retrieve")
  /\ timer' = Interval
  /\ outcome' = "none"
  /\ woken' = why

\* forward ends, and Run goes to sleep.
Sleep(o) ==
  /\ EndCall
  /\ outcome' = o
  /\ timer' = IF o = "error" THEN Retry ELSE Interval

\* The timer fires.
Wake ==
  /\ Sleeping
  /\ timer = 0
  /\ Forward("timer")
  /\ UNCHANGED <<server, healthy, cause, refusals>>

\* A reload interrupts the sleep.
Reload ==
  /\ Sleeping
  /\ ~ healthy
  /\ Forward("reload")
  /\ cause' = cause \cup {"reload"}
  /\ UNCHANGED <<server, healthy, refusals>>

\* Retrieve or a transformer fails, or the transformers leave nothing to send, or
\* the upload is sent.
RetrieveReturns ==
  /\ caller = "returned" /\ op = "Retrieve"
  /\ \/ /\ result = "error" \/ ~ healthy
        /\ Sleep("error")
        /\ UNCHANGED upload
     \/ /\ result = "ok" /\ (got = 0 \/ ~ healthy)
        /\ Sleep("empty")
        /\ UNCHANGED upload
     \/ /\ result = "ok" /\ got > 0
        /\ Call("Send")
        /\ timer' = Interval
        /\ upload' = "travels"
        /\ UNCHANGED outcome
  /\ UNCHANGED <<late, lim, healthy, history>>

\* Mutant of SendReturns: the sleep is counted from the beginning of forward.
SendReturnsEarlier ==
  /\ caller = "returned" /\ op = "Send"
  /\ EndCall
  /\ outcome' = result
  /\ timer' = IF result = "error" THEN Retry ELSE timer
  /\ upload' = "none"
  /\ cause' = IF result = "ok" THEN cause \ {"unseen"} ELSE cause
  /\ UNCHANGED <<late, lim, healthy, woken, refusals>>

\* The upload was answered, or given up.
SendReturns ==
  /\ caller = "returned" /\ op = "Send"
  /\ Sleep(result)
  /\ upload' = "none"
  /\ cause' = IF result = "ok" THEN cause \ {"unseen"} ELSE cause
  /\ UNCHANGED <<late, lim, healthy, woken, refusals>>

-----------------------------------------------------------------------------
(* The calls. *)

worker == <<timer, outcome>>

\* Prometheus answers; more families than the limit allows, or exactly as many,
\* are an error of its own kind.
PrometheusAnswers ==
  /\ op = "Retrieve"
  /\ \E code \in {"200", "error"}, size \in 0..(MaxBytes + 1) :
       /\ healthy => code = "200" /\ size \in 1..(MaxBytes - 1)
       /\ Do(code, size)
  /\ UNCHANGED <<worker, server, healthy, history>>

\* The server's answer arrives.
AnswerArrives ==
  /\ op = "Send"
  /\ upload \in {"200", "401", "429", "error"}
  /\ Do(upload, 0)
  /\ UNCHANGED <<worker, server, healthy, history>>

\* The call is given up, by a transport error or the timeout.  The upload may
\* still be on its way.
GiveUp ==
  /\ DoFails
  /\ expired \/ ~ healthy
  /\ upload' = "none"
  /\ late' \in {late, late \/ upload = "travels"}
  /\ UNCHANGED <<worker, lim, healthy, history>>

\* The timeout of the call.
CallExpires ==
  /\ Expire
  /\ timer = 0
  /\ ~ healthy
  /\ UNCHANGED <<worker, server, healthy, history>>

\* withCancel and its goroutine go on; a healthy connection does not break.
CallSteps ==
  /\ \/ FnRetrieve \/ FnSend \/ FnDecode \/ FnDrain \/ SelectDone \/ SelectExpired \/ WaitDone
     \/ FnBreaks /\ (expired \/ ~ healthy)
  /\ UNCHANGED <<worker, server, healthy, history>>

-----------------------------------------------------------------------------
(* The server. *)

\* Charge the limiter for an upload that is stamped now.
Charge ==
  /\ lim' = Reserve(lim, 0)
  /\ cause' = IF Allows(lim, 0) THEN {"unseen"} ELSE cause

\* The token of the upload is not accepted: nothing is charged.
RefuseToken ==
  /\ upload = "travels"
  /\ ~ healthy
  /\ upload' = "401"
  /\ UNCHANGED <<call, worker, late, lim, healthy, history>>

\* The upload arrives and the limiter is asked.
LimitUpload ==
  /\ upload = "travels"
  /\ Charge
  /\ IF Allows(lim, 0)
       THEN upload' = "handled" /\ refusals' = 0
       ELSE /\ upload' = "429"
            /\ refusals' = IF woken = "timer" /\ refusals <= MaxRefusals
                             THEN refusals + 1 ELSE refusals
  /\ UNCHANGED <<call, worker, late, healthy, woken>>

\* It is validated and forwarded, and the token is spent whatever comes of it.
HandleUpload ==
  /\ upload = "handled"
  /\ upload' = "200" \/ (~ healthy /\ upload' = "error")
  /\ UNCHANGED <<call, worker, late, lim, healthy, history>>

\* An upload that nobody waits for arrives after all, or never.
LateUpload ==
  /\ late
  /\ late' = FALSE
  /\ \/ /\ Charge
        /\ refusals' = IF Allows(lim, 0) THEN 0 ELSE refusals
     \/ UNCHANGED <<lim, cause, refusals>>
  /\ UNCHANGED <<call, worker, upload, healthy, woken>>

-----------------------------------------------------------------------------
(* Faults and time. *)

\* The client is killed and started again.
ClientRestart ==
  /\ ~ healthy
  /\ Forward("start")
  /\ upload' = "none"
  /\ late' \in {late, late \/ upload = "travels"}
  /\ cause' = cause \cup {"restart"}
  /\ UNCHANGED <<lim, healthy, refusals>>

\* The server is started again, with a limiter of its own for every cluster.
ServerRestart ==
  /\ ~ healthy
  /\ lim # NewLimiter
  /\ lim' = NewLimiter
  /\ UNCHANGED <<call, worker, upload, late, healthy, history>>

Heal ==
  /\ ~ healthy
  /\ healthy' = TRUE
  /\ UNCHANGED <<call, worker, server, history>>

\* Time passes.  Run wakes up, and a call ends, no later than it should.
Tick ==
  /\ timer > 0
  /\ caller # "returned"
  /\ timer' = timer - 1
  /\ lim' = [lim EXCEPT !.last = IF @ > -Limit THEN @ - 1 ELSE @]
  /\ UNCHANGED <<call, outcome, upload, late, healthy, history>>

Progress ==
  \/ Wake \/ RetrieveReturns \/ SendReturns
  \/ PrometheusAnswers \/ AnswerArrives \/ GiveUp \/ CallExpires \/ CallSteps
  \/ LimitUpload \/ HandleUpload

Next ==
  \/ Progress \/ Tick
  \/ Reload \/ RefuseToken \/ LateUpload
  \/ ClientRestart \/ ServerRestart \/ Heal

Spec == Init /\ [][Next]_vars

\* Time goes on, and so do the client, whose calls end by their timeout, and a
\* server that answers.  Nothing is said of faults, or of whether they end.
FairSpec == Spec /\ WF_vars(Progress) /\ WF_vars(Tick)

-----------------------------------------------------------------------------
(* Properties. *)

\* What Retrieve returns without an error is all that Prometheus sent, within
\* the limit, even if the context ended while it was being decoded; and when a
\* call has returned its goroutine has ended, so that nobody writes to err or to
\* the families any more.
AnswerWhole ==
  /\ caller = "returned" /\ result = "ok" =>
       /\ resp.code = "200"
       /\ op = "Retrieve" => got = resp.size /\ resp.size <= MaxBytes
  /\ caller \in {"idle", "returned"} => fn \in {"none", "ended"}

\* A client that goes by its timer and saw its last upload succeed is never
\* refused: a 429 needs an upload that was charged and not seen to succeed, or a
\* forward that a reload or a restart began.
RefusedForCause == upload = "429" => cause # {}

\* A failed upload costs the cluster its limit once: retrying every minute, it
\* is refused no more often than fits into the limit, and then accepted.
RefusalsBounded == refusals <= MaxRefusals

\* Once the faults are over uploads succeed again and again, whatever the state
\* they left client and server in.
DeliveryResumes ==
  /\ []<>(~ healthy \/ outcome = "ok")
  /\ []<>(~ healthy \/ outcome = "none")
=============================================================================
