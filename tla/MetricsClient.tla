--------------------------- MODULE MetricsClient ---------------------------
(***************************************************************************)
(* One call of Retrieve or Send of telemeter-client                        *)
(* (pkg/metricsclient/metricsclient.go): the request, the goroutine that   *)
(* withCancel starts on the response, the context that may end meanwhile,  *)
(* and the LimitedReader (pkg/reader/reader.go) through which Retrieve     *)
(* decodes the body.                                                       *)
(*                                                                         *)
(* The caller and the goroutine share err and the slice of families.  A    *)
(* body is counted in units of one family, and so is the limit on it.  A   *)
(* Worker makes one call at a time.  Session.tla gives the calls their     *)
(* answers and their time.                                                 *)
(***************************************************************************)
EXTENDS Integers

CONSTANT MaxBytes     \* --limit-bytes, in families

ASSUME MaxBytesAssumption == MaxBytes \in Nat \ {0}

VARIABLES
  op,        \* the method that is called
  caller,    \* where withCancel is
  fn,        \* where its goroutine is; "ended" once done is closed
  expired,   \* ctx.Done() is closed
  resp,      \* the response: its status, and the families in its body
  got,       \* how many families have been decoded
  err,       \* the variable caller and goroutine share
  result     \* what the method returns

call == <<op, caller, fn, expired, resp, got, err, result>>

NoResponse == [code |-> "none", size |-> 0]

\* A method is called, under a context of its own.
Call(o) ==
  /\ op' = o
  /\ caller' = "do"
  /\ fn' = "none"
  /\ expired' = FALSE
  /\ resp' = NoResponse /\ got' = 0
  /\ err' = "nil" /\ result' = "none"

\* The Worker has taken the result.
EndCall ==
  /\ op' = "none" /\ caller' = "idle" /\ fn' = "none"
  /\ expired' = FALSE
  /\ resp' = NoResponse /\ got' = 0
  /\ err' = "nil" /\ result' = "none"

Return(r) ==
  /\ caller' = "returned"
  /\ result' = r

\* client.Do returns a response, and the goroutine is started on it.
Do(code, size) ==
  /\ caller = "do"
  /\ resp' = [code |-> code, size |-> size]
  /\ caller' = "select"
  /\ fn' = "status"
  /\ UNCHANGED <<op, expired, got, err, result>>

\* client.Do fails.
DoFails ==
  /\ caller = "do"
  /\ Return("error")
  /\ UNCHANGED <<op, fn, expired, resp, got, err>>

\* The context ends.
Expire ==
  /\ caller \in {"do", "select"}
  /\ ~ expired
  /\ expired' = TRUE
  /\ UNCHANGED <<op, caller, fn, resp, got, err, result>>

FnEnds(e) ==
  /\ fn' = "ended"
  /\ err' = e

\* Retrieve's fn: the body is read only if the status is 200.
FnRetrieve ==
  /\ fn = "status" /\ op = "Retrieve"
  /\ IF resp.code = "200" THEN fn' = "decode" /\ UNCHANGED err
                          ELSE FnEnds("error")
  /\ UNCHANGED <<op, caller, expired, resp, got, result>>

\* Send's fn: whatever the status, what is left of the body is drained.
FnSend ==
  /\ fn = "status" /\ op = "Send"
  /\ err' = IF resp.code = "200" THEN "nil" ELSE "error"
  /\ fn' = "drain"
  /\ UNCHANGED <<op, caller, expired, resp, got, result>>

\* LimitedReader: Read fails once the limit is used up, also at the end of R.
TooLong == got >= MaxBytes

\* Reading fails: the connection breaks, the context has ended, or the caller has
\* closed the body.
FnBreaks ==
  /\ fn = "decode"
  /\ FnEnds("error")
  /\ UNCHANGED <<op, caller, expired, resp, got, result>>

\* Mutant of FnDecode: the body ends at the limit.
FnDecodeTruncates ==
  /\ fn = "decode"
  /\ \/ TooLong /\ FnEnds("nil") /\ UNCHANGED got
     \/ /\ ~ TooLong /\ got < resp.size
        /\ got' = got + 1
        /\ UNCHANGED <<fn, err>>
     \/ ~ TooLong /\ got = resp.size /\ FnEnds("nil") /\ UNCHANGED got
  /\ UNCHANGED <<op, caller, expired, resp, result>>

\* One more family is decoded: the limit is used up; a family is read, with the
\* end of the body or without; or the body ends.  A body as long as the limit
\* passes only if its end comes with its last family.  (The slice ends in one
\* family that stayed empty, which dropInvalidFederateSamples removes.)
FnDecode ==
  /\ fn = "decode"
  /\ \/ TooLong /\ FnEnds("error") /\ UNCHANGED got
     \/ /\ ~ TooLong /\ got < resp.size
        /\ got' = got + 1
        /\ \/ UNCHANGED <<fn, err>>
           \/ got' = resp.size /\ FnEnds("nil")
     \/ ~ TooLong /\ got = resp.size /\ FnEnds("nil") /\ UNCHANGED got
  /\ UNCHANGED <<op, caller, expired, resp, result>>

\* The deferred copy of what is left of the body; its error is only logged.
FnDrain ==
  /\ fn = "drain"
  /\ fn' = "ended"
  /\ UNCHANGED <<op, caller, expired, resp, got, err, result>>

\* select: the goroutine is done.
SelectDone ==
  /\ caller = "select"
  /\ fn = "ended"
  /\ Return(IF err = "nil" THEN "ok" ELSE "error")
  /\ UNCHANGED <<op, fn, expired, resp, got, err>>

\* select: the context has ended; the body is closed under the goroutine.
SelectExpired ==
  /\ caller = "select"
  /\ expired
  /\ caller' = "closed"
  /\ UNCHANGED <<op, fn, expired, resp, got, err, result>>

\* The goroutine is waited for; without an error of its own the call fails with
\* that of closing the body or of the context.
WaitDone ==
  /\ caller = "closed"
  /\ fn = "ended"
  /\ Return("error")
  /\ UNCHANGED <<op, fn, expired, resp, got, err>>
=============================================================================
