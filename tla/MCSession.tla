----------------------------- MODULE MCSession -----------------------------
(* TLC instance of Session.  One tick is some 70 seconds: the interval and *)
(* the limit are four ticks and the retry after an error is one, so that   *)
(* several retries fall into the limit.                                    *)
EXTENDS Session
=============================================================================
