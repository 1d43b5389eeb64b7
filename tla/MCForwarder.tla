---------------------------- MODULE MCForwarder ----------------------------
(* TLC instance of Forwarder: one SIGHUP actor, one HTTP handler that      *)
(* reloads and one that reads.                                             *)
EXTENDS Forwarder
=============================================================================
