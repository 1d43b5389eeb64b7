---------------------------- MODULE MCAuthCache ----------------------------
(* TLC instance of AuthCache: two handlers and two memcached servers.  A   *)
(* tick is some ten seconds: an operation on memcached ends within one, a  *)
(* request to the service may see one pass, and so may an item in memcached*)
(* before it expires.                                                      *)
EXTENDS AuthCache
=============================================================================
