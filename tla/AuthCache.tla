----------------------------- MODULE AuthCache -----------------------------
(***************************************************************************)
(* The token check in front of /metrics/v1/receive of telemeter-server:    *)
(* authorize.NewHandler and AgainstEndpoint (pkg/authorize/handler.go),    *)
(* which ask the authorization service through a caching round tripper     *)
(* (pkg/cache) backed by memcached (pkg/cache/memcached).                  *)
(*                                                                         *)
(* Handlers run concurrently and share the memcached client under an       *)
(* RWMutex.  They hold it for reading across an operation on the network,  *)
(* and a goroutine takes it for writing at an interval, to look up the     *)
(* addresses of memcached again and make a new client of them.  A look-up  *)
(* that fails leaves a client without a server.                            *)
(*                                                                         *)
(* Time is relative: every deadline and age is a number of ticks that Tick *)
(* moves.  Memcached and the authorization service are external and behave *)
(* as the code relies on: memcached may forget and may be out of reach, the*)
(* service answers 200 or 201 only for tokens it grants and refuses (401,  *)
(* 403, 404, 409 ...) only those it does not grant.  Any token may meet a  *)
(* 429, an error, or a 2xx that AgainstEndpoint does not take for a yes.   *)
(***************************************************************************)
EXTENDS Integers

CONSTANTS
  Handlers,    \* the goroutines that serve requests
  Tokens,      \* the bearer tokens clients send; also the keys of the cache
  NoToken,     \* a handler that serves no request
  Instances,   \* the memcached servers the configured name may resolve to
  NoServer,    \* a client whose look-up failed
  Expire,      \* --memcached-expire
  Timeout,     \* http.Client.Timeout of the request to the service
  CacheWait    \* the longest an operation on the cache takes, its wait for the
               \* lock included

ASSUME AuthCacheAssumption ==
  /\ NoToken \notin Tokens
  /\ NoServer \notin Instances
  /\ Expire \in Nat \ {0}            \* zero would mean never
  /\ Timeout \in Nat
  /\ CacheWait \in Nat

VARIABLES
  valid,     \* the tokens the authorization service grants
  age,       \* history, per token: the time since it was revoked, up to Lease,
             \* which it also is while the token is granted
  memory,    \* per memcached server and token: the response it holds, if any
  client,    \* cache.client: the memcached server it talks to, or NoServer
  readers,   \* cache.mu: the handlers that hold it for reading
  writer,    \* cache.mu: what the refreshing goroutine does
  pc,        \* per handler: where it is
  token,     \* per handler: the token of its request
  answer,    \* per handler: the outcome of its round trip
  left,      \* per handler: ticks until its current operation is cut off
  odd,       \* history, per token: the time since the service last answered it
             \* with a 2xx other than 200 and 201, up to Lease
  cause      \* history, per handler: since its request arrived, its token was at
             \* some moment not granted, or the service or memcached failed it;
             \* kept until the request is answered, then for refusals only

vars == <<valid, age, memory, client, readers, writer, pc, token, answer, left, odd, cause>>

external == <<valid, age, odd, memory>>
lock     == <<client, readers, writer>>

\* The longest a revoked token can be served: the service's answer travels for
\* up to Timeout, is stored, kept for Expire, and read once more.
Lease == Expire + Timeout + 2 * CacheWait

Nothing == [code |-> "none", ttl |-> 0]

\* 200 or 201; another 2xx; a 4xx that refuses the token; what says nothing of the
\* token, which is a 429, any other answer, or none.
Codes == {"200", "202", "refused", "error"}

Waiting == {"get", "getting", "upstream", "reply", "set", "setting"}

\* Type correctness; who holds the lock, and no handler while the goroutine does.
TypeOK ==
  /\ valid \subseteq Tokens
  /\ age \in [Tokens -> 0..Lease]
  /\ memory \in [Instances -> [Tokens -> [code : {"200", "202"}, ttl : 1..Expire]
                                            \cup {Nothing}]]
  /\ client \in Instances \cup {NoServer}
  /\ readers = {h \in Handlers : pc[h] \in {"getting", "setting"}}
  /\ writer \in {"idle", "waiting", "resolving"}
  /\ writer = "resolving" => readers = {}
  /\ pc \in [Handlers -> {"idle", "answered"} \cup Waiting]
  /\ token \in [Handlers -> Tokens \cup {NoToken}]
  /\ answer \in [Handlers -> Codes \cup {"none", "bad"}]
  /\ left \in [Handlers -> 0..(Timeout + CacheWait)]
  /\ odd \in [Tokens -> 0..Lease]
  /\ cause \in [Handlers -> BOOLEAN]

Init ==
  /\ valid \in SUBSET Tokens
  /\ age = [t \in Tokens |-> Lease]
  /\ memory = [m \in Instances |-> [t \in Tokens |-> Nothing]]
  /\ client \in Instances \cup {NoServer}
  /\ readers = {}
  /\ writer = "idle"
  /\ pc = [h \in Handlers |-> "idle"]
  /\ token = [h \in Handlers |-> NoToken]
  /\ answer = [h \in Handlers |-> "none"]
  /\ left = [h \in Handlers |-> 0]
  /\ odd = [t \in Tokens |-> Lease]
  /\ cause = [h \in Handlers |-> FALSE]

-----------------------------------------------------------------------------
(* The handlers. *)

Goto(h, p, n) ==
  /\ pc' = [pc EXCEPT ![h] = p]
  /\ left' = [left EXCEPT ![h] = n]

\* What NewHandler does with a request whose round trip ended so: AgainstEndpoint
\* takes 200 and 201 alone for a yes, and whatever its error, also that of a
\* service or a memcached out of order, the answer is 401.
Status(code) ==
  CASE code = "200" -> "served"
    [] code = "bad" -> "400 or 500"
    [] OTHER        -> "401"

\* RoundTrip returns a response to AgainstEndpoint.
Answer(h, code) ==
  /\ Goto(h, "answered", 0)
  /\ answer' = [answer EXCEPT ![h] = code]
  /\ cause' = [cause EXCEPT ![h] = @ /\ Status(code) = "401"]

\* RoundTrip returns an error.
Fail(h) ==
  /\ Goto(h, "answered", 0)
  /\ answer' = [answer EXCEPT ![h] = "error"]
  /\ cause' = [cause EXCEPT ![h] = TRUE]

\* A request with a bearer token that can be decoded.
Arrive(h, t) ==
  /\ pc[h] = "idle"
  /\ token' = [token EXCEPT ![h] = t]
  /\ cause' = [cause EXCEPT ![h] = t \notin valid]
  /\ Goto(h, "get", CacheWait)
  /\ UNCHANGED <<external, lock, answer>>

\* A header that has no bearer token in base64, or a token that is not JSON.
ArriveMalformed(h) ==
  /\ pc[h] = "idle"
  /\ Answer(h, "bad")
  /\ UNCHANGED <<external, lock, token>>

\* The mutex is taken for reading, unless somebody waits to write.
RLock(h) ==
  /\ pc[h] \in {"get", "set"}
  /\ writer = "idle"
  /\ readers' = readers \cup {h}
  /\ pc' = [pc EXCEPT ![h] = IF pc[h] = "get" THEN "getting" ELSE "setting"]
  /\ UNCHANGED <<external, client, writer, token, answer, left, cause>>

RUnlock(h) ==
  /\ readers' = readers \ {h}
  /\ UNCHANGED <<client, writer>>

\* What memcached holds for the handler's token.
Cached(h) == IF client = NoServer THEN Nothing ELSE memory[client][token[h]]

\* Get finds a response, whose status is looked at as if it had just arrived.
GetHit(h) ==
  /\ pc[h] = "getting"
  /\ Cached(h) # Nothing
  /\ Answer(h, Cached(h).code)
  /\ RUnlock(h)
  /\ UNCHANGED <<external, token>>

\* Mutant of GetMiss: the lock is kept.
GetMissLocked(h) ==
  /\ pc[h] = "getting"
  /\ client # NoServer
  /\ Cached(h) = Nothing
  /\ Goto(h, "upstream", Timeout)
  /\ UNCHANGED <<external, lock, token, answer, cause>>

\* Get finds nothing: the service is asked.
GetMiss(h) ==
  /\ pc[h] = "getting"
  /\ client # NoServer
  /\ Cached(h) = Nothing
  /\ Goto(h, "upstream", Timeout)
  /\ RUnlock(h)
  /\ UNCHANGED <<external, token, answer, cause>>

\* Get fails, as it always does without a server: the service is not asked.
GetFails(h) ==
  /\ pc[h] = "getting"
  /\ Fail(h)
  /\ RUnlock(h)
  /\ UNCHANGED <<external, token>>

\* Mutant of ReceiveReply: every response is stored.
ReceiveReplyAny(h) ==
  /\ pc[h] = "reply"
  /\ Goto(h, "set", CacheWait)
  /\ UNCHANGED <<external, lock, token, answer, cause>>

\* The service's response arrives; a 2xx is to be stored first.
ReceiveReply(h) ==
  /\ pc[h] = "reply"
  /\ IF answer[h] \in {"200", "202"}
       THEN Goto(h, "set", CacheWait) /\ UNCHANGED <<answer, cause>>
       ELSE Answer(h, answer[h])
  /\ UNCHANGED <<external, lock, token>>

\* The round trip to the service fails or times out, or the body of its response
\* cannot be read.
UpstreamFails(h) ==
  /\ pc[h] \in {"upstream", "reply"}
  /\ Fail(h)
  /\ UNCHANGED <<external, lock, token>>

\* Mutant of Entry: the item is stored without an expiration.
EntryForever(code) == [code |-> code, ttl |-> Lease + 1]

\* The item Set sends.
Entry(code) == [code |-> code, ttl |-> Expire]

\* The deferred Set: memcached stores the response or does not, and whatever it
\* says, the response is returned.
SetDone(h) ==
  /\ pc[h] = "setting"
  /\ \/ UNCHANGED memory
     \/ /\ client # NoServer
        /\ memory' = [memory EXCEPT ![client][token[h]] = Entry(answer[h])]
  /\ Answer(h, answer[h])
  /\ RUnlock(h)
  /\ UNCHANGED <<valid, age, odd, token>>

\* The request has been answered, by next or by the check.
Finish(h) ==
  /\ pc[h] = "answered"
  /\ Goto(h, "idle", 0)
  /\ token' = [token EXCEPT ![h] = NoToken]
  /\ answer' = [answer EXCEPT ![h] = "none"]
  /\ cause' = [cause EXCEPT ![h] = FALSE]
  /\ UNCHANGED <<external, lock>>

-----------------------------------------------------------------------------
(* The goroutine that refreshes the client. *)

handlers == <<pc, token, answer, left, cause>>

\* The ticker fires, and the goroutine queues for the mutex.
RefreshTick ==
  /\ writer = "idle"
  /\ writer' = "waiting"
  /\ UNCHANGED <<external, client, readers, handlers>>

\* Mutant of RefreshLock: handlers that read are not waited for.
RefreshLockAtOnce ==
  /\ writer = "waiting"
  /\ writer' = "resolving"
  /\ UNCHANGED <<external, client, readers, handlers>>

\* New readers are kept out already; those inside are waited for.
RefreshLock ==
  /\ writer = "waiting"
  /\ readers = {}
  /\ writer' = "resolving"
  /\ UNCHANGED <<external, client, readers, handlers>>

\* memcache.New looks the names up while the mutex is held; its error is lost.
Refresh ==
  /\ writer = "resolving"
  /\ client' \in Instances \cup {NoServer}
  /\ writer' = "idle"
  /\ UNCHANGED <<external, readers, handlers>>

-----------------------------------------------------------------------------
(* The authorization service, memcached and time. *)

\* The service answers: as it sees the token, or with something that says nothing
\* about it.
UpstreamAnswers(h) ==
  /\ pc[h] = "upstream"
  /\ \E code \in Codes :
       /\ code = "200" => token[h] \in valid
       /\ code = "refused" => token[h] \notin valid
       /\ answer' = [answer EXCEPT ![h] = code]
       /\ odd' = [odd EXCEPT ![token[h]] = IF code = "202" THEN 0 ELSE @]
       /\ cause' = [cause EXCEPT ![h] = @ \/ code = "error"]
  /\ pc' = [pc EXCEPT ![h] = "reply"]
  /\ UNCHANGED <<valid, age, memory, lock, token, left>>

Grant(t) ==
  /\ t \notin valid
  /\ valid' = valid \cup {t}
  /\ age' = [age EXCEPT ![t] = Lease]
  /\ UNCHANGED <<odd, memory, lock, handlers>>

Revoke(t) ==
  /\ t \in valid
  /\ valid' = valid \ {t}
  /\ age' = [age EXCEPT ![t] = 0]
  /\ cause' = [h \in Handlers |-> cause[h] \/ (pc[h] \in Waiting /\ token[h] = t)]
  /\ UNCHANGED <<odd, memory, lock, pc, token, answer, left>>

\* The server is restarted; what memcached holds survives it.
Restart ==
  /\ client' \in Instances \cup {NoServer}
  /\ readers' = {}
  /\ writer' = "idle"
  /\ pc' = [h \in Handlers |-> "idle"]
  /\ token' = [h \in Handlers |-> NoToken]
  /\ answer' = [h \in Handlers |-> "none"]
  /\ left' = [h \in Handlers |-> 0]
  /\ cause' = [h \in Handlers |-> FALSE]
  /\ UNCHANGED external

\* Memcached evicts an item, or is restarted.
Evict(m, t) ==
  /\ memory[m][t] # Nothing
  /\ memory' = [memory EXCEPT ![m][t] = Nothing]
  /\ UNCHANGED <<valid, age, odd, lock, handlers>>

Older(e) == IF e.ttl <= 1 THEN Nothing ELSE [e EXCEPT !.ttl = @ - 1]

Tick ==
  /\ \A h \in Handlers : pc[h] \in Waiting => left[h] > 0
  /\ age' = [t \in Tokens |-> IF age[t] < Lease THEN age[t] + 1 ELSE Lease]
  /\ odd' = [t \in Tokens |-> IF odd[t] < Lease THEN odd[t] + 1 ELSE Lease]
  /\ memory' = [m \in Instances |-> [t \in Tokens |-> Older(memory[m][t])]]
  /\ left' = [h \in Handlers |-> IF pc[h] \in Waiting THEN left[h] - 1 ELSE left[h]]
  /\ UNCHANGED <<valid, lock, pc, token, answer, cause>>

Next ==
  \/ \E h \in Handlers :
       \/ \E t \in Tokens : Arrive(h, t)
       \/ ArriveMalformed(h)
       \/ RLock(h) \/ GetHit(h) \/ GetMiss(h) \/ GetFails(h)
       \/ UpstreamAnswers(h) \/ UpstreamFails(h) \/ ReceiveReply(h)
       \/ SetDone(h) \/ Finish(h)
  \/ RefreshTick \/ RefreshLock \/ Refresh
  \/ \E t \in Tokens : Grant(t) \/ Revoke(t) \/ \E m \in Instances : Evict(m, t)
  \/ Restart
  \/ Tick

Spec == Init /\ [][Next]_vars

(***************************************************************************)
(* Fairness.  A blocked reader of an RWMutex gets in before the next       *)
(* writer, and a waiting writer keeps new readers out; the operations on   *)
(* the network have timeouts, and so has the look-up of names.  Nothing is *)
(* assumed of clients, the service, memcached or the ticker.               *)
(***************************************************************************)
Fairness ==
  /\ \A h \in Handlers :
       /\ SF_vars(RLock(h))
       /\ WF_vars(GetHit(h) \/ GetMiss(h) \/ GetFails(h))
       /\ WF_vars(UpstreamFails(h) \/ ReceiveReply(h))
       /\ WF_vars(SetDone(h))
       /\ WF_vars(Finish(h))
  /\ WF_vars(RefreshLock)
  /\ WF_vars(Refresh)

FairSpec == Spec /\ Fairness

-----------------------------------------------------------------------------
(* Properties. *)

\* The token of the request each handler has passed on to the receive handlers.
Serving ==
  [h \in Handlers |->
     IF pc[h] = "answered" /\ Status(answer[h]) = "served" THEN token[h] ELSE NoToken]

\* A token is served only while the service grants it or for less than Lease
\* after it was revoked, in spite of fills that were under way when it was
\* revoked, of a client that goes back to a memcached server with old contents,
\* and of handlers that share the cache: the check implements AuthLease.
Promise == INSTANCE AuthLease WITH serving <- Serving
ImplementsLease == Promise!LeaseSpec

\* Every 401 has a cause of its own, and the cache prolongs just one kind: since
\* the request arrived its token was at some moment not granted, or the service
\* (429, 5xx, no answer) or memcached failed this very request; or else the
\* service has answered the token, less than Lease ago, with a 2xx other than 200
\* and 201, which RoundTrip stores although AgainstEndpoint refuses it.  No 401 is
\* left over from a refusal, a 429 or an outage that an earlier request met.
RefusalCaused ==
  [][\A h \in Handlers :
       /\ pc[h] # "answered"
       /\ pc'[h] = "answered"
       /\ Status(answer'[h]) = "401"
       => \/ cause'[h]
          \/ answer'[h] = "202" /\ odd[token[h]] < Lease]_vars

\* Every request is answered and every refresh gets done, although both wait for
\* a lock that is held across the network.
EverybodyProceeds ==
  /\ \A h \in Handlers : []<>(pc[h] = "idle")
  /\ []<>(writer = "idle")
=============================================================================
