----------------------------- MODULE TokenStore -----------------------------
(***************************************************************************)
(* The credential cache of telemeter-client (tokenStore and the            *)
(* ServerRotatingRoundTripper around it, pkg/authorize) against the server *)
(* that issues and checks the credentials (pkg/authorize/jwt).             *)
(*                                                                         *)
(* A caller is either an upload, RoundTrip, or the label transformer,      *)
(* Labels.  Both first Load a token: from the store if it looks valid,     *)
(* else by an exchange with the server's authorize endpoint during which   *)
(* the store's lock is held.  Load, Invalidate and Labels are separate     *)
(* critical sections, so a caller acts on a token that the store may no    *)
(* longer hold.                                                            *)
(*                                                                         *)
(* A token stands for a signed JWT; its claims (signing key, expiry and    *)
(* labels) are those the server put in it.  Tokens are numbered in the     *)
(* order they are issued.  Clocks of client and server agree.              *)
(***************************************************************************)
EXTENDS Integers

CONSTANTS
  Callers,      \* goroutines that use the round tripper
  NoCaller,     \* the lock is free
  Lifetimes,    \* values of --token-expire-seconds, in ticks
  Labelings,    \* label sets a server may ask for
  Flags,        \* the pairs of a lifetime and a labeling a server is started with
  NoLabels,     \* the nil map
  MinLifetime,  \* a token with a shorter life is kept until it is refused
  Margin,       \* a token is dropped this long before it expires
  Timeout,      \* the exchange is given up after this long
  Leeway,       \* the server accepts a token this long after it expired
  MaxTokens,    \* bound on the tokens issued
  MaxKeys,      \* bound on the signing keys a server goes through
  MaxTime       \* bound on the clock

ASSUME TokenStoreAssumption ==
  /\ NoCaller \notin Callers
  /\ NoLabels \notin Labelings
  /\ Lifetimes \subseteq Nat
  /\ Flags \subseteq [lifetime : Lifetimes, labels : Labelings]
  /\ MinLifetime \in Nat /\ Margin \in Nat /\ Timeout \in Nat /\ Leeway \in Nat
  /\ Margin < MinLifetime
  /\ MaxTokens \in Nat /\ MaxKeys \in Nat \ {0} /\ MaxTime \in Nat

VARIABLES
  clock,     \* the time
  server,    \* the server's signing key, token lifetime and required labels
  claims,    \* per issued token: what the server wrote into it
  fate,      \* history, per token: what became of it
  store,     \* tokenStore: value, expires, labels
  lock,      \* the caller that holds the store's lock across an exchange
  pc,        \* per caller: where it is
  op,        \* per caller: the method it runs
  token,     \* per caller: the token Load gave it or the exchange carries
  started    \* per caller: when its exchange began

vars == <<clock, server, claims, fate, store, lock, pc, op, token, started>>

Time    == 0..MaxTime
Tokens  == 1..MaxTokens
NoToken == 0                 \* the empty string
Zero    == 0                 \* time.Time{}
Keys    == 1..MaxKeys

Claims == [key : Keys, issued : Time, lifetime : Lifetimes, labels : Labelings]

Fates ==
  {"unissued",   \* not issued yet
   "sent",       \* on its way to the client
   "stored",     \* put into the store
   "lost",       \* the exchange failed after the server had issued it
   "lapsed",     \* found expired in the store
   "refused"}    \* answered with 401

\* Type correctness.
TypeOK ==
  /\ clock \in Time
  /\ server \in [key : Keys, lifetime : Lifetimes, labels : Labelings]
  /\ claims \in [Tokens -> Claims]
  /\ fate \in [Tokens -> Fates]
  /\ store \in [value : Tokens \cup {NoToken}, expires : Nat,
                labels : Labelings \cup {NoLabels}]
  /\ lock \in Callers \cup {NoCaller}
  /\ pc \in [Callers -> {"idle", "load", "exchange", "reply", "send", "invalidate", "labels"}]
  /\ op \in [Callers -> {"RoundTrip", "Labels"}]
  /\ token \in [Callers -> Tokens \cup {NoToken}]
  /\ started \in [Callers -> Time]

EmptyStore == [value |-> NoToken, expires |-> Zero, labels |-> NoLabels]

\* A server as main.go sets it up from its flags.
Started(s) == [lifetime |-> s.lifetime, labels |-> s.labels] \in Flags

Init ==
  /\ clock = 0
  /\ server \in [key : {1}, lifetime : Lifetimes, labels : Labelings]
  /\ Started(server)
  /\ claims = [t \in Tokens |-> [key |-> 1, issued |-> 0, lifetime |-> server.lifetime,
                                labels |-> server.labels]]
  /\ fate = [t \in Tokens |-> "unissued"]
  /\ store = EmptyStore
  /\ lock = NoCaller
  /\ pc = [c \in Callers |-> "idle"]
  /\ op = [c \in Callers |-> "RoundTrip"]
  /\ token = [c \in Callers |-> NoToken]
  /\ started = [c \in Callers |-> 0]

-----------------------------------------------------------------------------
(* State functions. *)

\* The store's token looks valid to Load.
Usable == store.value # NoToken /\ (store.expires = Zero \/ store.expires > clock)

\* Mutant of ExpiresAt: every token is given an expiry.
ExpiresAtAlways(lifetime) == clock + (lifetime - Margin)

\* Mutant of ExpiresAt: no margin.
ExpiresAtFull(lifetime) == IF lifetime >= MinLifetime THEN clock + lifetime ELSE Zero

\* When the store is to regard a token received now as expired: Margin early,
\* counted from this moment and not from the moment the server issued it; a
\* short-lived token never expires.
ExpiresAt(lifetime) ==
  IF lifetime >= MinLifetime THEN clock + (lifetime - Margin) ELSE Zero

\* Mutant of Stored: labels are taken over only from the first token.
StoredOldLabels(t) ==
  [value |-> t, expires |-> ExpiresAt(claims[t].lifetime),
   labels |-> IF store.labels = NoLabels THEN claims[t].labels ELSE store.labels]

\* The store with token t just received.
Stored(t) ==
  [value |-> t, expires |-> ExpiresAt(claims[t].lifetime), labels |-> claims[t].labels]

\* Mutant of Dropped: whatever token the store has goes.
DroppedAny(t) == EmptyStore

\* Mutant of Dropped: the store keeps what it has.
DroppedNever(t) == store

\* The store without token t: a store that holds another token stays.
Dropped(t) == IF t = store.value THEN EmptyStore ELSE store

\* The expiry the server put into the token.
Expiry(t) == claims[t].issued + claims[t].lifetime

\* The server takes the token: it knows the key and the expiry, with the
\* leeway of the JWT library, has not passed.
Accepts(t) ==
  /\ claims[t].key = server.key
  /\ clock <= Expiry(t) + Leeway

Issued == {t \in Tokens : fate[t] # "unissued"}

\* Where a caller goes once Load gave it a token.
AfterLoad(c) == IF op[c] = "RoundTrip" THEN "send" ELSE "labels"

\* The caller's method returns, and its locals with it.
Return(c) ==
  /\ pc' = [pc EXCEPT ![c] = "idle"]
  /\ op' = [op EXCEPT ![c] = "RoundTrip"]
  /\ token' = [token EXCEPT ![c] = NoToken]
  /\ started' = [started EXCEPT ![c] = 0]

-----------------------------------------------------------------------------
(* The client. *)

Call(c, o) ==
  /\ pc[c] = "idle"
  /\ pc' = [pc EXCEPT ![c] = "load"]
  /\ op' = [op EXCEPT ![c] = o]
  /\ UNCHANGED <<clock, server, claims, fate, store, lock, token, started>>

\* Load finds a valid token.
LoadCached(c) ==
  /\ pc[c] = "load"
  /\ lock = NoCaller
  /\ Usable
  /\ token' = [token EXCEPT ![c] = store.value]
  /\ pc' = [pc EXCEPT ![c] = AfterLoad(c)]
  /\ UNCHANGED <<clock, server, claims, fate, store, lock, op, started>>

\* Mutant of LoadExchange: the lock is not kept.
LoadExchangeUnlocked(c) ==
  /\ pc[c] = "load"
  /\ lock = NoCaller
  /\ ~ Usable
  /\ pc' = [pc EXCEPT ![c] = "exchange"]
  /\ started' = [started EXCEPT ![c] = clock]
  /\ UNCHANGED <<clock, server, claims, fate, store, lock, op, token>>

\* Load finds none and asks the server, keeping the lock.
LoadExchange(c) ==
  /\ pc[c] = "load"
  /\ lock = NoCaller
  /\ ~ Usable
  /\ lock' = c
  /\ pc' = [pc EXCEPT ![c] = "exchange"]
  /\ started' = [started EXCEPT ![c] = clock]
  /\ fate' = IF store.value # NoToken /\ fate[store.value] = "stored"
               THEN [fate EXCEPT ![store.value] = "lapsed"] ELSE fate
  /\ UNCHANGED <<clock, server, claims, store, op, token>>

\* The answer arrives: the token replaces the stored one, with its labels.
LoadStore(c) ==
  /\ pc[c] = "reply"
  /\ store' = Stored(token[c])
  /\ fate' = [fate EXCEPT ![token[c]] = "stored"]
  /\ lock' = NoCaller
  /\ pc' = [pc EXCEPT ![c] = AfterLoad(c)]
  /\ started' = [started EXCEPT ![c] = 0]
  /\ UNCHANGED <<clock, server, claims, op, token>>

\* Mutant of LoadFail: the early return forgets the lock.
LoadFailLocked(c) ==
  /\ pc[c] \in {"exchange", "reply"}
  /\ Return(c)
  /\ UNCHANGED <<clock, server, claims, fate, store, lock>>

\* The exchange fails: a transport error or the timeout, a status that is not
\* 200 or 201, or a body that does not parse.  The store keeps what it had.
LoadFail(c) ==
  /\ pc[c] \in {"exchange", "reply"}
  /\ lock' = NoCaller
  /\ fate' = IF pc[c] = "reply" THEN [fate EXCEPT ![token[c]] = "lost"] ELSE fate
  /\ Return(c)
  /\ UNCHANGED <<clock, server, claims, store>>

\* The upload is answered by anything but 401, or not at all.
SendDone(c) ==
  /\ pc[c] = "send"
  /\ Return(c)
  /\ UNCHANGED <<clock, server, claims, fate, store, lock>>

\* A 401 makes the caller drop the token it sent, if the store still has it.
Invalidate(c) ==
  /\ pc[c] = "invalidate"
  /\ lock = NoCaller
  /\ store' = Dropped(token[c])
  /\ Return(c)
  /\ UNCHANGED <<clock, server, claims, fate, lock>>

\* Labels copies the store's labels, or fails ("labels from server have
\* expired") if the store has no token any more.  Neither changes the store;
\* which of the two happens, and with whose labels, is LabelsSound below.
Labels(c) ==
  /\ pc[c] = "labels"
  /\ lock = NoCaller
  /\ Return(c)
  /\ UNCHANGED <<clock, server, claims, fate, store, lock>>

-----------------------------------------------------------------------------
(* The server. *)

\* The authorize endpoint issues a token under the server's configuration.
Authorize(c) ==
  /\ pc[c] = "exchange"
  /\ \E t \in Tokens :
       /\ fate[t] = "unissued"
       /\ \A u \in Tokens : u < t => fate[u] # "unissued"
       /\ fate' = [fate EXCEPT ![t] = "sent"]
       /\ claims' = [claims EXCEPT ![t] = [key |-> server.key, issued |-> clock,
                                           lifetime |-> server.lifetime,
                                           labels |-> server.labels]]
       /\ token' = [token EXCEPT ![c] = t]
  /\ pc' = [pc EXCEPT ![c] = "reply"]
  /\ UNCHANGED <<clock, server, store, lock, op, started>>

\* The upload endpoint refuses the token with 401.
Refuse(c) ==
  /\ pc[c] = "send"
  /\ ~ Accepts(token[c])
  /\ fate' = [fate EXCEPT ![token[c]] = "refused"]
  /\ pc' = [pc EXCEPT ![c] = "invalidate"]
  /\ UNCHANGED <<clock, server, claims, store, lock, op, token, started>>

\* The server is restarted, with other flags and, unless --shared-key names a
\* key file, with a key of its own making.
Restart(s) ==
  /\ Started(s)
  /\ s.key \in {server.key, server.key + 1}
  /\ s # server
  /\ server' = s
  /\ UNCHANGED <<clock, claims, fate, store, lock, pc, op, token, started>>

\* Time passes, but no exchange outlives its timeout.
Tick ==
  /\ clock < MaxTime
  /\ \A c \in Callers : pc[c] \in {"exchange", "reply"} => clock < started[c] + Timeout
  /\ clock' = clock + 1
  /\ UNCHANGED <<server, claims, fate, store, lock, pc, op, token, started>>

Next ==
  \/ Tick
  \/ \E s \in [key : Keys, lifetime : Lifetimes, labels : Labelings] : Restart(s)
  \/ \E c \in Callers :
       \/ \E o \in {"RoundTrip", "Labels"} : Call(c, o)
       \/ LoadCached(c) \/ LoadExchange(c) \/ LoadStore(c) \/ LoadFail(c)
       \/ SendDone(c) \/ Invalidate(c) \/ Labels(c)
       \/ Authorize(c) \/ Refuse(c)

Spec == Init /\ [][Next]_vars

(***************************************************************************)
(* Fairness.  sync.Mutex hands itself to a waiter that has waited for a    *)
(* millisecond, so a queued caller gets it in the end; http.Client.Timeout *)
(* ends every exchange and the context of metricsclient every upload.      *)
(***************************************************************************)
Fairness ==
  \A c \in Callers :
    /\ SF_vars(LoadCached(c) \/ LoadExchange(c))
    /\ SF_vars(Invalidate(c))
    /\ SF_vars(Labels(c))
    /\ WF_vars(LoadStore(c) \/ LoadFail(c))
    /\ WF_vars(SendDone(c) \/ Refuse(c))

FairSpec == Spec /\ Fairness

-----------------------------------------------------------------------------
(* Properties. *)

\* How long an upload may take to reach the server with a token Load gave out.
Slack == Leeway + Margin - Timeout

\* A token Load regards as valid is accepted by the server that signed it, and
\* for more than Slack to come, although the client counts the token's life
\* from the end of the exchange and the server from the middle of it.
UsableTokenAccepted ==
  Usable /\ store.expires # Zero =>
    clock + Slack < Expiry(store.value) + Leeway

\* Only the newest token issued can be live (on its way or stored and not yet
\* refused or lapsed): however many callers run into the same 401 or find the
\* same token expired, they cost the server one exchange.
OneLiveToken ==
  \A t \in Tokens : fate[t] \in {"sent", "stored"} => \A u \in Issued : u <= t

\* What Labels returns to a caller that holds a token: the labels of a token at
\* least as new, complete; or the error, and then some token at least as new
\* was refused by the server in between.
LabelsSound ==
  \A c \in Callers : pc[c] = "labels" =>
    IF store.value = NoToken
      THEN \E t \in Tokens : t >= token[c] /\ fate[t] = "refused"
      ELSE store.value >= token[c] /\ store.labels = claims[store.value].labels

\* A token leaves the store empty only if the server refused that very token: a
\* late 401 for an old token never throws away its successor.
DropsOnlyRefused ==
  [][store.value # NoToken /\ store'.value = NoToken
       => fate[store.value] = "refused"]_vars

\* The store does not stay with a refused token: again and again it is empty or
\* holds a token that is still good for a later upload.
RefusedTokenLeaves ==
  []<>(store.value = NoToken \/ fate[store.value] # "refused")

\* Every call returns: nobody waits for ever on the lock that is held across
\* the exchange.
CallReturns == \A c \in Callers : []<>(pc[c] = "idle")
=============================================================================
