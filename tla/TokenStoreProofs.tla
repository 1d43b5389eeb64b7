-------------------------- MODULE TokenStoreProofs --------------------------
(***************************************************************************)
(* Proofs about TokenStore, for any number of callers and any bounds.      *)
(*                                                                         *)
(* The properties depend on each other and on who holds the lock.  The     *)
(* inductive invariant IInv says                                           *)
(*   - an exchange is made under the lock and is not older than Timeout    *)
(*     (HolderInv);                                                        *)
(*   - the token a caller acts on was issued, and refused if the caller is *)
(*     about to invalidate it (CallerInv);                                 *)
(*   - the stored token has its own labels and an expiry that exceeds the  *)
(*     server's by at most Timeout - Margin (StoreInv);                    *)
(*   - a token marked stored is the one in the store, a token marked sent  *)
(*     belongs to a reply, and while an exchange is under way there is no  *)
(*     live token but the one it carries (LiveInv).                        *)
(***************************************************************************)
EXTENDS TokenStore, TLAPS

HolderInv ==
  \A c \in Callers : pc[c] \in {"exchange", "reply"} =>
    lock = c /\ started[c] <= clock /\ clock <= started[c] + Timeout

CallerInv ==
  \A c \in Callers :
    /\ pc[c] = "reply" => /\ token[c] \in Tokens
                          /\ fate[token[c]] = "sent"
                          /\ started[c] <= claims[token[c]].issued
    /\ pc[c] \in {"send", "labels", "invalidate"} =>
         token[c] \in Tokens /\ fate[token[c]] \notin {"unissued", "sent"}
    /\ pc[c] = "invalidate" => fate[token[c]] = "refused"

StoreInv ==
  store.value # NoToken =>
    /\ fate[store.value] \notin {"unissued", "sent"}
    /\ store.labels = claims[store.value].labels
    /\ store.expires # Zero => store.expires <= Expiry(store.value) + (Timeout - Margin)

LiveInv ==
  /\ \A t \in Tokens : fate[t] = "stored" => store.value = t
  /\ \A t \in Tokens : fate[t] = "sent" => \E c \in Callers : pc[c] = "reply" /\ token[c] = t
  /\ \A c \in Callers : pc[c] = "exchange" => \A t \in Tokens : fate[t] \notin {"stored", "sent"}
  /\ \A c \in Callers : pc[c] = "reply" =>
       \A t \in Tokens : fate[t] \in {"stored", "sent"} => t = token[c]
  /\ \A t, u \in Tokens : u < t /\ fate[t] # "unissued" => fate[u] # "unissued"

IInv ==
  /\ TypeOK /\ HolderInv /\ CallerInv /\ StoreInv /\ LiveInv
  /\ OneLiveToken /\ LabelsSound

-----------------------------------------------------------------------------
\* The constants every step needs.
LEMMA Constants ==
  /\ NoToken \notin Tokens
  /\ NoCaller \notin Callers
  /\ NoLabels \notin Labelings
  /\ Tokens \subseteq Nat /\ Time \subseteq Nat
BY TokenStoreAssumption DEF NoToken, Tokens, Time

LEMMA Induction == IInv /\ [Next]_vars => IInv'
<1> SUFFICES ASSUME IInv, [Next]_vars PROVE IInv'
  OBVIOUS
<1> USE TokenStoreAssumption, Constants
<1>1. ASSUME Tick PROVE IInv'
  <2>1. TypeOK'
    BY <1>1 DEF IInv, Tick, TypeOK, Time, Zero, NoToken, Claims, Fates
  <2>2. HolderInv'
    BY <1>1 DEF IInv, Tick, TypeOK, HolderInv, Time
  <2>3. CallerInv'
    BY <1>1 DEF IInv, Tick, TypeOK, HolderInv, CallerInv
  <2>4. StoreInv'
    BY <1>1 DEF IInv, Tick, TypeOK, HolderInv, CallerInv, StoreInv, Expiry
  <2>5. LiveInv'
    BY <1>1 DEF IInv, Tick, TypeOK, HolderInv, CallerInv, LiveInv
  <2>6. OneLiveToken'
    BY <1>1 DEF IInv, Tick, TypeOK, HolderInv, CallerInv, LiveInv, OneLiveToken, Issued
  <2>7. LabelsSound'
    BY <1>1 DEF IInv, Tick, TypeOK, HolderInv, CallerInv, StoreInv, LiveInv, OneLiveToken, Issued, LabelsSound
  <2> QED
    BY <2>1, <2>2, <2>3, <2>4, <2>5, <2>6, <2>7 DEF IInv
<1>2. ASSUME NEW s \in [key : Keys, lifetime : Lifetimes, labels : Labelings], Restart(s) PROVE IInv'
  <2>1. TypeOK'
    BY <1>2 DEF IInv, Restart, TypeOK, Time, Zero, NoToken, Claims, Fates
  <2>2. HolderInv'
    BY <1>2 DEF IInv, Restart, TypeOK, HolderInv
  <2>3. CallerInv'
    BY <1>2 DEF IInv, Restart, TypeOK, HolderInv, CallerInv
  <2>4. StoreInv'
    BY <1>2 DEF IInv, Restart, TypeOK, HolderInv, CallerInv, StoreInv, Expiry
  <2>5. LiveInv'
    BY <1>2 DEF IInv, Restart, TypeOK, HolderInv, CallerInv, LiveInv
  <2>6. OneLiveToken'
    BY <1>2 DEF IInv, Restart, TypeOK, HolderInv, CallerInv, LiveInv, OneLiveToken, Issued
  <2>7. LabelsSound'
    BY <1>2 DEF IInv, Restart, TypeOK, HolderInv, CallerInv, StoreInv, LiveInv, OneLiveToken, Issued, LabelsSound
  <2> QED
    BY <2>1, <2>2, <2>3, <2>4, <2>5, <2>6, <2>7 DEF IInv
<1>3. ASSUME NEW c \in Callers, NEW o \in {"RoundTrip", "Labels"}, Call(c, o) PROVE IInv'
  <2>1. TypeOK'
    BY <1>3 DEF IInv, Call, TypeOK, Time, Zero, NoToken, Claims, Fates
  <2>2. HolderInv'
    BY <1>3 DEF IInv, Call, TypeOK, HolderInv
  <2>3. CallerInv'
    BY <1>3 DEF IInv, Call, TypeOK, HolderInv, CallerInv
  <2>4. StoreInv'
    BY <1>3 DEF IInv, Call, TypeOK, HolderInv, CallerInv, StoreInv, Expiry
  <2>5. LiveInv'
    BY <1>3 DEF IInv, Call, TypeOK, HolderInv, CallerInv, LiveInv
  <2>6. OneLiveToken'
    BY <1>3 DEF IInv, Call, TypeOK, HolderInv, CallerInv, LiveInv, OneLiveToken, Issued
  <2>7. LabelsSound'
    BY <1>3 DEF IInv, Call, TypeOK, HolderInv, CallerInv, StoreInv, LiveInv, OneLiveToken, Issued, LabelsSound
  <2> QED
    BY <2>1, <2>2, <2>3, <2>4, <2>5, <2>6, <2>7 DEF IInv
<1>4. ASSUME NEW c \in Callers, LoadCached(c) PROVE IInv'
  <2>1. TypeOK'
    BY <1>4 DEF IInv, LoadCached, AfterLoad, Usable, TypeOK, Time, Zero, NoToken, Claims, Fates
  <2>2. HolderInv'
    BY <1>4 DEF IInv, LoadCached, AfterLoad, Usable, TypeOK, HolderInv
  <2>3. CallerInv'
    BY <1>4 DEF IInv, LoadCached, AfterLoad, Usable, TypeOK, CallerInv, StoreInv
  <2>4. StoreInv'
    BY <1>4 DEF IInv, LoadCached, AfterLoad, Usable, TypeOK, HolderInv, CallerInv, StoreInv, Expiry
  <2>5. LiveInv'
    BY <1>4 DEF IInv, LoadCached, AfterLoad, Usable, TypeOK, HolderInv, CallerInv, LiveInv
  <2>6. OneLiveToken'
    BY <1>4 DEF IInv, LoadCached, AfterLoad, Usable, TypeOK, HolderInv, CallerInv, LiveInv, OneLiveToken, Issued
  <2>7. LabelsSound'
    <3>1. store.value \in Tokens /\ store.value \in Nat
      BY <1>4 DEF IInv, TypeOK, LoadCached, Usable
    <3>2. store.labels = claims[store.value].labels
      BY <3>1 DEF IInv, StoreInv
    <3>3. ASSUME NEW d \in Callers, pc'[d] = "labels"
          PROVE  store.value # NoToken => store.value >= token'[d]
      BY <1>4, <3>1, <3>3 DEF IInv, TypeOK, LabelsSound, LoadCached
    <3> QED
      BY <1>4, <3>1, <3>2, <3>3 DEF LoadCached, LabelsSound
  <2> QED
    BY <2>1, <2>2, <2>3, <2>4, <2>5, <2>6, <2>7 DEF IInv
<1>5. ASSUME NEW c \in Callers, LoadExchange(c) PROVE IInv'
  <2>1. TypeOK'
    BY <1>5 DEF IInv, LoadExchange, Usable, TypeOK, Time, Zero, NoToken, Claims, Fates
  <2>2. HolderInv'
    BY <1>5 DEF IInv, LoadExchange, Usable, TypeOK, HolderInv
  <2>3. CallerInv'
    BY <1>5 DEF IInv, LoadExchange, Usable, TypeOK, HolderInv, CallerInv
  <2>4. StoreInv'
    BY <1>5 DEF IInv, LoadExchange, Usable, TypeOK, HolderInv, CallerInv, StoreInv, Expiry
  <2>5. LiveInv'
    BY <1>5 DEF IInv, LoadExchange, Usable, TypeOK, HolderInv, CallerInv, LiveInv
  <2>6. OneLiveToken'
    BY <1>5 DEF IInv, LoadExchange, Usable, TypeOK, HolderInv, CallerInv, LiveInv, OneLiveToken, Issued
  <2>7. LabelsSound'
    BY <1>5 DEF IInv, LoadExchange, Usable, TypeOK, HolderInv, CallerInv, StoreInv, LiveInv, OneLiveToken, Issued, LabelsSound
  <2> QED
    BY <2>1, <2>2, <2>3, <2>4, <2>5, <2>6, <2>7 DEF IInv
<1>6. ASSUME NEW c \in Callers, LoadStore(c) PROVE IInv'
  <2> DEFINE t == token[c]
  <2>1. /\ t \in Tokens /\ fate[t] = "sent"
        /\ started[c] <= claims[t].issued /\ clock <= started[c] + Timeout
        /\ lock = c
    BY <1>6 DEF IInv, LoadStore, CallerInv, HolderInv
  <2>2. /\ claims[t].lifetime \in Nat /\ claims[t].issued \in Nat /\ clock \in Nat
        /\ started[c] \in Nat /\ claims[t].labels \in Labelings
    BY <2>1 DEF IInv, TypeOK, Claims, Time
  <2>3. /\ store'.value = t
        /\ store'.labels = claims[t].labels
        /\ store'.expires = IF claims[t].lifetime >= MinLifetime
                              THEN clock + (claims[t].lifetime - Margin) ELSE Zero
    BY <1>6 DEF LoadStore, Stored, ExpiresAt
  <2>4. store'.expires \in Nat
    BY <2>2, <2>3 DEF Zero
  <2>5. TypeOK'
    <3>1. store' \in [value : Tokens \cup {NoToken}, expires : Nat,
                      labels : Labelings \cup {NoLabels}]
      BY <1>6, <2>1, <2>2, <2>3, <2>4 DEF LoadStore, Stored
    <3> QED
      BY <1>6, <2>1, <3>1 DEF IInv, LoadStore, AfterLoad, TypeOK, Fates, Time
  <2>6. HolderInv'
    BY <1>6 DEF IInv, LoadStore, AfterLoad, TypeOK, HolderInv
  <2>7. CallerInv'
    BY <1>6 DEF IInv, LoadStore, AfterLoad, TypeOK, HolderInv, CallerInv
  <2>8. StoreInv'
    <3>1. store'.expires # Zero =>
            store'.expires <= (claims[t].issued + claims[t].lifetime) + (Timeout - Margin)
      BY <2>1, <2>2, <2>3
    <3>2. fate'[t] = "stored" /\ claims' = claims
      BY <1>6, <2>1 DEF LoadStore, IInv, TypeOK
    <3>3. fate'[store'.value] = "stored" /\ store'.labels = claims'[store'.value].labels
      BY <2>3, <3>2
    <3>4. Expiry(store.value)' = claims[t].issued + claims[t].lifetime
      BY <2>3, <3>2 DEF Expiry
    <3> QED
      BY <3>1, <3>3, <3>4 DEF StoreInv
  <2>9. LiveInv'
    BY <1>6, <2>3 DEF IInv, LoadStore, AfterLoad, TypeOK, HolderInv, CallerInv, LiveInv
  <2>10. OneLiveToken'
    BY <1>6 DEF IInv, LoadStore, AfterLoad, TypeOK, HolderInv, CallerInv, LiveInv,
       OneLiveToken, Issued
  <2>11. LabelsSound'
    <3>1. \A u \in Issued : u <= t
      BY <2>1 DEF IInv, OneLiveToken
    <3>2. ASSUME NEW d \in Callers, pc'[d] = "labels" PROVE t >= token'[d]
      <4>1. CASE d = c
        BY <1>6, <2>1, <4>1 DEF LoadStore, Tokens
      <4>2. CASE d # c
        <5>1. token'[d] = token[d] /\ pc[d] = "labels"
          BY <1>6, <3>2, <4>2 DEF LoadStore, IInv, TypeOK
        <5>2. token[d] \in Issued
          BY <5>1 DEF IInv, CallerInv, Issued
        <5> QED
          BY <2>1, <3>1, <5>1, <5>2 DEF Issued
      <4> QED
        BY <4>1, <4>2
    <3> QED
      BY <1>6, <2>1, <2>3, <3>2 DEF LoadStore, LabelsSound
  <2> QED
    BY <2>5, <2>6, <2>7, <2>8, <2>9, <2>10, <2>11 DEF IInv
<1>7. ASSUME NEW c \in Callers, LoadFail(c) PROVE IInv'
  <2>1. TypeOK'
    BY <1>7 DEF IInv, LoadFail, Return, TypeOK, CallerInv, Time, Fates
  <2>2. HolderInv'
    BY <1>7 DEF IInv, LoadFail, Return, TypeOK, HolderInv
  <2>3. CallerInv'
    BY <1>7 DEF IInv, LoadFail, Return, TypeOK, HolderInv, CallerInv
  <2>4. StoreInv'
    BY <1>7 DEF IInv, LoadFail, Return, TypeOK, HolderInv, CallerInv, StoreInv, Expiry
  <2>5. LiveInv'
    BY <1>7 DEF IInv, LoadFail, Return, TypeOK, HolderInv, CallerInv, LiveInv
  <2>6. OneLiveToken'
    BY <1>7 DEF IInv, LoadFail, Return, TypeOK, HolderInv, CallerInv, LiveInv, OneLiveToken, Issued
  <2>7. LabelsSound'
    BY <1>7 DEF IInv, LoadFail, Return, TypeOK, HolderInv, CallerInv, StoreInv, LiveInv, OneLiveToken, Issued, LabelsSound
  <2> QED
    BY <2>1, <2>2, <2>3, <2>4, <2>5, <2>6, <2>7 DEF IInv
<1>8. ASSUME NEW c \in Callers, SendDone(c) PROVE IInv'
  <2>1. TypeOK'
    BY <1>8 DEF IInv, SendDone, Return, TypeOK, Time, Zero, NoToken, Claims, Fates
  <2>2. HolderInv'
    BY <1>8 DEF IInv, SendDone, Return, TypeOK, HolderInv
  <2>3. CallerInv'
    BY <1>8 DEF IInv, SendDone, Return, TypeOK, HolderInv, CallerInv
  <2>4. StoreInv'
    BY <1>8 DEF IInv, SendDone, Return, TypeOK, HolderInv, CallerInv, StoreInv, Expiry
  <2>5. LiveInv'
    BY <1>8 DEF IInv, SendDone, Return, TypeOK, HolderInv, CallerInv, LiveInv
  <2>6. OneLiveToken'
    BY <1>8 DEF IInv, SendDone, Return, TypeOK, HolderInv, CallerInv, LiveInv, OneLiveToken, Issued
  <2>7. LabelsSound'
    BY <1>8 DEF IInv, SendDone, Return, TypeOK, HolderInv, CallerInv, StoreInv, LiveInv, OneLiveToken, Issued, LabelsSound
  <2> QED
    BY <2>1, <2>2, <2>3, <2>4, <2>5, <2>6, <2>7 DEF IInv
<1>9. ASSUME NEW c \in Callers, Invalidate(c) PROVE IInv'
  <2>1. TypeOK'
    BY <1>9 DEF IInv, Invalidate, Dropped, Return, EmptyStore, TypeOK, Time, Zero, NoToken, Claims, Fates
  <2>2. HolderInv'
    BY <1>9 DEF IInv, Invalidate, Dropped, Return, EmptyStore, TypeOK, HolderInv
  <2>3. CallerInv'
    BY <1>9 DEF IInv, Invalidate, Dropped, Return, EmptyStore, TypeOK, HolderInv, CallerInv
  <2>4. StoreInv'
    BY <1>9 DEF IInv, Invalidate, Dropped, Return, EmptyStore, TypeOK, HolderInv, CallerInv, StoreInv, Expiry
  <2>5. LiveInv'
    BY <1>9 DEF IInv, Invalidate, Dropped, Return, EmptyStore, TypeOK, HolderInv, CallerInv, LiveInv
  <2>6. OneLiveToken'
    BY <1>9 DEF IInv, Invalidate, Dropped, Return, EmptyStore, TypeOK, HolderInv, CallerInv, LiveInv, OneLiveToken, Issued
  <2>7. LabelsSound'
    <3>1. ASSUME NEW d \in Callers, pc'[d] = "labels"
          PROVE  /\ pc[d] = "labels" /\ token'[d] = token[d]
                 /\ token[d] \in Nat
      <4>1. d # c /\ pc'[d] = pc[d] /\ token'[d] = token[d]
        BY <1>9, <3>1 DEF Invalidate, Return, IInv, TypeOK
      <4> QED
        BY <3>1, <4>1 DEF IInv, TypeOK, CallerInv
    <3>2. CASE token[c] = store.value
      <4>1. store.value \in Tokens /\ fate[store.value] = "refused" /\ store'.value = NoToken
        BY <1>9, <3>2 DEF Invalidate, Dropped, EmptyStore, IInv, CallerInv
      <4>2. \A d \in Callers : pc'[d] = "labels" => store.value >= token'[d]
        BY <3>1, <4>1 DEF IInv, LabelsSound
      <4>3. fate' = fate
        BY <1>9 DEF Invalidate
      <4> QED
        BY <4>1, <4>2, <4>3 DEF LabelsSound
    <3>3. CASE token[c] # store.value
      <4>1. UNCHANGED <<store, fate, claims>>
        BY <1>9, <3>3 DEF Invalidate, Dropped
      <4> QED
        BY <3>1, <4>1 DEF IInv, LabelsSound
    <3> QED
      BY <3>2, <3>3
  <2> QED
    BY <2>1, <2>2, <2>3, <2>4, <2>5, <2>6, <2>7 DEF IInv
<1>10. ASSUME NEW c \in Callers, Labels(c) PROVE IInv'
  <2>1. TypeOK'
    BY <1>10 DEF IInv, Labels, Return, TypeOK, Time, Zero, NoToken, Claims, Fates
  <2>2. HolderInv'
    BY <1>10 DEF IInv, Labels, Return, TypeOK, HolderInv
  <2>3. CallerInv'
    BY <1>10 DEF IInv, Labels, Return, TypeOK, HolderInv, CallerInv
  <2>4. StoreInv'
    BY <1>10 DEF IInv, Labels, Return, TypeOK, HolderInv, CallerInv, StoreInv, Expiry
  <2>5. LiveInv'
    BY <1>10 DEF IInv, Labels, Return, TypeOK, HolderInv, CallerInv, LiveInv
  <2>6. OneLiveToken'
    BY <1>10 DEF IInv, Labels, Return, TypeOK, HolderInv, CallerInv, LiveInv, OneLiveToken, Issued
  <2>7. LabelsSound'
    BY <1>10 DEF IInv, Labels, Return, TypeOK, HolderInv, CallerInv, StoreInv, LiveInv, OneLiveToken, Issued, LabelsSound
  <2> QED
    BY <2>1, <2>2, <2>3, <2>4, <2>5, <2>6, <2>7 DEF IInv
<1>11. ASSUME NEW c \in Callers, Authorize(c) PROVE IInv'
  <2>1. TypeOK'
    BY <1>11 DEF IInv, Authorize, TypeOK, Time, Zero, NoToken, Claims, Fates, Claims
  <2>2. HolderInv'
    BY <1>11 DEF IInv, Authorize, TypeOK, HolderInv, Claims
  <2>3. CallerInv'
    BY <1>11 DEF IInv, Authorize, TypeOK, HolderInv, CallerInv, Claims
  <2>4. StoreInv'
    BY <1>11 DEF IInv, Authorize, TypeOK, HolderInv, CallerInv, StoreInv, Expiry, Claims
  <2>5. LiveInv'
    BY <1>11 DEF IInv, Authorize, TypeOK, HolderInv, CallerInv, LiveInv, Claims
  <2>6. OneLiveToken'
    <3>1. PICK t \in Tokens : /\ \A u \in Tokens : u < t => fate[u] # "unissued"
                              /\ fate[t] = "unissued"
                              /\ fate' = [fate EXCEPT ![t] = "sent"]
      BY <1>11 DEF Authorize
    <3>2. \A u \in Tokens : fate[u] # "unissued" => u < t
      BY <3>1 DEF IInv, LiveInv
    <3>3. \A u \in Tokens : fate[u] \notin {"stored", "sent"}
      BY <1>11 DEF Authorize, IInv, LiveInv
    <3> QED
      BY <3>1, <3>2, <3>3 DEF OneLiveToken, Issued, IInv, TypeOK
  <2>7. LabelsSound'
    BY <1>11 DEF IInv, Authorize, TypeOK, HolderInv, CallerInv, StoreInv, LiveInv, OneLiveToken, Issued, LabelsSound, Claims
  <2> QED
    BY <2>1, <2>2, <2>3, <2>4, <2>5, <2>6, <2>7 DEF IInv
<1>12. ASSUME NEW c \in Callers, Refuse(c) PROVE IInv'
  <2>1. TypeOK'
    BY <1>12 DEF IInv, Refuse, TypeOK, Time, Zero, NoToken, Claims, Fates
  <2>2. HolderInv'
    BY <1>12 DEF IInv, Refuse, TypeOK, HolderInv
  <2>3. CallerInv'
    BY <1>12 DEF IInv, Refuse, TypeOK, HolderInv, CallerInv
  <2>4. StoreInv'
    BY <1>12 DEF IInv, Refuse, TypeOK, HolderInv, CallerInv, StoreInv, Expiry
  <2>5. LiveInv'
    BY <1>12 DEF IInv, Refuse, TypeOK, HolderInv, CallerInv, LiveInv
  <2>6. OneLiveToken'
    BY <1>12 DEF IInv, Refuse, TypeOK, HolderInv, CallerInv, LiveInv, OneLiveToken, Issued
  <2>7. LabelsSound'
    BY <1>12 DEF IInv, Refuse, TypeOK, HolderInv, CallerInv, StoreInv, LiveInv, OneLiveToken, Issued, LabelsSound
  <2> QED
    BY <2>1, <2>2, <2>3, <2>4, <2>5, <2>6, <2>7 DEF IInv
<1>13. CASE UNCHANGED vars
  <2>1. TypeOK' /\ HolderInv' /\ CallerInv'
    BY <1>13 DEF vars, IInv, TypeOK, HolderInv, CallerInv
  <2>2. StoreInv' /\ LiveInv'
    BY <1>13 DEF vars, IInv, StoreInv, LiveInv, Expiry
  <2>3. OneLiveToken' /\ LabelsSound'
    BY <1>13 DEF vars, IInv, OneLiveToken, Issued, LabelsSound
  <2> QED
    BY <2>1, <2>2, <2>3 DEF IInv
<1> QED
  BY <1>1, <1>2, <1>3, <1>4, <1>5, <1>6, <1>7, <1>8, <1>9, <1>10, <1>11, <1>12, <1>13 DEF Next

\* The state the client starts in.
LEMMA Initial == Init => IInv
<1> SUFFICES ASSUME Init PROVE IInv
  OBVIOUS
<1> USE TokenStoreAssumption, Constants
<1>1. TypeOK
  <2>1. clock \in Time /\ server \in [key : Keys, lifetime : Lifetimes, labels : Labelings]
    BY DEF Init, Time, Keys
  <2> QED
    BY <2>1 DEF Init, TypeOK, Claims, Fates, EmptyStore, Time, Zero
<1>2. HolderInv /\ CallerInv /\ StoreInv
  BY DEF Init, HolderInv, CallerInv, StoreInv, EmptyStore
<1>3. LiveInv /\ OneLiveToken /\ LabelsSound
  BY DEF Init, LiveInv, OneLiveToken, Issued, LabelsSound
<1> QED
  BY <1>1, <1>2, <1>3 DEF IInv

\* The conjunction of all parts holds in every reachable state.
THEOREM Invariance == Spec => []IInv
BY Initial, Induction, PTL DEF Spec

\* Type correctness of the store, its callers and the server they talk to.
THEOREM TypeCorrect == Spec => []TypeOK
BY Invariance, PTL DEF IInv

\* One exchange per refused, lapsed or lost token: the server never honours two.
THEOREM OneExchange == Spec => []OneLiveToken
BY Invariance, PTL DEF IInv

\* Labels returns those of a token at least as new as the one its caller saw.
THEOREM LabelsOfNewest == Spec => []LabelsSound
BY Invariance, PTL DEF IInv

\* A token that looks valid to Load is good for more than Slack at the server
\* that signed it, whatever the timeout, margin and leeway are.
THEOREM UsableAccepted == Spec => []UsableTokenAccepted
<1>1. IInv => UsableTokenAccepted
  <2> SUFFICES ASSUME IInv, Usable, store.expires # Zero
               PROVE  clock + Slack < Expiry(store.value) + Leeway
    BY DEF UsableTokenAccepted
  <2>1. store.value \in Tokens /\ clock < store.expires /\ clock \in Nat /\ store.expires \in Nat
    BY Constants DEF IInv, TypeOK, Usable
  <2>2. store.expires <= Expiry(store.value) + (Timeout - Margin)
    BY <2>1, Constants DEF IInv, StoreInv
  <2>3. claims[store.value].issued \in Nat /\ claims[store.value].lifetime \in Nat
    BY <2>1, TokenStoreAssumption, Constants DEF IInv, TypeOK, Claims
  <2>4. Expiry(store.value) \in Nat
    BY <2>3 DEF Expiry
  <2> QED
    BY <2>1, <2>2, <2>4, TokenStoreAssumption DEF Slack
<1> QED
  BY <1>1, Invariance, PTL

\* Only a refused token is dropped, never its successor.
THEOREM OnlyRefusedDropped == Spec => DropsOnlyRefused
<1>1. IInv /\ [Next]_vars =>
        [store.value # NoToken /\ store'.value = NoToken
           => fate[store.value] = "refused"]_vars
  <2> SUFFICES ASSUME IInv, Next, store.value # NoToken, store'.value = NoToken
               PROVE  fate[store.value] = "refused"
    OBVIOUS
  <2>1. ASSUME NEW c \in Callers, Invalidate(c) PROVE fate[store.value] = "refused"
    BY <2>1 DEF Invalidate, Dropped, IInv, CallerInv
  <2>2. ASSUME NEW c \in Callers, LoadStore(c) PROVE FALSE
    <3>1. store'.value = token[c] /\ token[c] \in Tokens
      BY <2>2 DEF LoadStore, Stored, IInv, CallerInv
    <3> QED
      BY <3>1, Constants
  <2> QED
    BY <2>1, <2>2 DEF Next, Tick, Restart, Call, LoadCached, LoadExchange, LoadFail,
       SendDone, Labels, Authorize, Refuse
<1> QED
  BY <1>1, Invariance, PTL DEF Spec, DropsOnlyRefused
=============================================================================
