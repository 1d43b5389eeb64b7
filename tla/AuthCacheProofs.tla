-------------------------- MODULE AuthCacheProofs --------------------------
(***************************************************************************)
(* Proofs about AuthCache, for any number of handlers, tokens and memcached*)
(* servers and all durations: the token check implements AuthLease, and    *)
(* every 401 has a cause.                                                  *)
(*                                                                         *)
(* Both follow an answer of the service to the client.  A revoked token can*)
(* be served on account of an answer that is under way or of an item in    *)
(* memcached; AnswerInv and ItemInv bound the age of the revocation by what*)
(* is left of their life, and for an odd 2xx the time since the service    *)
(* gave it.  They need LeftInv, what the timers of a request can still     *)
(* show, at the moment of the revocation, when the age is zero.            *)
(***************************************************************************)
EXTENDS AuthCache, TLAPS

\* What a handler has in its hands, and how long its operation may still take.
LeftInv ==
  \A h \in Handlers :
    /\ pc[h] \in Waiting => token[h] \in Tokens
    /\ pc[h] \in {"upstream", "reply"} => left[h] <= Timeout
    /\ pc[h] \in {"get", "getting", "set", "setting"} => left[h] <= CacheWait
    /\ pc[h] = "reply" => answer[h] \in Codes
    /\ pc[h] \in {"set", "setting"} => answer[h] \in {"200", "202"}

\* An answer that grants a token was given while the token was good, and an odd
\* one when it was last given or before.
AnswerInv ==
  \A h \in Handlers :
    /\ token[h] \notin valid /\ answer[h] = "200" =>
         /\ pc[h] = "reply" => age[token[h]] + left[h] <= Timeout
         /\ pc[h] \in {"set", "setting"} => age[token[h]] + left[h] <= Timeout + CacheWait
    /\ answer[h] = "202" =>
         /\ pc[h] = "reply" => odd[token[h]] + left[h] <= Timeout
         /\ pc[h] \in {"set", "setting"} => odd[token[h]] + left[h] <= Timeout + CacheWait

\* An item goes within the lease of a token that is no longer good, or of an odd
\* answer.
ItemInv ==
  \A m \in Instances, t \in Tokens : memory[m][t] # Nothing =>
    /\ memory[m][t].code = "200" /\ t \notin valid =>
         memory[m][t].ttl + age[t] <= Expire + Timeout + CacheWait
    /\ memory[m][t].code = "202" =>
         memory[m][t].ttl + odd[t] <= Expire + Timeout + CacheWait

\* A token that is not good now, or was not when the service refused it, or a
\* service that failed, is a cause.
CauseInv ==
  \A h \in Handlers :
    /\ pc[h] \in Waiting /\ token[h] \notin valid => cause[h]
    /\ pc[h] = "reply" /\ answer[h] \in {"refused", "error"} => cause[h]

IInv == TypeOK /\ LeftInv /\ AnswerInv /\ ItemInv /\ CauseInv

LEMMA Induction == IInv /\ [Next]_vars => IInv'
<1> SUFFICES ASSUME IInv, [Next]_vars PROVE IInv'
  OBVIOUS
<1> USE AuthCacheAssumption DEF IInv, Waiting, Codes
<1>1. ASSUME NEW h \in Handlers, NEW t \in Tokens, Arrive(h, t) PROVE IInv'
  <2>1. TypeOK'
    BY <1>1 DEF Arrive, Goto, external, lock, TypeOK
  <2>2. LeftInv' /\ AnswerInv' /\ ItemInv'
    BY <1>1 DEF Arrive, Goto, external, lock, TypeOK, LeftInv, AnswerInv, ItemInv
  <2>3. CauseInv'
    BY <1>1 DEF Arrive, Goto, external, lock, TypeOK, CauseInv
  <2> QED
    BY <2>1, <2>2, <2>3
<1>2. ASSUME NEW h \in Handlers, ArriveMalformed(h) PROVE IInv'
  BY <1>2 DEF ArriveMalformed, Answer, Goto, external, lock,
     TypeOK, Nothing, LeftInv, AnswerInv, ItemInv, CauseInv
<1>3. ASSUME NEW h \in Handlers, RLock(h) PROVE IInv'
  BY <1>3 DEF RLock, external,
     TypeOK, Nothing, LeftInv, AnswerInv, ItemInv, CauseInv
<1>4. ASSUME NEW h \in Handlers, GetHit(h) PROVE IInv'
  BY <1>4 DEF GetHit, Cached, Answer, Goto, RUnlock, external,
     TypeOK, Nothing, LeftInv, AnswerInv, ItemInv, CauseInv
<1>5. ASSUME NEW h \in Handlers, GetMiss(h) PROVE IInv'
  BY <1>5 DEF GetMiss, Goto, RUnlock, external,
     TypeOK, Nothing, LeftInv, AnswerInv, ItemInv, CauseInv
<1>6. ASSUME NEW h \in Handlers, GetFails(h) PROVE IInv'
  BY <1>6 DEF GetFails, Fail, Goto, RUnlock, external,
     TypeOK, Nothing, LeftInv, AnswerInv, ItemInv, CauseInv
<1>7. ASSUME NEW h \in Handlers, UpstreamAnswers(h) PROVE IInv'
  <2>1. PICK code \in Codes :
          /\ code = "200" => token[h] \in valid
          /\ code = "refused" => token[h] \notin valid
          /\ answer' = [answer EXCEPT ![h] = code]
          /\ odd' = [odd EXCEPT ![token[h]] = IF code = "202" THEN 0 ELSE @]
          /\ cause' = [cause EXCEPT ![h] = @ \/ code = "error"]
    BY <1>7 DEF UpstreamAnswers
  <2>2. token[h] \in Tokens /\ left[h] \in Nat /\ left[h] <= Timeout /\ Lease \in Nat
    BY <1>7 DEF UpstreamAnswers, LeftInv, TypeOK, Lease
  <2>3. \A t \in Tokens : odd[t] \in Nat /\ (odd'[t] = 0 \/ odd'[t] = odd[t])
    BY <2>1 DEF TypeOK, Lease
  <2>4. cause' \in [Handlers -> BOOLEAN] /\ odd' \in [Tokens -> 0..Lease]
    BY <2>1, <2>2 DEF TypeOK
  <2>5. readers' = {k \in Handlers : pc'[k] \in {"getting", "setting"}}
    BY <1>7 DEF UpstreamAnswers, lock, TypeOK
  <2>6. TypeOK' /\ LeftInv'
    BY <1>7, <2>1, <2>4, <2>5 DEF UpstreamAnswers, lock, TypeOK, Nothing, LeftInv
  <2>7. AnswerInv'
    <3> SUFFICES ASSUME NEW k \in Handlers, pc'[k] \in {"reply", "set", "setting"}
                 PROVE  AnswerInv!(k)'
      BY DEF AnswerInv
    <3>1. CASE k = h
      <4>1. pc'[k] = "reply" /\ answer'[k] = code /\ (code = "202" => odd'[token[h]] = 0)
        BY <1>7, <2>1, <2>2, <3>1 DEF UpstreamAnswers, TypeOK
      <4> QED
        BY <1>7, <2>1, <2>2, <3>1, <4>1 DEF UpstreamAnswers
    <3>2. CASE k # h
      <4>1. pc'[k] = pc[k] /\ answer'[k] = answer[k] /\ left[k] \in Nat /\ token[k] \in Tokens
        BY <1>7, <2>1, <3>2 DEF UpstreamAnswers, TypeOK, LeftInv
      <4> QED
        BY <1>7, <2>3, <4>1 DEF UpstreamAnswers, AnswerInv
    <3> QED
      BY <3>1, <3>2
  <2>8. ItemInv'
    <3> SUFFICES ASSUME NEW m \in Instances, NEW t \in Tokens, memory[m][t] # Nothing
                 PROVE  ItemInv!(m, t)'
      BY <1>7 DEF UpstreamAnswers, ItemInv
    <3>1. memory[m][t].ttl \in Nat
      BY DEF TypeOK
    <3> QED
      BY <1>7, <2>3, <3>1 DEF UpstreamAnswers, ItemInv
  <2>9. CauseInv'
    BY <1>7, <2>1 DEF UpstreamAnswers, lock, TypeOK, CauseInv
  <2> QED
    BY <2>6, <2>7, <2>8, <2>9
<1>8. ASSUME NEW h \in Handlers, UpstreamFails(h) PROVE IInv'
  BY <1>8 DEF UpstreamFails, Fail, Goto, external, lock,
     TypeOK, Nothing, LeftInv, AnswerInv, ItemInv, CauseInv
<1>9. ASSUME NEW h \in Handlers, Finish(h) PROVE IInv'
  BY <1>9 DEF Finish, Goto, external, lock,
     TypeOK, Nothing, LeftInv, AnswerInv, ItemInv, CauseInv
<1>10. CASE RefreshTick \/ RefreshLock \/ Refresh
  BY <1>10 DEF RefreshTick, RefreshLock, Refresh, external, handlers,
     TypeOK, Nothing, LeftInv, AnswerInv, ItemInv, CauseInv
<1>11. ASSUME NEW t \in Tokens, Grant(t) PROVE IInv'
  <2>1. \A u \in Tokens : u \notin valid' => u \notin valid /\ age'[u] = age[u]
    BY <1>11 DEF Grant, TypeOK
  <2>2. TypeOK' /\ LeftInv'
    BY <1>11 DEF Grant, Lease, lock, handlers, TypeOK, LeftInv
  <2>3. AnswerInv' /\ ItemInv' /\ CauseInv'
    BY <1>11, <2>1 DEF Grant, lock, handlers, TypeOK, LeftInv, AnswerInv, ItemInv, CauseInv
  <2> QED
    BY <2>2, <2>3
<1>12. ASSUME NEW t \in Tokens, Revoke(t) PROVE IInv'
  <2>1. TypeOK' /\ LeftInv'
    BY <1>12 DEF Revoke, Lease, lock, TypeOK, LeftInv
  <2>2. AnswerInv'
    BY <1>12 DEF Revoke, lock, TypeOK, LeftInv, AnswerInv
  <2>3. ItemInv'
    BY <1>12 DEF Revoke, lock, TypeOK, Nothing, ItemInv
  <2>4. CauseInv'
    BY <1>12 DEF Revoke, lock, TypeOK, LeftInv, CauseInv
  <2> QED
    BY <2>1, <2>2, <2>3, <2>4
<1>13. ASSUME NEW t \in Tokens, NEW m \in Instances, Evict(m, t) PROVE IInv'
  BY <1>13 DEF Evict, lock, handlers,
     TypeOK, Nothing, LeftInv, AnswerInv, ItemInv, CauseInv
<1>14. CASE Restart
  BY <1>14 DEF Restart, external,
     TypeOK, Nothing, LeftInv, AnswerInv, ItemInv, CauseInv
<1>15. CASE UNCHANGED vars
  BY <1>15 DEF vars,
     TypeOK, Nothing, LeftInv, AnswerInv, ItemInv, CauseInv
<1>16. ASSUME NEW h \in Handlers, ReceiveReply(h) PROVE IInv'
  <2>1. CASE answer[h] \in {"200", "202"}
    BY <1>16, <2>1, SMTT(20) DEF ReceiveReply, Goto, external, lock,
       TypeOK, LeftInv, AnswerInv, ItemInv, CauseInv
  <2>2. CASE answer[h] \notin {"200", "202"}
    <3>1. answer' = answer
      BY <1>16, <2>2 DEF ReceiveReply, Answer, TypeOK
    <3>2. TypeOK'
      <4>1. cause' \in [Handlers -> BOOLEAN]
        BY <1>16, <2>2 DEF ReceiveReply, Answer, TypeOK
      <4>2. readers' = {k \in Handlers : pc'[k] \in {"getting", "setting"}}
        BY <1>16, <2>2 DEF ReceiveReply, Answer, Goto, lock, TypeOK
      <4>3. /\ pc' \in [Handlers -> {"idle", "answered"} \cup Waiting]
            /\ left' \in [Handlers -> 0..(Timeout + CacheWait)]
        <5>1. /\ pc' = [pc EXCEPT ![h] = "answered"]
              /\ left' = [left EXCEPT ![h] = 0]
          BY <1>16, <2>2 DEF ReceiveReply, Answer, Goto
        <5> QED
          BY <5>1 DEF TypeOK
      <4>4. UNCHANGED <<valid, age, odd, memory, client, readers, writer, token, answer>>
        BY <1>16, <3>1 DEF ReceiveReply, external, lock
      <4> QED
        BY <4>1, <4>2, <4>3, <4>4 DEF TypeOK
    <3>3. LeftInv' /\ AnswerInv' /\ ItemInv'
      BY <1>16, <2>2, <3>1 DEF ReceiveReply, Answer, Goto, external, lock,
         TypeOK, LeftInv, AnswerInv, ItemInv
    <3>4. CauseInv'
      BY <1>16, <2>2, <3>1 DEF ReceiveReply, Answer, Goto, external, lock, TypeOK, CauseInv
    <3> QED
      BY <3>2, <3>3, <3>4
  <2> QED
    BY <2>1, <2>2
\* What is stored has its full life ahead, and the age of the revocation is what
\* the answer took to get here.
<1>17. ASSUME NEW h \in Handlers, SetDone(h) PROVE IInv'
  <2>1. token[h] \in Tokens /\ answer[h] \in {"200", "202"} /\ left[h] \in Nat
    BY <1>17 DEF SetDone, TypeOK, LeftInv
  <2>2. Entry(answer[h]) \in [code : {"200", "202"}, ttl : 1..Expire]
    BY <2>1 DEF Entry
  <2>3. \A m \in Instances, t \in Tokens :
          \/ memory'[m][t] = memory[m][t]
          \/ memory'[m][t] = Entry(answer[h]) /\ t = token[h]
    BY <1>17, <2>1 DEF SetDone, TypeOK
  <2>4. memory' \in [Instances -> [Tokens -> [code : {"200", "202"}, ttl : 1..Expire]
                                                \cup {Nothing}]]
    <3>1. CASE memory' = memory
      BY <3>1 DEF TypeOK
    <3>2. CASE client # NoServer
               /\ memory' = [memory EXCEPT ![client][token[h]] = Entry(answer[h])]
      <4>1. client \in Instances
        BY <3>2 DEF TypeOK
      <4> QED
        BY <2>1, <2>2, <3>2, <4>1 DEF TypeOK
    <3> QED
      BY <1>17, <3>1, <3>2 DEF SetDone
  <2>5. TypeOK'
    BY <1>17, <2>1, <2>4 DEF SetDone, Answer, Goto, RUnlock, TypeOK
  <2>6. LeftInv' /\ AnswerInv' /\ CauseInv'
    BY <1>17 DEF SetDone, Answer, Goto, RUnlock, TypeOK, LeftInv, AnswerInv, CauseInv
  <2>7. ItemInv'
    <3> SUFFICES ASSUME NEW m \in Instances, NEW t \in Tokens, memory'[m][t] # Nothing
                 PROVE  ItemInv!(m, t)'
      BY DEF ItemInv
    <3>1. CASE memory'[m][t] = memory[m][t]
      BY <1>17, <3>1 DEF SetDone, ItemInv
    <3>2. CASE memory'[m][t] = Entry(answer[h]) /\ t = token[h]
      <4>1. /\ answer[h] = "200" /\ t \notin valid => age[t] + left[h] <= Timeout + CacheWait
            /\ answer[h] = "202" => odd[t] + left[h] <= Timeout + CacheWait
        BY <1>17, <3>2 DEF SetDone, AnswerInv
      <4>2. age[t] \in Nat /\ odd[t] \in Nat
        BY DEF TypeOK, Lease
      <4> QED
        BY <1>17, <2>1, <3>2, <4>1, <4>2 DEF SetDone, Entry
    <3> QED
      BY <2>3, <3>1, <3>2
  <2> QED
    BY <2>5, <2>6, <2>7
\* An age and what is left of a life move in step.
<1>18. CASE Tick
  <2>1. \A t \in Tokens : age[t] \in 0..Lease /\ age'[t] \in 0..Lease
                          /\ age'[t] <= age[t] + 1
                          /\ odd[t] \in 0..Lease /\ odd'[t] \in 0..Lease
                          /\ odd'[t] <= odd[t] + 1
    BY <1>18 DEF Tick, TypeOK, Lease
  <2>2. \A m \in Instances, t \in Tokens : memory'[m][t] # Nothing =>
          /\ memory[m][t] # Nothing
          /\ memory'[m][t].code = memory[m][t].code
          /\ memory'[m][t].ttl = memory[m][t].ttl - 1
    BY <1>18 DEF Tick, Older, Nothing, TypeOK
  <2>3. memory' \in [Instances -> [Tokens -> [code : {"200", "202"}, ttl : 1..Expire]
                                                \cup {Nothing}]]
    <3>1. \A e \in [code : {"200", "202"}, ttl : 1..Expire] \cup {Nothing} :
            Older(e) \in [code : {"200", "202"}, ttl : 1..Expire] \cup {Nothing}
      BY DEF Older, Nothing
    <3> QED
      BY <1>18, <3>1 DEF Tick, TypeOK
  <2>4. TypeOK'
    BY <1>18, <2>3 DEF Tick, lock, TypeOK, Lease
  <2>5. LeftInv' /\ CauseInv'
    BY <1>18 DEF Tick, lock, TypeOK, LeftInv, CauseInv
  <2>6. AnswerInv'
    <3> SUFFICES ASSUME NEW h \in Handlers, pc[h] \in {"reply", "set", "setting"}
                 PROVE  AnswerInv!(h)'
      BY <1>18 DEF Tick, AnswerInv
    <3>1. token[h] \in Tokens /\ left[h] \in Nat /\ left'[h] = left[h] - 1
      BY <1>18 DEF Tick, TypeOK, LeftInv
    <3> QED
      BY <1>18, <2>1, <3>1 DEF Tick, AnswerInv, Lease
  <2>7. ItemInv'
    <3> SUFFICES ASSUME NEW m \in Instances, NEW t \in Tokens, memory'[m][t] # Nothing
                 PROVE  ItemInv!(m, t)'
      BY DEF ItemInv
    <3>1. /\ memory[m][t] # Nothing
          /\ memory'[m][t].code = memory[m][t].code
          /\ memory'[m][t].ttl = memory[m][t].ttl - 1
          /\ memory[m][t].ttl \in Nat
      BY <2>2 DEF TypeOK
    <3> QED
      BY <1>18, <2>1, <3>1 DEF Tick, ItemInv, Lease
  <2> QED
    BY <2>4, <2>5, <2>6, <2>7
<1> QED
  BY <1>1, <1>2, <1>3, <1>4, <1>5, <1>6, <1>7, <1>8, <1>9, <1>10, <1>11, <1>12, <1>13,
     <1>14, <1>15, <1>16, <1>17, <1>18 DEF Next

LEMMA Initial == Init => IInv
BY AuthCacheAssumption
   DEF Init, IInv, TypeOK, LeftInv, AnswerInv, ItemInv, CauseInv, Waiting, Lease

\* The inductive invariant holds in every reachable state.
THEOREM Invariance == Spec => []IInv
BY Initial, Induction, PTL DEF Spec

\* Type correctness, who holds the read lock, and that nobody does while the
\* goroutine makes a new client.
THEOREM TypeCorrect == Spec => []TypeOK
BY Invariance, PTL DEF IInv

\* A handler that is answered in a step, and with a 401.
Refused(h) ==
  /\ pc[h] # "answered"
  /\ pc'[h] = "answered"
  /\ Status(answer'[h]) = "401"

\* A handler whose 401 has a cause.
Caused(h) == cause'[h] \/ (answer'[h] = "202" /\ odd[token[h]] < Lease)

LEMMA RefusedFor == \A code : Status(code) = "401" <=> code # "200" /\ code # "bad"
BY DEF Status

\* One step per action that answers: only a 2xx comes out of the cache or goes
\* into it, and one that is refused is odd.
LEMMA RefusalStep ==
  ASSUME IInv, [Next]_vars, NEW h \in Handlers, Refused(h)
  PROVE  Caused(h)
<1> USE AuthCacheAssumption DEF Waiting
<1>0. TypeOK
  BY DEF IInv
<1>1. ASSUME NEW k \in Handlers, GetHit(k) PROVE Caused(h)
  <2>1. h = k
    BY <1>0, <1>1 DEF GetHit, Answer, Goto, Refused, TypeOK
  <2>2. token[h] \in Tokens /\ client \in Instances
    BY <1>0, <1>1, <2>1 DEF GetHit, Cached, Nothing, IInv, LeftInv, TypeOK
  <2>3. memory[client][token[h]] # Nothing
    BY <1>1, <2>1, <2>2 DEF GetHit, Cached
  <2>4. /\ memory[client][token[h]].ttl \in 1..Expire
        /\ memory[client][token[h]].code \in {"200", "202"}
        /\ odd[token[h]] \in Nat
    BY <1>0, <2>2, <2>3 DEF TypeOK, Lease
  <2>5. answer'[h] = memory[client][token[h]].code
    BY <1>0, <1>1, <2>1, <2>2 DEF GetHit, Answer, Cached, TypeOK
  <2>6. answer'[h] = "202"
    BY <2>4, <2>5, RefusedFor DEF Refused
  <2>7. memory[client][token[h]].ttl + odd[token[h]] <= Expire + Timeout + CacheWait
    BY <2>2, <2>3, <2>5, <2>6 DEF IInv, ItemInv
  <2>8. odd[token[h]] < Lease
    BY <2>4, <2>7 DEF Lease
  <2> QED
    BY <2>6, <2>8 DEF Caused
<1>2. ASSUME NEW k \in Handlers, SetDone(k) PROVE Caused(h)
  <2>1. h = k
    BY <1>0, <1>2 DEF SetDone, Answer, Goto, Refused, TypeOK
  <2>2. token[h] \in Tokens /\ answer[h] \in {"200", "202"}
    BY <1>2, <2>1 DEF SetDone, IInv, LeftInv
  <2>3. answer'[h] = answer[h]
    BY <1>0, <1>2, <2>1 DEF SetDone, Answer, TypeOK
  <2>4. answer[h] = "202"
    BY <2>2, <2>3, RefusedFor DEF Refused
  <2>5. odd[token[h]] + left[h] <= Timeout + CacheWait
    BY <1>2, <2>1, <2>4 DEF SetDone, IInv, AnswerInv
  <2>6. odd[token[h]] \in Nat /\ left[h] \in Nat
    BY <1>0, <2>2 DEF TypeOK, Lease
  <2> QED
    BY <2>3, <2>4, <2>5, <2>6 DEF Caused, Lease
<1>3. ASSUME NEW k \in Handlers, ReceiveReply(k) PROVE Caused(h)
  <2>1. h = k
    BY <1>0, <1>3 DEF ReceiveReply, Answer, Goto, Refused, TypeOK
  <2>2. answer[h] \notin {"200", "202"}
    BY <1>0, <1>3, <2>1 DEF ReceiveReply, Goto, Refused, TypeOK
  <2>3. answer[h] \in {"refused", "error"}
    BY <1>3, <2>1, <2>2 DEF ReceiveReply, IInv, LeftInv, Codes
  <2>4. cause[h] = TRUE
    BY <1>0, <1>3, <2>1, <2>3 DEF ReceiveReply, IInv, CauseInv, TypeOK
  <2>5. cause'[h] = (cause[h] /\ Status(answer[h]) = "401")
    BY <1>0, <1>3, <2>1, <2>2 DEF ReceiveReply, Answer, TypeOK
  <2>6. Status(answer[h]) = "401"
    BY <2>3, RefusedFor
  <2> QED
    BY <2>4, <2>5, <2>6 DEF Caused
<1>4. ASSUME NEW k \in Handlers, GetFails(k) \/ UpstreamFails(k) PROVE Caused(h)
  <2>1. h = k
    BY <1>0, <1>4 DEF GetFails, UpstreamFails, Fail, Goto, Refused, TypeOK
  <2> QED
    BY <1>0, <1>4, <2>1 DEF GetFails, UpstreamFails, Fail, Caused, TypeOK
<1>5. ASSUME NEW k \in Handlers, ArriveMalformed(k) PROVE FALSE
  <2>1. h = k
    BY <1>0, <1>5 DEF ArriveMalformed, Answer, Goto, Refused, TypeOK
  <2>2. answer'[h] = "bad"
    BY <1>0, <1>5, <2>1 DEF ArriveMalformed, Answer, TypeOK
  <2> QED
    BY <2>2, RefusedFor DEF Refused
<1>6. ASSUME NEW k \in Handlers,
             \/ \E t \in Tokens : Arrive(k, t)
             \/ RLock(k) \/ GetMiss(k) \/ UpstreamAnswers(k) \/ Finish(k)
      PROVE  FALSE
  BY <1>0, <1>6 DEF Arrive, RLock, GetMiss, UpstreamAnswers, Finish, Goto, Refused, TypeOK
<1>7. ASSUME \/ RefreshTick \/ RefreshLock \/ Refresh \/ Restart \/ Tick
             \/ \E t \in Tokens : Grant(t) \/ Revoke(t) \/ \E m \in Instances : Evict(m, t)
             \/ UNCHANGED vars
      PROVE  FALSE
  BY <1>0, <1>7 DEF RefreshTick, RefreshLock, Refresh, Restart, Tick, Grant, Revoke, Evict,
     handlers, vars, Refused, TypeOK
<1> QED
  BY <1>1, <1>2, <1>3, <1>4, <1>5, <1>6, <1>7 DEF Next

\* Every 401 is caused by a token that is not granted, by a failure this request
\* meets itself, or by an odd 2xx less than Lease old.
THEOREM RefusalsCaused == Spec => RefusalCaused
<1>1. IInv /\ [Next]_vars =>
        [\A h \in Handlers :
           /\ pc[h] # "answered"
           /\ pc'[h] = "answered"
           /\ Status(answer'[h]) = "401"
           => \/ cause'[h]
              \/ answer'[h] = "202" /\ odd[token[h]] < Lease]_vars
  BY RefusalStep DEF Refused, Caused
<1> QED
  BY <1>1, Invariance, PTL DEF Spec, RefusalCaused

-----------------------------------------------------------------------------
(* The refinement. *)

LEMMA ServedFor200 == \A code : Status(code) = "served" <=> code = "200"
BY DEF Status

LEMMA ServingIs ==
  /\ Serving = [h \in Handlers |->
       IF pc[h] = "answered" /\ answer[h] = "200" THEN token[h] ELSE NoToken]
  /\ Serving' = [h \in Handlers |->
       IF pc'[h] = "answered" /\ answer'[h] = "200" THEN token'[h] ELSE NoToken]
BY ServedFor200 DEF Serving

\* A handler that answers with what it has, and has not been serving, serves its
\* token if the answer is 200 and nothing otherwise; the others are not touched.
LEMMA AnswerServes ==
  ASSUME TypeOK, NEW h \in Handlers, NEW code, pc[h] # "answered",
         pc' = [pc EXCEPT ![h] = "answered"], answer' = [answer EXCEPT ![h] = code],
         UNCHANGED <<valid, age, token>>,
         code = "200" => token[h] \in Tokens /\ (token[h] \in valid \/ age[token[h]] < Lease)
  PROVE  Promise!LeaseNext \/ UNCHANGED <<valid, age, Serving>>
<1>1. Serving[h] = NoToken
  BY ServingIs
<1>3. CASE code = "200"
  <2>1. Serving' = [Serving EXCEPT ![h] = token[h]]
    BY <1>3, ServingIs DEF TypeOK
  <2>2. Promise!Serve(h, token[h])
    BY <1>1, <1>3, <2>1 DEF Promise!Serve
  <2> QED
    BY <1>3, <2>2 DEF Promise!LeaseNext
<1>4. CASE code # "200"
  <2>1. Serving' = Serving
    BY <1>4, ServingIs DEF TypeOK
  <2> QED
    BY <2>1
<1> QED
  BY <1>3, <1>4

\* The token check implements AuthLease: a token is served only while it is
\* granted or for less than Lease after it was revoked.
THEOREM LeaseImplemented == Spec => ImplementsLease
<1>1. Init => Promise!LeaseInit
  BY ServingIs DEF Init, Promise!LeaseInit
<1>2. IInv /\ [Next]_vars => [Promise!LeaseNext]_(Promise!leaseVars)
  <2> SUFFICES ASSUME IInv, [Next]_vars
               PROVE  Promise!LeaseNext \/ UNCHANGED <<valid, age, Serving>>
    BY DEF Promise!leaseVars
  <2> USE AuthCacheAssumption DEF Waiting
  <2>0. TypeOK
    BY DEF IInv
  \* The only two steps that begin to serve.
  <2>1. ASSUME NEW h \in Handlers, GetHit(h)
        PROVE  Promise!LeaseNext \/ UNCHANGED <<valid, age, Serving>>
    <3>1. token[h] \in Tokens /\ client \in Instances
      BY <2>1, <2>0 DEF GetHit, Cached, Nothing, IInv, LeftInv, TypeOK
    <3>2. memory[client][token[h]] # Nothing
      BY <2>1, <3>1 DEF GetHit, Cached
    <3>3. memory[client][token[h]].ttl \in 1..Expire /\ age[token[h]] \in Nat
      BY <3>1, <3>2, <2>0 DEF TypeOK, Lease
    <3>4. Cached(h) = memory[client][token[h]]
      BY <3>1 DEF Cached
    <3>5. Cached(h).code = "200" => token[h] \in valid \/ age[token[h]] < Lease
      BY <3>1, <3>2, <3>3, <3>4 DEF IInv, ItemInv, Lease
    <3> QED
      BY <2>0, <2>1, <3>1, <3>5, AnswerServes DEF GetHit, Answer, Goto, external
  <2>2. ASSUME NEW h \in Handlers, SetDone(h)
        PROVE  Promise!LeaseNext \/ UNCHANGED <<valid, age, Serving>>
    <3>1. token[h] \in Tokens /\ answer[h] \in {"200", "202"}
      BY <2>2 DEF SetDone, IInv, LeftInv
    <3>2. left[h] \in Nat /\ age[token[h]] \in Nat
      BY <3>1, <2>0 DEF TypeOK, Lease
    <3>3. answer[h] = "200" => token[h] \in valid \/ age[token[h]] < Lease
      BY <2>2, <3>1, <3>2 DEF SetDone, IInv, AnswerInv, Lease
    <3> QED
      BY <2>0, <2>2, <3>1, <3>3, AnswerServes DEF SetDone, Answer, Goto
  \* Answers that are not a yes.
  <2>3. ASSUME NEW h \in Handlers,
               ArriveMalformed(h) \/ GetFails(h) \/ UpstreamFails(h)
        PROVE  Promise!LeaseNext \/ UNCHANGED <<valid, age, Serving>>
    <3>1. /\ pc[h] # "answered" /\ UNCHANGED <<valid, age, token>>
          /\ pc' = [pc EXCEPT ![h] = "answered"]
          /\ \/ answer' = [answer EXCEPT ![h] = "bad"]
             \/ answer' = [answer EXCEPT ![h] = "error"]
      BY <2>3 DEF ArriveMalformed, GetFails, UpstreamFails, Answer, Fail, Goto, external
    <3> QED
      BY <2>0, <3>1, AnswerServes
  <2>4. ASSUME NEW h \in Handlers, ReceiveReply(h)
        PROVE  Promise!LeaseNext \/ UNCHANGED <<valid, age, Serving>>
    <3>1. CASE answer[h] \in {"200", "202"}
      BY <2>0, <2>4, <3>1, ServingIs DEF ReceiveReply, Goto, external, TypeOK
    <3>2. CASE answer[h] \notin {"200", "202"}
      BY <2>0, <2>4, <3>2, AnswerServes DEF ReceiveReply, Answer, Goto, external
    <3> QED
      BY <3>1, <3>2
  \* Steps of a handler that is not and will not be serving.
  <2>5. ASSUME NEW h \in Handlers,
               \/ \E t \in Tokens : Arrive(h, t)
               \/ RLock(h) \/ GetMiss(h) \/ UpstreamAnswers(h)
        PROVE  UNCHANGED <<valid, age, Serving>>
    <3>1. pc[h] # "answered" /\ pc'[h] # "answered" /\ UNCHANGED <<valid, age>>
      BY <2>0, <2>5 DEF Arrive, RLock, GetMiss, UpstreamAnswers, Goto, external, TypeOK
    <3>2. \A k \in Handlers : k # h =>
            pc'[k] = pc[k] /\ answer'[k] = answer[k] /\ token'[k] = token[k]
      BY <2>0, <2>5 DEF Arrive, RLock, GetMiss, UpstreamAnswers, Goto, external, TypeOK
    <3> QED
      BY <3>1, <3>2, ServingIs
  <2>6. ASSUME NEW h \in Handlers, Finish(h) PROVE Promise!LeaseNext
    <3>1. Promise!Done({h})
      BY <2>0, <2>6, ServingIs DEF Finish, Goto, external, TypeOK, Promise!Done
    <3> QED
      BY <3>1 DEF Promise!LeaseNext
  <2>7. CASE Restart
    <3>1. Promise!Done(Handlers)
      BY <2>7, ServingIs DEF Restart, external, Promise!Done
    <3> QED
      BY <3>1 DEF Promise!LeaseNext
  <2>8. ASSUME NEW t \in Tokens, Grant(t) \/ Revoke(t) PROVE Promise!LeaseNext
    <3>1. Serving' = Serving
      BY <2>8, ServingIs DEF Grant, Revoke, handlers
    <3>2. Promise!GrantToken(t) \/ Promise!RevokeToken(t)
      BY <2>8, <3>1 DEF Grant, Revoke, Promise!GrantToken, Promise!RevokeToken
    <3> QED
      BY <3>2 DEF Promise!LeaseNext
  <2>9. CASE Tick
    <3>1. Serving' = Serving
      BY <2>9, ServingIs DEF Tick
    <3>2. \A t \in Tokens : age[t] \in 0..Lease /\ Lease \in Nat
      BY <2>0 DEF TypeOK, Lease
    <3>3. \A t \in Tokens :
            (IF age[t] < Lease THEN age[t] + 1 ELSE Lease) = Promise!Capped(age[t] + 1)
      BY <3>2 DEF Promise!Capped
    <3>4. Promise!TimePasses
      BY <2>9, <3>1, <3>3 DEF Tick, Promise!TimePasses
    <3> QED
      BY <3>4 DEF Promise!LeaseNext
  <2>10. ASSUME \/ RefreshTick \/ RefreshLock \/ Refresh
                \/ \E m \in Instances, t \in Tokens : Evict(m, t)
                \/ UNCHANGED vars
         PROVE  UNCHANGED <<valid, age, Serving>>
    <3>1. UNCHANGED <<valid, age, pc, token, answer>>
      BY <2>10 DEF RefreshTick, RefreshLock, Refresh, Evict, vars, external, handlers
    <3> QED
      BY <3>1, ServingIs
  <2> QED
    BY <2>1, <2>2, <2>3, <2>4, <2>5, <2>6, <2>7, <2>8, <2>9, <2>10 DEF Next
<1> QED
  BY <1>1, <1>2, Invariance, PTL DEF Spec, ImplementsLease, Promise!LeaseSpec
=============================================================================
