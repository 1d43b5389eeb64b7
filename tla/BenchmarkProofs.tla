-------------------------- MODULE BenchmarkProofs --------------------------
(***************************************************************************)
(* Proofs about Benchmark, for any number of workers and of goroutines that*)
(* reload: a generation is cancelled before its successor is started.      *)
(*                                                                         *)
(* A generation is numbered, and each but the first owes its number to a   *)
(* Reconfigure that reached Run while it slept: CountInv counts them, and  *)
(* GenerationInv says what that Reconfigure has left for Run to find.  What*)
(* the run group does meanwhile cannot disturb them.                       *)
(***************************************************************************)
EXTENDS Benchmark, FiniteSetTheorems, TLAPS

\* The Reconfigures that have begun and not yet replaced the workers.
Pending == {r \in Reloaders : caller[r] \in {"lock", "send"}}

\* Every Reconfigure begun is pending or has installed a configuration.
CountInv ==
  /\ IsFiniteSet(Pending)
  /\ pool + Cardinality(Pending) = reloads

\* A generation for each configuration that was installed under a sleeping Run,
\* and one for the first; the one before the next is cancelled.
GenerationInv ==
  /\ current <= pool + 1
  /\ pc = "start" => current = 0
  /\ pc = "spawn" => current <= pool /\ (current = 0 \/ current \in cancelled)
  /\ pc = "select" \/ running => current > 0
  /\ \A g \in Gens : g > current => alive[g] = 0

\* Reconfigure keeps the lock from when it begins to send until Run has the
\* message, and nobody else keeps it.
LockInv == \A r \in Reloaders : lock = r <=> caller[r] = "send"

IInv == TypeOK /\ CountInv /\ GenerationInv /\ LockInv /\ OneLiveGeneration

-----------------------------------------------------------------------------
(* Pending Reconfigures. *)

\* One begins.
LEMMA Begins ==
  ASSUME TypeOK, CountInv, NEW r \in Reloaders, caller[r] \notin {"lock", "send"},
         caller' = [caller EXCEPT ![r] = "lock"], pool' = pool, reloads' = reloads + 1
  PROVE  CountInv'
<1>1. Pending' = Pending \cup {r}
  BY DEF Pending, TypeOK
<1>2. r \notin Pending
  BY DEF Pending
<1>3. IsFiniteSet(Pending') /\ Cardinality(Pending') = Cardinality(Pending) + 1
  BY <1>1, <1>2, FS_AddElement DEF CountInv
<1>4. Cardinality(Pending) \in Nat
  BY FS_CardinalityType DEF CountInv
<1> QED
  BY <1>3, <1>4 DEF CountInv, TypeOK

\* One has replaced the workers.
LEMMA Installs ==
  ASSUME TypeOK, CountInv, NEW r \in Reloaders, caller[r] \in {"lock", "send"},
         caller' = [caller EXCEPT ![r] = "idle"], pool' = pool + 1, reloads' = reloads
  PROVE  CountInv' /\ pool + 1 <= reloads
<1>1. Pending' = Pending \ {r}
  BY DEF Pending, TypeOK
<1>2. r \in Pending
  BY DEF Pending
<1>3. IsFiniteSet(Pending') /\ Cardinality(Pending') = Cardinality(Pending) - 1
  BY <1>1, <1>2, FS_RemoveElement DEF CountInv
<1>4. Cardinality(Pending) \in Nat /\ Cardinality(Pending') \in Nat
  BY <1>3, FS_CardinalityType DEF CountInv
<1> QED
  BY <1>3, <1>4 DEF CountInv, TypeOK

\* Other steps.
LEMMA KeepsCount ==
  ASSUME CountInv, Pending' = Pending, UNCHANGED <<pool, reloads>> PROVE CountInv'
BY DEF CountInv

-----------------------------------------------------------------------------
LEMMA Induction == IInv /\ [Next]_vars => IInv'
<1> SUFFICES ASSUME IInv, [Next]_vars PROVE IInv'
  OBVIOUS
<1>0. Sig \in Reloaders /\ Reloaders = Reloaders'
  BY DEF Reloaders
<1> USE BenchmarkAssumption DEF IInv
<1>1. CASE RunStart
  <2>1. CountInv'
    BY <1>1, KeepsCount DEF RunStart, Pending
  <2> QED
    BY <1>1, <2>1 DEF RunStart, TypeOK, GenerationInv, LockInv, OneLiveGeneration
\* The next generation is one that has had no workers yet, and the one it follows
\* is cancelled.
<1>2. CASE Spawn
  <2>1. CountInv'
    BY <1>2, KeepsCount DEF Spawn, Pending
  <2>2. current + 1 \in Gens
    BY <1>2 DEF Spawn, TypeOK, GenerationInv, Gens
  <2>3. \A g \in Gens : alive'[g] = IF g = current + 1 THEN Workers ELSE alive[g]
    BY <1>2, <2>2 DEF Spawn, TypeOK
  <2>4. TypeOK'
    BY <1>2, <2>2 DEF Spawn, TypeOK
  <2>5. GenerationInv'
    BY <1>2, <2>2, <2>3 DEF Spawn, TypeOK, GenerationInv, Gens
  <2>6. OneLiveGeneration'
    BY <1>2, <2>2, <2>3 DEF Spawn, TypeOK, GenerationInv, OneLiveGeneration, Gens
  <2>7. LockInv'
    BY <1>2 DEF Spawn, LockInv
  <2> QED
    BY <2>1, <2>4, <2>5, <2>6, <2>7
<1>3. ASSUME NEW g \in Gens, WorkerReturns(g) PROVE IInv'
  <2>1. CountInv'
    BY <1>3, KeepsCount DEF WorkerReturns, Pending
  <2>2. alive[g] \in Nat /\ alive'[g] = alive[g] - 1 /\ alive' \in [Gens -> 0..Workers]
        /\ \A k \in Gens : k # g => alive'[k] = alive[k]
    BY <1>3 DEF WorkerReturns, TypeOK
  <2>3. TypeOK'
    BY <1>3, <2>2 DEF WorkerReturns, TypeOK
  <2>4. GenerationInv' /\ LockInv' /\ OneLiveGeneration'
    BY <1>3, <2>2 DEF WorkerReturns, GenerationInv, LockInv, OneLiveGeneration
  <2> QED
    BY <2>1, <2>3, <2>4
<1>4. CASE SelectDone
  <2>1. CountInv'
    BY <1>4, KeepsCount DEF SelectDone, Pending
  <2> QED
    BY <1>4, <2>1 DEF SelectDone, TypeOK, GenerationInv, LockInv, OneLiveGeneration
<1>5. ASSUME NEW r \in Reloaders, Reload(r) PROVE IInv'
  <2>1. CountInv'
    BY <1>5, Begins DEF Reload
  <2>2. TypeOK'
    BY <1>5 DEF Reload, TypeOK
  <2>3. GenerationInv' /\ LockInv' /\ OneLiveGeneration'
    BY <1>5 DEF Reload, TypeOK, GenerationInv, LockInv, OneLiveGeneration
  <2> QED
    BY <2>1, <2>2, <2>3
<1>6. ASSUME NEW r \in Reloaders, ReconfigureLock(r), running PROVE IInv'
  <2>1. Pending' = Pending
    BY <1>6 DEF ReconfigureLock, Pending, TypeOK
  <2>2. CountInv'
    BY <1>6, <2>1, KeepsCount DEF ReconfigureLock
  <2>3. TypeOK'
    BY <1>6 DEF ReconfigureLock, TypeOK
  <2>4. GenerationInv' /\ OneLiveGeneration'
    BY <1>6 DEF ReconfigureLock, GenerationInv, OneLiveGeneration
  <2>5. LockInv'
    BY <1>6 DEF ReconfigureLock, TypeOK, LockInv, Reloaders
  <2> QED
    BY <2>2, <2>3, <2>4, <2>5
<1>7. ASSUME NEW r \in Reloaders, ReconfigureLock(r), ~ running PROVE IInv'
  <2>1. CountInv' /\ pool + 1 <= reloads
    BY <1>7, Installs DEF ReconfigureLock
  <2>2. TypeOK'
    BY <1>7, <2>1 DEF ReconfigureLock, TypeOK
  <2>3. GenerationInv' /\ OneLiveGeneration'
    BY <1>7 DEF ReconfigureLock, TypeOK, GenerationInv, OneLiveGeneration, Gens
  <2>4. LockInv'
    BY <1>7 DEF ReconfigureLock, TypeOK, LockInv
  <2> QED
    BY <2>1, <2>2, <2>3, <2>4
<1>8. ASSUME NEW r \in Reloaders, ReconfigureSend(r) PROVE IInv'
  <2>1. CountInv' /\ pool + 1 <= reloads
    BY <1>8, Installs DEF ReconfigureSend
  <2>2. current \in Gens
    BY <1>8 DEF ReconfigureSend, GenerationInv, TypeOK
  <2>3. TypeOK'
    BY <1>8, <2>1, <2>2 DEF ReconfigureSend, TypeOK
  <2>4. GenerationInv' /\ OneLiveGeneration'
    BY <1>8 DEF ReconfigureSend, TypeOK, GenerationInv, OneLiveGeneration, Gens
  <2>5. LockInv'
    BY <1>8 DEF ReconfigureSend, TypeOK, LockInv, Reloaders
  <2> QED
    BY <2>1, <2>3, <2>4, <2>5
<1>9. ASSUME Stop, Pending' = Pending, closed' = closed,
             \/ caller' = caller
             \/ caller[Sig] = "stop" /\ caller' = [caller EXCEPT ![Sig] = "returned"],
             group' \in {"running", "stop", "close", "wait", "exited"}
      PROVE  IInv'
  <2>1. CountInv'
    BY <1>9, KeepsCount DEF Stop
  <2>2. cancelled' \in SUBSET Gens /\ cancelled \subseteq cancelled'
    BY <1>9 DEF Stop, TypeOK, GenerationInv
  <2>3. running' \in BOOLEAN /\ stopped' \in BOOLEAN
    BY <1>9 DEF Stop
  <2>4. caller' \in [Reloaders -> {"idle", "lock", "send", "stop", "returned"}]
    BY <1>9 DEF TypeOK
  <2>5. TypeOK'
    BY <1>9, <2>2, <2>3, <2>4 DEF Stop, TypeOK
  <2>6. GenerationInv' /\ OneLiveGeneration'
    BY <1>9, <2>2 DEF Stop, GenerationInv, OneLiveGeneration
  <2>7. LockInv'
    BY <1>9, <1>0 DEF Stop, TypeOK, LockInv
  <2> QED
    BY <2>1, <2>5, <2>6, <2>7
<1>10. CASE StopOnInterrupt \/ GroupStop
  <2>1. Pending' = Pending
    BY <1>10, <1>0 DEF StopOnInterrupt, GroupStop, Pending, TypeOK
  <2>2. CASE StopOnInterrupt
    BY <1>9, <2>1, <2>2 DEF StopOnInterrupt, TypeOK
  <2>3. CASE GroupStop
    BY <1>9, <2>1, <2>3 DEF GroupStop
  <2> QED
    BY <1>10, <2>2, <2>3
<1>11. CASE ReloadFails \/ Interrupt \/ SigReturns
  <2>1. Pending' = Pending
    BY <1>11, <1>0 DEF ReloadFails, Interrupt, SigReturns, Pending, TypeOK
  <2>2. CountInv'
    BY <1>11, <2>1, KeepsCount DEF ReloadFails, Interrupt, SigReturns
  <2>3. TypeOK'
    BY <1>11, <1>0 DEF ReloadFails, Interrupt, SigReturns, TypeOK
  <2>4. GenerationInv' /\ OneLiveGeneration'
    BY <1>11 DEF ReloadFails, Interrupt, SigReturns, GenerationInv, OneLiveGeneration
  <2>5. LockInv'
    BY <1>11, <1>0 DEF ReloadFails, Interrupt, SigReturns, TypeOK, LockInv
  <2> QED
    BY <2>2, <2>3, <2>4, <2>5
<1>12. CASE ActorReturns \/ ServeFails \/ GroupClose \/ GroupExits \/ UNCHANGED vars
  <2>1. UNCHANGED <<lock, running, current, cancelled, alive, pool, spawned, pc, caller,
                    reloads, stopped>>
    BY <1>12 DEF ActorReturns, ServeFails, GroupClose, GroupExits, vars
  <2>2. CountInv'
    BY <2>1, KeepsCount DEF Pending
  <2>3. closed' \in BOOLEAN /\ group' \in {"running", "stop", "close", "wait", "exited"}
    BY <1>12 DEF ActorReturns, ServeFails, GroupClose, GroupExits, vars, TypeOK
  <2>4. TypeOK'
    BY <2>1, <2>3 DEF TypeOK
  <2>5. GenerationInv' /\ LockInv' /\ OneLiveGeneration'
    BY <2>1 DEF GenerationInv, LockInv, OneLiveGeneration
  <2> QED
    BY <2>2, <2>4, <2>5
<1> QED
  BY <1>1, <1>2, <1>3, <1>4, <1>5, <1>6, <1>7, <1>8, <1>10, <1>11, <1>12 DEF Next

LEMMA Initial == Init => IInv
<1> SUFFICES ASSUME Init PROVE IInv
  OBVIOUS
<1>1. Pending = {}
  BY DEF Init, Pending
<1>2. CountInv
  BY <1>1, FS_EmptySet DEF Init, CountInv
<1>3. TypeOK
  <2>1. alive \in [Gens -> 0..Workers] /\ 0 \in 0..MaxReloads
    BY BenchmarkAssumption DEF Init
  <2> QED
    BY <2>1 DEF Init, TypeOK
<1>4. LockInv
  BY BenchmarkAssumption DEF Init, LockInv, Reloaders
<1> QED
  BY <1>2, <1>3, <1>4 DEF Init, IInv, GenerationInv, OneLiveGeneration, Gens

\* The inductive invariant holds in every reachable state.
THEOREM Invariance == Spec => []IInv
BY Initial, Induction, PTL DEF Spec

\* Type correctness.
THEOREM TypeCorrect == Spec => []TypeOK
BY Invariance, PTL DEF IInv

\* Run never has workers of a generation it has replaced but those that are
\* told to stop.
THEOREM GenerationsReplaced == Spec => []OneLiveGeneration
BY Invariance, PTL DEF IInv

\* At most one Reconfigure at a time waits for Run with the lock held, and the
\* lock is held across steps by nobody else.
THEOREM OneSender == Spec => []LockInv
BY Invariance, PTL DEF IInv
=============================================================================
