-------------------------- MODULE ForwarderProofs --------------------------
(***************************************************************************)
(* Proofs about Forwarder, for any number of reloaders, readers, file      *)
(* versions and installed configurations.                                  *)
(*                                                                         *)
(* NoStaleSleep is about Run while it sleeps, but what makes it true       *)
(* happens before: a configuration that is installed after Run read the    *)
(* interval leaves a signal behind, and nobody but the sleeping Run takes  *)
(* signals away.  SignalInv extends the claim to the whole way from        *)
(* reading the interval to the sleep, and LockInv says that nothing is     *)
(* installed while a forward is under way.                                 *)
(***************************************************************************)
EXTENDS Forwarder, FiniteSetTheorems, TLAPS

LockInv ==
  /\ held <=> pc \in {"retrieve", "filter", "send"}
  /\ held => used = {gen} /\ applied = gen
  /\ ~ held => used = {}

SignalInv ==
  /\ signals <= gen
  /\ pc \in {"forward", "retrieve", "filter", "send", "select"} /\ wait \notin {gen, Retry}
       => signals > 0
  /\ pc = "select" /\ applied # gen => signals > 0

IInv == TypeOK /\ LockInv /\ SignalInv

LEMMA Initial == Init => IInv
<1> SUFFICES ASSUME Init PROVE IInv
  OBVIOUS
<1>1. 0 \in Versions /\ 0 \in Gens /\ 0 \in 0..MaxInstalls
  BY ForwarderAssumption DEF Versions, Gens
<1>2. TypeOK
  BY <1>1 DEF Init, TypeOK
<1>3. LockInv
  BY DEF Init, LockInv
<1>4. SignalInv
  BY DEF Init, SignalInv
<1> QED
  BY <1>2, <1>3, <1>4 DEF IInv

LEMMA Induction == IInv /\ [Next]_vars => IInv'
<1> SUFFICES ASSUME IInv, [Next]_vars PROVE IInv'
  OBVIOUS
<1> USE ForwarderAssumption DEF IInv
<1>1. CASE ReadInterval
  BY <1>1 DEF ReadInterval, others, config, TypeOK, LockInv, SignalInv
<1>2. CASE ForwardBegin
  BY <1>2 DEF ForwardBegin, others, config, TypeOK, LockInv, SignalInv
<1>3. CASE Retrieve
  BY <1>3 DEF Retrieve, ForwardEnd, others, config, TypeOK, LockInv, SignalInv
<1>4. CASE FilterFamilies
  BY <1>4 DEF FilterFamilies, ForwardEnd, others, config, TypeOK, LockInv, SignalInv
<1>5. CASE Send
  BY <1>5 DEF Send, ForwardEnd, others, config, TypeOK, LockInv, SignalInv
<1>6. CASE SelectDone
  BY <1>6 DEF SelectDone, others, config, TypeOK, LockInv, SignalInv
<1>7. CASE SelectTimer
  BY <1>7 DEF SelectTimer, others, config, TypeOK, LockInv, SignalInv
<1>8. CASE SelectReconfigure
  BY <1>8 DEF SelectReconfigure, others, config, TypeOK, LockInv, SignalInv, Gens
<1>9. CASE ChangeFiles \/ Cancel \/ HupReturns
  <2>1. TypeOK'
    <3>1. disk' \in Versions
      BY <1>9 DEF ChangeFiles, Cancel, HupReturns, TypeOK, Versions
    <3> QED
      BY <1>9, <3>1 DEF ChangeFiles, Cancel, HupReturns, run, config, TypeOK
  <2>2. LockInv'
    BY <1>9 DEF ChangeFiles, Cancel, HupReturns, run, config, LockInv
  <2>3. SignalInv'
    BY <1>9 DEF ChangeFiles, Cancel, HupReturns, run, config, SignalInv
  <2> QED
    BY <2>1, <2>2, <2>3
<1>10. ASSUME NEW r \in Reloaders, BuildConfig(r) \/ BuildFails(r) PROVE IInv'
  <2>1. TypeOK'
    BY <1>10 DEF BuildConfig, BuildFails, run, config, TypeOK
  <2>2. LockInv'
    BY <1>10 DEF BuildConfig, BuildFails, run, config, LockInv
  <2>3. SignalInv'
    BY <1>10 DEF BuildConfig, BuildFails, run, config, SignalInv
  <2> QED
    BY <2>1, <2>2, <2>3
<1>11. ASSUME NEW r \in Reloaders, Install(r) PROVE IInv'
  <2>1. TypeOK'
    BY <1>11 DEF Install, InstallFields, run, TypeOK, LockInv, SignalInv, Gens, Versions
  <2>2. LockInv'
    BY <1>11 DEF Install, InstallFields, run, TypeOK, LockInv
  <2>3. SignalInv'
    BY <1>11 DEF Install, InstallFields, run, TypeOK, SignalInv, Gens
  <2> QED
    BY <2>1, <2>2, <2>3
<1>12. ASSUME NEW r \in Readers, CallLastMetrics(r) \/ LastMetrics(r) PROVE IInv'
  <2>1. TypeOK'
    BY <1>12 DEF CallLastMetrics, LastMetrics, run, config, TypeOK
  <2>2. LockInv'
    BY <1>12 DEF CallLastMetrics, LastMetrics, run, config, LockInv
  <2>3. SignalInv'
    BY <1>12 DEF CallLastMetrics, LastMetrics, run, config, SignalInv
  <2> QED
    BY <2>1, <2>2, <2>3
<1>13. CASE UNCHANGED vars
  BY <1>13 DEF vars, TypeOK, LockInv, SignalInv
<1> QED
  BY <1>1, <1>2, <1>3, <1>4, <1>5, <1>6, <1>7, <1>8, <1>9, <1>10, <1>11, <1>12, <1>13
     DEF Next, Run

\* The inductive invariant holds in every reachable state.
THEOREM Invariance == Spec => []IInv
BY Initial, Induction, PTL DEF Spec

\* Type correctness of the Worker and of the actors that share it.
THEOREM TypeCorrect == Spec => []TypeOK
BY Invariance, PTL DEF IInv

\* A forward never mixes two configurations.
THEOREM ForwardWhole == Spec => []NoTornForward
<1>1. IInv => NoTornForward
  <2> SUFFICES ASSUME IInv PROVE Cardinality(used) <= 1
    BY DEF NoTornForward
  <2>1. used = {} \/ used = {gen}
    BY DEF IInv, LockInv, TypeOK
  <2>2. Cardinality({}) = 0 /\ Cardinality({gen}) = 1
    BY FS_EmptySet, FS_Singleton
  <2> QED
    BY <2>1, <2>2
<1> QED
  BY <1>1, Invariance, PTL

\* Run never sleeps on a replaced configuration without a signal to wake it.
THEOREM SleepIsWoken == Spec => []NoStaleSleep
<1>1. IInv => NoStaleSleep
  BY DEF IInv, SignalInv, NoStaleSleep
<1> QED
  BY <1>1, Invariance, PTL

-----------------------------------------------------------------------------
\* While reloads follow one another, there is at most one under way, and what it
\* has in its hands is at least as new as what is installed, and at most as new
\* as the files.
OrderInv ==
  ~ overlap =>
    /\ reloaded <= version /\ version <= disk
    /\ \A r \in Reloaders : rpc[r] = "built" => version <= built[r] /\ built[r] <= disk
    /\ \A q, r \in Reloaders : rpc[q] = "built" /\ rpc[r] = "built" => q = r

\* No reload is undone by an older one unless two of them overlap, whoever
\* reloads and however often: Reconfigure reads the files afresh each time.
THEOREM ReloadsInOrder == Spec => []ReloadNotUndone
<1> USE ForwarderAssumption
<1>1. Init => OrderInv
  BY DEF Init, OrderInv
<1>2. TypeOK /\ OrderInv /\ [Next]_vars => OrderInv'
  <2> SUFFICES ASSUME TypeOK, OrderInv, [Next]_vars PROVE OrderInv'
    OBVIOUS
  <2>1. CASE UNCHANGED <<disk, version, reloaded, rpc, built, overlap>>
    BY <2>1 DEF OrderInv
  <2>2. CASE ChangeFiles
    BY <2>2 DEF ChangeFiles, config, TypeOK, OrderInv, Versions
  <2>3. ASSUME NEW r \in Reloaders, BuildConfig(r) PROVE OrderInv'
    <3>1. CASE overlap'
      BY <3>1, Zenon DEF OrderInv
    <3>2. CASE ~ overlap'
      <4>1. ~ overlap /\ \A q \in Reloaders : rpc[q] # "built"
        BY <2>3, <3>2, Zenon DEF BuildConfig
      <4>2. reloaded <= version /\ version <= disk
        BY <4>1 DEF OrderInv
      <4>3. \A q \in Reloaders : rpc'[q] = "built" => q = r /\ built'[q] = disk
        BY <2>3, <4>1 DEF BuildConfig, TypeOK
      <4> QED
        BY <2>3, <4>2, <4>3 DEF BuildConfig, config, TypeOK, OrderInv, Versions
    <3> QED
      BY <3>1, <3>2
  <2>4. ASSUME NEW r \in Reloaders, Install(r) PROVE OrderInv'
    BY <2>4 DEF Install, InstallFields, TypeOK, OrderInv, Versions
  <2>5. ASSUME NEW r \in Reloaders, BuildFails(r) PROVE OrderInv'
    BY <2>5 DEF BuildFails, config, TypeOK, OrderInv
  <2>6. CASE HupReturns
    BY <2>6 DEF HupReturns, config, TypeOK, OrderInv
  <2> QED
    BY <2>1, <2>2, <2>3, <2>4, <2>5, <2>6 DEF Next, Run, vars, ReadInterval, ForwardBegin,
       Retrieve, FilterFamilies, Send, SelectDone, SelectTimer, SelectReconfigure,
       others, config, Cancel, CallLastMetrics, LastMetrics
<1>3. TypeOK /\ OrderInv => ReloadNotUndone
  BY DEF TypeOK, OrderInv, ReloadNotUndone, Versions
<1> QED
  BY <1>1, <1>2, <1>3, TypeCorrect, PTL DEF Spec
=============================================================================
