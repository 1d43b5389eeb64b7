----------------------------- MODULE Benchmark -----------------------------
(***************************************************************************)
(* The load generator (pkg/benchmark/benchmark.go) and the run group of    *)
(* cmd/telemeter-benchmark/main.go that drives it.                         *)
(*                                                                         *)
(* Run starts a generation of workers under one context and sleeps until   *)
(* they are all done or until Reconfigure tells it to start the next       *)
(* generation.  Reconfigure sends that message on an unbuffered channel    *)
(* while it holds the lock, and Run needs the lock before it can sleep.    *)
(* Stop cancels the context of the generation it finds.                    *)
(*                                                                         *)
(* A worker forwards in a loop until its context is cancelled; what it     *)
(* forwards is left out.                                                   *)
(***************************************************************************)
EXTENDS Integers, FiniteSets

CONSTANTS
  Sig,          \* the actor that handles SIGHUP and SIGINT
  Requests,     \* handlers of POST /-/reload; none without --listen
  NoOne,        \* the lock is free
  Workers,      \* Config.Workers
  MaxReloads,   \* bound on the Reconfigures
  SignalEarly   \* SIGINT may arrive before Run has started its workers

ASSUME BenchmarkAssumption ==
  /\ Sig \notin Requests
  /\ NoOne \notin Requests \cup {Sig}
  /\ Workers \in Nat
  /\ MaxReloads \in Nat
  /\ SignalEarly \in BOOLEAN

VARIABLES
  lock,       \* who holds b.lock across a step
  running,    \* b.running
  current,    \* the generation b.cancel cancels; 0: none yet
  cancelled,  \* the generations whose context is cancelled
  alive,      \* per generation: its workers that have not returned
  pool,       \* number of the configuration that b.workers is from
  spawned,    \* the configuration the current generation was started from
  pc,         \* where Run is
  caller,     \* per goroutine that reloads or stops: where it is
  reloads,    \* Reconfigures begun
  group,      \* where the run group is
  closed,     \* the signal actor's cancel channel is closed
  stopped     \* history: a Stop has cancelled the workers while Run slept

vars == <<lock, running, current, cancelled, alive, pool, spawned, pc, caller,
          reloads, group, closed, stopped>>

Reloaders == Requests \cup {Sig}
Gens      == 1..(MaxReloads + 1)

\* Type correctness.
TypeOK ==
  /\ lock \in Reloaders \cup {NoOne}
  /\ running \in BOOLEAN /\ closed \in BOOLEAN /\ stopped \in BOOLEAN
  /\ current \in Gens \cup {0}
  /\ cancelled \in SUBSET Gens
  /\ alive \in [Gens -> 0..Workers]
  /\ pool \in 0..MaxReloads /\ spawned \in 0..MaxReloads /\ reloads \in 0..MaxReloads
  /\ pc \in {"start", "spawn", "select", "returned"}
  /\ caller \in [Reloaders -> {"idle", "lock", "send", "stop", "returned"}]
  /\ group \in {"running", "stop", "close", "wait", "exited"}

Init ==
  /\ lock = NoOne
  /\ running = FALSE /\ closed = FALSE /\ stopped = FALSE
  /\ current = 0
  /\ cancelled = {}
  /\ alive = [g \in Gens |-> 0]
  /\ pool = 0 /\ spawned = 0 /\ reloads = 0
  /\ pc = "start"
  /\ caller = [r \in Reloaders |-> "idle"]
  /\ group = "running"

-----------------------------------------------------------------------------
(* Run and its workers. *)

\* Run returns at once if the benchmark is running already.
RunStart ==
  /\ pc = "start"
  /\ lock = NoOne
  /\ pc' = IF running THEN "returned" ELSE "spawn"
  /\ UNCHANGED <<lock, running, current, cancelled, alive, pool, spawned, caller,
                 reloads, group, closed, stopped>>

\* Mutant of Spawn: the workers of the first configuration are started again.
SpawnStale ==
  /\ pc = "spawn"
  /\ lock = NoOne
  /\ current' = current + 1
  /\ running' = TRUE
  /\ alive' = [alive EXCEPT ![current + 1] = Workers]
  /\ pc' = "select"
  /\ UNCHANGED <<lock, cancelled, pool, spawned, caller, reloads, group, closed, stopped>>

\* Under the lock: a new context, and a goroutine for each of b.workers.
Spawn ==
  /\ pc = "spawn"
  /\ lock = NoOne
  /\ current' = current + 1
  /\ running' = TRUE
  /\ alive' = [alive EXCEPT ![current + 1] = Workers]
  /\ spawned' = pool
  /\ pc' = "select"
  /\ UNCHANGED <<lock, cancelled, pool, caller, reloads, group, closed, stopped>>

\* A worker of a cancelled generation returns.
WorkerReturns(g) ==
  /\ g \in cancelled
  /\ alive[g] > 0
  /\ alive' = [alive EXCEPT ![g] = @ - 1]
  /\ UNCHANGED <<lock, running, current, cancelled, pool, spawned, pc, caller,
                 reloads, group, closed, stopped>>

\* All workers of this generation are done: Run returns, and leaves running as
\* it is.
SelectDone ==
  /\ pc = "select"
  /\ alive[current] = 0
  /\ pc' = "returned"
  /\ UNCHANGED <<lock, running, current, cancelled, alive, pool, spawned, caller,
                 reloads, group, closed, stopped>>

-----------------------------------------------------------------------------
(* Reconfigure and Stop. *)

\* A SIGHUP or a POST: New builds the workers, then Reconfigure queues for the
\* lock.
Reload(r) ==
  /\ caller[r] = "idle"
  /\ group # "exited"
  /\ reloads < MaxReloads
  /\ reloads' = reloads + 1
  /\ caller' = [caller EXCEPT ![r] = "lock"]
  /\ UNCHANGED <<lock, running, current, cancelled, alive, pool, spawned, pc,
                 group, closed, stopped>>

\* New fails: the signal actor returns the error.  (The HTTP handler answers
\* 500, and nothing changes.)
ReloadFails ==
  /\ caller[Sig] = "idle"
  /\ caller' = [caller EXCEPT ![Sig] = "returned"]
  /\ UNCHANGED <<lock, running, current, cancelled, alive, pool, spawned, pc,
                 reloads, group, closed, stopped>>

\* Reconfigure takes the lock.  With nothing running it just replaces the
\* workers; else it has to reach Run first, and keeps the lock meanwhile.
ReconfigureLock(r) ==
  /\ caller[r] = "lock"
  /\ lock = NoOne
  /\ IF running
       THEN /\ lock' = r
            /\ caller' = [caller EXCEPT ![r] = "send"]
            /\ UNCHANGED pool
       ELSE /\ pool' = pool + 1
            /\ caller' = [caller EXCEPT ![r] = "idle"]
            /\ UNCHANGED lock
  /\ UNCHANGED <<running, current, cancelled, alive, spawned, pc, reloads, group,
                 closed, stopped>>

\* Mutant of ReconfigureSend: the old generation is not cancelled.
ReconfigureSendOnly(r) ==
  /\ caller[r] = "send"
  /\ pc = "select"
  /\ pc' = "spawn"
  /\ pool' = pool + 1
  /\ lock' = NoOne
  /\ caller' = [caller EXCEPT ![r] = "idle"]
  /\ UNCHANGED <<running, current, cancelled, alive, spawned, reloads, group, closed,
                 stopped>>

\* Run receives the message; Reconfigure cancels the old generation, replaces
\* the workers and returns.
ReconfigureSend(r) ==
  /\ caller[r] = "send"
  /\ pc = "select"
  /\ pc' = "spawn"
  /\ cancelled' = cancelled \cup {current}
  /\ pool' = pool + 1
  /\ lock' = NoOne
  /\ caller' = [caller EXCEPT ![r] = "idle"]
  /\ UNCHANGED <<running, current, alive, spawned, reloads, group, closed, stopped>>

\* SIGINT: the signal actor calls Stop and returns.
Interrupt ==
  /\ caller[Sig] = "idle"
  /\ SignalEarly \/ current > 0
  /\ caller' = [caller EXCEPT ![Sig] = "stop"]
  /\ UNCHANGED <<lock, running, current, cancelled, alive, pool, spawned, pc,
                 reloads, group, closed, stopped>>

\* Mutant of Stop: running is not reset.
StopRunning ==
  /\ lock = NoOne
  /\ cancelled' = IF running THEN cancelled \cup {current} ELSE cancelled
  /\ stopped' = (stopped \/ (running /\ pc = "select"))
  /\ UNCHANGED <<lock, running, current, alive, pool, spawned, pc, reloads>>

\* Mutant of Stop: the context is not cancelled.
StopNoCancel ==
  /\ lock = NoOne
  /\ running' = FALSE
  /\ stopped' = (stopped \/ (running /\ pc = "select"))
  /\ UNCHANGED <<lock, current, cancelled, alive, pool, spawned, pc, reloads>>

\* The body of Stop.
Stop ==
  /\ lock = NoOne
  /\ running' = FALSE
  /\ cancelled' = IF running THEN cancelled \cup {current} ELSE cancelled
  /\ stopped' = (stopped \/ (running /\ pc = "select"))
  /\ UNCHANGED <<lock, current, alive, pool, spawned, pc, reloads>>

StopOnInterrupt ==
  /\ caller[Sig] = "stop"
  /\ Stop
  /\ caller' = [caller EXCEPT ![Sig] = "returned"]
  /\ UNCHANGED <<group, closed>>

-----------------------------------------------------------------------------
(* The run group: when the first actor returns it interrupts them all, in   *)
(* the order they were added, and waits until all have returned.            *)

ActorReturns ==
  /\ group = "running"
  /\ pc = "returned" \/ caller[Sig] = "returned"
  /\ group' = "stop"
  /\ UNCHANGED <<lock, running, current, cancelled, alive, pool, spawned, pc,
                 caller, reloads, closed, stopped>>

\* The third actor, the HTTP server, fails.  It is there only with --listen.
ServeFails ==
  /\ Requests # {}
  /\ group = "running"
  /\ group' = "stop"
  /\ UNCHANGED <<lock, running, current, cancelled, alive, pool, spawned, pc,
                 caller, reloads, closed, stopped>>

GroupStop ==
  /\ group = "stop"
  /\ Stop
  /\ group' = "close"
  /\ UNCHANGED <<caller, closed>>

GroupClose ==
  /\ group = "close"
  /\ closed' = TRUE
  /\ group' = "wait"
  /\ UNCHANGED <<lock, running, current, cancelled, alive, pool, spawned, pc,
                 caller, reloads, stopped>>

\* The signal actor's select sees the closed channel; a signal that is there
\* as well may be taken first.
SigReturns ==
  /\ caller[Sig] = "idle"
  /\ closed
  /\ caller' = [caller EXCEPT ![Sig] = "returned"]
  /\ UNCHANGED <<lock, running, current, cancelled, alive, pool, spawned, pc,
                 reloads, group, closed, stopped>>

GroupExits ==
  /\ group = "wait"
  /\ pc = "returned"
  /\ caller[Sig] = "returned"
  /\ group' = "exited"
  /\ UNCHANGED <<lock, running, current, cancelled, alive, pool, spawned, pc,
                 caller, reloads, closed, stopped>>

Next ==
  \/ RunStart \/ Spawn \/ SelectDone
  \/ \E g \in Gens : WorkerReturns(g)
  \/ \E r \in Reloaders : Reload(r) \/ ReconfigureLock(r) \/ ReconfigureSend(r)
  \/ ReloadFails \/ Interrupt \/ StopOnInterrupt
  \/ ActorReturns \/ ServeFails \/ GroupStop \/ GroupClose \/ SigReturns \/ GroupExits

Spec == Init /\ [][Next]_vars

(***************************************************************************)
(* Fairness.  Whoever queues for the mutex gets it if it keeps being       *)
(* released; every other step needs only the processor.  Signals and       *)
(* requests need not come, nor need the HTTP server fail.                  *)
(***************************************************************************)
Fairness ==
  /\ SF_vars(RunStart) /\ SF_vars(Spawn) /\ WF_vars(SelectDone)
  /\ \A g \in Gens : WF_vars(WorkerReturns(g))
  /\ \A r \in Reloaders : SF_vars(ReconfigureLock(r)) /\ WF_vars(ReconfigureSend(r))
  /\ SF_vars(StopOnInterrupt) /\ SF_vars(GroupStop)
  /\ WF_vars(ActorReturns) /\ WF_vars(GroupClose)
  /\ WF_vars(SigReturns) /\ WF_vars(GroupExits)

FairSpec == Spec /\ Fairness

-----------------------------------------------------------------------------
(* Properties. *)

\* A generation that has been replaced is cancelled before its successor is
\* started: two generations never load the server together for good.
OneLiveGeneration ==
  \A g \in Gens : g # current /\ alive[g] > 0 => g \in cancelled

\* Reconfigure returns: the message it sends with the lock held is received.
ReloadReturns ==
  \A r \in Reloaders : caller[r] \in {"lock", "send"} ~> caller[r] \in {"idle", "returned"}

\* A Stop that finds Run asleep over its workers ends Run, reloads or not.
StopHolds == stopped ~> pc = "returned"

\* Workers that Reconfigure installed in a running benchmark get started, unless
\* it is stopped.
ReconfigureTakesEffect ==
  \A v \in 0..MaxReloads : (pool >= v /\ running) ~> (spawned >= v \/ ~ running)
=============================================================================
