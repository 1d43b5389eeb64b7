----------------------------- MODULE Forwarder -----------------------------
(***************************************************************************)
(* The Worker of telemeter-client (pkg/forwarder/forwarder.go) and the     *)
(* actors that share it (cmd/telemeter-client/main.go): the Run loop,      *)
(* reloads by SIGHUP and by POST /-/reload, and readers of /federate.      *)
(*                                                                         *)
(* One mutex guards every field of the Worker.  forward holds it across    *)
(* two network calls; Run drops it between reading the interval and        *)
(* calling forward.  Reconfigure installs a new configuration under the    *)
(* mutex and leaves a goroutine behind that wants to send on the           *)
(* unbuffered channel w.reconfigure, which Run receives from only while it *)
(* sleeps.                                                                 *)
(*                                                                         *)
(* A configuration is what New built: it carries the version of the files  *)
(* (rules, tokens, salt) New read, and is numbered in the order in which   *)
(* configurations are installed.                                           *)
(***************************************************************************)
EXTENDS Integers, FiniteSets

CONSTANTS
  Reloaders,    \* goroutines that call Reconfigure
  Hup,          \* the actor that reloads on SIGHUP: an error ends the client
  Readers,      \* goroutines that serve /federate
  MaxVersion,   \* bound on the changes of the files on disk
  MaxInstalls   \* bound on the configurations installed

ASSUME ForwarderAssumption ==
  /\ Hup \in Reloaders
  /\ MaxVersion \in Nat
  /\ MaxInstalls \in Nat

VARIABLES
  disk,        \* version of the files New reads
  gen,         \* number of the configuration the Worker's fields come from
  version,     \* version of the files it was built from
  held,        \* forward holds w.lock
  pc,          \* where Run is
  wait,        \* local of Run: the configuration its interval is from, or Retry
  used,        \* configurations whose fields the current forward has read
  applied,     \* the configuration the latest forward ran under
  last,        \* the configuration w.lastMetrics was filtered by
  signals,     \* goroutines blocked sending on w.reconfigure
  cancelled,   \* the context of Run
  rpc,         \* per reloader: where its Reconfigure is
  built,       \* per reloader: the version New read for it
  reader,      \* per reader: it has called LastMetrics
  reloaded,    \* history: newest version a successful Reconfigure has read
  overlap      \* history: two Reconfigures were under way at once

vars == <<disk, gen, version, held, pc, wait, used, applied, last, signals,
          cancelled, rpc, built, reader, reloaded, overlap>>

run    == <<held, pc, wait, used, applied, last>>    \* what Run changes
config == <<gen, version, reloaded>>                 \* what Reconfigure changes
others == <<disk, config, cancelled, rpc, built, reader, overlap>>    \* what Run reads at most

Versions == 0..MaxVersion
Gens     == 0..MaxInstalls
Retry    == -1      \* wait is one minute, whatever the configuration says
Nothing  == -1      \* w.lastMetrics is nil

\* Type correctness.
TypeOK ==
  /\ disk \in Versions /\ version \in Versions /\ reloaded \in Versions
  /\ gen \in Gens
  /\ held \in BOOLEAN /\ cancelled \in BOOLEAN /\ overlap \in BOOLEAN
  /\ pc \in {"top", "forward", "retrieve", "filter", "send", "select", "exited"}
  /\ wait \in Gens \cup {Retry}
  /\ used \in SUBSET Gens
  /\ applied \in Gens
  /\ last \in Gens \cup {Nothing}
  /\ signals \in 0..MaxInstalls
  /\ rpc \in [Reloaders -> {"idle", "built", "returned"}]
  /\ built \in [Reloaders -> Versions]
  /\ reader \in [Readers -> BOOLEAN]

Init ==
  /\ disk = 0 /\ version = 0 /\ reloaded = 0
  /\ gen = 0
  /\ held = FALSE /\ cancelled = FALSE /\ overlap = FALSE
  /\ pc = "top"
  /\ wait = 0
  /\ used = {}
  /\ applied = 0
  /\ last = Nothing
  /\ signals = 0
  /\ rpc = [r \in Reloaders |-> "idle"]
  /\ built = [r \in Reloaders |-> 0]
  /\ reader = [r \in Readers |-> FALSE]

-----------------------------------------------------------------------------
(* Run and forward. *)

\* Run reads the interval in a critical section of its own.
ReadInterval ==
  /\ pc = "top"
  /\ ~ held
  /\ wait' = gen
  /\ pc' = "forward"
  /\ UNCHANGED <<held, used, applied, last, signals, others>>

\* Mutant of ForwardBegin: forward does not keep the lock.
ForwardBeginUnlocked ==
  /\ pc = "forward"
  /\ ~ held
  /\ used' = {gen}
  /\ applied' = gen
  /\ pc' = "retrieve"
  /\ UNCHANGED <<held, wait, last, signals, others>>

\* forward takes the lock and builds the request from w.from and w.rules.
ForwardBegin ==
  /\ pc = "forward"
  /\ ~ held
  /\ held' = TRUE
  /\ used' = {gen}
  /\ applied' = gen
  /\ pc' = "retrieve"
  /\ UNCHANGED <<wait, last, signals, others>>

\* Mutant of ForwardEnd: an error path without the unlock.
ForwardEndLocked(err) ==
  /\ held' = err
  /\ used' = {}
  /\ wait' = IF err THEN Retry ELSE wait
  /\ pc' = "select"

\* forward returns and drops the lock; on error Run waits for a minute.
ForwardEnd(err) ==
  /\ held' = FALSE
  /\ used' = {}
  /\ wait' = IF err THEN Retry ELSE wait
  /\ pc' = "select"

\* w.fromClient.Retrieve: an error, or families to give to w.transformer.
Retrieve ==
  /\ pc = "retrieve"
  /\ \/ ForwardEnd(TRUE)
     \/ /\ ~ cancelled
        /\ used' = used \cup {gen}
        /\ pc' = "filter"
        /\ UNCHANGED <<held, wait>>
  /\ UNCHANGED <<applied, last, signals, others>>

\* metricfamily.Filter, whose label transformer may ask the server for labels
\* and fail; otherwise w.lastMetrics is set, before anything is sent.  With no
\* family left, or no upload URL, there is nothing to send.
FilterFamilies ==
  /\ pc = "filter"
  /\ \/ ForwardEnd(TRUE) /\ UNCHANGED last
     \/ /\ last' = gen
        /\ \/ ForwardEnd(FALSE)
           \/ /\ pc' = "send"
              /\ used' = used \cup {gen}
              /\ UNCHANGED <<held, wait>>
  /\ UNCHANGED <<applied, signals, others>>

\* w.toClient.Send to w.to; under a cancelled context it fails.
Send ==
  /\ pc = "send"
  /\ \E err \in BOOLEAN : (cancelled => err) /\ ForwardEnd(err)
  /\ UNCHANGED <<applied, last, signals, others>>

\* Mutant of SelectDone: the case breaks out of the select only.
SelectDoneBreaks ==
  /\ pc = "select"
  /\ cancelled
  /\ pc' = "top"
  /\ UNCHANGED <<held, wait, used, applied, last, signals, others>>

\* The three cases of Run's select.
SelectDone ==
  /\ pc = "select"
  /\ cancelled
  /\ pc' = "exited"
  /\ UNCHANGED <<held, wait, used, applied, last, signals, others>>

SelectTimer ==
  /\ pc = "select"
  /\ pc' = "top"
  /\ UNCHANGED <<held, wait, used, applied, last, signals, others>>

\* Mutant of SelectReconfigure: Run proceeds without a sender.
SelectReconfigureAny ==
  /\ pc = "select"
  /\ signals' = signals - 1
  /\ pc' = "top"
  /\ UNCHANGED <<held, wait, used, applied, last, others>>

SelectReconfigure ==
  /\ pc = "select"
  /\ signals > 0
  /\ signals' = signals - 1
  /\ pc' = "top"
  /\ UNCHANGED <<held, wait, used, applied, last, others>>

Run ==
  \/ ReadInterval \/ ForwardBegin \/ Retrieve \/ FilterFamilies \/ Send
  \/ SelectDone \/ SelectTimer \/ SelectReconfigure

-----------------------------------------------------------------------------
(* Reconfigure and LastMetrics. *)

\* The configuration files change.
ChangeFiles ==
  /\ disk < MaxVersion
  /\ disk' = disk + 1
  /\ UNCHANGED <<config, run, signals, cancelled, rpc, built, reader, overlap>>

\* Reconfigure builds a configuration before it takes the lock.
BuildConfig(r) ==
  /\ rpc[r] = "idle"
  /\ gen + Cardinality({q \in Reloaders : rpc[q] = "built"}) < MaxInstalls
  /\ rpc' = [rpc EXCEPT ![r] = "built"]
  /\ built' = [built EXCEPT ![r] = disk]
  /\ overlap' = (overlap \/ \E q \in Reloaders : rpc[q] = "built")
  /\ UNCHANGED <<disk, config, run, signals, cancelled, reader>>

\* New fails.  The HTTP handler answers 500 and nothing changes; the SIGHUP
\* actor returns the error, whereupon the run group interrupts every actor.
BuildFails(r) ==
  /\ rpc[r] = "idle"
  /\ rpc' = IF r = Hup THEN [rpc EXCEPT ![r] = "returned"] ELSE rpc
  /\ UNCHANGED <<disk, config, run, signals, cancelled, built, reader, overlap>>

\* The SIGHUP actor is interrupted.  (Until its select picks that case, it may
\* still take a SIGHUP.)
HupReturns ==
  /\ cancelled
  /\ rpc[Hup] = "idle"
  /\ rpc' = [rpc EXCEPT ![Hup] = "returned"]
  /\ UNCHANGED <<disk, config, run, signals, cancelled, built, reader, overlap>>

\* Reconfigure under the lock: the new configuration's number and bookkeeping.
InstallFields(r) ==
  /\ rpc[r] = "built"
  /\ ~ held
  /\ gen < MaxInstalls
  /\ gen' = gen + 1
  /\ reloaded' = IF built[r] > reloaded THEN built[r] ELSE reloaded
  /\ rpc' = [rpc EXCEPT ![r] = "idle"]
  /\ built' = [built EXCEPT ![r] = 0]
  /\ UNCHANGED <<disk, run, cancelled, reader, overlap>>

\* Mutant of Install: a signal that finds nobody waiting is dropped.
InstallLossy(r) ==
  /\ InstallFields(r)
  /\ version' = built[r]
  /\ signals' = IF pc = "select" THEN signals + 1 ELSE signals

\* Mutant of Install: no signal.
InstallSilent(r) ==
  /\ InstallFields(r)
  /\ version' = built[r]
  /\ UNCHANGED signals

\* Mutant of Install: the configuration is kept while a signal is pending.
InstallCoalesced(r) ==
  /\ InstallFields(r)
  /\ version' = IF signals > 0 THEN version ELSE built[r]
  /\ signals' = signals + 1

\* Reconfigure replaces every field and leaves the signal to a goroutine.
Install(r) ==
  /\ InstallFields(r)
  /\ version' = built[r]
  /\ signals' = signals + 1

\* A reader calls LastMetrics and gets w.lastMetrics once the lock is free.
CallLastMetrics(r) ==
  /\ ~ reader[r]
  /\ reader' = [reader EXCEPT ![r] = TRUE]
  /\ UNCHANGED <<disk, config, run, signals, cancelled, rpc, built, overlap>>

LastMetrics(r) ==
  /\ reader[r]
  /\ ~ held
  /\ reader' = [reader EXCEPT ![r] = FALSE]
  /\ UNCHANGED <<disk, config, run, signals, cancelled, rpc, built, overlap>>

\* The run group interrupts its actors, and with them Run's context: because
\* the SIGHUP actor has returned, or the HTTP server, which may happen any time.
Cancel ==
  /\ ~ cancelled
  /\ cancelled' = TRUE
  /\ UNCHANGED <<disk, config, run, signals, rpc, built, reader, overlap>>

Next ==
  \/ Run
  \/ ChangeFiles \/ Cancel \/ HupReturns
  \/ \E r \in Reloaders : BuildConfig(r) \/ BuildFails(r) \/ Install(r)
  \/ \E r \in Readers : CallLastMetrics(r) \/ LastMetrics(r)

Spec == Init /\ [][Next]_vars

(***************************************************************************)
(* Fairness.  sync.Mutex does not starve a waiter; Retrieve and Send end   *)
(* by the timeout of their context; select picks uniformly among the cases *)
(* that are ready, so a context that stays cancelled is noticed; the run   *)
(* group does interrupt the others when an actor has returned.  Nothing is *)
(* assumed of the timer: an interval may be as long as it likes.           *)
(***************************************************************************)
Fairness ==
  /\ SF_vars(ReadInterval)
  /\ SF_vars(ForwardBegin)
  /\ WF_vars(Retrieve \/ FilterFamilies \/ Send)
  /\ WF_vars(SelectReconfigure)
  /\ SF_vars(SelectDone)
  /\ WF_vars(Cancel /\ rpc[Hup] = "returned")
  /\ \A r \in Reloaders : SF_vars(Install(r))
  /\ \A r \in Readers : SF_vars(LastMetrics(r))

FairSpec == Spec /\ Fairness

-----------------------------------------------------------------------------
(* Properties. *)

\* A forward reads the source, the transformer and the destination of one
\* configuration, although it lets go of the processor for two network calls.
NoTornForward == Cardinality(used) <= 1

\* Run never goes to sleep on an old configuration unnoticed: if its interval,
\* or the forward it just made, is from a configuration that has been replaced,
\* a signal is waiting that will end the sleep at once.
NoStaleSleep ==
  pc = "select" /\ (wait \notin {gen, Retry} \/ applied # gen) => signals > 0

\* As long as reloads, by whomever, follow one another, none is undone: once a
\* Reconfigure has returned, the Worker's configuration is not built from files
\* older than those it read.  (Two that overlap may install in the opposite
\* order of building.)
ReloadNotUndone == ~ overlap => version >= reloaded

\* An installed configuration is put to use by a forward, however long the
\* interval is, unless the client is shut down.
ConfigApplied == \A g \in Gens : gen >= g ~> (applied >= g \/ cancelled)

\* Shutdown: once the context is cancelled, or a SIGHUP met files that New
\* rejects, Run returns, signals or not.
RunExits == (cancelled \/ rpc[Hup] = "returned") ~> pc = "exited"

\* Reconfigure and LastMetrics return, though forward holds the lock for as
\* long as two network calls take.
CallsReturn ==
  /\ \A r \in Reloaders : rpc[r] = "built" ~> rpc[r] # "built"
  /\ \A r \in Readers : reader[r] ~> ~ reader[r]
=============================================================================
