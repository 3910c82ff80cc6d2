----------------------- MODULE BackgroundPersistence -----------------------
(***************************************************************************)
(* The bounded current-user writer of background_persistence.rs: the       *)
(* runtime (one client: submit, flush and drop borrow the object           *)
(* exclusively) queues operations, one thread runs them on the storage     *)
(* coordinator it owns, and both share a mutex and a condition variable.   *)
(* The coordinator is used inline for the loads at startup, then handed to *)
(* the thread.                                                             *)
(*                                                                         *)
(* The queue is the set of its jobs; a job's place in it is its            *)
(* generation, which submit increments for every job.                      *)
(***************************************************************************)
EXTENDS StorageCoordinator, Naturals, FiniteSets

CONSTANTS Capacity,        \* QUEUE_CAPACITY
          MaxSubmits       \* bound of the model: jobs submitted

ASSUME BoundsAssumption == Capacity \in Nat \ {0} /\ MaxSubmits \in Nat

VARIABLES mode,            \* startup steps, then "background" or "failed"
          st,              \* the coordinator and the files
          jobs, generation, rejected, failedWrites, active, health, closed, completed,
          waiters,         \* threads waiting on the condition variable
          worker,          \* where the writer thread is
          client,          \* where the runtime is
          flushed,         \* what the last flush returned
          wanted,          \* history: what the runtime last asked each file to hold
          submitted        \* history: files the runtime queued a job for

queueVars == <<jobs, generation, rejected, failedWrites, active, health, closed, completed>>
threadVars == <<waiters, worker, client, flushed>>
vars == <<mode, st, queueVars, threadVars, wanted, submitted>>

NoJob == [gen |-> 0, kind |-> "none", component |-> "None", val |-> Absent]
Job ==
  [gen : Nat \ {0}, kind : {"write"}, component : File, val : Values]
    \cup [gen : Nat \ {0}, kind : {"remove"}, component : {"WarmCache"}, val : {Absent}]
    \cup [gen : Nat \ {0}, kind : {"diagnostic"}, component : {"Diagnostics"}, val : {Absent}]
    \cup [gen : Nat \ {0}, kind : {"retry", "migration"}, component : {"None"}, val : {Absent}]

Coalescible(j) == j.kind = "write" /\ j.component = "WarmCache"

TypeOK ==
  /\ mode \in {"warn", "loadSettings", "writeDefaults", "legacyMigration", "loadWarmCache", "start",
               "background", "failed"}
  /\ st \in Storage
  /\ jobs \subseteq Job
  /\ generation \in Nat
  /\ rejected \in [Component -> Nat]
  /\ failedWrites \subseteq Component
  /\ active \in Job \cup {NoJob}
  /\ health \in Health
  /\ closed \in BOOLEAN /\ completed \in BOOLEAN
  /\ waiters \subseteq {"worker", "client"}
  /\ worker \in {"lock", "running", "ran", "panicked", "exited"}
  /\ client \in {"idle", "flush", "dropped"}
  /\ flushed \in {"none", "ok", "error", "timeout"}
  /\ wanted \in [File -> Contents]
  /\ submitted \subseteq File

\* Any files may be there from earlier runs.
Init ==
  /\ mode = "warn"
  /\ \E disk \in [File -> Contents],
        co \in {NewCoordinator(check) : check \in RootCheck} \cup {UnavailableCoordinator} :
       st = [co |-> co, disk |-> disk, settled |-> [f \in File |-> TRUE]]
  /\ wanted = st.disk
  /\ submitted = {}
  /\ jobs = {} /\ generation = 0 /\ active = NoJob
  /\ rejected = [c \in Component |-> 0]
  /\ failedWrites = {}
  /\ health = st.co.health
  /\ closed = FALSE /\ completed = FALSE
  /\ waiters = {} /\ worker = "lock" /\ client = "idle" /\ flushed = "none"

-----------------------------------------------------------------------------
(* Startup, inline: from_base_dir_with_persistence_and_provenance           *)

\* push_startup_warning: a warning is appended to the diagnostics, too.
Warn(s, d) == RecordDiagnostic(s, FALSE, d)
WarnUnless(ok, s, d) == IF ok THEN s ELSE Warn(s, d)

\* A process that is elevated, or may be, warns first.
PrivilegeWarning(d) ==
  /\ mode = "warn" /\ mode' = "loadSettings"
  /\ st' \in {st, Warn(st, d)}
  /\ UNCHANGED <<queueVars, threadVars, wanted, submitted>>

\* The stored settings are current, or of an older schema and migrated to v.
\* A migration is reported, and so is the failure to report it, unless that
\* is the failure of the root that was already reported.
LoadSettings(a, d, e) ==
  /\ mode = "loadSettings"
  /\ \/ /\ st' = WarnUnless(Succeeds(st, a), LoadJson(st, "Settings", a), d)
        /\ UNCHANGED wanted
        /\ mode' = IF Succeeds(st, a) /\ st.disk["Settings"] = Absent
                   THEN "writeDefaults" ELSE "legacyMigration"
     \/ /\ st.disk["Settings"] # Absent
        /\ \E v \in Values :
             LET s == WriteJson(st, "Settings", v, a)
             IN /\ st' \in {Warn(s, d)} \cup {WarnUnless(~Succeeds(st, a) \/ Succeeds(s, d), Warn(s, d), e)}
                /\ wanted' = [wanted EXCEPT !["Settings"] = v]
        /\ mode' = "legacyMigration"
  /\ UNCHANGED <<queueVars, threadVars, submitted>>

WriteDefaults(a, d) ==
  /\ mode = "writeDefaults" /\ mode' = "legacyMigration"
  /\ \E v \in Values :
       /\ st' = WarnUnless(Succeeds(st, a), WriteJson(st, "Settings", v, a), d)
       /\ wanted' = [wanted EXCEPT !["Settings"] = v]
  /\ UNCHANGED <<queueVars, threadVars, submitted>>

\* run_legacy_helper_migration, on Windows: nothing to do, put off, or tried
\* once the root is verified for it.
VerifyRoot(s, check) == [s EXCEPT !.co = RevalidateRoot(s.co, "Settings", check)]
LegacyMigration(check, d) ==
  /\ mode = "legacyMigration" /\ mode' = "loadWarmCache"
  /\ LET s == VerifyRoot(st, check)
     IN \/ st' \in {st, Warn(st, d), Warn(s, d)}
        \/ RootUsable(st.co, check) /\ st' = s
  /\ UNCHANGED <<queueVars, threadVars, wanted, submitted>>

LoadWarmCache(a, d) ==
  /\ mode = "loadWarmCache" /\ mode' = "start"
  /\ st' = WarnUnless(Succeeds(st, a), LoadJson(st, "WarmCache", a), d)
  /\ UNCHANGED <<queueVars, threadVars, wanted, submitted>>

\* start: the coordinator moves into the writer thread.
Start ==
  /\ mode = "start"
  /\ mode' = "background"
  /\ health' = st.co.health
  /\ UNCHANGED <<st, jobs, generation, rejected, failedWrites, active, closed, completed,
                 threadVars, wanted, submitted>>

\* The thread could not be spawned: start's error ends the construction of
\* the runtime.
StartFails == mode = "start" /\ mode' = "failed" /\ UNCHANGED <<st, queueVars, threadVars, wanted, submitted>>

-----------------------------------------------------------------------------
(* The runtime                                                              *)

NotifyAll == waiters' = {}
NotifyOne == IF waiters = {} THEN UNCHANGED waiters
             ELSE \E t \in waiters : waiters' = waiters \ {t}

Reject(c) ==
  /\ rejected' = IF c = "None" THEN rejected ELSE [rejected EXCEPT ![c] = generation + 1]
  /\ UNCHANGED waiters

MergedOnArrival(j) == IF Coalescible(j) THEN {k \in jobs : ~Coalescible(k)} ELSE jobs

Stamped(j) == [j EXCEPT !.gen = generation + 1]

SubmitMeasuringFirst(j) ==
  LET kept == MergedOnArrival(j)
  IN /\ generation' = generation + 1
     /\ \/ closed /\ jobs' = jobs /\ Reject(j.component)
        \/ ~closed /\ Cardinality(jobs) >= Capacity /\ jobs' = kept /\ Reject(j.component)
        \/ /\ ~closed /\ Cardinality(jobs) < Capacity
           /\ jobs' = kept \cup {Stamped(j)}
           /\ NotifyOne
           /\ UNCHANGED rejected
     /\ UNCHANGED <<failedWrites, active, health, closed, completed>>

\* submit: a queued warm-cache write gives way to a newer one before the
\* queue is measured.
Submit(j) ==
  LET kept == MergedOnArrival(j)
  IN /\ generation' = generation + 1
     /\ \/ closed /\ jobs' = jobs /\ Reject(j.component)
        \/ ~closed /\ Cardinality(kept) >= Capacity /\ jobs' = kept /\ Reject(j.component)
        \/ /\ ~closed /\ Cardinality(kept) < Capacity
           /\ jobs' = kept \cup {Stamped(j)}
           /\ NotifyOne
           /\ UNCHANGED rejected
     /\ UNCHANGED <<failedWrites, active, health, closed, completed>>

ClientCall ==
  /\ mode = "background"
  /\ client = "idle"
  /\ generation < MaxSubmits
  /\ flushed' = "none"
  /\ UNCHANGED <<mode, st, worker, client>>

NewJob(kind, c, v) == [gen |-> 0, kind |-> kind, component |-> c, val |-> v]

SubmitWrite(f, v) ==
  /\ ClientCall
  /\ Submit(NewJob("write", f, v))
  /\ wanted' = [wanted EXCEPT ![f] = v]
  /\ submitted' = submitted \cup {f}

\* Only the warm cache is ever purged.
SubmitRemove ==
  /\ ClientCall
  /\ Submit(NewJob("remove", "WarmCache", Absent))
  /\ wanted' = [wanted EXCEPT !["WarmCache"] = Absent]
  /\ submitted' = submitted \cup {"WarmCache"}

SubmitDiagnostic ==
  /\ ClientCall
  /\ Submit(NewJob("diagnostic", "Diagnostics", Absent))
  /\ UNCHANGED <<wanted, submitted>>

\* retry_diagnostics and, on Windows, the legacy-helper migration
SubmitUnattributed(kind) ==
  /\ ClientCall
  /\ Submit(NewJob(kind, "None", Absent))
  /\ UNCHANGED <<wanted, submitted>>

BeginFlush ==
  /\ mode = "background"
  /\ client = "idle"
  /\ client' = "flush"
  /\ flushed' = "none"
  /\ UNCHANGED <<mode, st, queueVars, waiters, worker, wanted, submitted>>

Quiescent == jobs = {} /\ active = NoJob

FlushIgnoringFailures ==
  /\ client = "flush" /\ "client" \notin waiters
  /\ IF Quiescent
     THEN /\ client' = "idle"
          /\ flushed' = IF closed \/ \E c \in Component : rejected[c] # 0 THEN "error" ELSE "ok"
          /\ UNCHANGED waiters
     ELSE /\ waiters' = waiters \cup {"client"}
          /\ UNCHANGED <<client, flushed>>
  /\ UNCHANGED <<mode, st, queueVars, worker, wanted, submitted>>

\* flush holds the lock: wait again, or report.
Flush ==
  /\ client = "flush" /\ "client" \notin waiters
  /\ IF Quiescent
     THEN /\ client' = "idle"
          /\ flushed' = IF closed \/ failedWrites # {} \/ \E c \in Component : rejected[c] # 0
                        THEN "error" ELSE "ok"
          /\ UNCHANGED waiters
     ELSE /\ waiters' = waiters \cup {"client"}
          /\ UNCHANGED <<client, flushed>>
  /\ UNCHANGED <<mode, st, queueVars, worker, wanted, submitted>>

FlushTimeout ==
  /\ client = "flush" /\ ~Quiescent
  /\ client' = "idle"
  /\ flushed' = "timeout"
  /\ waiters' = waiters \ {"client"}
  /\ UNCHANGED <<mode, st, queueVars, worker, wanted, submitted>>

\* Drop for BackgroundPersistence: the thread is asked to drain and is left
\* to itself.
Drop ==
  /\ mode = "background"
  /\ client = "idle"
  /\ client' = "dropped"
  /\ closed' = TRUE
  /\ NotifyOne
  /\ UNCHANGED <<mode, st, jobs, generation, rejected, failedWrites, active, health, completed,
                 worker, flushed, wanted, submitted>>

-----------------------------------------------------------------------------
(* The writer thread                                                        *)

WorkerLocks == mode = "background" /\ worker = "lock" /\ "worker" \notin waiters

WorkerWait ==
  /\ WorkerLocks
  /\ jobs = {} /\ ~closed
  /\ waiters' = waiters \cup {"worker"}
  /\ UNCHANGED <<mode, st, queueVars, worker, client, flushed, wanted, submitted>>

Oldest(j) == \A k \in jobs : j.gen <= k.gen

\* pop_front
Take(j) ==
  /\ WorkerLocks
  /\ Oldest(j)
  /\ jobs' = jobs \ {j}
  /\ active' = j
  /\ worker' = "running"
  /\ UNCHANGED <<mode, st, generation, rejected, failedWrites, health, closed, completed,
                 waiters, client, flushed, wanted, submitted>>

WorkerExit ==
  /\ WorkerLocks
  /\ jobs = {} /\ closed
  /\ completed' = TRUE
  /\ worker' = "exited"
  /\ NotifyAll
  /\ UNCHANGED <<mode, st, jobs, generation, rejected, failedWrites, active, health, closed,
                 client, flushed, wanted, submitted>>

\* A settings write that succeeds retries the breaker and appends the
\* "settings persisted" diagnostic, whose answers are d.
WriteSettings(v, a, d) ==
  LET w == WriteJson(st, "Settings", v, a)
  IN IF Succeeds(st, a) THEN RecordDiagnostic(RetryDiagnostics(w), FALSE, d) ELSE w

\* What the operation of a job can do to the storage.
Effects(j) ==
  CASE j.kind = "write" /\ j.component = "Settings" ->
         {WriteSettings(j.val, a, d) : a, d \in Answers}
    [] j.kind = "write" /\ j.component = "WarmCache" ->
         {WriteJson(st, "WarmCache", j.val, a) : a \in Answers}
    [] j.kind = "remove" -> {Remove(st, "WarmCache", a) : a \in Answers}
    [] j.kind = "diagnostic" ->
         {RecordDiagnostic(st, oversized, a) : oversized \in BOOLEAN, a \in Answers}
    [] j.kind = "retry" -> {RetryDiagnostics(st)}
    [] j.kind = "migration" ->
         {st} \cup {VerifyRoot(st, check) : check \in RootCheck}

\* The operation runs outside the lock.
Run ==
  /\ worker = "running"
  /\ st' \in Effects(active)
  /\ worker' = "ran"
  /\ UNCHANGED <<mode, queueVars, waiters, client, flushed, wanted, submitted>>

\* It panics, before or after its effect.
Panic ==
  /\ worker = "running"
  /\ st' \in {st} \cup Effects(active)
  /\ worker' = "panicked"
  /\ UNCHANGED <<mode, queueVars, waiters, client, flushed, wanted, submitted>>

HealthyNow(c) == st.co.health[c].state = "Healthy"

PublishForgivingRejections ==
  /\ worker = "ran"
  /\ health' = st.co.health
  /\ active' = NoJob
  /\ failedWrites' = IF active.component = "None" THEN failedWrites
                     ELSE IF HealthyNow(active.component) THEN failedWrites \ {active.component}
                     ELSE failedWrites \cup {active.component}
  /\ rejected' = [c \in Component |->
                    IF c = active.component /\ HealthyNow(c) THEN 0 ELSE rejected[c]]
  /\ worker' = "lock"
  /\ NotifyAll
  /\ UNCHANGED <<mode, st, jobs, generation, closed, completed, client, flushed, wanted, submitted>>

PublishQuietly ==
  /\ worker = "ran"
  /\ health' = st.co.health
  /\ active' = NoJob
  /\ failedWrites' = IF active.component = "None" THEN failedWrites
                     ELSE IF HealthyNow(active.component) THEN failedWrites \ {active.component}
                     ELSE failedWrites \cup {active.component}
  /\ rejected' = [c \in Component |->
                    IF c = active.component /\ rejected[c] < active.gen /\ HealthyNow(c)
                    THEN 0 ELSE rejected[c]]
  /\ worker' = "lock"
  /\ UNCHANGED <<mode, st, jobs, generation, closed, completed, waiters, client, flushed,
                 wanted, submitted>>

\* The end of the loop body, under the lock: a rejection older than the job
\* is forgiven once its component is healthy.
Publish ==
  /\ worker = "ran"
  /\ health' = st.co.health
  /\ active' = NoJob
  /\ failedWrites' = IF active.component = "None" THEN failedWrites
                     ELSE IF HealthyNow(active.component) THEN failedWrites \ {active.component}
                     ELSE failedWrites \cup {active.component}
  /\ rejected' = [c \in Component |->
                    IF c = active.component /\ rejected[c] < active.gen /\ HealthyNow(c)
                    THEN 0 ELSE rejected[c]]
  /\ worker' = "lock"
  /\ NotifyAll
  /\ UNCHANGED <<mode, st, jobs, generation, closed, completed, client, flushed, wanted, submitted>>

\* The panic branch: everything queued is dropped and every component is
\* marked as rejected, for good.
PublishPanic ==
  /\ worker = "panicked"
  /\ health' = st.co.health
  /\ active' = NoJob
  /\ closed' = TRUE /\ completed' = TRUE
  /\ rejected' = [c \in Component |-> generation]
  /\ jobs' = {}
  /\ worker' = "exited"
  /\ NotifyAll
  /\ UNCHANGED <<mode, st, generation, failedWrites, client, flushed, wanted, submitted>>

\* Condition variables may wake without being notified.
SpuriousWakeup(t) ==
  /\ t \in waiters
  /\ waiters' = waiters \ {t}
  /\ UNCHANGED <<mode, st, queueVars, worker, client, flushed, wanted, submitted>>

WorkerStep ==
  \/ WorkerWait
  \/ \E j \in jobs : Take(j)
  \/ WorkerExit
  \/ Run
  \/ Publish
  \/ PublishPanic

Next ==
  \/ \E d \in Answers :
       \/ PrivilegeWarning(d)
       \/ \E a \in Answers : (\E e \in Answers : LoadSettings(a, d, e)) \/ WriteDefaults(a, d)
                              \/ LoadWarmCache(a, d)
       \/ \E check \in RootCheck : LegacyMigration(check, d)
  \/ Start \/ StartFails
  \/ \E f \in File, v \in Values : SubmitWrite(f, v)
  \/ SubmitRemove
  \/ SubmitDiagnostic
  \/ \E kind \in {"retry", "migration"} : SubmitUnattributed(kind)
  \/ BeginFlush \/ Flush \/ FlushTimeout
  \/ Drop
  \/ WorkerStep
  \/ Panic
  \/ \E t \in waiters : SpuriousWakeup(t)

Spec == Init /\ [][Next]_vars

-----------------------------------------------------------------------------
Pending(c) == active.component = c \/ \E j \in jobs : j.component = c

\* BackgroundPersistence::health
ReportedDurability(c) ==
  IF Pending(c) \/ rejected[c] # 0 THEN "SessionOnly" ELSE health[c].durability

\* The health the user sees never claims too much: a file reported durable
\* holds, durably, what the runtime last asked for, and one reported healthy
\* without a file is absent or as it was loaded, whatever was queued, merged,
\* rejected, failed or dropped in between.
HealthIsTruthful ==
  mode = "background" => \A f \in File : Vouches(ReportedDurability(f), st, f, wanted[f])

\* A flush that returned Ok, as at shutdown, means every write and purge the
\* runtime asked for reached the files in the order it asked.
FlushIsTruthful ==
  flushed = "ok" => \A f \in submitted : st.disk[f] = wanted[f]

\* A full queue turns the new job away; it never costs a job already accepted
\* (the merge of warm-cache writes makes room before the queue is measured).
RejectionKeepsAccepted ==
  [][\A c \in Component : rejected'[c] = generation + 1 => jobs' = jobs]_vars

\* An open breaker is visible: diagnostics are not reported healthy while
\* events are being dropped, not even after a root failure came and went.
BreakerIsVisible == BreakerInv(st.co)

\* No wakeup is lost, though writer and flush share one condition variable and
\* submit and drop notify only one of them: the writer sleeps only while there
\* is nothing for it to do, a flush only while there is.
NoWakeupIsLost ==
  /\ "worker" \in waiters => Quiescent /\ ~closed
  /\ "client" \in waiters => ~Quiescent

-----------------------------------------------------------------------------
(* The inductive invariant.  What the coordinator would say of a file that   *)
(* nobody is waiting for is the truth; of a file with pending jobs, the last *)
(* of them carries what is wanted, unless a later request was turned away.   *)

Idle(f) == ~Pending(f) /\ rejected[f] = 0

QueueInv ==
  /\ \A j, k \in jobs : j.gen = k.gen => j = k
  /\ \A j \in jobs : active.gen < j.gen /\ j.gen <= generation
  /\ active.gen <= generation
  /\ \A c \in Component : rejected[c] <= generation
  /\ worker \in {"running", "ran", "panicked"} <=> active # NoJob
  /\ mode # "background" => Quiescent /\ generation = 0 /\ submitted = {} /\ worker = "lock"

PendingInv ==
  \A f \in File : \A j \in jobs \cup {active} :
    /\ j.component = f
    /\ rejected[f] < j.gen
    /\ \A k \in jobs : k.component = f => k.gen <= j.gen
    => j.val = wanted[f]

StorageInv ==
  \A f \in File :
    /\ Idle(f) => /\ Vouches(Unmasked(st.co, f).durability, st, f, wanted[f])
                  /\ mode = "background" => Vouches(health[f].durability, st, f, wanted[f])
                  /\ f \in submitted \ failedWrites => st.disk[f] = wanted[f]
    /\ active.component = f /\ worker = "ran" =>
         Vouches(Unmasked(st.co, f).durability, st, f, active.val)

StartupInv ==
  /\ mode \in {"warn", "loadSettings"} =>
       st.disk["Settings"] = wanted["Settings"] /\ st.settled["Settings"]
  /\ mode \notin {"start", "background", "failed"} =>
       st.disk["WarmCache"] = wanted["WarmCache"] /\ st.settled["WarmCache"]

FlushInv ==
  flushed = "ok" => /\ Quiescent
                    /\ failedWrites = {}
                    /\ \A c \in Component : rejected[c] = 0

PersistenceInv ==
  /\ TypeOK
  /\ CoordinatorInv(st.co)
  /\ BreakerInv(st.co)
  /\ QueueInv
  /\ PendingInv
  /\ StorageInv
  /\ StartupInv
  /\ FlushInv
=============================================================================
