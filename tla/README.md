# BatCave Monitor: a TLA+ development

BatCave Monitor is a Tauri desktop application: a Rust runtime samples the
machine, keeps settings and a warm cache in the user's directory, and serves
snapshots to a Svelte frontend; on Windows an optional service collects
per-process network activity through an ETW session.  This directory holds
TLA+ models of its concurrent and crash-sensitive core, the TLC configurations
that check them, and TLAPS proofs of the properties that matter most.

Paths below are relative to `src/src/BatCave.App/src-tauri/src/`; `PROJECT.json`
maps every definition to its lines.

## Inventory

| part | state | operations | what is hard |
|---|---|---|---|
| atomic replacement (`atomic_json.rs`, `persistence.rs`) | a file, temporary files, what a power loss would leave | replace, remove | crash or power loss between two steps; the directory sync failing after the rename |
| storage coordinator (`persistence.rs`) | health of settings, warm cache, diagnostics; root failure; breaker | load, migrate, write, remove, record diagnostic, retry | the root failing and recovering between calls; what was believed before is stale after |
| background writer (`background_persistence.rs`) | queue, rejected and failed components, published health | submit, run, flush, drop | one condition variable for two threads, full queue, panic of the writer |
| collector engine (`collector_engine.rs`) | refresh gate, control channel, schedule, publication | refresh, pause, resume, set interval, shutdown | callers sharing generations, channel full, panic, shutdown at any time |
| runtime engine (`runtime_store.rs`) | second refresh gate, control channel, store, published snapshot | refresh, pause, resume, set, shutdown | two threads and two channels; notifications lost; a pause racing a publication |
| runtime store (`runtime_store.rs`) | settings, durable query, warm cache policy, warnings, source of the last sample | settings mutations, samples, service status, shutdown | unreadable settings, restricted rows in the cache, a killed session, a retried migration |
| ETW lease (`collector_service/etw_lease.rs`, `windows_service.rs`, `windows_network.rs`) | lease file, owner lock, session | start, recover, stop | crash at any step, someone else's session |
| collector session (`collector_service/client.rs`, `host.rs`, `session_lease.rs`) | connection, request identifiers, cached sample, approvals | connect, latest sample, renew, fall back | limits of the server, answers of an old connection, a service that restarts |
| listener and transport (`collector_service/windows_transport.rs`, `windows_client.rs`, `listener_lifecycle.rs`) | listening pipe, one thread per client | accept, serve, reap, stop | clients that give up, every thread busy |
| provisioner and upgrade (`collector_service/windows_provisioner.rs`, `windows_upgrade.rs`) | service registration, programs, rollback copy, journal | prepare, commit, install, uninstall | a kill, a restart or a failure between any two steps |
| App Paths and Start entry (`windows_provisioner.rs`, `windows_shortcut_retirement.rs`) | registry key, staged entry, entry, receipt | ensure, inspect, remove | a kill between two of them: is what is found one's own? |
| telemetry, ranking, grouping, narratives | per-sample calculations | | numeric edges |
| frontend controls (`App.svelte`, `lib/tauriBridge.ts`, `lib/runtimePolling.ts`, ...) | controls set ahead of the answer, queue of changes, poll timer, localStorage | set, poll, refresh, hydrate, save | answers out of order, late changes, missed window events, a kill before the settings are stored |
| frontend update life cycle, views | dialog and presentation | | |

The parts interact through calls and channels: the frontend calls `RuntimeState`;
`RuntimeState` sends to the engine thread (bounded channel, or the refresh
gate); the engine thread owns the store and calls the collector engine through a
second bounded channel and a second gate; the collector thread publishes and
notifies the engine through the engine's own channel; the store hands writes to
the background writer, which owns the storage coordinator, which replaces files.

## Modules

* `DurableCell` is the abstract specification of a file: a value that a power
  loss may set back to one of the values not yet settled.
* `AtomicReplace` is the replacement protocol, one action per system call and
  per failure path, with `ProcessCrash` and `PowerLoss`; it implements
  `DurableCell` (`Cell == INSTANCE DurableCell WITH ...`; the run checks the
  abstract specification as a property and TLAPS proves the step simulation).
  `WriteThrough` selects the Windows or the Unix replacer.
* `StorageCoordinator` has no variables: its operators map a storage state and
  the answers of the file system to the next one, as `&mut self` methods do.
* `BackgroundPersistence` owns a coordinator: the startup loads, run inline,
  then the queue, the writer thread, flush and drop.  A step is what happens
  under one lock, or one operation outside of it.
* `CollectorEngine` is the collector thread with its gate, channel and callers.
* `RuntimeEngine` is the engine thread with its own gate, channel and callers,
  composed with the collector as the engine meets it (a server that answers in
  order and publishes) and with the notifier between them.
* `EtwLease` is the service process on Windows from `service_main` to its end:
  the lifecycle and the owner lock, recovery, the lease file, the ETW session and
  the monitor that holds it.  `pc` is the place in `run_service_body`; a step is
  one call that reads or changes something outside the process.  `Crash`,
  `Reboot` (which may undo a removal, `survivors`), `Upgrade`, `ExternalStart` and
  `ExternalStop` are the environment.
* `RuntimeStore` is one desktop session after another on the same two files:
  startup from them, settings and their write policy, samples of the local
  collector and of instances of the service, the warm cache, the retried
  migration, shutdown and kill.  The background writer is there by its contract.
* `CollectorSession` is one desktop and the service it samples from: opening,
  verifying and negotiating a connection, asking, renewing, retrying and falling
  back on one side; the listening pipe, the bounded threads and the limits of a
  connection on the other.  The service publishes samples, samples the contract
  does not allow (`invalid`) and failures.  Other desktops are a number of busy
  threads.
* `UpgradeTransaction` is an installer or uninstaller run after another: the
  hooks, the recovery controller's `prepare-upgrade-staged` and
  `commit-upgrade-staged`, `install`, `uninstall` and `uninstall-staged`, with
  the journal, the rollback copy, the launch entries and the service manager's view.
* `DesktopControls` is the window: the controls, the queue that sends their
  changes one by one, the polling loop with its watchdog, hydration from the
  first snapshot and the copy of the preferences in localStorage.  The runtime
  starts from any stored settings (`Installations`), also with a cadence the page
  does not offer (`Offered`), and is there by what its handle promises: changes
  in order, late after a time-out, and settings reported durable only when they are
  (`HealthIsTruthful`).  Theme and history length are two halves of the
  preferences: the user chooses one (`chosen`), the page saves both, and
  `slighted` remembers a half it saved without having seen it.
* `FileContents` is what `AtomicReplace` and `StorageCoordinator` call the content of
  a file.
* `MC...` modules instantiate these for TLC; `...Proofs` modules hold the
  lemmas and theorems.

An operator with the name of another and a suffix (`PublishQuietly` next to
`Publish`) is that operation with a plausible bug; `PROJECT.json` pairs each with
the property that notices it.

### What is abstracted

Time is a nondeterministic moment: a deadline falls due, a time-out happens, a
channel wait ends.  File contents, snapshots and samples are values or counters;
a collection is identified by the count of collections begun.  Error texts are
left out; whether a call failed is not.  `root_failure_reported_to_diagnostics`
only decides between two kinds of reporting and is left out.

In `EtwLease` a process stands for a process identifier with its creation time;
`Reused` is the observation of a younger process under the identifier.  `Corrupt`
stands for every lease that all services refuse: too large, not parsed, another
schema or installation, malformed.  A session handle names the session it was
given for and no later one, as ETW handles do, so the query and the stop of
`stop_session_if_exact` are one step.  The move that installs a lease is written
through on Windows; its removal is not (`sync_parent` does nothing there).  The
installer replaces the program only while no service holds the lifecycle lock.

In `RuntimeStore` the eviction of warnings beyond `MAX_WARNINGS` is left out, the
two reads of health in `clear_persistence_warnings` are one, and normalising
settings keeps their value.  In `CollectorSession` frames are whole messages and
time is ticks.  In `UpgradeTransaction` a program is its digest, and checks of
access, path and digest are outcomes of the step they guard.  Whether the alias of
the staged image is written is left open (`PrepareAlias`): the code skips it when
the registry has no installed version or the one being installed.  The pending
states of the service manager are left out.  A service that stays in
`START_PENDING` is one that does not start; that the settling of the rollback then
times out as well (`windows_provisioner.rs:7171`, `7210`) is a fault of its own
here.  A stop that `SettleCandidate` makes itself ends well or is a fault; the exit
codes of earlier releases that the code accepts (`7246`) are not told apart.  In
`DesktopControls` a query is its text and its focus (the sort order behaves as
the focus does), both sides are of one release, and a machine that is busy at
hydration counts as one of the bounded changes.

## Runs

| run | instance | properties |
|---|---|---|
| `atomic` | two writers, two contents, the Unix replacer | `ImplementsCell`: the protocol is a durable cell; `ResultIsTruthful`: a result never claims too much |
| `background` | root that fails and recovers, queue of 1, 2 jobs | `HealthIsTruthful`, `FlushIsTruthful`, `BreakerIsVisible`, `NoWakeupIsLost`, `RejectionKeepsAccepted` |
| `collector` | 2 callers, 2 calls, channel of 1, a deadline, fair | `RefreshIsFresh`, `ResultIsThere`, `EveryWaiterIsServed`, `RefreshReturns`, `ThreadEnds` |
| `runtime_safety` | 2 callers, 2 calls, channel of 1, a deadline, a failing collector call | `RefreshIsFresh`, `AnswerIsNew`, `EveryWaiterIsServed`, `PausedHolds` |
| `runtime_liveness` | 1 caller, 1 call, 2 deadlines, a failing call, fair | `Follows` |
| `etw` | 3 processes, 3 boots, 2 generations, 3 disturbances, fair | `SessionIsLeased`, `LiveSessionIsSpared`, `ForeignSessionIsSpared`, `RefusedLeaseIsKept`, `RecoversAtOnce` |
| `upgrade` | an installed program and 3 to install, of which one does not come up, 4 attempts, 5 faults | `ImageIsNotLost`, `CleanAttemptSucceeds`, `RejectedIsRolledBack`, `SuccessIsComplete` |
| `upgrade_broken_image` | an installed program that does not come up, no fault | expects a violation of `BrokenImageIsReplaced` |
| `upgrade_unproved` | 2 programs, 2 attempts, 3 faults | expects a violation of `AcceptedIsProved` |
| `store` | 2 service instances, standard and elevated, queue of 1 per file, 1 fault per session, any number of sessions | `UnreadSettingsAreSafe`, `PrivilegedRowsAreNotStored`, `RatesHaveOneSource`, `OnlyUserQueriesAreStored`, `ShutdownIsTruthful` |
| `session` | 2 service threads, 4 requests per connection, renewal after 3, 2 instances, 2 publications (sample, invalid, unavailable or fatal), 3 faults, fair | `OnlyInvalidIsIncompatible`, `LimitsAreForeseen`, `RevokedStaysRevoked`, `SamplesAreCurrent`, `RestartsAreNoticed`, `ServiceIsUsed` |
| `desktop` | 2 installations, 2 texts, 2 of 3 cadences offered, 2 themes, 2 history lengths, queue of 2, 2 acts of the user, 1 fault, fair | `ControlsAgree`, `PreferencesAreKept`, `ControlsSettle` |

### Bounds

A channel of capacity 1 is full as soon as anything is in it, so every
full-channel path is taken with few messages; 32 in the code only needs more of
them.  Two callers of two refreshes each are one under way, one that has joined
the next generation and one that finds it started or failed: the cases the gate
tells apart.  A second job finds the queue of one empty, full, or full of a
warm-cache write it merges with.

Of three service processes one may be recorded in the lease, one linger after
its service returned and one start; identities are used again once nothing
remembers them, so the number of starts has no bound.  Three boots are the current
one, that of the lease and that of a lease a power loss may bring back.
`MaxDisturbances` counts failing calls, crashes, restarts, stop requests and
outsiders' acts together.

Before the first attempt the product is absent or installed, with its launch
entries or (an earlier version) without.  Two of the programs to install come up
and are interchangeable (the run uses that symmetry): a journal may be of one's
installer while the other's runs.  An upgrade that is killed, resumed by another
program's installer and rolled back takes three attempts; the fourth must find its
way past what they left.
In the session run the limits of the service keep their order (renewal before the
limit, idle renewal plus two time-outs within the idle limit, `LimitsAssumption`),
which is what the code relies on; their size is irrelevant to it.  In the desktop
run two acts of the user meet the automatic changes of hydration (the focus, the
preferences), which is what fills the queue of two; one fault is a failed call, a
time-out, a failed poll, a missed window event or a kill.  The two installations are
one whose stored query, pause and cadence are not the defaults, whose cadence is
not offered and which has no stored preferences, and one with default settings and
a history length the user chose.  An installation with one half of the
preferences in localStorage only is covered by the theorem alone.

The theorems hold for every value of these bounds.

### Fairness

Weak fairness of a thread's steps: the operating system runs threads that can
run, and a mutex held for a few instructions is released.  In `EtwLease` that is
a process of the service once it is started; the service manager starts it at
boot and does not restart it, so `StartService` has no fairness.  In
`CollectorSession` it is the collecting thread, its retry delay, the listener and
the threads of the service: nobody need leave, publish or restart.  In
`DesktopControls` timers fire, calls return and the runtime works off its channel;
the user need do nothing and no window event need come.  Nothing is assumed of
time-outs, deadlines, panics, spurious wakeups or failures.  The liveness
properties say that callers return without the help of their time-outs.  The
store, upgrade and background runs have no temporal property beyond safety: of
the writer and the flusher `NoWakeupIsLost` says that whoever waits on the
condition variable has nothing to do, so a thread with work can take a step.

## What the checks show

The properties of the passing runs hold.  Two runs show a disagreement between
the code and its documents:

* `upgrade_broken_image`: `prepare_upgrade_staged_image` starts the installed
  program before anything else and fails when it does not come up, so an
  installed program that is broken cannot be replaced by a new installer;
  `docs/windows-collector-service-host.md:66` says the recovery controller does
  not require the failing old image to restart.
* `upgrade_unproved`: `rollback_upgrade` changes the phase in memory before the
  journal is written.  When that write fails, the verb goes on as if prepared while
  the journal on disk says `Verified`, and the candidate written next is accepted
  without having been validated, against `docs/releases.md:58`.

Observations from writing the others down:

* `EveryWaiterIsServed` of `RuntimeEngine` has an exception,
  `FailureOverwritten`.  `fail_refresh_generation` (`runtime_store.rs:988`) keeps
  one failed generation.  If generation 2 fails with a full channel while
  generation 1 is under way, and generation 1 then fails in the engine
  (`runtime_store.rs:633`) before a caller that joined generation 2 has woken,
  the failure of 2 is overwritten with that of 1; that caller waits for the next
  refresh or for its 30 s time-out.  The collector's own gate, which does not
  count a failed generation as started, has no such case.
* A generation that fails also fails the callers of an earlier one that is
  still under way; they get an error although their result is coming.
* `EtwLease` starts by itself from every lease of its own generation and from a
  stopping lease of another whose session is gone (`Recoverable`).  It holds off
  for good with an intent or active lease of another generation, a damaged lease
  or a foreign session: `RefusedLeaseIsKept` says it never helps itself, which is
  what `docs/windows-collector-service-host.md` asks for.
* The lifecycle lock and the owner lock are held over the same steps, and either
  alone would serialize the services; what neither covers is the collector thread
  of a service that gave up waiting for it.  There the recorded controller,
  which is still alive, is what protects its session.

* `CleanAttemptSucceeds` excepts what `InstallObstacle` and `UninstallObstacle`
  list.  Three kills are among them: between creating the service and its marker or
  directories, between creating the App Paths key and writing its value, and between
  staging the Start entry and completing its receipt.  After each, every later
  verb, `uninstall` too, fails in its preflight until somebody removes the remnant
  by hand.  For the Start entry this is intended (`docs/releases.md:48`: ambiguous
  interrupted state is preserved and reported), and the test
  `owned_start_unrecorded_stage_is_reported_and_preserved` says so.  A kill at any
  other point of staging, publishing and removing it is mended by the next run.

* One of those obstacles came to light in the proof of `CleanAttempts`.  When the
  journal write that ends a rollback fails, the verb goes on from the phase in memory,
  and `retire_upgrade_artifacts` may remove the rollback copy while the journal still
  names the candidate.  Every later installer then fails although nothing disturbs
  it: the candidate's own because the copy is missing, another one's because it finds a
  journal to roll back (`windows_provisioner.rs:2910`).  Only the uninstaller mends
  that.  It takes two sound programs besides the installed one, which the run's
  instance has now.

* While every thread of the service is busy with other desktops, each renewal
  waits for its time-out and the session goes on until it meets the limit of its
  connection.  `LimitsAreForeseen` therefore says that a session which meets a
  limit had tried to renew, and `ServiceIsUsed` speaks of a service with a thread
  to spare.
* A desktop and a service of one release do reach the status `Incompatible`.  A
  sample that `snapshot_from_publication` refuses (`host.rs:115`, `306-347`: more than
  5000 processes, a count that does not match, an invalid value; an answer whose
  frame would be too large likewise) is answered with the code `Malformed` or
  `Oversized`, as the tests at `host.rs:563-610` expect, and `response_outcome`
  (`client.rs:320`) maps both to `Incompatible`.  `OnlyInvalidIsIncompatible`
  says that this is the only way there.
* `RejectedIsRolledBack` speaks of a candidate that fails to start, not of one that
  stays in `START_PENDING`: the rollback waits for that one to run and fails too
  (`windows_provisioner.rs:7171`), which leaves the restoration to the next run.
* A persistence warning shown in a privileged session stays until the user
  changes a setting: such sessions write nothing by themselves.
* `ControlsAgree` excepts a control whose change failed, timed out or found the
  queue full, and a query changed before the first snapshot.  Polls bring cadence
  and pause back in line (`ControlsSettle`), but hydrate the query only once.  A
  query that timed out and is carried out late, or one set in the first
  moments and overtaken by hydration, leaves the query controls at odds with the
  runtime until the next change.  A snapshot read before a superseded change was
  answered may also turn the cadence back until the next poll, because answers to
  superseded changes are observed but not shown.  A stored cadence that the page does
  not offer (the runtime takes any of 500 to 5000 ms, `runtime_store.rs:4461`) is
  not shown at all.
* `PreferencesAreKept` has an exception, `slighted`.  Before the first snapshot the
  page shows the default history length (`App.svelte:235`).  A theme chosen in that
  window is saved with it, in localStorage and through the runtime
  (`App.svelte:1154`, `1187`), and hydration prefers what is in localStorage
  (`App.svelte:1546-1554`): a history length the user chose in an earlier session
  is lost.  The same happens to the theme when the length is chosen first.

The `atomic`, `session` and `desktop` runs check deadlock.  The others say
`CHECK_DEADLOCK FALSE`: these systems may stop.  Threads end after a shutdown, an
idle system waits for a caller, and a service waits for its stop request, all of
which the bounds on calls and disturbances limit.  That nobody waits in vain is what
the liveness properties, `NoWakeupIsLost` and `EveryWaiterIsServed` say.

## Proofs

TLAPS proves, for every number of callers, writers, jobs, values and every
capacity:

* `PersistenceProofs`: `ReplaceInv` is inductive (a writer's temporary file
  holds its bytes durably before the rename; what may survive a power loss is
  the visible content and what is not yet settled); from it `ResultIsTruthful`,
  and that every step of the protocol is a step or a stutter of `DurableCell`.
  Lemmas say of every coordinator operation that it is confined to its component, or
  loses the belief in others, never invents one; with them `PersistenceInv` is
  inductive.  The
  strengthening is `PendingInv` (the last pending job of a file carries what is
  wanted of it, unless a later one was rejected) and `StorageInv` (what the
  coordinator would say of a file nobody waits for, unmasked, is the truth);
  health alone is not inductive, because a root failure hides the belief that
  a recovery brings back.  `HealthIsTruthful`, `FlushIsTruthful` and
  `BreakerIsVisible` follow.  `WaitInv` (who is registered
  on the condition variable is at the place where it waits, and nobody before the
  thread exists), with the rest of the invariant, gives `NoWakeupIsLost`.
  `CapacityInv` (the queue is finite and within its capacity) and `MergeMakesRoom` (a
  queue still full after the merge on arrival had nothing to merge) give
  `RejectionKeepsAccepted`, for any capacity.
* `CollectorEngineProofs`: `EngineInv` is inductive.  `GenerationInv` orders
  completed, started and requested, `WaiterInv` places every caller's target
  among them, `WakeInv` says who is responsible for the wake, and `ReplyInv` that
  a reply in hand has somebody waiting; freshness and service of the waiters
  follow.
* `RuntimeEngineProofs`: `RuntimeInv` is inductive, for any number of callers and any
  capacity, with time-outs, failing calls, panics and a shutdown at any point.
  `RequestInv` is the part the others need: the collector has at most one request whose
  sender still waits, of the kind the engine asked for, also after a call that failed
  has left its message in the channel.  With it, `FreshInv` (what is collected or
  answered for the generation under way was begun after everyone it serves had
  asked) and `RevisionInv` (what is answered has not been applied; a collector that
  stops has said why) are inductive and give `RefreshIsFresh` and `AnswerIsNew`.
  `ServedInv` gives `EveryWaiterIsServed`: it speaks of callers from the moment they
  asked, not only of those who wait, because one who is still sending may find its
  generation started and failed by another.  `PauseInv` gives `PausedHolds`: while no call
  has failed a paused store has a paused collector, and a publication it has not seen
  is the answer to a refresh.
* `EtwLeaseProofs`: `EtwInv` is inductive.  Per process and place it says which
  locks are held (`LocksAreHeld`), that the snapshot of the lease is what is in
  the file (`SnapshotIsCurrent`, which the locks preserve against others), what
  the lease says (`LeaseIsOwn`, `LeaseIsRecovered`: a reclaimed lease names a dead
  process), and that a lease is removed with no session of the service left
  (`SessionIsGone`).  `SessionIsLeased` alone is not inductive: the step that
  removes a lease needs the last, the step that starts a session the third.  The
  session properties follow: the session that recovery stops has the
  configured identity, so it is not foreign, so it is the lease's controller's,
  who is dead.

* `RuntimeStoreProofs`: `StoreInv` is inductive over sessions that end in any way
  and start again.  The five properties are each about what a later session finds,
  so the strengthening is about what is still on its way: every job in a queue
  obeys what is asked of the file (`OnlyStoredQueue`, `OwnRowsQueue`), a purge is the
  last job of its file (`PurgeIsLast`: removing the cache is the last thing a session
  asks of it, so no write waits behind it to be merged with it), what a session that
  could not read its settings may have queued (`UnreadInv`), which source the previous measurement is of
  (`SourceInv`) and what a shutdown has waited for (`ShutdownInv`).
* `UpgradeTransactionProofs`: `UpgradeInv` is inductive, for any set of programs and
  any number of attempts and faults.  Every attempt begins from what an earlier one
  left, so the invariant says for each place of the verbs which verb can be
  there, which staged images, service, directories and launch entries it finds
  (`VerbInv`, `StagedInv`, `ServiceInv`, `LaunchInv`, `ResidueInv`), how the journal
  on disk and the one in memory relate (`JournalInv`: same programs, perhaps another
  phase) and which programs are installed or copied (`ImageInv`); `SteadyInv` and
  `ClearInv` carry what an undisturbed attempt relies on.  `ImageIsNotLost` alone is not
  inductive: that `PrepareJournal` finds its rollback copy and that `BeginFiles` has a
  journal to fall back on are facts about earlier places.  `SuccessIsComplete` follows
  from the invariant at the two steps that end an attempt well.
* `CollectorSessionProofs`: `SessionInv` is inductive, for any limits the lease may be
  given and any number of clients, restarts and publications.  `PlaceInv` says
  what the collecting thread has at each place, `ConnectionInv` and `NewInv` what
  can be on a connection and on the one being negotiated.  `CountInv` (the session and
  the connection it uses count the same requests, but for the one on its way) gives
  `OnlyInvalidIsIncompatible`: the answer in the pipe is the one to the request that was
  made (`AnswerInv`), also after a renewal replaced the connection, so only what it
  says can be held against it.  `LeaseInv` (idle time
  and requests stay below the server's limits until it is time to renew) gives
  `LimitsAreForeseen`.  `SampleInv` orders processes, publications, approvals and what
  the desktop has had, and gives `RevokedStaysRevoked`, `SamplesAreCurrent` and
  `RestartsAreNoticed`.
* `DesktopControlsProofs`: `ControlsInv` and `PrefsInv` are inductive, for any texts,
  cadences, preferences, stored settings and capacity of the queue.  `ControlsAgree`
  speaks of the end, when nothing is on its way, so the strengthening speaks of what is: a call that is asked is
  about the last change in the channel and that is the head of the queue, one that was
  answered is about the runtime as it is (`CallInv`), and a change in the channel that
  nobody waits for is in doubt (`ChannelInv`), so the runtime changes a control
  behind the page's back only when it is.  No snapshot is ahead of the runtime and those
  as new as it agree with it (`EchoInv`); a snapshot that would still be taken in has the
  cadence and the pause the page has (`IntervalInv`, `PausedInv`).  `QueryInv`
  ties the shown query to the last change of it, which hydration leaves
  alone or puts in doubt, and says that before hydration whatever the page may be given
  has the query the runtime goes by, stored or set since; `NativeInv` ties hydration to
  the first snapshot shown.  For `PreferencesAreKept`, `SettledInv` says that once
  localStorage is cleared the runtime and its file agree and no change of the
  preferences is on its way, and `PrefsInv` that a page which is hydrated, or found
  preferences in localStorage, shows both halves the next session would go by, so a
  choice of one half saves the other as it is.  A page that is neither shows the
  defaults, which is where a half is slighted.

Assumptions are the ones named in the modules: the sentinel values are not
values, sets of values are what their names say, capacities are positive, bounds are
natural numbers.

The inductive invariants (`ReplaceInv`, `PersistenceInv`, `WaitInv`, `CapacityInv`,
`EngineInv`, `RuntimeInv`, `EtwInv`, `StoreInv`, `UpgradeInv`,
`SessionInv`, `ControlsInv`, `PrefsInv`) are proved and not part of a run.

Only model-checked: everything temporal beyond safety (`RefreshReturns`,
`ThreadEnds`, `Follows`, `RecoversAtOnce`, `ServiceIsUsed`, `ControlsSettle`),
because TLAPS has no fairness reasoning here.  Every invariant and every action
property of the passing runs is also a theorem.

## Not modelled

* Telemetry providers, network monitors, ranking, grouping, view shaping, workload
  history and narratives: calculations on one sample, or a bounded archive that
  one thread owns.
* The retirement of the older shared shortcuts, which is one step of
  `UpgradeTransaction` that succeeds or fails, and foreign objects under the names
  of the Start entry.
* Access control, signature, path and digest checks of the provisioner and the
  transport: calls of Windows, outcomes of the step they guard.
* The proof and release tooling (`windows_lifecycle_proof`, the install smoke
  test, scripts), which is a large part of the repository's lines and runs outside
  the application.
* Frontend: protocol mismatch, fixture mode, the update dialog, presentation.
