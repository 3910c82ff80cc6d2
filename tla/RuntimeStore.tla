---------------------------- MODULE RuntimeStore ----------------------------
(***************************************************************************)
(* The runtime store of runtime_store.rs: what one desktop session keeps   *)
(* of the user's settings and of the last sample, what it lets reach the   *)
(* settings and warm-cache files, and how it ends, over sessions that end  *)
(* well, are killed, and start again on the files left behind.             *)
(*                                                                         *)
(* The background writer is here by its contract (its queue and its thread *)
(* are the subject of BackgroundPersistence): a submission is accepted or  *)
(* rejected; accepted jobs of one file run in order, each may fail, and a  *)
(* warm-cache write that waits gives way to a newer one; flush reports any *)
(* failure or rejection no later job has made good.                        *)
(***************************************************************************)
EXTENDS Naturals, Sequences

CONSTANTS Prefs, DefaultPrefs,           \* interval, UI preferences, ...
          UserQueries, DefaultQuery,     \* queries the user wrote
          RuntimeQueries,                \* queries of QueryWriteIntent::RuntimeOnly
          Instances,                     \* instances of the collector service
          Local,                         \* the standard-access collector
          NoRows, Held, None,
          Absent, Garbled, Legacy,       \* no file, unreadable, of an older schema
          Elevations,                    \* process_elevation the instance explores
          CacheInterval,                 \* WARM_CACHE_WRITE_INTERVAL_TICKS
          Capacity,                      \* bound of the model: jobs of one file waiting
          MaxFaults                      \* bound of the model: faults of one session

ASSUME DefaultsAssumption == DefaultPrefs \in Prefs /\ DefaultQuery \in UserQueries
ASSUME QueriesAssumption == UserQueries \cap RuntimeQueries = {}
ASSUME ElevationsAssumption == Elevations \subseteq {"Standard", "Elevated", "Unknown"}
ASSUME SourcesAssumption ==
  /\ Local \notin Instances
  /\ {NoRows, Held, None, Absent, Garbled} \cap (Instances \cup {Local}) = {}
  /\ None # NoRows /\ None # Held /\ NoRows \notin {Absent, Garbled}
  /\ Absent # Garbled /\ Legacy \notin {Absent, Garbled} /\ None \notin {Absent, Garbled, Legacy}
ASSUME StoreBoundsAssumption ==
  /\ CacheInterval \in Nat \ {0} /\ Capacity \in Nat \ {0}
  /\ MaxFaults \in Nat

File == {"Settings", "WarmCache"}
Source == Instances \cup {Local}

Settings == [paused : BOOLEAN, prefs : Prefs, query : UserQueries \cup RuntimeQueries]
Default == [paused |-> FALSE, prefs |-> DefaultPrefs, query |-> DefaultQuery]

ASSUME SettingsAssumption == {None, Absent, Garbled, Legacy} \cap Settings = {}

\* What the user may have stored, an older schema included once migrated
Stored == [paused : BOOLEAN, prefs : Prefs, query : UserQueries]

SettingsFile == Settings \cup {Absent, Garbled, Legacy}
CacheFile == Source \cup {NoRows, Absent, Garbled}

VARIABLES phase,           \* of the session: off, running, fatal, flushing, stopped
          disk,            \* the two files
          jobs,            \* per file, the writer's jobs; stale once a newer one was rejected
          rejected, failed,   \* files whose newest submission, or job, came to nothing
          writer,          \* the writer thread: up, or dead of a panic
          bad, ailing,     \* health: files last known to have failed; root or diagnostics unhealthy
          elevation, settings, durableQuery, blocked,
          service,         \* admin_mode: the service instance whose status was Active, or None
          rows,            \* previous_processes, by where they came from
          live,            \* live_process_snapshot
          totals,          \* previous_totals, likewise
          provenance,      \* last_sample_provenance: the instance of the sample
          ticks,           \* sample_seq, modulo CacheInterval
          notices,         \* legacy_helper_migration_pending and _reply, warnings
          result,          \* persistence_shutdown_result
          unread,          \* history: what the settings file held when its load failed
          rates,           \* history: what the last sample's rates were taken against, Held
                           \* if there are none, None if sampling was interrupted in between
          gap,             \* history: sampling was interrupted since the last sample
          faults           \* what MaxFaults bounds

fileVars == <<disk, jobs, rejected, failed, writer, bad, ailing>>
sampleVars == <<service, rows, live, totals, provenance, ticks, rates, gap>>
settingVars == <<elevation, settings, durableQuery, blocked, unread>>
vars == <<phase, fileVars, sampleVars, settingVars, notices, result, faults>>

Job == [val : SettingsFile \cup CacheFile, stale : BOOLEAN]
Notices == [pending : BOOLEAN, reply : {"none", "waiting", "ok", "error", "refused"},
            warnings : SUBSET {"persistence", "migration"}]

TypeOK ==
  /\ phase \in {"off", "running", "fatal", "flushing", "stopped"}
  /\ disk \in [File -> SettingsFile \cup CacheFile]
  /\ disk.Settings \in SettingsFile /\ disk.WarmCache \in CacheFile
  /\ jobs \in [File -> Seq(Job)]
  /\ rejected \subseteq File /\ failed \subseteq File /\ bad \subseteq File
  /\ writer \in {"up", "dead"} /\ ailing \in BOOLEAN
  /\ elevation \in Elevations
  /\ settings \in Settings /\ durableQuery \in UserQueries /\ blocked \in BOOLEAN
  /\ service \in Instances \cup {None} /\ provenance \in Instances \cup {None}
  /\ rows \in Source \cup {NoRows} /\ live \in BOOLEAN /\ totals \in Source \cup {None}
  /\ ticks \in 0 .. CacheInterval - 1
  /\ notices \in Notices
  /\ result \in {"none", "ok", "error"}
  /\ unread \in SettingsFile \cup {None}
  /\ rates \in [process : Source \cup {Held, None}, system : Source \cup {Held},
                of : Source \cup {None}]
  /\ gap \in BOOLEAN
  /\ faults \in 0 .. MaxFaults

NoRates == [process |-> Held, system |-> Held, of |-> None]

\* Any files may be there from earlier releases, written by the user's settings
\* and standard-access rows.
Init ==
  /\ phase = "off"
  /\ \E s \in {Default, Absent, Garbled, Legacy}, c \in {Local, Absent, Garbled} :
       disk = [Settings |-> s, WarmCache |-> c]
  /\ jobs = [f \in File |-> <<>>]
  /\ rejected = {} /\ failed = {} /\ bad = {} /\ writer = "up" /\ ailing = FALSE
  /\ elevation \in Elevations
  /\ settings = Default /\ durableQuery = DefaultQuery /\ blocked = FALSE
  /\ service = None /\ provenance = None
  /\ rows = NoRows /\ live = FALSE /\ totals = None /\ ticks = 0
  /\ notices = [pending |-> FALSE, reply |-> "none", warnings |-> {}]
  /\ result = "none"
  /\ unread = None /\ rates = NoRates /\ gap = FALSE
  /\ faults = 0

\* n faults happen in this step.
Faults(n) == faults + n <= MaxFaults /\ faults' = faults + n
One(fault) == IF fault THEN 1 ELSE 0

-----------------------------------------------------------------------------
(* Startup: from_base_dir_with_persistence_and_provenance                   *)

LoadedAs(file, value, ok) == [file |-> file, value |-> value, blocked |-> FALSE, bad |-> ~ok]
LoadFailed(file) == [file |-> file, value |-> Default, blocked |-> TRUE, bad |-> TRUE]

\* A load fails, or finds nothing and the defaults are written, or migrates
\* the file in place, or reads it.  A write may have happened and be reported
\* as failed.
LoadSettings(s) ==
  {LoadFailed(s)} \cup
  CASE s = Garbled -> {}
    [] s = Absent -> {LoadedAs(Default, Default, TRUE), LoadedAs(Default, Default, FALSE),
                      LoadedAs(Absent, Default, FALSE)}
    [] s = Legacy -> {LoadedAs(v, v, TRUE) : v \in Stored} \cup {LoadFailed(v) : v \in Stored}
    [] OTHER -> {LoadedAs(s, s, TRUE)}

\* An unreadable cache is an empty one.
LoadWarmCache(c) ==
  {[rows |-> NoRows, bad |-> TRUE]} \cup
  IF c = Garbled THEN {} ELSE {[rows |-> IF c \in Source THEN c ELSE NoRows, bad |-> FALSE]}

\* The legacy-helper migration succeeds, or is put off or fails with a
\* warning of its own.
Start ==
  /\ phase = "off"
  /\ \E e \in Elevations, load \in LoadSettings(disk.Settings),
        cache \in LoadWarmCache(disk.WarmCache), migrated \in BOOLEAN :
       /\ Faults(One(load.bad /\ disk.Settings # Garbled)
                 + One(cache.bad /\ disk.WarmCache # Garbled))
       /\ elevation' = e
       /\ disk' = [disk EXCEPT !.Settings = load.file]
       /\ settings' = load.value /\ durableQuery' = load.value.query
       /\ blocked' = load.blocked
       /\ unread' = IF load.blocked THEN load.file ELSE None
       /\ rows' = cache.rows
       /\ bad' = {f \in File : IF f = "Settings" THEN load.bad ELSE cache.bad}
       /\ notices' = [pending |-> ~migrated, reply |-> "none",
                      warnings |-> (IF load.bad \/ cache.bad THEN {"persistence"} ELSE {})
                                   \cup (IF migrated THEN {} ELSE {"migration"})]
  /\ phase' = "running"
  /\ service' = None /\ provenance' = None /\ live' = FALSE /\ totals' = None /\ ticks' = 0
  /\ rates' = NoRates /\ gap' = FALSE /\ result' = "none"
  /\ UNCHANGED <<jobs, rejected, failed, writer, ailing>>

-----------------------------------------------------------------------------
(* The writer, by its contract                                              *)

\* A cache write takes the place of those that wait.  Removals would stay, but
\* the store asks for one only after its last cache write (PurgeIsLast).
Coalesced(q, f, v) == IF f = "WarmCache" /\ v # Absent THEN <<>> ELSE q
Staled(q) == [i \in DOMAIN q |-> [q[i] EXCEPT !.stale = TRUE]]

\* The queue w after v was submitted for f, when it is full or not
Submitted(w, f, v, full) ==
  LET kept == IF writer = "up" THEN Coalesced(w.jobs[f], f, v) ELSE w.jobs[f]
      accepted == writer = "up" /\ ~full /\ Len(kept) < Capacity
  IN [accepted |-> accepted,
      jobs |-> [w.jobs EXCEPT ![f] = IF accepted THEN Append(kept, [val |-> v, stale |-> FALSE])
                                     ELSE Staled(kept)],
      rejected |-> IF accepted THEN w.rejected ELSE w.rejected \cup {f}]

Queue == [accepted |-> TRUE, jobs |-> jobs, rejected |-> rejected]

\* A job that is done well makes good its file's failures, and a rejection
\* unless that was of a newer value.
WriterStores(f) ==
  /\ phase # "off" /\ jobs[f] # <<>>
  /\ disk' = [disk EXCEPT ![f] = Head(jobs[f]).val]
  /\ jobs' = [jobs EXCEPT ![f] = Tail(@)]
  /\ bad' = bad \ {f} /\ failed' = failed \ {f}
  /\ rejected' = IF Head(jobs[f]).stale THEN rejected ELSE rejected \ {f}
  /\ ailing' \in {ailing, FALSE}
  /\ UNCHANGED <<phase, writer, sampleVars, settingVars, notices, result, faults>>

\* A job fails, before or after the file has its new value.
WriterFails(f) ==
  /\ phase # "off" /\ jobs[f] # <<>>
  /\ disk' \in {disk, [disk EXCEPT ![f] = Head(jobs[f]).val]}
  /\ jobs' = [jobs EXCEPT ![f] = Tail(@)]
  /\ bad' = bad \cup {f} /\ failed' = failed \cup {f}
  /\ ailing' \in BOOLEAN
  /\ Faults(1)
  /\ UNCHANGED <<phase, rejected, writer, sampleVars, settingVars, notices, result>>

\* The settings are stored, and the event that says so finds the root gone.
WriterIsMasked ==
  /\ phase # "off" /\ jobs.Settings # <<>>
  /\ disk' = [disk EXCEPT !.Settings = Head(jobs.Settings).val]
  /\ jobs' = [jobs EXCEPT !.Settings = Tail(@)]
  /\ bad' = bad \ {"Settings"} /\ failed' = failed \cup {"Settings"}
  /\ ailing' = TRUE
  /\ Faults(1)
  /\ UNCHANGED <<phase, rejected, writer, sampleVars, settingVars, notices, result>>

\* Diagnostics find the root or their own file usable again, or not.
WriterDiagnoses ==
  /\ phase # "off" /\ writer = "up"
  /\ ailing' = ~ailing
  /\ Faults(One(~ailing))
  /\ UNCHANGED <<phase, disk, jobs, rejected, failed, writer, bad, sampleVars, settingVars,
                 notices, result>>

\* run_legacy_helper_migration as a job: a root that fails then has failed
\* the settings, too.
WriterMigrates ==
  /\ phase # "off" /\ writer = "up" /\ notices.reply = "waiting"
  /\ \/ /\ notices' = [notices EXCEPT !.reply = "ok"]
        /\ ailing' \in {ailing, FALSE}
        /\ UNCHANGED <<bad, faults>>
     \/ /\ notices' = [notices EXCEPT !.reply = "error"]
        /\ Faults(1)
        /\ \/ ailing' \in {ailing, FALSE} /\ UNCHANGED bad
           \/ ailing' = TRUE /\ bad' = bad \cup {"Settings"}
  /\ UNCHANGED <<phase, disk, jobs, rejected, failed, writer, sampleVars, settingVars, result>>

\* The thread panics: what waits is dropped, and nothing is accepted any more.
WriterDies ==
  /\ phase # "off" /\ writer = "up"
  /\ writer' = "dead"
  /\ jobs' = [f \in File |-> <<>>]
  /\ rejected' = File
  /\ notices' = [notices EXCEPT !.reply = IF @ = "waiting" THEN "error" ELSE @]
  /\ Faults(1)
  /\ UNCHANGED <<phase, disk, failed, bad, ailing, sampleVars, settingVars, result>>

-----------------------------------------------------------------------------
(* Warnings and the retried migration                                       *)

Warned(n, key) == [n EXCEPT !.warnings = @ \cup {key}]
Recovered(n, key) == [n EXCEPT !.warnings = @ \ {key}]

\* retry_legacy_helper_migration: take the answer, or ask.  A refused
\* submission is answered with the queue's own message.
RetryMigration(n, full) ==
  IF ~n.pending \/ elevation # "Standard" THEN n
  ELSE CASE n.reply = "waiting" -> n
         [] n.reply = "none" -> [n EXCEPT !.reply = IF full THEN "refused" ELSE "waiting"]
         [] n.reply = "ok" ->
              Recovered([n EXCEPT !.reply = "none", !.pending = FALSE], "migration")
         [] n.reply = "error" -> Warned([n EXCEPT !.reply = "none"], "migration")
         [] n.reply = "refused" -> Warned([n EXCEPT !.reply = "none"], "persistence")

\* refresh_snapshot_health, part of every publication
Published(n) == IF n.reply = "none" THEN n ELSE RetryMigration(n, FALSE)

Healthy(rejections) == bad = {} /\ ~ailing /\ rejections = {}

\* clear_persistence_warnings_if_healthy
ClearedIfHealthy(n, rejections, full) ==
  IF ~Healthy(rejections) THEN n
  ELSE Recovered(RetryMigration(n, full), "persistence")

\* How persist_settings, persist_warm_cache and purge_warm_cache end
Noted(n, w, full) ==
  IF w.accepted THEN ClearedIfHealthy(n, w.rejected, full) ELSE Warned(n, "persistence")

-----------------------------------------------------------------------------
(* Settings                                                                 *)

PersistedAsShown(s, query) == s

\* What is persisted of settings s: never a query of the runtime's own.
Persisted(s, query) == [s EXCEPT !.query = query]

\* persist_settings(UserMutation), which any change by the user ends in
Change(s, query) ==
  /\ phase = "running"
  /\ settings' = s /\ durableQuery' = query
  /\ blocked' = FALSE /\ unread' = None
  /\ \E full, fullNext \in BOOLEAN :
       LET w == Submitted(Queue, "Settings", Persisted(s, query), full)
       IN /\ Faults(One(full))
          /\ jobs' = w.jobs /\ rejected' = w.rejected
          /\ notices' = Published(Noted(notices, w, fullNext))
  /\ UNCHANGED <<phase, disk, failed, writer, bad, ailing, elevation, result,
                 service, rows, totals, provenance, ticks, rates>>

SetPaused(p) ==
  /\ Change([settings EXCEPT !.paused = p], durableQuery)
  /\ live' = (live /\ ~p) /\ gap' = (gap \/ p)

SetQuery(q) == Change([settings EXCEPT !.query = q], q) /\ UNCHANGED <<live, gap>>

\* set_sample_interval and set_ui_preferences
SetPrefs(p) == Change([settings EXCEPT !.prefs = p], durableQuery) /\ UNCHANGED <<live, gap>>

\* set_query_with_intent(RuntimeOnly)
SetRuntimeQuery(q) ==
  /\ phase = "running"
  /\ settings' = [settings EXCEPT !.query = q]
  /\ notices' = Published(notices)
  /\ UNCHANGED <<phase, fileVars, sampleVars, elevation, durableQuery, blocked, unread, result,
                 faults>>

-----------------------------------------------------------------------------
(* Samples                                                                  *)

RestrictedWhenElevated(s) == elevation = "Elevated"

\* warm_cache_is_restricted, when the service state is s
Restricted(s) == s # None \/ elevation = "Elevated"

Binding(src) == IF src \in Instances THEN src ELSE None

RebindsOnFallback(src) == Binding(src) # service /\ Binding(src) = None

\* apply_collector_service_status drops what an earlier source measured.
Rebinds(src) == Binding(src) # service

\* persist_warm_cache
PersistWarmCache(w, v, s, full) == IF Restricted(s) THEN w ELSE Submitted(w, "WarmCache", v, full)

\* apply_raw_sample, of a sample the store has not had.  Local samples come
\* with a status that is not Active, or with none where there is no service.
ApplySample(src) ==
  LET known == ~Rebinds(src)
  IN /\ phase = "running"
     /\ service' = Binding(src) /\ provenance' = Binding(src)
     /\ rates' = [process |-> IF known /\ live /\ rows # NoRows
                             THEN IF gap THEN None ELSE rows
                             ELSE Held,
                  system |-> IF known /\ totals # None THEN totals ELSE Held,
                  of |-> src]
     /\ rows' = src /\ live' = TRUE /\ totals' = src /\ gap' = FALSE
     /\ ticks' = (ticks + 1) % CacheInterval
     /\ \E full, fullNext \in BOOLEAN :
          LET due == ticks' = 0 /\ ~Restricted(Binding(src))
              w == PersistWarmCache(Queue, src, Binding(src), full)
          IN /\ full => due
             /\ Faults(One(full))
             /\ IF due
                THEN /\ jobs' = w.jobs /\ rejected' = w.rejected
                     /\ notices' = Published(Noted(notices, w, fullNext))
                ELSE /\ notices' = Published(notices)
                     /\ UNCHANGED <<jobs, rejected>>
     /\ UNCHANGED <<phase, disk, failed, writer, bad, ailing, settingVars, result>>

\* The same sample of the same instance again: source_unchanged
RepeatSample ==
  /\ phase = "running" /\ provenance # None
  /\ service' = provenance
  /\ IF service # provenance
     THEN rows' = NoRows /\ live' = FALSE /\ totals' = None
     ELSE UNCHANGED <<rows, live, totals>>
  /\ notices' = Published(notices)
  /\ UNCHANGED <<phase, fileVars, provenance, ticks, rates, gap, settingVars, result, faults>>

\* publish_collector_unavailable; mark_engine_fatal, after which, as after a
\* panic of the engine, the store only shuts down
Interrupted(next) ==
  /\ phase = "running"
  /\ phase' = next
  /\ live' = FALSE /\ gap' = TRUE
  /\ notices' = Published(notices)
  /\ UNCHANGED <<fileVars, service, rows, totals, provenance, ticks, rates, settingVars, result,
                 faults>>
CollectorUnavailable == Interrupted("running")
EngineFatal == Interrupted("fatal")

\* A publication without a sample: a heartbeat while paused
Heartbeat ==
  /\ phase = "running"
  /\ notices' = Published(notices)
  /\ UNCHANGED <<phase, fileVars, sampleVars, settingVars, result, faults>>

-----------------------------------------------------------------------------
(* The end of a session                                                     *)

PersistAlways(w, full) == Submitted(w, "Settings", Persisted(settings, durableQuery), full)

\* persist_settings(Automatic)
PersistAutomatically(w, full) ==
  IF blocked THEN w ELSE Submitted(w, "Settings", Persisted(settings, durableQuery), full)

PurgeOrPersistCache(w, full) ==
  Submitted(w, "WarmCache", IF Restricted(service) THEN Absent ELSE rows, full)

\* shutdown_owned_resources until the flush.  A rejection needs no note of
\* its own: nothing is submitted after it, so the flush reports it as well.
BeginShutdown ==
  /\ phase \in {"running", "fatal"}
  /\ phase' = "flushing"
  /\ \E full, fullCache, fullNext \in BOOLEAN :
       LET w == PersistAutomatically(Queue, full)
           c == PurgeOrPersistCache(w, fullCache)
           noted == IF blocked THEN notices ELSE Noted(notices, w, fullNext)
       IN /\ full => ~blocked
          /\ Faults(One(full) + One(fullCache))
          /\ jobs' = c.jobs /\ rejected' = c.rejected
          /\ notices' = Noted(noted, c, fullNext)
  /\ UNCHANGED <<disk, failed, writer, bad, ailing, sampleVars, settingVars, result>>

Drained == \A f \in File : jobs[f] = <<>>

FlushForgetsFailures ==
  /\ phase = "flushing" /\ Drained
  /\ phase' = "stopped"
  /\ result' = IF writer = "dead" \/ rejected # {} THEN "error" ELSE "ok"
  /\ UNCHANGED <<fileVars, sampleVars, settingVars, notices, faults>>

\* flush: a diagnostic that failed is a failure, too.
Flush ==
  /\ phase = "flushing" /\ Drained
  /\ phase' = "stopped"
  /\ result' \in IF writer = "dead" \/ rejected # {} \/ failed # {} THEN {"error"}
                 ELSE IF ailing THEN {"ok", "error"} ELSE {"ok"}
  /\ UNCHANGED <<fileVars, sampleVars, settingVars, notices, faults>>

FlushTimeout ==
  /\ phase = "flushing" /\ ~Drained
  /\ phase' = "stopped"
  /\ result' = "error"
  /\ UNCHANGED <<fileVars, sampleVars, settingVars, notices, faults>>

\* The process is over, by itself or killed at any moment; what waits is lost.
Exit ==
  /\ phase # "off"
  /\ phase' = "off"
  /\ jobs' = [f \in File |-> <<>>]
  /\ rejected' = {} /\ failed' = {} /\ bad' = {} /\ writer' = "up" /\ ailing' = FALSE
  /\ notices' = [pending |-> FALSE, reply |-> "none", warnings |-> {}]
  /\ settings' = Default /\ durableQuery' = DefaultQuery /\ blocked' = FALSE
  /\ service' = None /\ provenance' = None /\ rows' = NoRows /\ live' = FALSE /\ totals' = None
  /\ ticks' = 0 /\ rates' = NoRates /\ gap' = FALSE /\ result' = "none"
  /\ faults' = 0
  /\ UNCHANGED <<disk, elevation, unread>>

Next ==
  \/ Start
  \/ \E p \in BOOLEAN : SetPaused(p)
  \/ \E q \in UserQueries : SetQuery(q)
  \/ \E q \in RuntimeQueries : SetRuntimeQuery(q)
  \/ \E p \in Prefs : SetPrefs(p)
  \/ \E src \in Source : ApplySample(src)
  \/ RepeatSample
  \/ CollectorUnavailable
  \/ EngineFatal
  \/ Heartbeat
  \/ \E f \in File : WriterStores(f)
  \/ \E f \in File : WriterFails(f)
  \/ WriterIsMasked
  \/ WriterDiagnoses
  \/ WriterMigrates
  \/ WriterDies
  \/ BeginShutdown
  \/ Flush
  \/ FlushTimeout
  \/ Exit

Spec == Init /\ [][Next]_vars

-----------------------------------------------------------------------------
(* Properties                                                               *)

\* Settings that could not be loaded stay in their file, through the writes
\* and the end of the session and after a kill, until the user changes a
\* setting (settings_rewrite_blocked).
UnreadSettingsAreKept == unread # None => disk.Settings = unread

\* As long as nothing but a change by the user may replace such settings, a
\* persistence warning says so: no success elsewhere clears it.
UnreadSettingsAreVisible == blocked => "persistence" \in notices.warnings

\* Both: settings that could not be read are neither lost nor passed over.
UnreadSettingsAreSafe == UnreadSettingsAreKept /\ UnreadSettingsAreVisible

\* Rows of the collector service neither reach the warm-cache file nor wait to
\* (persist_warm_cache looks at the status the sample itself has just set), and
\* an elevated process asks for nothing but the file's removal.
PrivilegedRowsAreNotStored ==
  LET waiting == {jobs.WarmCache[i].val : i \in DOMAIN jobs.WarmCache}
  IN /\ (waiting \cup {disk.WarmCache}) \cap Instances = {}
     /\ elevation = "Elevated" => waiting \subseteq {Absent}

\* A rate is the difference of two measurements of one source; a process rate
\* also of two consecutive ones, with no pause or failure in between.
RatesHaveOneSource ==
  /\ rates.process \in {Held, rates.of}
  /\ rates.system \in {Held, rates.of}

\* A query the runtime sets for itself never reaches the settings file.
OnlyUserQueriesAreStored ==
  LET stored == {disk.Settings} \cup {jobs.Settings[i].val : i \in DOMAIN jobs.Settings}
  IN \A s \in stored \cap Settings : s.query \in UserQueries

\* A shutdown that reports success left the user's settings in their file
\* (or, when they could not be loaded, untouched), and the rows of a
\* standard session, or nothing, in the warm cache.
ShutdownIsTruthful ==
  result = "ok" =>
    /\ disk.Settings = IF blocked THEN unread ELSE Persisted(settings, durableQuery)
    /\ disk.WarmCache = IF Restricted(service) THEN Absent ELSE rows

-----------------------------------------------------------------------------
(* The inductive invariant (RuntimeStoreProofs)                             *)

\* The settings file holds what the user stored, and nothing else waits for it.
OnlyStoredQueue ==
  /\ disk.Settings \in Stored \cup {Absent, Garbled, Legacy}
  /\ \A i \in DOMAIN jobs.Settings : jobs.Settings[i].val \in Stored

\* The cache file holds rows of the desktop's own, and nothing else waits for it.
OwnRowsQueue ==
  /\ disk.WarmCache \in {Local, NoRows, Absent, Garbled}
  /\ \A i \in DOMAIN jobs.WarmCache :
       jobs.WarmCache[i].val \in (IF elevation = "Elevated" THEN {Absent} ELSE {Local, NoRows, Absent})

\* A removal of the cache is the last thing a session asks of it.
PurgeIsLast ==
  phase \in {"running", "fatal"} => \A i \in DOMAIN jobs.WarmCache : jobs.WarmCache[i].val # Absent

\* Settings that could not be read keep their file, their bad health and their
\* warning, because nothing waits to be written over them.
UnreadInv ==
  /\ unread # None => disk.Settings = unread /\ jobs.Settings = <<>>
  /\ phase # "off" => (blocked <=> unread # None)
  /\ blocked => "Settings" \in bad /\ "persistence" \in notices.warnings
  /\ phase = "off" => ~blocked /\ Drained

\* What a rate may be taken against is of the source the store is bound to.
SourceInv ==
  /\ live => rows \in Source /\ Binding(rows) = service /\ ~gap
  /\ totals # None => Binding(totals) = service
  /\ service = None => rows \in {Local, NoRows}
  /\ RatesHaveOneSource

\* What a shutdown leaves in file f if it succeeds
Wanted(f) ==
  IF f = "Settings" THEN IF blocked THEN unread ELSE Persisted(settings, durableQuery)
  ELSE IF Restricted(service) THEN Absent ELSE rows

\* It is there, or is what the newest job brings, or the flush will say that a
\* job failed or was rejected, because every job still waiting is older.
Arrives(f) ==
  \/ f \in rejected /\ \A i \in DOMAIN jobs[f] : jobs[f][i].stale
  \/ jobs[f] # <<>> /\ jobs[f][Len(jobs[f])].val = Wanted(f)
  \/ jobs[f] = <<>> /\ (f \in failed \/ disk[f] = Wanted(f))

ShutdownInv ==
  /\ phase = "flushing" => \A f \in File : Arrives(f)
  /\ result = "ok" => phase = "stopped" /\ Drained /\ \A f \in File : disk[f] = Wanted(f)

StoreInv ==
  /\ TypeOK /\ OnlyStoredQueue /\ OwnRowsQueue /\ PurgeIsLast
  /\ UnreadInv /\ SourceInv /\ ShutdownInv
=============================================================================
