------------------------- MODULE RuntimeStoreProofs -------------------------
(***************************************************************************)
(* For any settings, queries, service instances, cache interval, queue     *)
(* capacity and number of faults: StoreInv is inductive, and the           *)
(* properties of the store follow from it.                                 *)
(***************************************************************************)
EXTENDS RuntimeStore, TLAPS

\* The two files are distinct, and what they may hold is told apart.
LEMMA FilesLemma ==
  /\ File = {"Settings", "WarmCache"} /\ "Settings" # "WarmCache"
  /\ Stored \subseteq Settings /\ Default \in Stored
  /\ Stored \subseteq SettingsFile /\ Settings \subseteq SettingsFile
  /\ {Local, NoRows, Absent, Garbled} \subseteq CacheFile
  /\ None \notin SettingsFile /\ Local \in Source
BY DefaultsAssumption, SettingsAssumption, SourcesAssumption
   DEF File, Stored, Settings, Default, SettingsFile, CacheFile, Source

\* Marking jobs stale changes nothing else of a queue.
LEMMA StaledLemma ==
  ASSUME NEW q \in Seq(Job)
  PROVE  /\ Staled(q) \in Seq(Job) /\ Len(Staled(q)) = Len(q)
         /\ DOMAIN Staled(q) = DOMAIN q
         /\ \A i \in DOMAIN q : Staled(q)[i].stale /\ Staled(q)[i].val = q[i].val
<1>1. DOMAIN q = 1 .. Len(q) /\ Len(q) \in Nat /\ \A i \in DOMAIN q : q[i] \in Job
  OBVIOUS
<1>2. \A j \in Job : /\ [j EXCEPT !.stale = TRUE] \in Job
                     /\ [j EXCEPT !.stale = TRUE].stale
                     /\ [j EXCEPT !.stale = TRUE].val = j.val
  BY DEF Job
<1>3. Staled(q) \in [1 .. Len(q) -> Job]
  BY <1>1, <1>2 DEF Staled
<1>4. Staled(q) \in Seq(Job) /\ Len(Staled(q)) = Len(q)
  BY <1>1, <1>3
<1> QED
  BY <1>1, <1>2, <1>4 DEF Staled

QueueOK(w) == w.jobs \in [File -> Seq(Job)] /\ w.rejected \subseteq File

\* Queue r is queue w after v was submitted for f: other files are left alone,
\* what waits for f is the new value or waited before, and the new value is
\* either the last to come or rejected, everything that waits being older.
Takes(w, f, v, r) ==
  /\ QueueOK(r)
  /\ \A g \in File \ {f} : r.jobs[g] = w.jobs[g] /\ (g \in r.rejected <=> g \in w.rejected)
  /\ \A i \in DOMAIN r.jobs[f] :
       r.jobs[f][i].val = v \/ \E k \in DOMAIN w.jobs[f] : r.jobs[f][i].val = w.jobs[f][k].val
  /\ \/ r.jobs[f] # <<>> /\ r.jobs[f][Len(r.jobs[f])].val = v
     \/ f \in r.rejected /\ \A i \in DOMAIN r.jobs[f] : r.jobs[f][i].stale

\* That is what submit makes of a queue.
LEMMA SubmittedLemma ==
  ASSUME NEW w, QueueOK(w), NEW f \in File, NEW v \in SettingsFile \cup CacheFile, NEW full,
         NEW r, r = Submitted(w, f, v, full)
  PROVE  Takes(w, f, v, r)
<1> USE DEF QueueOK, Takes
<1> DEFINE q == w.jobs[f]
           kept == IF writer = "up" THEN Coalesced(q, f, v) ELSE q
           accepted == writer = "up" /\ ~full /\ Len(kept) < Capacity
           new == [val |-> v, stale |-> FALSE]
<1>1. kept \in Seq(Job) /\ \A i \in DOMAIN kept : \E k \in DOMAIN q : kept[i] = q[k]
  BY DEF Coalesced
<1>2. /\ r.jobs = [w.jobs EXCEPT ![f] = IF accepted THEN Append(kept, new) ELSE Staled(kept)]
      /\ r.rejected = IF accepted THEN w.rejected ELSE w.rejected \cup {f}
  BY DEF Submitted
<1>3. new \in Job
  BY DEF Job
<1> HIDE DEF kept, accepted, new
<1>4. CASE accepted
  <2>1. r.jobs[f] = Append(kept, new)
    BY <1>2, <1>4
  <2>2. /\ Append(kept, new) \in Seq(Job) /\ Len(Append(kept, new)) = Len(kept) + 1
        /\ Append(kept, new)[Len(kept) + 1] = new
        /\ \A i \in 1 .. Len(kept) : Append(kept, new)[i] = kept[i]
    BY <1>1, <1>3
  <2>3. \A i \in DOMAIN r.jobs[f] :
          r.jobs[f][i].val = v \/ \E k \in DOMAIN q : r.jobs[f][i].val = q[k].val
    <3> SUFFICES ASSUME NEW i \in DOMAIN r.jobs[f]
                 PROVE  r.jobs[f][i].val = v \/ \E k \in DOMAIN q : r.jobs[f][i].val = q[k].val
      OBVIOUS
    <3>1. i \in 1 .. Len(kept) + 1 /\ DOMAIN kept = 1 .. Len(kept)
      BY <1>1, <2>1, <2>2
    <3>2. CASE i = Len(kept) + 1
      BY <2>1, <2>2, <3>2 DEF new
    <3>3. CASE i # Len(kept) + 1
      <4>1. i \in 1 .. Len(kept)
        BY <1>1, <3>1, <3>3
      <4> QED
        BY <1>1, <2>1, <2>2, <3>1, <4>1
    <3> QED
      BY <3>2, <3>3
  <2>4. r.jobs[f] # <<>> /\ r.jobs[f][Len(r.jobs[f])].val = v
    BY <1>1, <2>1, <2>2 DEF new
  <2> QED
    BY <1>2, <1>4, <2>1, <2>2, <2>3, <2>4
<1>5. CASE ~accepted
  <2>1. r.jobs[f] = Staled(kept) /\ f \in r.rejected
    BY <1>2, <1>5
  <2>2. /\ Staled(kept) \in Seq(Job) /\ DOMAIN Staled(kept) = DOMAIN kept
        /\ \A i \in DOMAIN kept : Staled(kept)[i].stale /\ Staled(kept)[i].val = kept[i].val
    BY <1>1, StaledLemma
  <2> QED
    BY <1>1, <1>2, <1>5, <2>1, <2>2
<1> QED
  BY <1>4, <1>5

\* Taking or asking for the answer of the migration keeps a persistence warning.
LEMMA RetryMigrationLemma ==
  ASSUME NEW n \in Notices, NEW full \in BOOLEAN
  PROVE  /\ RetryMigration(n, full) \in Notices
         /\ "persistence" \in n.warnings => "persistence" \in RetryMigration(n, full).warnings
BY DEF RetryMigration, Notices, Warned, Recovered

\* So does a publication.
LEMMA PublishedLemma ==
  ASSUME NEW n \in Notices
  PROVE  /\ Published(n) \in Notices
         /\ "persistence" \in n.warnings => "persistence" \in Published(n).warnings
BY RetryMigrationLemma DEF Published

\* So does the end of a persistence call, while the settings are in bad health.
LEMMA NotedLemma ==
  ASSUME NEW n \in Notices, NEW w, NEW full \in BOOLEAN
  PROVE  /\ Noted(n, w, full) \in Notices
         /\ "Settings" \in bad /\ "persistence" \in n.warnings =>
              "persistence" \in Noted(n, w, full).warnings
<1>1. \A m \in Notices : /\ Warned(m, "persistence") \in Notices
                         /\ "persistence" \in Warned(m, "persistence").warnings
                         /\ Recovered(m, "persistence") \in Notices
  BY DEF Notices, Warned, Recovered
<1> QED
  BY <1>1, RetryMigrationLemma DEF Noted, ClearedIfHealthy, Healthy

\* A count of faults stays in its bound.
LEMMA FaultsLemma ==
  ASSUME faults \in 0 .. MaxFaults, NEW n \in Nat, Faults(n)
  PROVE  faults' \in 0 .. MaxFaults
BY StoreBoundsAssumption DEF Faults

\* What is persisted of any settings is what the user may have stored.
LEMMA PersistedLemma ==
  ASSUME NEW s \in Settings, NEW query \in UserQueries
  PROVE  Persisted(s, query) \in Stored
BY DEF Persisted, Settings, Stored

-----------------------------------------------------------------------------
\* The initial states satisfy the inductive invariant.
LEMMA InitStoreInv == Init => StoreInv
<1> SUFFICES ASSUME Init PROVE StoreInv
  OBVIOUS
<1> USE FilesLemma, SourcesAssumption, SettingsAssumption, StoreBoundsAssumption DEF Init
<1>1. PICK s \in {Default, Absent, Garbled, Legacy}, c \in {Local, Absent, Garbled} :
        disk = [Settings |-> s, WarmCache |-> c]
  OBVIOUS
<1>2. disk.Settings = s /\ disk.WarmCache = c /\ disk \in [File -> SettingsFile \cup CacheFile]
  BY <1>1 DEF SettingsFile
<1>3. jobs \in [File -> Seq(Job)] /\ jobs.Settings = <<>> /\ jobs.WarmCache = <<>>
  OBVIOUS
<1>4. TypeOK
  <2>1. disk.Settings \in SettingsFile /\ disk.WarmCache \in CacheFile
    BY <1>2 DEF SettingsFile
  <2>2. settings \in Settings /\ durableQuery \in UserQueries
    BY DefaultsAssumption
  <2>3. notices \in Notices /\ NoRates \in [process : Source \cup {Held, None}, system : Source \cup {Held},
                                            of : Source \cup {None}]
    BY DEF Notices, NoRates
  <2>4. ticks \in 0 .. CacheInterval - 1 /\ faults \in 0 .. MaxFaults
    OBVIOUS
  <2> QED
    BY <1>2, <1>3, <2>1, <2>2, <2>3, <2>4 DEF TypeOK
<1>5. OnlyStoredQueue /\ OwnRowsQueue /\ PurgeIsLast
  BY <1>2, <1>3 DEF OnlyStoredQueue, OwnRowsQueue, PurgeIsLast
<1>6. UnreadInv
  BY <1>3 DEF UnreadInv, Drained
<1>7. SourceInv /\ ShutdownInv
  BY DEF SourceInv, RatesHaveOneSource, NoRates, ShutdownInv
<1> QED
  BY <1>4, <1>5, <1>6, <1>7 DEF StoreInv

\* A session starts on the files.
LEMMA StartStep ==
  ASSUME StoreInv, Start
  PROVE  StoreInv'
<1> USE FilesLemma, SourcesAssumption
<1> DEFINE loaded == LoadSettings(disk.Settings)
           cached == LoadWarmCache(disk.WarmCache)
<1>1. PICK e \in Elevations, load \in loaded, cache \in cached, migrated \in BOOLEAN :
       /\ Faults(One(load.bad /\ disk.Settings # Garbled)
                 + One(cache.bad /\ disk.WarmCache # Garbled))
       /\ elevation' = e
       /\ disk' = [disk EXCEPT !.Settings = load.file]
       /\ settings' = load.value /\ durableQuery' = load.value.query
       /\ blocked' = load.blocked
       /\ unread' = IF load.blocked THEN load.file ELSE None
       /\ rows' = cache.rows
       /\ bad' = {f \in File : IF f = "Settings" THEN load.bad ELSE cache.bad}
       /\ notices' = [pending |-> ~migrated, reply |-> "none",
                      warnings |-> (IF load.bad \/ cache.bad THEN {"persistence"} ELSE {})
                                   \cup (IF migrated THEN {} ELSE {"migration"})]
  BY DEF Start
<1>2. /\ load.file \in Stored \cup {Absent, Garbled, Legacy} /\ load.value \in Stored
      /\ load.blocked \in BOOLEAN /\ load.bad \in BOOLEAN /\ (load.blocked => load.bad)
  <2> DEFINE s == disk.Settings
             Good(l) == /\ l.file \in Stored \cup {Absent, Garbled, Legacy} /\ l.value \in Stored
                        /\ l.blocked \in BOOLEAN /\ l.bad \in BOOLEAN /\ (l.blocked => l.bad)
  <2>1. s \in Stored \cup {Absent, Garbled, Legacy}
    BY DEF StoreInv, OnlyStoredQueue
  <2>2. \A x \in Stored \cup {Absent, Garbled, Legacy} : Good(LoadFailed(x))
    BY DEF LoadFailed
  <2>3. \A x \in Stored \cup {Absent, Garbled, Legacy}, v \in Stored :
          Good(LoadedAs(x, v, TRUE)) /\ Good(LoadedAs(x, v, FALSE))
    BY DEF LoadedAs
  <2>4. s \in Stored => s \notin {Absent, Garbled, Legacy}
    BY SettingsAssumption
  <2>5. load \in LoadSettings(s)
    BY <1>1
  <2> SUFFICES Good(load)
    OBVIOUS
  <2> HIDE DEF s, Good
  <2>6. CASE s = Garbled
    BY <2>1, <2>2, <2>5, <2>6 DEF LoadSettings
  <2>7. CASE s = Absent
    <3>1. load \in {LoadFailed(s), LoadedAs(Default, Default, TRUE), LoadedAs(Default, Default, FALSE),
                    LoadedAs(Absent, Default, FALSE)}
      BY <2>5, <2>7 DEF LoadSettings
    <3> QED
      BY <2>1, <2>2, <2>3, <3>1
  <2>8. CASE s = Legacy
    <3>1. \/ load = LoadFailed(s)
          \/ \E v \in Stored : load = LoadedAs(v, v, TRUE)
          \/ \E v \in Stored : load = LoadFailed(v)
      BY <2>5, <2>8 DEF LoadSettings
    <3> QED
      BY <2>1, <2>2, <2>3, <3>1
  <2>9. CASE s \in Stored
    BY <2>1, <2>2, <2>3, <2>4, <2>5, <2>9 DEF LoadSettings
  <2> QED
    BY <2>1, <2>6, <2>7, <2>8, <2>9
<1>3. cache.rows \in {Local, NoRows} /\ cache.bad \in BOOLEAN
  <2>1. disk.WarmCache \in {Local, NoRows, Absent, Garbled}
    BY DEF StoreInv, OwnRowsQueue
  <2>2. cache \in LoadWarmCache(disk.WarmCache)
    BY <1>1
  <2>3. PICK r \in {Local, NoRows} :
          cache = [rows |-> NoRows, bad |-> TRUE] \/ cache = [rows |-> r, bad |-> FALSE]
    <3>1. disk.WarmCache = Local => disk.WarmCache \in Source /\ Local # Garbled
      OBVIOUS
    <3>2. disk.WarmCache # Local => disk.WarmCache \notin Source
      BY <2>1 DEF Source
    <3>3. CASE disk.WarmCache = Local
      BY <2>2, <3>1, <3>3 DEF LoadWarmCache
    <3>4. CASE disk.WarmCache # Local
      BY <2>2, <3>2, <3>4 DEF LoadWarmCache
    <3> QED
      BY <3>3, <3>4
  <2>4. CASE cache = [rows |-> NoRows, bad |-> TRUE]
    BY <2>4
  <2>5. CASE cache = [rows |-> r, bad |-> FALSE]
    BY <2>3, <2>5
  <2> QED
    BY <2>3, <2>4, <2>5
<1>4. /\ disk' \in [File -> SettingsFile \cup CacheFile]
      /\ disk'.Settings = load.file /\ disk'.WarmCache = disk.WarmCache
  BY <1>1, <1>2 DEF StoreInv, TypeOK, SettingsFile
<1>5. jobs' = jobs /\ jobs.Settings = <<>> /\ jobs.WarmCache = <<>>
  BY DEF Start, StoreInv, UnreadInv, Drained
<1>6. faults' \in 0 .. MaxFaults
  BY <1>1, FaultsLemma DEF One, StoreInv, TypeOK
<1>7. notices' \in Notices /\ bad' \subseteq File
  BY <1>1 DEF Notices
<1>8. load.value \in Settings /\ load.value.query \in UserQueries /\ load.file \in SettingsFile
  BY <1>2 DEF Stored, SettingsFile
<1>9. TypeOK'
  <2>1. /\ disk'.Settings \in SettingsFile /\ disk'.WarmCache \in CacheFile
        /\ jobs' \in [File -> Seq(Job)] /\ rejected' \subseteq File /\ failed' \subseteq File
        /\ writer' \in {"up", "dead"} /\ ailing' \in BOOLEAN
    BY <1>4, <1>5, <1>8 DEF Start, StoreInv, TypeOK
  <2>2. /\ elevation' \in Elevations /\ settings' \in Settings /\ durableQuery' \in UserQueries
        /\ blocked' \in BOOLEAN /\ unread' \in SettingsFile \cup {None} /\ rows' \in Source \cup {NoRows}
    BY <1>1, <1>2, <1>3, <1>8
  <2>3. NoRates \in [process : Source \cup {Held, None}, system : Source \cup {Held},
                     of : Source \cup {None}]
    BY DEF NoRates
  <2>4. /\ phase' = "running" /\ service' = None /\ provenance' = None /\ live' = FALSE
        /\ totals' = None /\ ticks' = 0 /\ rates' = NoRates /\ gap' = FALSE /\ result' = "none"
    BY DEF Start
  <2>5. ticks' \in 0 .. CacheInterval - 1
    BY <2>4, StoreBoundsAssumption
  <2> QED
    BY <1>4, <1>6, <1>7, <2>1, <2>2, <2>3, <2>4, <2>5 DEF TypeOK
<1>10. OnlyStoredQueue' /\ OwnRowsQueue' /\ PurgeIsLast'
  BY <1>2, <1>4, <1>5 DEF StoreInv, OnlyStoredQueue, OwnRowsQueue, PurgeIsLast
<1>11. UnreadInv'
  BY <1>1, <1>2, <1>4, <1>5, <1>8 DEF UnreadInv, Start
<1>12. SourceInv' /\ ShutdownInv'
  BY <1>1, <1>3 DEF Start, SourceInv, RatesHaveOneSource, NoRates, ShutdownInv
<1> QED
  BY <1>9, <1>10, <1>11, <1>12 DEF StoreInv

-----------------------------------------------------------------------------
\* A change by the user is persisted: from here on the settings are readable.
LEMMA ChangeStep ==
  ASSUME StoreInv, NEW s \in Settings, NEW query \in UserQueries, Change(s, query),
         live' \in BOOLEAN, gap' \in BOOLEAN, live' => live /\ gap' = gap
  PROVE  StoreInv'
<1> DEFINE v == Persisted(s, query)
<1>1. v \in Stored
  BY PersistedLemma
<1> HIDE DEF v
<1>2. PICK full \in BOOLEAN, fullNext \in BOOLEAN :
        LET w == Submitted(Queue, "Settings", v, full)
        IN /\ Faults(One(full))
           /\ jobs' = w.jobs /\ rejected' = w.rejected
           /\ notices' = Published(Noted(notices, w, fullNext))
  BY DEF Change, v
<1> DEFINE w == Submitted(Queue, "Settings", v, full)
<1>3. /\ phase = "running" /\ phase' = "running" /\ settings' = s /\ durableQuery' = query
      /\ blocked' = FALSE /\ unread' = None
      /\ UNCHANGED <<phase, disk, failed, writer, bad, ailing, elevation, result,
                     service, rows, totals, provenance, ticks, rates>>
  BY DEF Change
<1>4. QueueOK(Queue) /\ Queue.jobs = jobs
  BY DEF Queue, QueueOK, StoreInv, TypeOK
<1>5. /\ jobs' \in [File -> Seq(Job)] /\ rejected' \subseteq File
      /\ jobs'["WarmCache"] = jobs["WarmCache"]
      /\ \A i \in DOMAIN jobs'["Settings"] :
           jobs'["Settings"][i].val = v
           \/ \E k \in DOMAIN jobs["Settings"] : jobs'["Settings"][i].val = jobs["Settings"][k].val
  <2>1. v \in SettingsFile \cup CacheFile
    BY <1>1, FilesLemma
  <2> HIDE DEF w
  <2>2. Takes(Queue, "Settings", v, w)
    BY <1>4, <2>1, FilesLemma, SubmittedLemma DEF w
  <2>3. jobs' = w.jobs /\ rejected' = w.rejected
    BY <1>2 DEF w
  <2> QED
    BY <1>4, <2>2, <2>3, FilesLemma DEF Takes, QueueOK
<1>6. notices' \in Notices
  BY <1>2, NotedLemma, PublishedLemma DEF StoreInv, TypeOK
<1>7. faults' \in 0 .. MaxFaults
  BY <1>2, FaultsLemma DEF One, StoreInv, TypeOK
<1>8. TypeOK'
  BY <1>3, <1>5, <1>6, <1>7 DEF StoreInv, TypeOK
<1>9. OnlyStoredQueue' /\ OwnRowsQueue' /\ PurgeIsLast'
  BY <1>1, <1>3, <1>5 DEF StoreInv, OnlyStoredQueue, OwnRowsQueue, PurgeIsLast
<1>10. UnreadInv'
  BY <1>3 DEF UnreadInv
<1>11. SourceInv'
  BY <1>3 DEF StoreInv, SourceInv, RatesHaveOneSource, Binding
<1>12. ShutdownInv'
  BY <1>3 DEF StoreInv, ShutdownInv
<1> QED
  BY <1>8, <1>9, <1>10, <1>11, <1>12 DEF StoreInv

\* set_paused, set_query, set_sample_interval and set_ui_preferences are such changes.
LEMMA SetStep ==
  ASSUME StoreInv,
         \/ \E p \in BOOLEAN : SetPaused(p)
         \/ \E q \in UserQueries : SetQuery(q)
         \/ \E p \in Prefs : SetPrefs(p)
  PROVE  StoreInv'
<1>1. /\ settings \in Settings /\ durableQuery \in UserQueries
      /\ live \in BOOLEAN /\ gap \in BOOLEAN
  BY DEF StoreInv, TypeOK
<1>2. ASSUME NEW p \in BOOLEAN, SetPaused(p) PROVE StoreInv'
  <2>1. [settings EXCEPT !.paused = p] \in Settings
    BY <1>1 DEF Settings
  <2>2. live' \in BOOLEAN /\ gap' \in BOOLEAN /\ (live' => live /\ gap' = gap)
    BY <1>1, <1>2 DEF SetPaused
  <2> QED
    BY <1>1, <1>2, <2>1, <2>2, ChangeStep DEF SetPaused
<1>3. ASSUME NEW q \in UserQueries, SetQuery(q) PROVE StoreInv'
  <2>1. [settings EXCEPT !.query = q] \in Settings
    BY <1>1 DEF Settings
  <2> QED
    BY <1>1, <1>3, <2>1, ChangeStep DEF SetQuery
<1>4. ASSUME NEW p \in Prefs, SetPrefs(p) PROVE StoreInv'
  <2>1. [settings EXCEPT !.prefs = p] \in Settings
    BY <1>1 DEF Settings
  <2> QED
    BY <1>1, <1>4, <2>1, ChangeStep DEF SetPrefs
<1> QED
  BY <1>2, <1>3, <1>4

\* A query of the runtime's own changes what is shown, not what is stored.
LEMMA SetRuntimeQueryStep ==
  ASSUME StoreInv, NEW q \in RuntimeQueries, SetRuntimeQuery(q)
  PROVE  StoreInv'
<1>1. /\ phase = "running" /\ phase' = "running" /\ settings' = [settings EXCEPT !.query = q]
      /\ notices' = Published(notices)
      /\ UNCHANGED <<phase, disk, jobs, rejected, failed, writer, bad, ailing, service, rows, live,
                     totals, provenance, ticks, rates, gap, elevation, durableQuery, blocked,
                     unread, result, faults>>
  BY DEF SetRuntimeQuery, fileVars, sampleVars
<1>2. settings' \in Settings
  BY <1>1 DEF StoreInv, TypeOK, Settings
<1>3. /\ notices' \in Notices
      /\ "persistence" \in notices.warnings => "persistence" \in notices'.warnings
  BY <1>1, PublishedLemma DEF StoreInv, TypeOK
<1>4. TypeOK'
  BY <1>1, <1>2, <1>3 DEF StoreInv, TypeOK
<1>5. OnlyStoredQueue' /\ OwnRowsQueue' /\ PurgeIsLast'
  BY <1>1 DEF StoreInv, OnlyStoredQueue, OwnRowsQueue, PurgeIsLast
<1>6. UnreadInv'
  BY <1>1, <1>3 DEF StoreInv, UnreadInv
<1>7. SourceInv' /\ ShutdownInv'
  BY <1>1 DEF StoreInv, SourceInv, RatesHaveOneSource, Binding, ShutdownInv
<1> QED
  BY <1>4, <1>5, <1>6, <1>7 DEF StoreInv

\* A source is known by its binding.
LEMMA BindingLemma ==
  /\ \A src \in Source : Binding(src) \in Instances \cup {None}
  /\ \A a, b \in Source : Binding(a) = Binding(b) => a = b
  /\ \A src \in Source : Binding(src) = None => src = Local
BY SourcesAssumption DEF Binding, Source

\* A sample is applied: its rates are of its own source, and its rows are
\* stored only if they are the desktop's own.
LEMMA ApplySampleStep ==
  ASSUME StoreInv, NEW src \in Source, ApplySample(src)
  PROVE  StoreInv'
<1> DEFINE known == ~Rebinds(src)
           Due == ticks' = 0 /\ ~Restricted(Binding(src))
<1>1. /\ phase = "running" /\ phase' = "running"
      /\ service' = Binding(src) /\ provenance' = Binding(src)
      /\ rates' = [process |-> IF known /\ live /\ rows # NoRows
                              THEN IF gap THEN None ELSE rows
                              ELSE Held,
                   system |-> IF known /\ totals # None THEN totals ELSE Held,
                   of |-> src]
      /\ rows' = src /\ live' = TRUE /\ totals' = src /\ gap' = FALSE
      /\ ticks' = (ticks + 1) % CacheInterval
      /\ UNCHANGED <<disk, failed, writer, bad, ailing, elevation, settings, durableQuery, blocked,
                     unread, result>>
  BY DEF ApplySample, settingVars
<1>2. PICK full \in BOOLEAN, fullNext \in BOOLEAN :
        LET w == PersistWarmCache(Queue, src, Binding(src), full)
        IN /\ Faults(One(full))
           /\ IF Due
              THEN /\ jobs' = w.jobs /\ rejected' = w.rejected
                   /\ notices' = Published(Noted(notices, w, fullNext))
              ELSE /\ notices' = Published(notices)
                   /\ UNCHANGED <<jobs, rejected>>
  BY DEF ApplySample
<1> DEFINE w == PersistWarmCache(Queue, src, Binding(src), full)
<1>3. QueueOK(Queue) /\ Queue.jobs = jobs /\ Queue.rejected = rejected
  BY DEF Queue, QueueOK, StoreInv, TypeOK
<1>4. /\ jobs' \in [File -> Seq(Job)] /\ rejected' \subseteq File
      /\ jobs'["Settings"] = jobs["Settings"]
      /\ \A i \in DOMAIN jobs'["WarmCache"] :
           \/ jobs'["WarmCache"][i].val = Local /\ elevation # "Elevated"
           \/ \E k \in DOMAIN jobs["WarmCache"] : jobs'["WarmCache"][i].val = jobs["WarmCache"][k].val
  <2> HIDE DEF w, Due
  <2>1. CASE Due
    <3>1. elevation # "Elevated" /\ src = Local /\ w = Submitted(Queue, "WarmCache", Local, full)
      BY <2>1, BindingLemma DEF Due, Restricted, PersistWarmCache, w
    <3>2. "WarmCache" \in File /\ Local \in SettingsFile \cup CacheFile
      BY FilesLemma
    <3>3. Takes(Queue, "WarmCache", Local, w)
      BY <1>3, <3>1, <3>2, SubmittedLemma
    <3>4. jobs' = w.jobs /\ rejected' = w.rejected
      BY <1>2, <2>1 DEF w
    <3> QED
      BY <1>3, <3>1, <3>3, <3>4, FilesLemma DEF Takes, QueueOK
  <2>2. CASE ~Due
    BY <1>2, <1>3, <2>2 DEF QueueOK
  <2> QED
    BY <2>1, <2>2
<1>5. /\ notices' \in Notices
      /\ "Settings" \in bad /\ "persistence" \in notices.warnings => "persistence" \in notices'.warnings
  <2> HIDE DEF w, Due
  <2>1. notices \in Notices
    BY DEF StoreInv, TypeOK
  <2>2. notices' = Published(notices) \/ notices' = Published(Noted(notices, w, fullNext))
    BY <1>2 DEF w
  <2>3. CASE notices' = Published(notices)
    BY <2>1, <2>3, PublishedLemma
  <2>4. CASE notices' = Published(Noted(notices, w, fullNext))
    BY <2>1, <2>4, PublishedLemma, NotedLemma
  <2> QED
    BY <2>2, <2>3, <2>4
<1>6. faults' \in 0 .. MaxFaults
  BY <1>2, FaultsLemma DEF One, StoreInv, TypeOK
<1>7. ticks' \in 0 .. CacheInterval - 1
  BY <1>1, StoreBoundsAssumption DEF StoreInv, TypeOK
<1>8. rates'.of = src /\ rates'.process \in {Held, src} /\ rates'.system \in {Held, src}
  <2>1. known /\ live => rows = src /\ ~gap
    BY BindingLemma DEF StoreInv, SourceInv, Rebinds
  <2>2. known /\ totals # None => totals = src
    BY BindingLemma DEF StoreInv, TypeOK, SourceInv, Rebinds
  <2> QED
    BY <1>1, <2>1, <2>2
<1>9. TypeOK'
  <2>1. rates' \in [process : Source \cup {Held, None}, system : Source \cup {Held},
                    of : Source \cup {None}]
    <3>1. rates' = [process |-> rates'.process, system |-> rates'.system, of |-> rates'.of]
      BY <1>1
    <3> QED
      BY <1>8, <3>1
  <2> QED
    BY <1>1, <1>4, <1>5, <1>6, <1>7, <2>1, BindingLemma DEF StoreInv, TypeOK
<1>10. OnlyStoredQueue' /\ OwnRowsQueue' /\ PurgeIsLast'
  BY <1>1, <1>4, SourcesAssumption, FilesLemma
     DEF StoreInv, OnlyStoredQueue, OwnRowsQueue, PurgeIsLast, Source
<1>11. UnreadInv'
  BY <1>1, <1>4, <1>5 DEF StoreInv, UnreadInv
<1>12. SourceInv'
  BY <1>1, <1>8, BindingLemma DEF SourceInv, RatesHaveOneSource, Source
<1>13. ShutdownInv'
  BY <1>1 DEF StoreInv, ShutdownInv
<1> QED
  BY <1>9, <1>10, <1>11, <1>12, <1>13 DEF StoreInv

\* A step that drops measurements of the last sample or keeps them, and
\* publishes, touches no file.
LEMMA PublishStep ==
  ASSUME StoreInv,
         phase = "running", phase' \in {"running", "fatal"}, notices' = Published(notices),
         UNCHANGED <<fileVars, settingVars, provenance, ticks, rates, result, faults>>,
         \/ UNCHANGED <<service, rows, totals>>
         \/ service' \in Instances /\ rows' = NoRows /\ totals' = None,
         live' \in BOOLEAN, gap' \in BOOLEAN,
         live' => live /\ gap' = gap /\ service' = service /\ rows' = rows
  PROVE  StoreInv'
<1>1. /\ UNCHANGED <<disk, jobs, rejected, failed, writer, bad, ailing, provenance, ticks, rates,
                     elevation, settings, durableQuery, blocked, unread, result, faults>>
  BY DEF fileVars, settingVars
<1>2. /\ notices' \in Notices
      /\ "persistence" \in notices.warnings => "persistence" \in notices'.warnings
  BY PublishedLemma DEF StoreInv, TypeOK
<1>3. /\ service' \in Instances \cup {None} /\ rows' \in Source \cup {NoRows}
      /\ totals' \in Source \cup {None}
      /\ totals' # None => totals' = totals /\ service' = service
      /\ service' = None => service = None /\ rows' = rows
  BY SourcesAssumption DEF StoreInv, TypeOK
<1>4. TypeOK'
  BY <1>1, <1>2, <1>3 DEF StoreInv, TypeOK
<1>5. OnlyStoredQueue' /\ OwnRowsQueue' /\ PurgeIsLast'
  BY <1>1 DEF StoreInv, OnlyStoredQueue, OwnRowsQueue, PurgeIsLast
<1>6. UnreadInv'
  BY <1>1, <1>2 DEF StoreInv, UnreadInv
<1>7. SourceInv'
  BY <1>1, <1>3 DEF StoreInv, SourceInv, RatesHaveOneSource, Binding
<1>8. ShutdownInv'
  BY <1>1 DEF StoreInv, ShutdownInv
<1> QED
  BY <1>4, <1>5, <1>6, <1>7, <1>8 DEF StoreInv

\* A repeated sample is such a step: it drops what another source measured.
LEMMA RepeatSampleStep == ASSUME StoreInv, RepeatSample PROVE StoreInv'
<1>1. provenance \in Instances \cup {None} /\ live \in BOOLEAN /\ gap \in BOOLEAN
  BY DEF StoreInv, TypeOK
<1>2. /\ phase = "running" /\ phase' \in {"running", "fatal"} /\ notices' = Published(notices)
      /\ UNCHANGED <<fileVars, settingVars, provenance, ticks, rates, result, faults>>
      /\ gap' = gap /\ service' = provenance /\ provenance \in Instances
  BY <1>1 DEF RepeatSample
<1>3. CASE service # provenance
  <2>1. rows' = NoRows /\ live' = FALSE /\ totals' = None
    BY <1>3 DEF RepeatSample
  <2> QED
    BY <1>1, <1>2, <2>1, PublishStep
<1>4. CASE service = provenance
  <2>1. UNCHANGED <<service, rows, live, totals>>
    BY <1>4 DEF RepeatSample
  <2> QED
    BY <1>1, <1>2, <2>1, PublishStep
<1> QED
  BY <1>3, <1>4

\* So is an interruption of the sampling, which ends the live snapshot.
LEMMA InterruptedStep ==
  ASSUME StoreInv, NEW next \in {"running", "fatal"}, Interrupted(next)
  PROVE  StoreInv'
BY PublishStep DEF Interrupted

\* So is a heartbeat.
LEMMA HeartbeatStep == ASSUME StoreInv, Heartbeat PROVE StoreInv'
<1>1. live \in BOOLEAN /\ gap \in BOOLEAN
  BY DEF StoreInv, TypeOK
<1> QED
  BY <1>1, PublishStep DEF Heartbeat, sampleVars

-----------------------------------------------------------------------------
\* What is left of a queue whose first job was taken.
LEMMA TailLemma ==
  ASSUME NEW q \in Seq(Job), q # <<>>
  PROVE  /\ Head(q) = q[1] /\ 1 \in DOMAIN q /\ Tail(q) \in Seq(Job)
         /\ \A i \in DOMAIN Tail(q) : i + 1 \in DOMAIN q /\ Tail(q)[i] = q[i + 1]
         /\ Tail(q) # <<>> => Tail(q)[Len(Tail(q))] = q[Len(q)]
         /\ Tail(q) = <<>> => q[Len(q)] = q[1]
<1>1. /\ Len(q) \in Nat /\ Len(q) > 0 /\ DOMAIN q = 1 .. Len(q) /\ Head(q) = q[1]
      /\ Tail(q) \in Seq(Job) /\ Len(Tail(q)) = Len(q) - 1
      /\ \A i \in 1 .. Len(q) - 1 : Tail(q)[i] = q[i + 1]
  OBVIOUS
<1>2. DOMAIN Tail(q) = 1 .. Len(q) - 1
  BY <1>1
<1>3. Tail(q) = <<>> => Len(q) = 1
  BY <1>1
<1>4. Tail(q) # <<>> => Len(q) - 1 \in 1 .. Len(q) - 1
  <2>1. \A r \in Seq(Job) : Len(r) = 0 => r = <<>>
    OBVIOUS
  <2> QED
    BY <1>1, <2>1
<1> QED
  BY <1>1, <1>2, <1>3, <1>4

\* The writer takes the first job of f, and the file has its value or f is
\* among the failed.
LEMMA JobStep ==
  ASSUME StoreInv, NEW f \in File, phase # "off", jobs[f] # <<>>,
         jobs' = [jobs EXCEPT ![f] = Tail(@)],
         \/ disk' = disk /\ f \in failed'
         \/ disk' = [disk EXCEPT ![f] = Head(jobs[f]).val],
         \/ rejected' = rejected
         \/ ~Head(jobs[f]).stale /\ rejected' = rejected \ {f},
         failed' \in {failed \cup {f}, failed \ {f}}, bad' \in {bad \cup {f}, bad \ {f}},
         ailing' \in BOOLEAN, faults' \in 0 .. MaxFaults,
         UNCHANGED <<phase, writer, sampleVars, settingVars, notices, result>>
  PROVE  StoreInv'
<1> DEFINE q == jobs[f]
           t == Tail(q)
<1>1. /\ UNCHANGED <<phase, writer, service, rows, live, totals, provenance, ticks, rates, gap,
                     elevation, settings, durableQuery, blocked, unread, notices, result>>
  BY DEF sampleVars, settingVars
<1>2. q \in Seq(Job) /\ q # <<>> /\ jobs \in [File -> Seq(Job)]
  BY DEF StoreInv, TypeOK
<1>3. /\ Head(q) = q[1] /\ 1 \in DOMAIN q /\ t \in Seq(Job)
      /\ \A i \in DOMAIN t : i + 1 \in DOMAIN q /\ t[i] = q[i + 1]
      /\ t # <<>> => t[Len(t)] = q[Len(q)]
      /\ t = <<>> => q[Len(q)] = q[1]
  BY <1>2, TailLemma
<1>4. /\ jobs' \in [File -> Seq(Job)] /\ jobs'[f] = t
      /\ \A g \in File \ {f} : jobs'[g] = jobs[g]
  BY <1>2, <1>3
<1>5. ASSUME f = "Settings"
      PROVE  TypeOK' /\ OnlyStoredQueue' /\ OwnRowsQueue' /\ PurgeIsLast' /\ UnreadInv'
  <2>1. q = jobs.Settings /\ q[1].val \in Stored /\ \A i \in DOMAIN t : t[i].val \in Stored
    BY <1>3, <1>5 DEF StoreInv, OnlyStoredQueue
  <2>2. unread = None /\ ~blocked
    BY <1>2, <2>1 DEF StoreInv, UnreadInv
  <2>3. /\ disk' \in [File -> SettingsFile \cup CacheFile]
        /\ disk'.Settings \in Stored \cup {Absent, Garbled, Legacy} /\ disk'.WarmCache = disk.WarmCache
    BY <1>3, <1>5, <2>1, FilesLemma DEF StoreInv, TypeOK, OnlyStoredQueue
  <2>4. jobs'.WarmCache = jobs.WarmCache /\ jobs'.Settings = t
    BY <1>4, <1>5, FilesLemma
  <2>5. TypeOK'
    <3>1. disk'.Settings \in SettingsFile /\ disk'.WarmCache \in CacheFile
      BY <2>3, FilesLemma DEF StoreInv, TypeOK, SettingsFile
    <3>2. rejected' \subseteq File /\ failed' \subseteq File /\ bad' \subseteq File
      BY DEF StoreInv, TypeOK
    <3> QED
      BY <1>1, <1>4, <2>3, <3>1, <3>2 DEF StoreInv, TypeOK
  <2>6. OnlyStoredQueue' /\ OwnRowsQueue' /\ PurgeIsLast'
    BY <1>1, <2>1, <2>3, <2>4 DEF StoreInv, OnlyStoredQueue, OwnRowsQueue, PurgeIsLast
  <2>7. UnreadInv'
    BY <1>1, <2>2 DEF StoreInv, UnreadInv
  <2> QED
    BY <2>5, <2>6, <2>7
<1>6. ASSUME f = "WarmCache"
      PROVE  TypeOK' /\ OnlyStoredQueue' /\ OwnRowsQueue' /\ PurgeIsLast' /\ UnreadInv'
  <2> DEFINE own == IF elevation = "Elevated" THEN {Absent} ELSE {Local, NoRows, Absent}
  <2>1. q = jobs.WarmCache /\ q[1].val \in own /\ \A i \in DOMAIN t : t[i].val \in own
    BY <1>3, <1>6 DEF StoreInv, OwnRowsQueue
  <2>2. /\ disk' \in [File -> SettingsFile \cup CacheFile]
        /\ disk'.WarmCache \in {Local, NoRows, Absent, Garbled} /\ disk'.Settings = disk.Settings
    <3>1. Head(q).val \in {Local, NoRows, Absent} /\ Head(q).val \in CacheFile
      BY <1>3, <2>1, FilesLemma
    <3>2. /\ disk \in [File -> SettingsFile \cup CacheFile]
          /\ disk.WarmCache \in {Local, NoRows, Absent, Garbled}
      BY DEF StoreInv, TypeOK, OwnRowsQueue
    <3> HIDE DEF q, own
    <3>3. disk' = disk \/ disk' = [disk EXCEPT !["WarmCache"] = Head(q).val]
      BY <1>6 DEF q
    <3> QED
      BY <3>1, <3>2, <3>3, FilesLemma
  <2>3. jobs'.Settings = jobs.Settings /\ jobs'.WarmCache = t
    BY <1>4, <1>6, FilesLemma
  <2>4. TypeOK'
    <3>1. disk'.Settings \in SettingsFile /\ disk'.WarmCache \in CacheFile
      BY <2>2, FilesLemma DEF StoreInv, TypeOK
    <3>2. rejected' \subseteq File /\ failed' \subseteq File /\ bad' \subseteq File
      BY DEF StoreInv, TypeOK
    <3> QED
      BY <1>1, <1>4, <2>2, <3>1, <3>2 DEF StoreInv, TypeOK
  <2>5. OnlyStoredQueue' /\ OwnRowsQueue'
    BY <1>1, <2>1, <2>2, <2>3 DEF StoreInv, OnlyStoredQueue, OwnRowsQueue
  <2>6. PurgeIsLast'
    BY <1>1, <1>3, <2>1, <2>3 DEF StoreInv, PurgeIsLast
  <2>7. UnreadInv'
    BY <1>1, <1>6, <2>2, <2>3, FilesLemma DEF StoreInv, UnreadInv
  <2> QED
    BY <2>4, <2>5, <2>6, <2>7
<1>7. SourceInv'
  BY <1>1 DEF StoreInv, SourceInv, RatesHaveOneSource, Binding
<1>8. ShutdownInv'
  <2>1. ~Drained
    BY <1>2 DEF Drained
  <2>2. result' # "ok"
    BY <1>1, <2>1 DEF StoreInv, ShutdownInv
  <2>3. \A g \in File : Wanted(g)' = Wanted(g)
    BY <1>1 DEF Wanted, Restricted, Persisted
  <2>4. ASSUME NEW g \in File, g # f, Arrives(g) PROVE Arrives(g)'
    <3>1. /\ jobs'[g] = jobs[g] /\ disk'[g] = disk[g]
          /\ (g \in rejected' <=> g \in rejected) /\ (g \in failed' <=> g \in failed)
      BY <1>4, <2>4 DEF StoreInv, TypeOK
    <3> QED
      BY <2>3, <2>4, <3>1 DEF Arrives
  <2>5. ASSUME Arrives(f) PROVE Arrives(f)'
    <3>1. CASE f \in rejected /\ \A i \in DOMAIN q : q[i].stale
      <4>1. rejected' = rejected /\ \A i \in DOMAIN t : t[i].stale
        BY <1>3, <3>1
      <4> QED
        BY <1>4, <3>1, <4>1 DEF Arrives
    <3>2. CASE q[Len(q)].val = Wanted(f) /\ t # <<>>
      <4>1. t[Len(t)].val = Wanted(f)'
        BY <1>3, <2>3, <3>2
      <4> QED
        BY <1>4, <3>2, <4>1 DEF Arrives
    <3>3. CASE q[Len(q)].val = Wanted(f) /\ t = <<>>
      <4>1. f \in failed' \/ disk'[f] = Wanted(f)'
        BY <1>3, <2>3, <3>3 DEF StoreInv, TypeOK
      <4> QED
        BY <1>4, <3>3, <4>1 DEF Arrives
    <3> QED
      BY <1>2, <2>5, <3>1, <3>2, <3>3 DEF Arrives
  <2> QED
    BY <1>1, <2>2, <2>4, <2>5 DEF StoreInv, ShutdownInv
<1> QED
  BY <1>5, <1>6, <1>7, <1>8, FilesLemma DEF StoreInv

\* A job is done well, or fails, or its success is masked.
LEMMA WriterJobStep ==
  ASSUME StoreInv,
         (\E f \in File : WriterStores(f) \/ WriterFails(f)) \/ WriterIsMasked
  PROVE  StoreInv'
<1>1. faults \in 0 .. MaxFaults /\ ailing \in BOOLEAN /\ rejected \subseteq File
  BY DEF StoreInv, TypeOK
<1>2. ASSUME NEW f \in File, WriterStores(f) PROVE StoreInv'
  <2>1. ailing' \in BOOLEAN /\ faults' \in 0 .. MaxFaults
    BY <1>1, <1>2 DEF WriterStores
  <2>2. rejected' = rejected \/ (~Head(jobs[f]).stale /\ rejected' = rejected \ {f})
    BY <1>2 DEF WriterStores
  <2> QED
    BY <1>2, <2>1, <2>2, JobStep DEF WriterStores
<1>3. ASSUME NEW f \in File, WriterFails(f) PROVE StoreInv'
  <2>1. faults' \in 0 .. MaxFaults
    BY <1>1, <1>3, FaultsLemma DEF WriterFails
  <2>2. f \in failed' /\ rejected' = rejected /\ ailing' \in BOOLEAN
    BY <1>3 DEF WriterFails
  <2> QED
    BY <1>3, <2>1, <2>2, JobStep DEF WriterFails
<1>4. ASSUME WriterIsMasked PROVE StoreInv'
  <2>1. faults' \in 0 .. MaxFaults
    BY <1>1, <1>4, FaultsLemma DEF WriterIsMasked
  <2>2. "Settings" \in File
    BY FilesLemma
  <2>3. rejected' = rejected /\ ailing' \in BOOLEAN
    BY <1>4 DEF WriterIsMasked
  <2> QED
    BY <1>4, <2>1, <2>2, <2>3, JobStep DEF WriterIsMasked
<1> QED
  BY <1>2, <1>3, <1>4

\* Diagnostics and the migration touch neither queue nor file.
LEMMA WriterHealthStep ==
  ASSUME StoreInv, WriterDiagnoses \/ WriterMigrates
  PROVE  StoreInv'
<1>1. UNCHANGED <<phase, disk, jobs, rejected, failed, writer, service, rows, live, totals, provenance,
                  ticks, rates, gap, elevation, settings, durableQuery, blocked, unread, result>>
  BY DEF WriterDiagnoses, WriterMigrates, sampleVars, settingVars
<1>2. faults \in 0 .. MaxFaults /\ notices \in Notices /\ bad \subseteq File /\ ailing \in BOOLEAN
  BY DEF StoreInv, TypeOK
<1>3. /\ faults' \in 0 .. MaxFaults /\ ailing' \in BOOLEAN
      /\ bad \subseteq bad' /\ bad' \subseteq File
      /\ notices' \in Notices /\ notices'.warnings = notices.warnings
  <2>1. CASE WriterDiagnoses
    <3>1. faults' \in 0 .. MaxFaults
      BY <1>2, <2>1, FaultsLemma DEF WriterDiagnoses, One
    <3> QED
      BY <1>2, <2>1, <3>1 DEF WriterDiagnoses
  <2>2. CASE WriterMigrates
    <3>1. notices' \in Notices /\ notices'.warnings = notices.warnings
      BY <1>2, <2>2 DEF WriterMigrates, Notices
    <3>2. faults' \in 0 .. MaxFaults
      BY <1>2, <2>2, FaultsLemma DEF WriterMigrates
    <3>3. ailing' \in BOOLEAN /\ bad \subseteq bad' /\ bad' \subseteq File
      BY <1>2, <2>2, FilesLemma DEF WriterMigrates
    <3> QED
      BY <3>1, <3>2, <3>3
  <2> QED
    BY <2>1, <2>2
<1>4. TypeOK'
  BY <1>1, <1>3 DEF StoreInv, TypeOK
<1>5. OnlyStoredQueue' /\ OwnRowsQueue' /\ PurgeIsLast'
  BY <1>1 DEF StoreInv, OnlyStoredQueue, OwnRowsQueue, PurgeIsLast
<1>6. UnreadInv'
  BY <1>1, <1>3 DEF StoreInv, UnreadInv, Drained
<1>7. SourceInv'
  BY <1>1 DEF StoreInv, SourceInv, RatesHaveOneSource, Binding
<1>8. ShutdownInv'
  BY <1>1 DEF StoreInv, ShutdownInv, Arrives, Wanted, Restricted, Persisted, Drained
<1> QED
  BY <1>4, <1>5, <1>6, <1>7, <1>8 DEF StoreInv

\* What waits when the writer dies is rejected.
LEMMA WriterDiesStep == ASSUME StoreInv, WriterDies PROVE StoreInv'
<1>1. /\ UNCHANGED <<phase, disk, failed, bad, ailing, service, rows, live, totals, provenance,
                     ticks, rates, gap, elevation, settings, durableQuery, blocked, unread, result>>
      /\ writer' = "dead" /\ rejected' = File /\ phase # "off"
  BY DEF WriterDies, sampleVars, settingVars
<1>2. /\ jobs' \in [File -> Seq(Job)] /\ \A f \in File : jobs'[f] = <<>>
      /\ jobs'.Settings = <<>> /\ jobs'.WarmCache = <<>>
  BY FilesLemma DEF WriterDies
<1>3. faults' \in 0 .. MaxFaults
  BY FaultsLemma DEF WriterDies, StoreInv, TypeOK
<1>4. notices' \in Notices /\ notices'.warnings = notices.warnings
  BY DEF WriterDies, StoreInv, TypeOK, Notices
<1>5. TypeOK'
  BY <1>1, <1>2, <1>3, <1>4 DEF StoreInv, TypeOK
<1>6. OnlyStoredQueue' /\ OwnRowsQueue' /\ PurgeIsLast'
  BY <1>1, <1>2 DEF StoreInv, OnlyStoredQueue, OwnRowsQueue, PurgeIsLast
<1>7. UnreadInv'
  BY <1>1, <1>2, <1>4 DEF StoreInv, UnreadInv
<1>8. SourceInv'
  BY <1>1 DEF StoreInv, SourceInv, RatesHaveOneSource, Binding
<1>9. ShutdownInv'
  <2>1. \A f \in File : Arrives(f)'
    BY <1>1, <1>2 DEF Arrives
  <2>2. Drained' /\ \A f \in File : Wanted(f)' = Wanted(f)
    BY <1>1, <1>2 DEF Drained, Wanted, Restricted, Persisted
  <2> QED
    BY <1>1, <2>1, <2>2 DEF StoreInv, ShutdownInv
<1> QED
  BY <1>5, <1>6, <1>7, <1>8, <1>9 DEF StoreInv

-----------------------------------------------------------------------------
\* The shutdown submits what it wants of each file, and leaves unread settings alone.
LEMMA BeginShutdownStep == ASSUME StoreInv, BeginShutdown PROVE StoreInv'
<1> DEFINE v == Persisted(settings, durableQuery)
           u == IF Restricted(service) THEN Absent ELSE rows
<1>1. PICK full \in BOOLEAN, fullCache \in BOOLEAN, fullNext \in BOOLEAN :
        LET w == PersistAutomatically(Queue, full)
            c == PurgeOrPersistCache(w, fullCache)
            noted == IF blocked THEN notices ELSE Noted(notices, w, fullNext)
        IN /\ Faults(One(full) + One(fullCache))
           /\ jobs' = c.jobs /\ rejected' = c.rejected
           /\ notices' = Noted(noted, c, fullNext)
  BY DEF BeginShutdown
<1> DEFINE w == PersistAutomatically(Queue, full)
           c == PurgeOrPersistCache(w, fullCache)
<1>2. /\ UNCHANGED <<disk, failed, writer, bad, ailing, service, rows, live, totals, provenance,
                     ticks, rates, gap, elevation, settings, durableQuery, blocked, unread, result>>
      /\ phase \in {"running", "fatal"} /\ phase' = "flushing"
  BY DEF BeginShutdown, sampleVars, settingVars
<1>3. QueueOK(Queue) /\ Queue.jobs = jobs /\ Queue.rejected = rejected
  BY DEF Queue, QueueOK, StoreInv, TypeOK
<1>4. v \in Stored
  BY PersistedLemma DEF StoreInv, TypeOK
<1>5. u \in {Local, NoRows, Absent} /\ (elevation = "Elevated" => u = Absent)
  BY DEF StoreInv, SourceInv, Restricted
<1> HIDE DEF v, u
<1>6. blocked \in BOOLEAN /\ (blocked => w = Queue) /\ (~blocked => Takes(Queue, "Settings", v, w))
  <2>1. "Settings" \in File /\ v \in SettingsFile \cup CacheFile
    BY <1>4, FilesLemma
  <2>2. ~blocked => w = Submitted(Queue, "Settings", v, full)
    BY DEF PersistAutomatically, v
  <2>3. blocked \in BOOLEAN /\ (blocked => w = Queue)
    BY DEF StoreInv, TypeOK, PersistAutomatically
  <2> HIDE DEF w
  <2> QED
    BY <1>3, <2>1, <2>2, <2>3, SubmittedLemma
<1> HIDE DEF w
<1>7. QueueOK(w) /\ w.jobs["WarmCache"] = jobs["WarmCache"]
  BY <1>3, <1>6, FilesLemma DEF Takes
<1>8. Takes(w, "WarmCache", u, c)
  <2>1. "WarmCache" \in File /\ u \in SettingsFile \cup CacheFile
    BY <1>5, FilesLemma
  <2>2. c = Submitted(w, "WarmCache", u, fullCache)
    BY DEF PurgeOrPersistCache, u
  <2> HIDE DEF c
  <2> QED
    BY <1>7, <2>1, <2>2, SubmittedLemma
<1> HIDE DEF c
<1>9. jobs' = c.jobs /\ rejected' = c.rejected
  BY <1>1 DEF c, w
<1>10. /\ jobs' \in [File -> Seq(Job)] /\ rejected' \subseteq File
       /\ jobs'["Settings"] = w.jobs["Settings"] /\ ("Settings" \in rejected' <=> "Settings" \in w.rejected)
       /\ blocked => jobs'["Settings"] = <<>>
       /\ \A i \in DOMAIN jobs'["WarmCache"] :
            jobs'["WarmCache"][i].val = u
            \/ \E k \in DOMAIN jobs["WarmCache"] : jobs'["WarmCache"][i].val = jobs["WarmCache"][k].val
  <2>1. blocked => jobs["Settings"] = <<>>
    BY <1>2 DEF StoreInv, UnreadInv
  <2> QED
    BY <1>3, <1>6, <1>7, <1>8, <1>9, <2>1, FilesLemma DEF Takes, QueueOK
<1>11. \A i \in DOMAIN jobs'["Settings"] : jobs'["Settings"][i].val \in Stored
  <2>1. \A k \in DOMAIN jobs["Settings"] : jobs["Settings"][k].val \in Stored
    BY DEF StoreInv, OnlyStoredQueue
  <2>2. CASE blocked
    BY <1>10, <2>2
  <2>3. CASE ~blocked
    BY <1>3, <1>4, <1>6, <1>10, <2>1, <2>3 DEF Takes
  <2> QED
    BY <2>2, <2>3
<1>12. /\ notices' \in Notices
       /\ "Settings" \in bad /\ "persistence" \in notices.warnings => "persistence" \in notices'.warnings
  <2> DEFINE noted == IF blocked THEN notices ELSE Noted(notices, w, fullNext)
  <2>1. notices \in Notices
    BY DEF StoreInv, TypeOK
  <2>2. /\ noted \in Notices
        /\ "Settings" \in bad /\ "persistence" \in notices.warnings => "persistence" \in noted.warnings
    BY <2>1, NotedLemma
  <2>3. notices' = Noted(noted, c, fullNext)
    BY <1>1 DEF c, w
  <2> HIDE DEF noted
  <2> QED
    BY <2>2, <2>3, NotedLemma
<1>13. faults' \in 0 .. MaxFaults
  BY <1>1, FaultsLemma DEF One, StoreInv, TypeOK
<1>14. TypeOK'
  BY <1>2, <1>10, <1>12, <1>13 DEF StoreInv, TypeOK
<1>15. OnlyStoredQueue' /\ OwnRowsQueue' /\ PurgeIsLast'
  <2>1. OnlyStoredQueue' /\ PurgeIsLast'
    BY <1>2, <1>11 DEF StoreInv, OnlyStoredQueue, PurgeIsLast
  <2>2. OwnRowsQueue'
    BY <1>2, <1>5, <1>10 DEF StoreInv, OwnRowsQueue
  <2> QED
    BY <2>1, <2>2
<1>16. UnreadInv'
  BY <1>2, <1>10, <1>12 DEF StoreInv, UnreadInv
<1>17. SourceInv'
  BY <1>2 DEF StoreInv, SourceInv, RatesHaveOneSource, Binding
<1>18. ShutdownInv'
  <2>1. Wanted("WarmCache")' = u
    BY <1>2, FilesLemma DEF Wanted, Restricted, u
  <2>2. Arrives("WarmCache")'
    BY <1>8, <1>9, <2>1 DEF Takes, Arrives
  <2>3. CASE blocked
    <3>1. Wanted("Settings")' = unread /\ disk'["Settings"] = unread
      BY <1>2, <2>3 DEF Wanted, StoreInv, UnreadInv
    <3> QED
      BY <1>2, <1>10, <2>2, <2>3, <3>1, FilesLemma DEF StoreInv, ShutdownInv, Arrives
  <2>4. CASE ~blocked
    <3>1. Wanted("Settings")' = v
      BY <1>2, <2>4 DEF Wanted, Persisted, v
    <3>2. Arrives("Settings")'
      BY <1>6, <1>10, <2>4, <3>1 DEF Takes, Arrives
    <3> QED
      BY <1>2, <2>2, <3>2, FilesLemma DEF StoreInv, ShutdownInv
  <2> QED
    BY <2>3, <2>4
<1> QED
  BY <1>14, <1>15, <1>16, <1>17, <1>18 DEF StoreInv

\* A flush that succeeds finds in each file what the shutdown wants there.
LEMMA FlushStep == ASSUME StoreInv, Flush \/ FlushTimeout PROVE StoreInv'
<1>1. /\ UNCHANGED <<disk, jobs, rejected, failed, writer, bad, ailing, service, rows, live, totals,
                     provenance, ticks, rates, gap, elevation, settings, durableQuery, blocked, unread,
                     notices, faults>>
      /\ phase = "flushing" /\ phase' = "stopped"
  BY DEF Flush, FlushTimeout, fileVars, sampleVars, settingVars
<1>2. result' \in {"ok", "error"}
  BY DEF Flush, FlushTimeout
<1>3. TypeOK'
  BY <1>1, <1>2 DEF StoreInv, TypeOK
<1>4. OnlyStoredQueue' /\ OwnRowsQueue' /\ PurgeIsLast'
  BY <1>1 DEF StoreInv, OnlyStoredQueue, OwnRowsQueue, PurgeIsLast
<1>5. UnreadInv'
  BY <1>1 DEF StoreInv, UnreadInv
<1>6. SourceInv'
  BY <1>1 DEF StoreInv, SourceInv, RatesHaveOneSource, Binding
<1>7. ShutdownInv'
  <2>1. ASSUME result' = "ok" PROVE Drained /\ \A f \in File : disk[f] = Wanted(f)
    <3>1. Drained /\ rejected = {} /\ failed = {}
      BY <2>1 DEF Flush, FlushTimeout
    <3> QED
      BY <1>1, <3>1 DEF StoreInv, ShutdownInv, Arrives, Drained
  <2>2. (Drained' <=> Drained) /\ \A f \in File : Wanted(f)' = Wanted(f)
    BY <1>1 DEF Drained, Wanted, Restricted, Persisted
  <2> QED
    BY <1>1, <2>1, <2>2 DEF ShutdownInv
<1> QED
  BY <1>3, <1>4, <1>5, <1>6, <1>7 DEF StoreInv

\* A session that is over, or was killed, leaves the files.
LEMMA ExitStep == ASSUME StoreInv, Exit PROVE StoreInv'
<1>1. /\ phase' = "off" /\ UNCHANGED <<disk, elevation, unread>>
      /\ rejected' = {} /\ failed' = {} /\ bad' = {} /\ writer' = "up" /\ ailing' = FALSE
      /\ settings' = Default /\ durableQuery' = DefaultQuery /\ blocked' = FALSE
      /\ service' = None /\ provenance' = None /\ rows' = NoRows /\ live' = FALSE /\ totals' = None
      /\ ticks' = 0 /\ rates' = NoRates /\ gap' = FALSE /\ result' = "none"
  BY DEF Exit
<1>2. /\ jobs' \in [File -> Seq(Job)] /\ \A f \in File : jobs'[f] = <<>>
      /\ jobs'.Settings = <<>> /\ jobs'.WarmCache = <<>>
  BY FilesLemma DEF Exit
<1>3. TypeOK'
  <2>1. ticks' \in 0 .. CacheInterval - 1 /\ faults' \in 0 .. MaxFaults
    BY StoreBoundsAssumption DEF Exit
  <2>2. notices' \in Notices /\ NoRates \in [process : Source \cup {Held, None}, system : Source \cup {Held},
                                             of : Source \cup {None}]
    BY DEF Exit, Notices, NoRates
  <2>3. settings' \in Settings /\ durableQuery' \in UserQueries
    BY <1>1, FilesLemma, DefaultsAssumption
  <2> QED
    BY <1>1, <1>2, <2>1, <2>2, <2>3 DEF StoreInv, TypeOK
<1>4. OnlyStoredQueue' /\ OwnRowsQueue' /\ PurgeIsLast'
  BY <1>1, <1>2 DEF StoreInv, OnlyStoredQueue, OwnRowsQueue, PurgeIsLast
<1>5. UnreadInv'
  BY <1>1, <1>2 DEF StoreInv, UnreadInv, Drained
<1>6. SourceInv' /\ ShutdownInv'
  BY <1>1 DEF SourceInv, RatesHaveOneSource, NoRates, ShutdownInv
<1> QED
  BY <1>3, <1>4, <1>5, <1>6 DEF StoreInv

\* A step that changes nothing
LEMMA StutterStep == ASSUME StoreInv, UNCHANGED vars PROVE StoreInv'
<1>1. UNCHANGED <<phase, disk, jobs, rejected, failed, writer, bad, ailing, service, rows, live, totals,
                  provenance, ticks, rates, gap, elevation, settings, durableQuery, blocked, unread,
                  notices, result, faults>>
  BY DEF vars, fileVars, sampleVars, settingVars
<1>2. TypeOK' /\ OnlyStoredQueue' /\ OwnRowsQueue' /\ PurgeIsLast'
  BY <1>1 DEF StoreInv, TypeOK, OnlyStoredQueue, OwnRowsQueue, PurgeIsLast
<1>3. UnreadInv' /\ SourceInv'
  BY <1>1 DEF StoreInv, UnreadInv, Drained, SourceInv, RatesHaveOneSource, Binding
<1>4. ShutdownInv'
  BY <1>1 DEF StoreInv, ShutdownInv, Arrives, Wanted, Restricted, Persisted, Drained
<1> QED
  BY <1>2, <1>3, <1>4 DEF StoreInv

\* Every step of the store and of its writer keeps the inductive invariant.
LEMMA NextStoreInv == StoreInv /\ [Next]_vars => StoreInv'
<1> SUFFICES ASSUME StoreInv, [Next]_vars PROVE StoreInv'
  OBVIOUS
<1>1. CASE Start
  BY <1>1, StartStep
<1>2. CASE \/ \E p \in BOOLEAN : SetPaused(p)
           \/ \E q \in UserQueries : SetQuery(q)
           \/ \E p \in Prefs : SetPrefs(p)
  BY <1>2, SetStep
<1>3. CASE \E q \in RuntimeQueries : SetRuntimeQuery(q)
  BY <1>3, SetRuntimeQueryStep
<1>4. CASE \E src \in Source : ApplySample(src)
  BY <1>4, ApplySampleStep
<1>5. CASE RepeatSample
  BY <1>5, RepeatSampleStep
<1>6. CASE CollectorUnavailable
  BY <1>6, InterruptedStep DEF CollectorUnavailable
<1>7. CASE EngineFatal
  BY <1>7, InterruptedStep DEF EngineFatal
<1>8. CASE Heartbeat
  BY <1>8, HeartbeatStep
<1>9. CASE (\E f \in File : WriterStores(f) \/ WriterFails(f)) \/ WriterIsMasked
  BY <1>9, WriterJobStep
<1>10. CASE WriterDiagnoses \/ WriterMigrates
  BY <1>10, WriterHealthStep
<1>11. CASE WriterDies
  BY <1>11, WriterDiesStep
<1>12. CASE BeginShutdown
  BY <1>12, BeginShutdownStep
<1>13. CASE Flush \/ FlushTimeout
  BY <1>13, FlushStep
<1>14. CASE Exit
  BY <1>14, ExitStep
<1>15. CASE UNCHANGED vars
  BY <1>15, StutterStep
<1> QED
  BY <1>1, <1>2, <1>3, <1>4, <1>5, <1>6, <1>7, <1>8, <1>9, <1>10, <1>11, <1>12, <1>13, <1>14, <1>15
     DEF Next

-----------------------------------------------------------------------------
\* The inductive invariant of a store over any number of sessions, killed or
\* not: what may wait for each file, what keeps unread settings safe, what
\* source the measurements are of, and what a shutdown still owes each file.
THEOREM StoreInvariance == Spec => []StoreInv
BY InitStoreInv, NextStoreInv, PTL DEF Spec

\* Settings that could not be loaded (settings_rewrite_blocked) stay in their
\* file and keep their warning until the user changes a setting.
THEOREM UnreadSettingsSafety == Spec => []UnreadSettingsAreSafe
<1>1. StoreInv => UnreadSettingsAreSafe
  BY DEF StoreInv, UnreadInv, UnreadSettingsAreSafe, UnreadSettingsAreKept, UnreadSettingsAreVisible
<1> QED
  BY <1>1, StoreInvariance, PTL

\* Rows the collector service measured never reach the warm cache or its queue,
\* and an elevated process only ever asks for the file's removal.
THEOREM PrivilegedRowsSafety == Spec => []PrivilegedRowsAreNotStored
<1>1. StoreInv => PrivilegedRowsAreNotStored
  <2> SUFFICES ASSUME StoreInv PROVE PrivilegedRowsAreNotStored
    OBVIOUS
  <2>1. /\ disk.WarmCache \in {Local, NoRows, Absent, Garbled}
        /\ \A i \in DOMAIN jobs.WarmCache :
             /\ jobs.WarmCache[i].val \in {Local, NoRows, Absent}
             /\ elevation = "Elevated" => jobs.WarmCache[i].val = Absent
    BY DEF StoreInv, OwnRowsQueue
  <2>2. {Local, NoRows, Absent, Garbled} \cap Instances = {}
    BY SourcesAssumption
  <2> QED
    BY <2>1, <2>2 DEF PrivilegedRowsAreNotStored
<1> QED
  BY <1>1, StoreInvariance, PTL

\* A rate compares two measurements of one source, with no interruption between.
THEOREM RatesSafety == Spec => []RatesHaveOneSource
<1>1. StoreInv => RatesHaveOneSource
  BY DEF StoreInv, SourceInv
<1> QED
  BY <1>1, StoreInvariance, PTL

\* A query of QueryWriteIntent::RuntimeOnly never reaches the settings file.
THEOREM UserQueriesSafety == Spec => []OnlyUserQueriesAreStored
<1>1. StoreInv => OnlyUserQueriesAreStored
  <2> SUFFICES ASSUME StoreInv PROVE OnlyUserQueriesAreStored
    OBVIOUS
  <2>1. /\ disk.Settings \in Stored \cup {Absent, Garbled, Legacy}
        /\ \A i \in DOMAIN jobs.Settings : jobs.Settings[i].val \in Stored
    BY DEF StoreInv, OnlyStoredQueue
  <2>2. \A x \in Stored : x.query \in UserQueries
    BY DEF Stored
  <2>3. {Absent, Garbled, Legacy} \cap Settings = {}
    BY SettingsAssumption
  <2> QED
    BY <2>1, <2>2, <2>3 DEF OnlyUserQueriesAreStored
<1> QED
  BY <1>1, StoreInvariance, PTL

\* A shutdown that reports success left in each file what it owed it.
THEOREM ShutdownTruth == Spec => []ShutdownIsTruthful
<1>1. StoreInv => ShutdownIsTruthful
  BY FilesLemma DEF StoreInv, ShutdownInv, Wanted, ShutdownIsTruthful
<1> QED
  BY <1>1, StoreInvariance, PTL
=============================================================================
