--------------------------- MODULE DesktopControls ---------------------------
(***************************************************************************)
(* The desktop window (App.svelte) and the runtime behind it: the controls *)
(* a user sets ahead of the runtime's answer (query, sampling cadence,     *)
(* pause, interface preferences), the queue that sends the changes one by  *)
(* one (RuntimeMutationQueue), the polling loop that brings snapshots, and *)
(* the copy of the preferences in localStorage.                            *)
(*                                                                         *)
(* Every await is a gap: a snapshot is read from the runtime in one step   *)
(* and taken into the page in a later one.  A change whose call times out  *)
(* stays in the runtime's channel and is carried out late.  The runtime is *)
(* here by what its handle promises (RuntimeEngine, RuntimeStore): it      *)
(* carries changes out in order, and says that settings are durable only   *)
(* when they are.  Both sides are of one release (no protocol mismatch).   *)
(***************************************************************************)
EXTENDS Naturals, Sequences

CONSTANTS Texts, NoText,              \* filter texts, and the empty one
          Intervals, Offered,         \* cadences; the ones the page offers (pollIntervals)
          DefaultInterval,
          Themes, DefaultTheme, Lengths, DefaultLength,  \* of the history
          None,
          Installations,              \* what the program may find when it starts
          Capacity,                   \* RUNTIME_MUTATION_QUEUE_CAPACITY
          MaxChanges, MaxFaults       \* bounds of the model

Query == [text : Texts, focus : {"all", "attention"}]
DefaultQuery == [text |-> NoText, focus |-> "all"]
Settings == [query : Query, interval : Intervals, paused : BOOLEAN]

\* The interface preferences, and what localStorage has of them: each half
\* has a key of its own.
Prefs == [theme : Themes, history : Lengths]
DefaultPrefs == [theme |-> DefaultTheme, history |-> DefaultLength]
Halves == {"theme", "history"}
Stores == [theme : Themes \cup {None}, history : Lengths \cup {None}]
NoPrefs == [theme |-> None, history |-> None]

\* An installation has the settings of its last session.  Its preferences are
\* in the settings file, or in localStorage if it is of an earlier release.
ASSUME ControlsAssumption ==
  /\ NoText \in Texts /\ DefaultInterval \in Offered /\ Offered \subseteq Intervals
  /\ DefaultTheme \in Themes /\ DefaultLength \in Lengths
  /\ None \notin Themes \cup Lengths \cup Prefs
  /\ Installations \subseteq [settings : Settings, durable : Prefs \cup {None}, store : Stores]
  /\ \A i \in Installations : i.durable = None \/ i.store = NoPrefs
  /\ Capacity \in Nat \ {0} /\ MaxChanges \in Nat /\ MaxFaults \in Nat

VARIABLES runtime,       \* the settings it last published and publication_seq
          durable,       \* the preferences in its settings file
          channel,       \* the changes it has been sent, in order
          page,          \* the state of App.svelte, see Page
          store,         \* the preferences in localStorage
          answer,        \* to the change at the head of the page's queue
          poll, refresh, \* what these reads wait for or have brought
          hidden, timer, \* the window is hidden; a poll is scheduled
          chosen,        \* history: theme and length the user chose last
          slighted,      \* history: halves saved unseen with a choice of the other
          doubt,         \* history: controls a change of which failed or was overtaken
          changes, faults

vars == <<runtime, durable, channel, page, store, answer, poll, refresh, hidden, timer, chosen,
          slighted, doubt, changes, faults>>

Controls == {"query", "interval", "paused"}

Snapshot(r, d) ==
  [seq |-> r.seq, query |-> r.query, interval |-> r.interval, paused |-> r.paused,
   prefs |-> r.prefs, durable |-> r.prefs = d]

\* makeEmptySnapshot
Empty == [seq |-> 0, query |-> DefaultQuery, interval |-> DefaultInterval, paused |-> FALSE,
          prefs |-> None, durable |-> FALSE]

\* The preferences in st, completed by those in p
Completed(st, p) ==
  [theme |-> IF st.theme # None THEN st.theme ELSE p.theme,
   history |-> IF st.history # None THEN st.history ELSE p.history]

\* A page that starts with st in localStorage (onMount).
\* shown: snapshot; accepted: AcceptedRuntimeControls; queue: the changes on
\* their way, each latest unless a newer one of its kind was made (the request
\* sequence numbers); debounce, saveDue: time-outs that are set
Page(st) ==
  [shown |-> Empty, accepted |-> [seq |-> 0, query |-> DefaultQuery, interval |-> DefaultInterval],
   query |-> DefaultQuery, interval |-> DefaultInterval, paused |-> FALSE,
   prefs |-> Completed(st, DefaultPrefs), native |-> FALSE, hydrated |-> FALSE, queue |-> <<>>,
   debounce |-> FALSE, saveDue |-> FALSE]

\* A call of the runtime: none, asked, read or failed
NoRead == [state |-> "none", snapshot |-> Empty]
Read(r, d) == [state |-> "read", snapshot |-> Snapshot(r, d)]
FailedCall == [NoRead EXCEPT !.state = "failed"]

\* The runtime starts from stored settings.  storePaused: what the store says
\* and the next publication will say
Started(settings, prefs) ==
  [seq |-> 1, query |-> settings.query, interval |-> settings.interval, paused |-> settings.paused,
   storePaused |-> settings.paused, prefs |-> prefs]

\* Types.  A change is about one control or the preferences.
Kinds == Controls \cup {"prefs"}
ValuesOf(kind) == CASE kind = "query" -> Query
                    [] kind = "interval" -> Intervals
                    [] kind = "paused" -> BOOLEAN
                    [] kind = "prefs" -> Prefs

Mutation ==
  UNION {[kind : {k}, value : ValuesOf(k), prev : BOOLEAN, auto : BOOLEAN, latest : BOOLEAN] : k \in Kinds}

RuntimeState == [seq : Nat, query : Query, interval : Intervals, paused : BOOLEAN,
                 storePaused : BOOLEAN, prefs : Prefs \cup {None}]

SnapshotState == [seq : Nat, query : Query, interval : Intervals, paused : BOOLEAN,
                  prefs : Prefs \cup {None}, durable : BOOLEAN]

Accepted == [seq : Nat, query : Query, interval : Intervals]

PageState ==
  [shown : SnapshotState, accepted : Accepted, query : Query, interval : Intervals, paused : BOOLEAN,
   prefs : Prefs, native : BOOLEAN, hydrated : BOOLEAN, queue : Seq(Mutation), debounce : BOOLEAN,
   saveDue : BOOLEAN]

Call == [state : {"none", "asked", "read", "failed"}, snapshot : SnapshotState]

TypeOK ==
  /\ runtime \in RuntimeState /\ durable \in Prefs \cup {None} /\ channel \in Seq(Mutation)
  /\ page \in PageState /\ store \in Stores
  /\ chosen \in Prefs /\ slighted \subseteq Halves
  /\ answer \in Call /\ poll \in Call /\ refresh \in Call
  /\ hidden \in BOOLEAN /\ timer \in BOOLEAN
  /\ doubt \subseteq Controls /\ changes \in 0 .. MaxChanges /\ faults \in 0 .. MaxFaults

Pending == store # NoPrefs

\* What the next session would go by
Kept == IF Pending THEN Completed(store, DefaultPrefs)
        ELSE IF durable # None THEN durable ELSE DefaultPrefs

Init ==
  /\ \E i \in Installations :
       durable = i.durable /\ store = i.store /\ runtime = Started(i.settings, i.durable)
  /\ channel = <<>>
  /\ page = Page(store) /\ answer = NoRead /\ poll = NoRead /\ refresh = NoRead
  /\ hidden = FALSE /\ timer = TRUE
  /\ chosen = Kept /\ slighted = {} /\ doubt = {} /\ changes = 0 /\ faults = 0

Fault == faults < MaxFaults /\ faults' = faults + 1
Change == changes < MaxChanges /\ changes' = changes + 1

\* A change of control k is on its way.
Outstanding(k) ==
  \/ k = "query" /\ page.debounce
  \/ \E i \in DOMAIN page.queue : page.queue[i].kind = k
  \/ \E i \in DOMAIN channel : channel[i].kind = k

Doubts(ks) == doubt' = doubt \cup (ks \cap Controls)

-----------------------------------------------------------------------------
(* Snapshots, as the page takes them in                                     *)

\* AcceptedRuntimeControls.observe
Observed(p, next) ==
  IF next.seq < p.accepted.seq THEN p
  ELSE [p EXCEPT !.accepted = [seq |-> next.seq, query |-> next.query, interval |-> next.interval]]

Superseded(queue, kind) ==
  [i \in DOMAIN queue |-> IF queue[i].kind = kind THEN [queue[i] EXCEPT !.latest = FALSE] ELSE queue[i]]

\* The catch branches: query and cadence go back to what was last accepted,
\* the pause to what it was before.
Failed(p, m) ==
  CASE m.kind = "query" /\ m.latest -> [p EXCEPT !.query = p.accepted.query]
    [] m.kind = "interval" /\ m.latest ->
         [p EXCEPT !.interval = IF p.accepted.interval \in Offered THEN p.accepted.interval ELSE @]
    [] m.kind = "paused" -> [p EXCEPT !.paused = m.prev]
    [] OTHER -> p

Full(p) == Len(p.queue) >= Capacity

\* RuntimeMutationQueue.run
Issued(p, kind, value, prev, auto) ==
  LET m == [kind |-> kind, value |-> value, prev |-> prev, auto |-> auto, latest |-> TRUE]
      q == [p EXCEPT !.queue = Superseded(@, kind)]
  IN IF Full(p) THEN Failed(q, m) ELSE [q EXCEPT !.queue = Append(@, m)]

\* hydrateRuntimeControls, once: the runtime's settings fill the page, except
\* preferences that are still in localStorage; a busy machine is shown by what
\* needs attention (runtime_only), as soon as the runtime agrees.
Hydrated(p, next, attend, healthy) ==
  IF p.hydrated \/ ~p.native THEN p
  ELSE LET h == [p EXCEPT !.query = next.query, !.hydrated = TRUE,
                          !.prefs = IF Pending THEN Completed(store, @)
                                    ELSE IF next.prefs # None THEN next.prefs ELSE @,
                          !.saveDue = healthy /\ (Pending \/ next.prefs = None)]
       IN IF attend /\ next.query = DefaultQuery
          THEN Issued(h, "query", [next.query EXCEPT !.focus = "attention"], FALSE, TRUE)
          ELSE h

ShouldApplyAlways(p, next) == TRUE

\* shouldApplyRuntimePublication
ShouldApply(p, next) == next.seq >= p.shown.seq

PendingCadence(p) == \E i \in DOMAIN p.queue : p.queue[i].kind = "interval" /\ p.queue[i].latest

\* ingest
Ingested(p, next, attend, healthy) ==
  IF ~ShouldApply(p, next) THEN p
  ELSE LET h == Hydrated(Observed(p, next), next, attend, healthy)
       IN [h EXCEPT !.shown = next, !.paused = next.paused,
                    !.interval = IF PendingCadence(h) \/ next.interval \notin Offered THEN @
                                 ELSE next.interval]

\* applyNativeSnapshot
Applied(p, next, attend, healthy) == Ingested([p EXCEPT !.native = TRUE], next, attend, healthy)

\* The first snapshot is taken in while a change of the query is made and not
\* answered, and the page forgets it.
Overtaken == page.debounce \/ \E i \in DOMAIN page.queue : page.queue[i].kind = "query"
Overtakes == IF ~page.hydrated /\ page'.hydrated /\ Overtaken THEN {"query"} ELSE {}

\* The machine is busy when the first snapshot is taken in; counts as a change.
Busy(attend) == IF attend THEN ~page.hydrated /\ Change ELSE UNCHANGED changes

-----------------------------------------------------------------------------
(* The user                                                                 *)

Leaves == UNCHANGED <<runtime, durable, channel, answer, poll, refresh, hidden, timer>>

\* A change that finds the queue full is undone at once.
TurnedAway(kind) == IF Full(page) THEN {kind} ELSE {}

\* setSearchText, whose change is sent 200 ms later
TypeText(t) ==
  /\ Change /\ t # page.query.text
  /\ page' = [page EXCEPT !.query.text = t, !.debounce = TRUE]
  /\ Leaves /\ UNCHANGED <<store, chosen, slighted, faults>>
  /\ Doubts({})

\* syncRuntimeQuery
SendsQuery(p) ==
  /\ page' = Issued([p EXCEPT !.debounce = FALSE], "query", p.query, FALSE, FALSE)
  /\ Leaves /\ UNCHANGED <<store, chosen, slighted, faults>>
  /\ Doubts(TurnedAway("query"))

DebounceEnds == page.debounce /\ SendsQuery(page) /\ UNCHANGED changes

\* setFocusMode and setSort, with flushRuntimeQuery
SetFocus(f) == Change /\ SendsQuery([page EXCEPT !.query.focus = f])

\* setPollInterval
SetInterval(i) ==
  /\ Change /\ i # page.interval
  /\ page' = Issued([page EXCEPT !.interval = i], "interval", i, FALSE, FALSE)
  /\ Leaves /\ UNCHANGED <<store, chosen, slighted, faults>>
  /\ Doubts(TurnedAway("interval"))

\* setPaused
TogglePaused ==
  /\ Change
  /\ page' = Issued([page EXCEPT !.paused = ~@], "paused", ~page.paused, page.paused, FALSE)
  /\ Leaves /\ UNCHANGED <<store, chosen, slighted, faults>>
  /\ Doubts(TurnedAway("paused"))

\* persistUiPreferences: both halves, localStorage first
Saves(p) ==
  /\ store' = p.prefs
  /\ page' = Issued(p, "prefs", p.prefs, FALSE, FALSE)
  /\ Leaves /\ UNCHANGED faults
  /\ Doubts({})

\* The user chooses one half, and the page saves it with the other as it
\* shows that.  With nothing in localStorage and before the first snapshot
\* the page has not seen it and shows the default.
Chooses(h, v) ==
  /\ Change
  /\ Saves([page EXCEPT !.prefs[h] = v])
  /\ chosen' = [chosen EXCEPT ![h] = v]
  /\ slighted' = (IF page.hydrated \/ Pending THEN slighted ELSE Halves) \ {h}

SetTheme(t) == Chooses("theme", t)
SetHistoryPointLimit(l) == l # page.prefs.history /\ Chooses("history", l)

SaveHydrated ==
  page.saveDue /\ Saves([page EXCEPT !.saveDue = FALSE]) /\ UNCHANGED <<chosen, slighted, changes>>

-----------------------------------------------------------------------------
(* The runtime                                                              *)

InRuntime == UNCHANGED <<page, store, poll, refresh, hidden, timer, chosen, slighted, changes>>

\* request_snapshot: the head of the queue is sent, or refused.
Send ==
  /\ page.queue # <<>> /\ answer = NoRead
  /\ \/ /\ channel' = Append(channel, Head(page.queue))
        /\ answer' = [NoRead EXCEPT !.state = "asked"]
        /\ UNCHANGED <<doubt, faults>>
     \/ Fault /\ answer' = FailedCall /\ Doubts({Head(page.queue).kind}) /\ UNCHANGED channel
  /\ InRuntime /\ UNCHANGED <<runtime, durable>>

\* CONTROL_RESPONSE_TIMEOUT
TimeOut ==
  /\ answer.state = "asked"
  /\ Fault
  /\ answer' = FailedCall /\ Doubts({Head(page.queue).kind})
  /\ InRuntime /\ UNCHANGED <<runtime, durable, channel>>

Carried(m) ==
  LET r == [runtime EXCEPT !.seq = @ + 1, !.paused = runtime.storePaused]
  IN CASE m.kind = "query" -> [r EXCEPT !.query = m.value]
       [] m.kind = "interval" -> [r EXCEPT !.interval = m.value]
       [] m.kind = "paused" -> [r EXCEPT !.paused = m.value, !.storePaused = m.value]
       [] m.kind = "prefs" -> [r EXCEPT !.prefs = m.value]

Awaited == answer.state = "asked" /\ Len(channel) = 1
Replies(a) == answer' = IF Awaited THEN a ELSE answer

\* The engine carries out the next change.  The settings it queues for its
\* writer may be stored before it publishes.
Handle ==
  /\ channel # <<>>
  /\ channel' = Tail(channel)
  /\ runtime' = Carried(Head(channel))
  /\ durable' \in {durable} \cup (IF Head(channel).auto THEN {} ELSE {runtime'.prefs})
  /\ Replies(Read(runtime', durable'))
  /\ InRuntime /\ UNCHANGED <<doubt, faults>>

\* The collector fails a pause or a new cadence, which then is not carried
\* out, or a resume, which is, but is not published.
HandleFails ==
  /\ channel # <<>>
  /\ \/ Head(channel).kind = "paused"
     \/ Head(channel).kind = "interval" /\ Head(channel).value # runtime.interval
  /\ Fault
  /\ channel' = Tail(channel)
  /\ runtime' = IF Head(channel).kind = "paused" /\ ~Head(channel).value
                THEN [runtime EXCEPT !.storePaused = FALSE] ELSE runtime
  /\ Replies(FailedCall)
  /\ Doubts({Head(channel).kind})
  /\ InRuntime /\ UNCHANGED durable

\* The writer stores the settings.
Stored ==
  /\ durable # runtime.prefs
  /\ durable' = runtime.prefs
  /\ InRuntime /\ UNCHANGED <<runtime, channel, answer, doubt, faults>>

-----------------------------------------------------------------------------
(* Answers                                                                  *)

ClearsWhenEchoed(m, next) == m.latest /\ next.prefs = m.value /\ store = m.value

\* isLatestDurable and clearMigratedUiPreferences
Clears(m, next) == m.latest /\ next.prefs = m.value /\ next.durable /\ store = m.value

\* What the page makes of the answer next to its change m
Accepts(p, m, next, attend, healthy) ==
  CASE m.kind \in {"query", "interval"} /\ ~m.latest -> Observed(p, next)
    [] m.kind = "query" /\ m.latest ->
         Applied([Observed(p, next) EXCEPT !.query.focus = IF m.auto THEN m.value.focus ELSE @],
                 next, attend, healthy)
    [] m.kind = "interval" /\ m.latest -> Applied(Observed(p, next), next, attend, healthy)
    [] m.kind = "paused" -> Applied(p, next, attend, healthy)
    [] m.kind = "prefs" -> IF m.latest THEN Applied(p, next, attend, healthy) ELSE p

Settles(p) == answer' = NoRead /\ page' = p

\* The call of the head of the queue has returned.
Answered ==
  LET m == Head(page.queue)
      rest == [page EXCEPT !.queue = Tail(@)]
  IN /\ UNCHANGED <<runtime, durable, channel, poll, refresh, hidden, timer, chosen, slighted, faults>>
     /\ \/ /\ answer.state = "failed"
           /\ Settles(Failed(rest, m))
           /\ UNCHANGED <<store, doubt, changes>>
        \/ /\ answer.state = "read"
           /\ \E attend, healthy \in BOOLEAN :
                Busy(attend) /\ Settles(Accepts(rest, m, answer.snapshot, attend, healthy))
           /\ store' = IF m.kind = "prefs" /\ Clears(m, answer.snapshot) THEN NoPrefs ELSE store
           /\ Doubts(Overtakes)

\* refreshNow; one that fails changes nothing.
RefreshReads ==
  /\ Change
  /\ refresh = NoRead
  /\ refresh' = Read(runtime, durable)
  /\ UNCHANGED <<runtime, durable, channel, page, store, answer, poll, hidden, timer, chosen, slighted,
                 doubt, faults>>

RefreshEnds ==
  /\ refresh.state = "read"
  /\ refresh' = NoRead
  /\ \E attend, healthy \in BOOLEAN :
       Busy(attend) /\ page' = Applied(page, refresh.snapshot, attend, healthy)
  /\ UNCHANGED <<runtime, durable, channel, store, answer, poll, hidden, timer, chosen, slighted,
                 faults>>
  /\ Doubts(Overtakes)

-----------------------------------------------------------------------------
(* Polling: startRuntimePolling                                             *)

Running == poll # NoRead

\* schedule
Scheduled(h) == timer \/ (~Running /\ ~h)

\* The timer runs loop; readNativeSnapshot keeps the snapshot shown now for
\* the case that it fails.
TimerFires ==
  /\ timer
  /\ timer' = FALSE
  /\ poll' = IF Running \/ hidden THEN poll ELSE [state |-> "asked", snapshot |-> page.shown]
  /\ UNCHANGED <<runtime, durable, channel, page, store, answer, refresh, hidden, chosen, slighted,
                 doubt, changes, faults>>

PollReads ==
  /\ poll.state = "asked"
  /\ \/ /\ poll' = Read(runtime, durable)
        /\ page' = [page EXCEPT !.native = TRUE]
        /\ UNCHANGED faults
     \/ Fault /\ poll' = [poll EXCEPT !.state = "read"] /\ UNCHANGED page
  /\ UNCHANGED <<runtime, durable, channel, store, answer, refresh, hidden, timer, chosen, slighted,
                 doubt, changes>>

\* ... after backfillHistoryGap
PollEnds ==
  /\ poll.state = "read"
  /\ poll' = NoRead /\ timer' = (timer \/ ~hidden)
  /\ \E attend, healthy \in BOOLEAN :
       Busy(attend) /\ page' = Ingested(page, poll.snapshot, attend, healthy)
  /\ UNCHANGED <<runtime, durable, channel, store, answer, refresh, hidden, chosen, slighted, faults>>
  /\ Doubts(Overtakes)

\* The user hides the window or shows it, and the event for it comes or does not.
Visibility ==
  /\ hidden' = ~hidden
  /\ IF hidden THEN UNCHANGED changes ELSE Change
  /\ \/ timer' = (~hidden' /\ Scheduled(FALSE)) /\ UNCHANGED faults
     \/ Fault /\ UNCHANGED timer
  /\ UNCHANGED <<runtime, durable, channel, page, store, answer, poll, refresh, chosen, slighted, doubt>>

WatchdogAsleep == ~timer /\ Scheduled(hidden) /\ UNCHANGED vars

Watchdog ==
  /\ ~timer /\ Scheduled(hidden)
  /\ timer' = TRUE
  /\ UNCHANGED <<runtime, durable, channel, page, store, answer, poll, refresh, hidden, chosen, slighted,
                 doubt, changes, faults>>

\* The application is killed and started again; what becomes of its other
\* settings is the subject of RuntimeStore.
Restart ==
  /\ Fault
  /\ \E i \in Installations : runtime' = Started(i.settings, durable)
  /\ channel' = <<>>
  /\ page' = Page(store) /\ answer' = NoRead /\ poll' = NoRead /\ refresh' = NoRead
  /\ hidden' = FALSE /\ timer' = TRUE /\ doubt' = {}
  /\ UNCHANGED <<durable, store, chosen, slighted, changes>>

-----------------------------------------------------------------------------
User ==
  \/ \E t \in Texts : TypeText(t)
  \/ \E f \in {"all", "attention"} : SetFocus(f)
  \/ \E i \in Offered : SetInterval(i)
  \/ TogglePaused
  \/ \E t \in Themes : SetTheme(t)
  \/ \E l \in Lengths : SetHistoryPointLimit(l)

Next ==
  \/ User \/ DebounceEnds \/ SaveHydrated
  \/ Send \/ TimeOut \/ Handle \/ HandleFails \/ Stored \/ Answered
  \/ RefreshReads \/ RefreshEnds
  \/ TimerFires \/ PollReads \/ PollEnds \/ Visibility \/ Watchdog
  \/ Restart

\* Timers fire, calls return and the runtime works off its channel; the user
\* need do nothing, and no event about the window need come.
Fairness ==
  /\ WF_vars(DebounceEnds) /\ WF_vars(SaveHydrated)
  /\ WF_vars(Send \/ Handle \/ Answered)
  /\ WF_vars(TimerFires) /\ WF_vars(PollReads) /\ WF_vars(PollEnds) /\ WF_vars(Watchdog)

Spec == Init /\ [][Next]_vars /\ Fairness

-----------------------------------------------------------------------------
(* Properties                                                               *)

\* With nothing on its way, a control shows what the runtime goes by, in
\* whatever order changes and polls are answered (ingest,
\* AcceptedRuntimeControls, the request sequence numbers) and whatever the
\* settings it started from, as long as no change of this control has failed or
\* was made before the first snapshot.  The page cannot show a cadence that it
\* does not offer.
Shows(k) == page[k] = runtime[k] \/ (k = "interval" /\ runtime.interval \notin Offered)

ControlsAgree ==
  page.hydrated => \A k \in Controls : Outstanding(k) \/ Shows(k) \/ k \in doubt

\* Whatever is late, refused or killed, the next session starts from the theme
\* and from the history length the user chose last: localStorage is not cleared
\* before the settings file has them (isLatestDurable), and the save that follows
\* hydration loses neither half.  Excepted is a half that the page had not yet
\* seen when the user chose the other one: persistUiPreferences saves the default
\* in its place, and hydration prefers that.
PreferencesAreKept ==
  \A h \in Halves : Kept[h] = chosen[h] \/ h \in slighted

\* In a window that stays visible cadence and pause come to show what the
\* runtime goes by, whatever failed before and whichever window events were
\* missed (the watchdog of startRuntimePolling).
ControlsSettle ==
  <>[]~hidden => <>[](page.hydrated /\ Shows("interval") /\ Shows("paused"))
=============================================================================
