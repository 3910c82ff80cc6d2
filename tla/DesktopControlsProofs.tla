------------------------ MODULE DesktopControlsProofs ------------------------
(***************************************************************************)
(* ControlsInv and PrefsInv are inductive, for any texts, cadences,        *)
(* preferences and installations and any length of the page's queue: with  *)
(* nothing on its way a control shows what the runtime goes by, and a      *)
(* chosen preference is lost only to a choice made before the page had     *)
(* seen it.                                                                *)
(***************************************************************************)
EXTENDS DesktopControls, TLAPS

-----------------------------------------------------------------------------
(* The inductive invariant                                                  *)

Has(q, k) == \E i \in DOMAIN q : q[i].kind = k

\* Only the last change of its kind is the latest one, and it is, unless a
\* newer one found the queue full.
LatestOnce(q) ==
  \A i, j \in DOMAIN q : i < j /\ q[i].kind = q[j].kind => ~q[i].latest
Live(q, k) ==
  \A i \in DOMAIN q : q[i].kind = k /\ ~q[i].latest => \E j \in DOMAIN q : i < j /\ q[j].kind = k

QueueInv(p, d) ==
  /\ LatestOnce(p.queue)
  /\ "query" \notin d => Live(p.queue, "query")
  /\ "interval" \notin d => Live(p.queue, "interval")

\* A call that is asked is about the last change in the channel, and that is
\* the head of the queue; one that was read is about the runtime as it is.
CallInv ==
  /\ answer.state # "none" => page.queue # <<>>
  /\ answer.state = "none" => answer = NoRead
  /\ answer.state = "asked" =>
       /\ channel # <<>>
       /\ channel[Len(channel)].kind = page.queue[1].kind
       /\ channel[Len(channel)].value = page.queue[1].value
  /\ answer.state = "read" =>
       /\ channel = <<>> /\ answer.snapshot.seq = runtime.seq
       /\ answer.snapshot.query = runtime.query /\ answer.snapshot.interval = runtime.interval
       /\ answer.snapshot.paused = runtime.paused /\ answer.snapshot.prefs = runtime.prefs
       /\ answer.snapshot.durable => durable = runtime.prefs
       /\ page.queue[1].kind = "query" => page.queue[1].value = runtime.query
  /\ answer.state = "failed" => page.queue[1].kind \in doubt \cup {"prefs"}

\* A change in the channel that nobody waits for is in doubt.
ChannelInv ==
  \A i \in DOMAIN channel :
    channel[i].kind \in Controls \ doubt => i = Len(channel) /\ answer.state = "asked"

\* Snapshots that are on their way, or will be shown when a call fails
OnTheirWay == {Empty, poll.snapshot, refresh.snapshot}

\* Nothing is ahead of the runtime, and what is as new says the same.
Echo(s) ==
  /\ s.seq <= runtime.seq
  /\ s.seq = runtime.seq => s.interval = runtime.interval /\ s.paused = runtime.paused
EchoInv(p) == runtime.seq > 0 /\ \A s \in OnTheirWay \cup {p.shown} : Echo(s)

\* The page has been given the runtime's settings exactly when it shows a
\* snapshot of it, or is about to.
NativeInv ==
  /\ page.hydrated => page.shown.seq > 0
  /\ page.native => page.shown.seq > 0 \/ (poll.state = "read" /\ poll.snapshot.seq > 0)
  /\ refresh.state = "read" => refresh.snapshot.seq > 0

IntervalInv(p, d) ==
  "interval" \notin d /\ ~Has(p.queue, "interval") =>
    /\ p.shown.seq > 0 /\ runtime.interval \in Offered => p.interval = runtime.interval
    /\ \A s \in OnTheirWay \cup {p.shown} :
         s.seq >= p.shown.seq /\ s.seq > 0 => s.interval = runtime.interval

PausedInv(p, d) ==
  "paused" \notin d =>
    /\ runtime.storePaused = runtime.paused
    /\ ~Has(p.queue, "paused") =>
         /\ p.shown.seq > 0 => p.paused = runtime.paused
         /\ \A s \in OnTheirWay \cup {p.shown} :
              s.seq >= p.shown.seq /\ s.seq > 0 => s.paused = runtime.paused

\* The query on its way is the one shown; one that was set is what the runtime
\* goes by; before the first snapshot whatever comes from the runtime has its
\* query.
QueryInv(p, d) ==
  "query" \notin d =>
    /\ ~p.debounce =>
         \A i \in DOMAIN p.queue :
           p.queue[i].kind = "query" /\ p.queue[i].latest =>
             /\ p.query.text = p.queue[i].value.text
             /\ ~p.queue[i].auto => p.query = p.queue[i].value
    /\ ~Has(p.queue, "query") /\ p.hydrated /\ ~p.debounce => p.query = runtime.query
    /\ ~Has(p.queue, "query") /\ ~p.hydrated =>
         /\ p.accepted.seq > 0 => p.accepted.query = runtime.query
         /\ \A s \in OnTheirWay \cup {answer.snapshot, p.shown} :
              s.seq > 0 => s.query = runtime.query

\* Preferences that are no longer in localStorage are settled.
SettledInv ==
  ~Pending =>
    runtime.prefs = durable /\ ~Has(page.queue, "prefs") /\ ~Has(channel, "prefs")

ControlsInv ==
  /\ TypeOK /\ QueueInv(page, doubt) /\ CallInv /\ ChannelInv /\ EchoInv(page) /\ NativeInv
  /\ IntervalInv(page, doubt) /\ PausedInv(page, doubt) /\ QueryInv(page, doubt) /\ SettledInv

\* A page that has seen the preferences shows what the next session would go
\* by; one that has not is about to be given them.
PrefsInv ==
  /\ page.saveDue => page.hydrated
  /\ page.hydrated \/ Pending => page.prefs = Kept
  /\ ~page.hydrated /\ ~Pending =>
       /\ page.prefs = DefaultPrefs
       /\ \A s \in OnTheirWay \cup {answer.snapshot, page.shown} : s.seq > 0 => s.prefs = durable
  /\ PreferencesAreKept

-----------------------------------------------------------------------------
(* Changes and queues of them                                               *)

LEMMA MutationFields ==
  ASSUME NEW m \in Mutation
  PROVE  /\ m.kind \in Kinds /\ m.value \in ValuesOf(m.kind)
         /\ m.prev \in BOOLEAN /\ m.auto \in BOOLEAN /\ m.latest \in BOOLEAN
         /\ [m EXCEPT !.latest = FALSE] \in Mutation
<1>1. PICK k \in Kinds :
        m \in [kind : {k}, value : ValuesOf(k), prev : BOOLEAN, auto : BOOLEAN, latest : BOOLEAN]
  BY DEF Mutation
<1>2. [m EXCEPT !.latest = FALSE] \in
        [kind : {k}, value : ValuesOf(k), prev : BOOLEAN, auto : BOOLEAN, latest : BOOLEAN]
  BY <1>1
<1> QED BY <1>1, <1>2 DEF Mutation

LEMMA ValueTypes ==
  /\ ValuesOf("query") = Query /\ ValuesOf("interval") = Intervals
  /\ ValuesOf("paused") = BOOLEAN /\ ValuesOf("prefs") = Prefs
BY DEF ValuesOf

\* The change that Issued makes
New(kind, value, prev, auto) ==
  [kind |-> kind, value |-> value, prev |-> prev, auto |-> auto, latest |-> TRUE]

LEMMA NewMutation ==
  ASSUME NEW k \in Kinds, NEW v \in ValuesOf(k), NEW prev \in BOOLEAN, NEW auto \in BOOLEAN
  PROVE  New(k, v, prev, auto) \in Mutation
<1>1. New(k, v, prev, auto) \in
        [kind : {k}, value : ValuesOf(k), prev : BOOLEAN, auto : BOOLEAN, latest : BOOLEAN]
  BY DEF New
<1> QED BY <1>1 DEF Mutation

LEMMA SupersededFacts ==
  ASSUME NEW q \in Seq(Mutation), NEW k
  PROVE  /\ Superseded(q, k) \in Seq(Mutation) /\ Len(Superseded(q, k)) = Len(q)
         /\ \A i \in DOMAIN q :
              /\ Superseded(q, k)[i].kind = q[i].kind /\ Superseded(q, k)[i].value = q[i].value
              /\ Superseded(q, k)[i].auto = q[i].auto
              /\ Superseded(q, k)[i].latest <=> q[i].latest /\ q[i].kind # k
<1> DEFINE s == Superseded(q, k)
<1>1. \A i \in DOMAIN q : q[i] \in Mutation
  OBVIOUS
<1>2. DOMAIN s = DOMAIN q
  BY DEF Superseded
<1>3. ASSUME NEW i \in DOMAIN q
      PROVE  /\ s[i] \in Mutation
             /\ s[i].kind = q[i].kind /\ s[i].value = q[i].value /\ s[i].auto = q[i].auto
             /\ s[i].latest <=> q[i].latest /\ q[i].kind # k
  <2>1. s[i] = IF q[i].kind = k THEN [q[i] EXCEPT !.latest = FALSE] ELSE q[i]
    BY DEF Superseded
  <2>2. PICK j \in Kinds :
          q[i] \in [kind : {j}, value : ValuesOf(j), prev : BOOLEAN, auto : BOOLEAN, latest : BOOLEAN]
    BY <1>1 DEF Mutation
  <2>3. s[i] \in Mutation
    BY <1>1, <2>1, MutationFields
  <2> QED BY <2>1, <2>2, <2>3
<1>4. s \in Seq(Mutation) /\ Len(s) = Len(q)
  <2>1. DOMAIN q = 1 .. Len(q) /\ Len(q) \in Nat
    OBVIOUS
  <2>2. s = [i \in 1 .. Len(q) |-> s[i]]
    BY <2>1 DEF Superseded
  <2>3. \A i \in 1 .. Len(q) : s[i] \in Mutation
    BY <1>3, <2>1
  <2> HIDE DEF s
  <2>4. [i \in 1 .. Len(q) |-> s[i]] \in Seq(Mutation)
    BY <2>1, <2>3
  <2>5. Len([i \in 1 .. Len(q) |-> s[i]]) = Len(q)
    BY <2>1
  <2> QED BY <2>2, <2>4, <2>5
<1> QED BY <1>3, <1>4

\* What becomes of a queue q when a change of kind k is made: r is the queue
\* with the change, or without it when it was full.
Grows(q, r, k) ==
  /\ r \in Seq(Mutation) /\ Len(q) <= Len(r) /\ Len(r) <= Len(q) + 1
  /\ \A i \in DOMAIN q :
       /\ r[i].kind = q[i].kind /\ r[i].value = q[i].value /\ r[i].auto = q[i].auto
       /\ r[i].latest <=> q[i].latest /\ q[i].kind # k
  /\ Len(r) = Len(q) + 1 => r[Len(r)].kind = k /\ r[Len(r)].latest

LEMMA AppendGrows ==
  ASSUME NEW q \in Seq(Mutation), NEW k \in Kinds, NEW v \in ValuesOf(k),
         NEW prev \in BOOLEAN, NEW auto \in BOOLEAN
  PROVE  LET r == Append(Superseded(q, k), New(k, v, prev, auto))
         IN Grows(q, r, k) /\ Len(r) = Len(q) + 1 /\ r[Len(r)] = New(k, v, prev, auto)
<1> DEFINE s == Superseded(q, k)
           m == New(k, v, prev, auto)
           r == Append(s, m)
<1>1. s \in Seq(Mutation) /\ Len(s) = Len(q)
  BY SupersededFacts
<1>2. \A i \in DOMAIN q :
        /\ s[i].kind = q[i].kind /\ s[i].value = q[i].value /\ s[i].auto = q[i].auto
        /\ s[i].latest <=> q[i].latest /\ q[i].kind # k
  BY SupersededFacts
<1>3. m \in Mutation /\ m.kind = k /\ m.latest
  BY NewMutation DEF New
<1> HIDE DEF s, m
<1>4. r \in Seq(Mutation) /\ Len(r) = Len(q) + 1 /\ r[Len(q) + 1] = m
  BY <1>1, <1>3
<1>5. \A i \in DOMAIN q : r[i] = s[i]
  BY <1>1, <1>3
<1>6. Grows(q, r, k)
  <2> HIDE DEF r
  <2> QED BY <1>2, <1>3, <1>4, <1>5 DEF Grows
<1> QED BY <1>4, <1>6 DEF s, m

LEMMA SupersededGrows ==
  ASSUME NEW q \in Seq(Mutation), NEW k
  PROVE  Grows(q, Superseded(q, k), k)
<1>1. Len(q) \in Nat
  OBVIOUS
<1> QED BY SupersededFacts, <1>1 DEF Grows

\* A queue stays in order; a kind that was alive is, unless its change was
\* turned away.
LEMMA GrownQueue ==
  ASSUME NEW q \in Seq(Mutation), NEW r, NEW k, Grows(q, r, k)
  PROVE  /\ LatestOnce(q) => LatestOnce(r)
         /\ \A j : Live(q, j) /\ (j # k \/ Len(r) = Len(q) + 1 \/ ~Has(q, k)) => Live(r, j)
         /\ \A j : j # k => (Has(r, j) <=> Has(q, j))
         /\ Has(q, k) => Has(r, k)
         /\ Len(r) = Len(q) + 1 => Has(r, k)
         /\ Len(r) = Len(q) => (Has(r, k) <=> Has(q, k))
         /\ q # <<>> => r # <<>> /\ r[1].kind = q[1].kind /\ r[1].value = q[1].value
<1> DEFINE n == Len(q)
           l == Len(r)
<1>1. DOMAIN q = 1 .. n /\ n \in Nat /\ DOMAIN r = 1 .. l /\ l \in Nat /\ n <= l /\ l <= n + 1
  BY DEF Grows
<1>9. l = n + 1 => r[l].kind = k /\ r[l].latest
  BY DEF Grows
<1>2. \A i \in 1 .. n :
        /\ r[i].kind = q[i].kind /\ r[i].value = q[i].value /\ r[i].auto = q[i].auto
        /\ r[i].latest <=> q[i].latest /\ q[i].kind # k
  BY <1>1 DEF Grows
<1>10. q # <<>> => 1 \in 1 .. n /\ r # <<>>
  <2>1. q # <<>> => n # 0
    OBVIOUS
  <2> QED BY <2>1, <1>1
<1> HIDE DEF n, l
<1>3. l = n \/ (l = n + 1 /\ r[n + 1].kind = k /\ r[n + 1].latest)
  BY <1>1, <1>9
<1>4. LatestOnce(q) => LatestOnce(r)
  BY <1>1, <1>2, <1>3 DEF LatestOnce
<1>5. \A j : j # k => (Has(r, j) <=> Has(q, j))
  BY <1>1, <1>2, <1>3 DEF Has
<1>6. ASSUME NEW j, Live(q, j), j # k \/ l = n + 1 \/ ~Has(q, k)
      PROVE  Live(r, j)
  <2>1. SUFFICES ASSUME NEW i \in 1 .. l, r[i].kind = j, ~r[i].latest
                 PROVE  \E e \in 1 .. l : i < e /\ r[e].kind = j
    BY <1>1 DEF Live
  <2>2. i \in 1 .. n
    BY <2>1, <1>1, <1>3
  <2>3. CASE j = k /\ l = n + 1
    BY <2>2, <2>3, <1>1, <1>3
  <2>4. CASE j = k /\ ~Has(q, k)
    BY <2>1, <2>2, <2>4, <1>1, <1>2 DEF Has
  <2>5. CASE j # k
    <3>1. q[i].kind = j /\ ~q[i].latest
      BY <2>1, <2>2, <2>5, <1>2
    <3>2. PICK e \in 1 .. n : i < e /\ q[e].kind = j
      BY <3>1, <2>2, <1>1, <1>6 DEF Live
    <3> QED BY <3>2, <1>1, <1>2, <1>3
  <2> QED BY <2>3, <2>4, <2>5, <1>6
<1>7. q # <<>> => r # <<>> /\ r[1].kind = q[1].kind /\ r[1].value = q[1].value
  BY <1>10, <1>2
<1>8. /\ Has(q, k) => Has(r, k)
      /\ l = n + 1 => Has(r, k)
      /\ l = n => (Has(r, k) <=> Has(q, k))
  BY <1>1, <1>2, <1>3 DEF Has
<1> QED BY <1>4, <1>5, <1>6, <1>7, <1>8 DEF n, l

LEMMA TailQueue ==
  ASSUME NEW q \in Seq(Mutation), q # <<>>
  PROVE  /\ Tail(q) \in Seq(Mutation) /\ Head(q) = q[1] /\ q[1] \in Mutation
         /\ Len(Tail(q)) = Len(q) - 1
         /\ \A i \in DOMAIN Tail(q) : i + 1 \in DOMAIN q /\ Tail(q)[i] = q[i + 1]
         /\ LatestOnce(q) => LatestOnce(Tail(q))
         /\ \A k : Live(q, k) => Live(Tail(q), k)
         /\ \A k : Has(Tail(q), k) => Has(q, k)
         /\ \A k : Has(q, k) /\ q[1].kind # k => Has(Tail(q), k)
         /\ Has(q, q[1].kind)
         /\ LatestOnce(q) /\ q[1].latest => ~Has(Tail(q), q[1].kind)
         /\ Live(q, q[1].kind) /\ ~q[1].latest => Has(Tail(q), q[1].kind)
<1> DEFINE t == Tail(q)
<1>1. /\ Len(q) \in Nat /\ Len(q) > 0 /\ DOMAIN q = 1 .. Len(q)
      /\ t \in Seq(Mutation) /\ Len(t) = Len(q) - 1 /\ DOMAIN t = 1 .. Len(t)
      /\ \A i \in 1 .. Len(t) : t[i] = q[i + 1]
      /\ Head(q) = q[1] /\ q[1] \in Mutation
  OBVIOUS
<1> HIDE DEF t
<1>2. ASSUME LatestOnce(q)
      PROVE  LatestOnce(t)
  <2>1. SUFFICES ASSUME NEW i \in 1 .. Len(t), NEW j \in 1 .. Len(t), i < j, t[i].kind = t[j].kind
                 PROVE  ~t[i].latest
    BY <1>1 DEF LatestOnce
  <2>2. i + 1 \in 1 .. Len(q) /\ j + 1 \in 1 .. Len(q) /\ i + 1 < j + 1
    BY <2>1, <1>1
  <2>3. t[i] = q[i + 1] /\ t[j] = q[j + 1]
    BY <1>1
  <2> QED BY <2>1, <2>2, <2>3, <1>1, <1>2 DEF LatestOnce
<1>3. ASSUME NEW k, Live(q, k)
      PROVE  Live(t, k)
  <2>1. SUFFICES ASSUME NEW i \in 1 .. Len(t), t[i].kind = k, ~t[i].latest
                 PROVE  \E j \in 1 .. Len(t) : i < j /\ t[j].kind = k
    BY <1>1 DEF Live
  <2>2. PICK j \in 1 .. Len(q) : i + 1 < j /\ q[j].kind = k
    BY <2>1, <1>1, <1>3 DEF Live
  <2>3. j - 1 \in 1 .. Len(t) /\ i < j - 1 /\ t[j - 1].kind = k
    BY <2>2, <1>1
  <2> QED BY <2>3
<1>4. ASSUME NEW k
      PROVE  /\ Has(t, k) => Has(q, k)
             /\ Has(q, k) /\ q[1].kind # k => Has(t, k)
  <2>1. ASSUME Has(t, k)
        PROVE  Has(q, k)
    <3>1. PICK i \in 1 .. Len(t) : t[i].kind = k
      BY <2>1, <1>1 DEF Has
    <3>2. i + 1 \in 1 .. Len(q) /\ q[i + 1].kind = k
      BY <3>1, <1>1
    <3> QED BY <3>2, <1>1 DEF Has
  <2>2. ASSUME Has(q, k), q[1].kind # k
        PROVE  Has(t, k)
    <3>1. PICK i \in 1 .. Len(q) : q[i].kind = k
      BY <2>2, <1>1 DEF Has
    <3>2. i - 1 \in 1 .. Len(t) /\ t[i - 1].kind = k
      BY <3>1, <2>2, <1>1
    <3> QED BY <3>2, <1>1 DEF Has
  <2> QED BY <2>1, <2>2
<1>5. Has(q, q[1].kind)
  BY <1>1 DEF Has
<1>6. LatestOnce(q) /\ q[1].latest => ~Has(t, q[1].kind)
  BY <1>1 DEF LatestOnce, Has
<1>7. ASSUME Live(q, q[1].kind), ~q[1].latest
      PROVE  Has(t, q[1].kind)
  <2>1. PICK j \in 1 .. Len(q) : 1 < j /\ q[j].kind = q[1].kind
    BY <1>1, <1>7 DEF Live
  <2>2. j - 1 \in 1 .. Len(t) /\ t[j - 1].kind = q[1].kind
    BY <2>1, <1>1
  <2> QED BY <2>2, <1>1 DEF Has
<1>8. \A i \in DOMAIN t : i + 1 \in DOMAIN q /\ t[i] = q[i + 1]
  BY <1>1
<1> QED BY <1>1, <1>2, <1>3, <1>4, <1>5, <1>6, <1>7, <1>8 DEF t

-----------------------------------------------------------------------------
(* What the operations on the page do to it                                 *)

LEMMA CompletedType ==
  ASSUME NEW st \in Stores, NEW p \in Prefs
  PROVE  Completed(st, p) \in Prefs
BY DEF Completed, Stores, Prefs

LEMMA ConstantTypes ==
  /\ DefaultQuery \in Query /\ Empty \in SnapshotState /\ Empty.seq = 0
  /\ DefaultPrefs \in Prefs /\ NoPrefs \in Stores /\ NoPrefs \notin Prefs
  /\ \A p \in Prefs : p \in Stores /\ p # NoPrefs /\ p # None
  /\ \A st \in Stores : Page(st) \in PageState
  /\ NoRead \in Call /\ FailedCall \in Call
  /\ FailedCall.state = "failed" /\ FailedCall.snapshot = Empty
<1>1. DefaultQuery \in Query
  BY ControlsAssumption DEF DefaultQuery, Query
<1>2. Empty \in SnapshotState /\ Empty.seq = 0
  BY <1>1, ControlsAssumption DEF Empty, SnapshotState
<1>3. <<>> \in Seq(Mutation)
  OBVIOUS
<1>4. DefaultPrefs \in Prefs /\ NoPrefs \in Stores
  BY ControlsAssumption DEF DefaultPrefs, Prefs, NoPrefs, Stores
<1>5. \A p \in Prefs : p \in Stores /\ p # NoPrefs /\ p # None
  BY ControlsAssumption DEF Prefs, NoPrefs, Stores
<1>6. ASSUME NEW st \in Stores
      PROVE  Page(st) \in PageState
  <2>1. Completed(st, DefaultPrefs) \in Prefs
    BY <1>4, CompletedType
  <2>2. DefaultInterval \in Intervals
    BY ControlsAssumption
  <2> QED BY <1>1, <1>2, <1>3, <2>1, <2>2 DEF Page, PageState, Accepted
<1>7. NoRead \in Call /\ FailedCall \in Call /\ FailedCall.state = "failed" /\ FailedCall.snapshot = Empty
  BY <1>2 DEF NoRead, FailedCall, Call
<1> QED BY <1>1, <1>2, <1>4, <1>5, <1>6, <1>7

LEMMA PageFields ==
  ASSUME NEW p \in PageState
  PROVE  /\ p.shown \in SnapshotState /\ p.accepted \in Accepted /\ p.query \in Query
         /\ p.interval \in Intervals /\ p.paused \in BOOLEAN /\ p.prefs \in Prefs
         /\ p.native \in BOOLEAN /\ p.hydrated \in BOOLEAN /\ p.queue \in Seq(Mutation)
         /\ p.debounce \in BOOLEAN /\ p.saveDue \in BOOLEAN
         /\ p.accepted.query \in Query /\ p.accepted.interval \in Intervals
         /\ p.accepted.seq \in Nat /\ p.shown.seq \in Nat
BY DEF PageState, Accepted, SnapshotState

\* r is p but for the controls and the queue.
Shares(p, r) ==
  /\ r \in PageState /\ r.shown = p.shown /\ r.accepted = p.accepted /\ r.prefs = p.prefs
  /\ r.native = p.native /\ r.hydrated = p.hydrated /\ r.debounce = p.debounce
  /\ r.saveDue = p.saveDue

LEMMA FailedFacts ==
  ASSUME NEW p \in PageState, NEW m \in Mutation
  PROVE  LET r == Failed(p, m)
         IN /\ Shares(p, r) /\ r.queue = p.queue
            /\ m.kind # "query" => r.query = p.query
            /\ m.kind # "interval" => r.interval = p.interval
            /\ m.kind # "paused" => r.paused = p.paused
            /\ m.kind = "query" /\ m.latest => r.query = p.accepted.query
<1> DEFINE r == Failed(p, m)
<1>1. m.kind \in Kinds /\ m.prev \in BOOLEAN /\ m.latest \in BOOLEAN
  BY MutationFields
<1>2. p.accepted.query \in Query /\ p.accepted.interval \in Intervals
  BY PageFields
<1>3. CASE m.kind = "query" /\ m.latest
  <2>1. r = [p EXCEPT !.query = p.accepted.query]
    BY <1>3 DEF Failed
  <2> QED BY <1>2, <1>3, <2>1 DEF PageState, Shares
<1>4. CASE m.kind = "interval" /\ m.latest
  <2>1. r = [p EXCEPT !.interval = IF p.accepted.interval \in Offered THEN p.accepted.interval
                                   ELSE p.interval]
    BY <1>4 DEF Failed
  <2> QED BY <1>2, <1>4, <2>1 DEF PageState, Shares
<1>5. CASE m.kind = "paused"
  <2>1. r = [p EXCEPT !.paused = m.prev]
    BY <1>5 DEF Failed
  <2> QED BY <1>1, <1>5, <2>1 DEF PageState, Shares
<1>6. CASE ~(m.kind = "query" /\ m.latest) /\ ~(m.kind = "interval" /\ m.latest) /\ m.kind # "paused"
  <2>1. r = p
    BY <1>6 DEF Failed
  <2> QED BY <1>6, <2>1 DEF Shares
<1> QED BY <1>3, <1>4, <1>5, <1>6

\* RuntimeMutationQueue.run: the change is the last of the queue, or it is
\* undone.
LEMMA IssuedFacts ==
  ASSUME NEW p \in PageState, NEW k \in Kinds, NEW v \in ValuesOf(k),
         NEW prev \in BOOLEAN, NEW auto \in BOOLEAN
  PROVE  LET r == Issued(p, k, v, prev, auto)
         IN /\ Shares(p, r) /\ Grows(p.queue, r.queue, k)
            /\ k # "query" => r.query = p.query
            /\ k # "interval" => r.interval = p.interval
            /\ k # "paused" => r.paused = p.paused
            /\ Full(p) => Len(r.queue) = Len(p.queue)
            /\ Full(p) /\ k = "query" => r.query = p.accepted.query
            /\ ~Full(p) =>
                 /\ Len(r.queue) = Len(p.queue) + 1
                 /\ r.queue[Len(r.queue)] = New(k, v, prev, auto)
                 /\ r.query = p.query /\ r.interval = p.interval /\ r.paused = p.paused
<1> DEFINE m == New(k, v, prev, auto)
           s == Superseded(p.queue, k)
           q == [p EXCEPT !.queue = s]
           r == Issued(p, k, v, prev, auto)
<1>1. p.queue \in Seq(Mutation)
  BY PageFields
<1>2. m \in Mutation /\ m.kind = k /\ m.latest
  BY NewMutation DEF New
<1>3. s \in Seq(Mutation) /\ Len(s) = Len(p.queue) /\ Grows(p.queue, s, k)
  BY <1>1, SupersededFacts, SupersededGrows
<1>4. /\ Grows(p.queue, Append(s, m), k) /\ Len(Append(s, m)) = Len(p.queue) + 1
      /\ Append(s, m)[Len(Append(s, m))] = m /\ Append(s, m) \in Seq(Mutation)
  <2>1. Grows(p.queue, Append(s, m), k) /\ Len(Append(s, m)) = Len(p.queue) + 1
        /\ Append(s, m)[Len(Append(s, m))] = m
    BY <1>1, AppendGrows
  <2> QED BY <2>1 DEF Grows
<1>5. r = IF Full(p) THEN Failed(q, m) ELSE [q EXCEPT !.queue = Append(q.queue, m)]
  BY DEF Issued, New
<1> HIDE DEF m, s, r
<1>6. q \in PageState /\ Shares(p, q) /\ q.queue = s /\ q.query = p.query /\ q.interval = p.interval
      /\ q.paused = p.paused
  BY <1>3 DEF PageState, Shares
<1>7. CASE Full(p)
  <2>1. r = Failed(q, m)
    BY <1>5, <1>7
  <2> HIDE DEF q
  <2>2. /\ Shares(q, r) /\ r.queue = q.queue
        /\ m.kind # "query" => r.query = q.query
        /\ m.kind # "interval" => r.interval = q.interval
        /\ m.kind # "paused" => r.paused = q.paused
        /\ m.kind = "query" /\ m.latest => r.query = q.accepted.query
    BY <1>2, <1>6, <2>1, FailedFacts
  <2>3. Shares(p, r) /\ q.accepted = p.accepted
    BY <2>2, <1>6 DEF Shares
  <2> QED BY <1>2, <1>3, <1>6, <1>7, <2>2, <2>3 DEF m, r
<1>8. CASE ~Full(p)
  <2>1. r = [q EXCEPT !.queue = Append(s, m)]
    BY <1>5, <1>6, <1>8
  <2>2. r \in PageState /\ r.queue = Append(s, m) /\ Shares(p, r) /\ r.query = p.query
        /\ r.interval = p.interval /\ r.paused = p.paused
    BY <2>1, <1>4 DEF PageState, Shares
  <2> QED BY <2>2, <1>4, <1>8 DEF m, r
<1> QED BY <1>7, <1>8

\* The page r accepted what p had, or next.
Heard(p, r, next) ==
  \/ r.accepted = p.accepted /\ p.accepted.seq > 0
  \/ r.accepted.seq = next.seq /\ r.accepted.query = next.query

LEMMA ObservedFacts ==
  ASSUME NEW p \in PageState, NEW next \in SnapshotState
  PROVE  LET r == Observed(p, next)
         IN /\ r \in PageState /\ r.shown = p.shown /\ r.query = p.query /\ r.interval = p.interval
            /\ r.paused = p.paused /\ r.prefs = p.prefs /\ r.native = p.native
            /\ r.hydrated = p.hydrated /\ r.queue = p.queue /\ r.debounce = p.debounce
            /\ r.saveDue = p.saveDue /\ Heard(p, r, next)
<1>1. [seq |-> next.seq, query |-> next.query, interval |-> next.interval] \in Accepted
  BY DEF SnapshotState, Accepted
<1>2. p.accepted.seq \in Nat /\ next.seq \in Nat
  BY PageFields DEF SnapshotState
<1>3. CASE next.seq < p.accepted.seq
  BY <1>2, <1>3 DEF Observed, Heard
<1>4. CASE ~(next.seq < p.accepted.seq)
  <2>1. Observed(p, next) = [p EXCEPT !.accepted =
                               [seq |-> next.seq, query |-> next.query, interval |-> next.interval]]
    BY <1>4 DEF Observed
  <2> QED BY <1>1, <2>1 DEF PageState, SnapshotState, Heard
<1> QED BY <1>3, <1>4

\* hydrateRuntimeControls, the one time it acts: r is the page after it.
Greets(p, r, next) ==
  \/ r.queue = p.queue /\ r.query = next.query
  \/ /\ Grows(p.queue, r.queue, "query")
     /\ \/ /\ Len(r.queue) = Len(p.queue)
           /\ r.query = next.query \/ (p.accepted.seq > 0 /\ r.query = p.accepted.query)
        \/ /\ Len(r.queue) = Len(p.queue) + 1 /\ r.query = next.query
           /\ r.queue[Len(r.queue)] = New("query", [next.query EXCEPT !.focus = "attention"], FALSE, TRUE)

\* The preferences it leaves on the page
Adopted(p, next) ==
  IF Pending THEN Completed(store, p.prefs) ELSE IF next.prefs # None THEN next.prefs ELSE p.prefs

LEMMA HydratedFacts ==
  ASSUME NEW p \in PageState, NEW next \in SnapshotState, NEW attend \in BOOLEAN,
         NEW healthy \in BOOLEAN, store \in Stores,
         p.accepted.seq > 0 \/ p.accepted.query = next.query
  PROVE  LET r == Hydrated(p, next, attend, healthy)
         IN /\ r \in PageState /\ r.shown = p.shown /\ r.accepted = p.accepted
            /\ r.interval = p.interval /\ r.paused = p.paused /\ r.native = p.native
            /\ r.debounce = p.debounce /\ r.hydrated = (p.hydrated \/ p.native)
            /\ p.hydrated \/ ~p.native =>
                 r.query = p.query /\ r.queue = p.queue /\ r.prefs = p.prefs /\ r.saveDue = p.saveDue
            /\ ~p.hydrated /\ p.native => Greets(p, r, next) /\ r.prefs = Adopted(p, next)
<1> DEFINE r == Hydrated(p, next, attend, healthy)
           h == [p EXCEPT !.query = next.query, !.hydrated = TRUE,
                          !.prefs = Adopted(p, next),
                          !.saveDue = healthy /\ (Pending \/ next.prefs = None)]
           v == [next.query EXCEPT !.focus = "attention"]
<1>1. CASE p.hydrated \/ ~p.native
  <2>1. r = p
    BY <1>1 DEF Hydrated
  <2>2. p.hydrated \in BOOLEAN /\ p.native \in BOOLEAN
    BY PageFields
  <2> QED BY <1>1, <2>1, <2>2
<1>2. CASE ~p.hydrated /\ p.native
  <2>1. next.query \in Query /\ next.prefs \in Prefs \cup {None} /\ p.prefs \in Prefs
    BY PageFields DEF SnapshotState
  <2>2. /\ h \in PageState /\ h.shown = p.shown /\ h.accepted = p.accepted /\ h.interval = p.interval
        /\ h.paused = p.paused /\ h.native = p.native /\ h.debounce = p.debounce /\ h.hydrated
        /\ h.hydrated = TRUE
        /\ h.queue = p.queue /\ h.query = next.query /\ h.prefs = Adopted(p, next)
    <3>1. Adopted(p, next) \in Prefs
      BY <2>1, CompletedType DEF Adopted
    <3>2. (healthy /\ (Pending \/ next.prefs = None)) \in BOOLEAN
      OBVIOUS
    <3> QED BY <2>1, <3>1, <3>2 DEF PageState
  <2>3. r = IF attend /\ next.query = DefaultQuery THEN Issued(h, "query", v, FALSE, TRUE) ELSE h
    BY <1>2 DEF Hydrated, Adopted
  <2> HIDE DEF h, r
  <2>4. CASE ~(attend /\ next.query = DefaultQuery)
    BY <1>2, <2>2, <2>3, <2>4 DEF Greets, r
  <2>5. CASE attend /\ next.query = DefaultQuery
    <3>1. v \in ValuesOf("query") /\ "query" \in Kinds
      BY <2>1, ValueTypes DEF Query, Kinds, Controls
    <3>2. r = Issued(h, "query", v, FALSE, TRUE)
      BY <2>3, <2>5
    <3> HIDE DEF v
    <3>3. /\ Shares(h, r) /\ Grows(h.queue, r.queue, "query")
          /\ r.interval = h.interval /\ r.paused = h.paused
          /\ Full(h) => Len(r.queue) = Len(h.queue)
          /\ Full(h) => r.query = h.accepted.query
          /\ ~Full(h) =>
               /\ Len(r.queue) = Len(h.queue) + 1
               /\ r.queue[Len(r.queue)] = New("query", v, FALSE, TRUE)
               /\ r.query = h.query
      <4>1. h \in PageState
        BY <2>2
      <4> QED BY <4>1, <3>1, <3>2, IssuedFacts
    <3>4. Greets(p, r, next)
      BY <2>2, <2>5, <3>3 DEF Greets, v
    <3> QED BY <1>2, <2>2, <3>3, <3>4 DEF Shares, r
  <2> QED BY <2>4, <2>5
<1> QED BY <1>1, <1>2

\* ingest of a snapshot that is not older than the one shown
Taken(p, r, next) ==
  /\ r \in PageState /\ r.shown = next /\ r.paused = next.paused /\ r.debounce = p.debounce
  /\ r.hydrated = (p.hydrated \/ p.native)
  /\ r.native = p.native
  /\ ~Has(p.queue, "interval") /\ next.interval \in Offered => r.interval = next.interval
  /\ Heard(p, r, next)
  /\ p.hydrated \/ ~p.native =>
       r.query = p.query /\ r.queue = p.queue /\ r.prefs = p.prefs /\ r.saveDue = p.saveDue
  /\ ~p.hydrated /\ p.native => Greets(p, r, next) /\ r.prefs = Adopted(p, next)

LEMMA IngestedFacts ==
  ASSUME NEW p \in PageState, NEW next \in SnapshotState, NEW attend \in BOOLEAN,
         NEW healthy \in BOOLEAN, store \in Stores
  PROVE  LET r == Ingested(p, next, attend, healthy)
         IN /\ next.seq >= p.shown.seq => Taken(p, r, next)
            /\ ~(next.seq >= p.shown.seq) => r = p
<1> DEFINE r == Ingested(p, next, attend, healthy)
           o == Observed(p, next)
           h == Hydrated(o, next, attend, healthy)
<1>1. CASE ~(next.seq >= p.shown.seq)
  BY <1>1 DEF Ingested, ShouldApply
<1>2. CASE next.seq >= p.shown.seq
  <2>1. /\ o \in PageState /\ o.query = p.query /\ o.interval = p.interval
        /\ o.native = p.native /\ o.hydrated = p.hydrated /\ o.queue = p.queue
        /\ o.debounce = p.debounce /\ o.prefs = p.prefs /\ o.saveDue = p.saveDue
        /\ Heard(p, o, next)
    BY ObservedFacts
  <2>2. r = [h EXCEPT !.shown = next, !.paused = next.paused,
                      !.interval = IF PendingCadence(h) \/ next.interval \notin Offered THEN h.interval
                                   ELSE next.interval]
    BY <1>2 DEF Ingested, ShouldApply
  <2> HIDE DEF o
  <2>a. o.accepted.seq > 0 \/ o.accepted.query = next.query
    BY <2>1 DEF Heard
  <2>3. /\ h \in PageState /\ h.accepted = o.accepted /\ h.interval = o.interval
        /\ h.debounce = o.debounce /\ h.hydrated = (o.hydrated \/ o.native)
        /\ h.native = o.native
        /\ o.hydrated \/ ~o.native =>
             h.query = o.query /\ h.queue = o.queue /\ h.prefs = o.prefs /\ h.saveDue = o.saveDue
        /\ ~o.hydrated /\ o.native => Greets(o, h, next) /\ h.prefs = Adopted(o, next)
    BY <2>1, <2>a, HydratedFacts
  <2> HIDE DEF h, r
  <2>4. /\ r \in PageState /\ r.shown = next /\ r.paused = next.paused /\ r.debounce = h.debounce
        /\ r.hydrated = h.hydrated /\ r.accepted = h.accepted /\ r.query = h.query
        /\ r.queue = h.queue /\ r.native = h.native /\ r.prefs = h.prefs /\ r.saveDue = h.saveDue
        /\ r.interval = IF PendingCadence(h) \/ next.interval \notin Offered THEN h.interval
                        ELSE next.interval
    <3>1. next.paused \in BOOLEAN /\ next.interval \in Intervals /\ h.interval \in Intervals
      BY <2>3, PageFields DEF SnapshotState
    <3>2. (IF PendingCadence(h) \/ next.interval \notin Offered THEN h.interval ELSE next.interval)
            \in Intervals
      BY <3>1
    <3> QED BY <2>2, <2>3, <3>1, <3>2 DEF PageState
  <2>5. o.queue \in Seq(Mutation) /\ h.queue \in Seq(Mutation)
    BY <2>1, <2>3, PageFields
  <2>6. Has(h.queue, "interval") <=> Has(o.queue, "interval")
    <3>1. h.queue = o.queue \/ Grows(o.queue, h.queue, "query")
      BY <2>3, PageFields, <2>1 DEF Greets
    <3> QED BY <2>5, <3>1, GrownQueue
  <2>7. ~Has(p.queue, "interval") /\ next.interval \in Offered => r.interval = next.interval
    BY <2>1, <2>4, <2>6 DEF PendingCadence, Has
  <2>8. ~p.hydrated /\ p.native => Greets(p, r, next) /\ r.prefs = Adopted(p, next)
    <3> SUFFICES ASSUME ~p.hydrated, p.native
                 PROVE  Greets(p, r, next) /\ r.prefs = Adopted(p, next)
      OBVIOUS
    <3>1. Greets(o, h, next) /\ h.prefs = Adopted(o, next)
      BY <2>1, <2>3
    <3>2. o.accepted.query = next.query \/ (p.accepted.seq > 0 /\ o.accepted.query = p.accepted.query)
      BY <2>1 DEF Heard
    <3>3. r.queue = h.queue /\ r.query = h.query /\ o.queue = p.queue
      BY <2>1, <2>4
    <3>4. Greets(p, r, next)
      BY <3>1, <3>2, <3>3 DEF Greets
    <3> QED BY <2>1, <2>4, <3>1, <3>4 DEF Adopted
  <2>9. Heard(p, r, next)
    BY <2>1, <2>3, <2>4 DEF Heard
  <2> QED BY <1>2, <2>1, <2>3, <2>4, <2>7, <2>8, <2>9 DEF Taken, r
<1> QED BY <1>1, <1>2

-----------------------------------------------------------------------------
(* What a change and a snapshot leave of the invariant                      *)

\* A change keeps the queue in order; one that was turned away is in doubt.
LEMMA IssuedQueue ==
  ASSUME NEW p \in PageState, NEW r \in PageState, NEW k, NEW d, NEW e,
         Grows(p.queue, r.queue, k), QueueInv(p, d), d \subseteq e,
         Len(r.queue) = Len(p.queue) + 1 \/ k \in e \/ k \notin Controls
  PROVE  QueueInv(r, e)
<1>1. p.queue \in Seq(Mutation)
  BY PageFields
<1>2. LatestOnce(r.queue)
  BY <1>1, GrownQueue DEF QueueInv
<1>3. ASSUME NEW j \in Controls, j \notin e, Live(p.queue, j)
      PROVE  Live(r.queue, j)
  <2>1. j # k \/ Len(r.queue) = Len(p.queue) + 1
    BY <1>3
  <2> QED BY <1>1, <1>3, <2>1, GrownQueue
<1> QED BY <1>2, <1>3 DEF QueueInv, Controls

LEMMA TakenQueue ==
  ASSUME NEW p \in PageState, NEW r, NEW next, NEW d, Taken(p, r, next), QueueInv(p, d),
         ~p.hydrated /\ p.native /\ Has(p.queue, "query") => "query" \in d
  PROVE  /\ QueueInv(r, d)
         /\ \A k : k # "query" => (Has(r.queue, k) <=> Has(p.queue, k))
         /\ p.queue # <<>> =>
              r.queue # <<>> /\ r.queue[1].kind = p.queue[1].kind /\ r.queue[1].value = p.queue[1].value
<1>1. p.queue \in Seq(Mutation) /\ r \in PageState /\ p.hydrated \in BOOLEAN /\ p.native \in BOOLEAN
  BY PageFields DEF Taken
<1>2. CASE r.queue = p.queue
  BY <1>2 DEF QueueInv
<1>3. CASE r.queue # p.queue
  <2>1. Grows(p.queue, r.queue, "query") /\ ~p.hydrated /\ p.native
    BY <1>1, <1>3 DEF Taken, Greets
  <2>2. LatestOnce(r.queue)
    BY <1>1, <2>1, GrownQueue DEF QueueInv
  <2>3. ASSUME NEW j \in {"query", "interval"}, j \notin d, Live(p.queue, j)
        PROVE  Live(r.queue, j)
    <3>1. j # "query" \/ ~Has(p.queue, "query")
      BY <2>1, <2>3
    <3> QED BY <1>1, <2>1, <2>3, <3>1, GrownQueue
  <2>4. QueueInv(r, d)
    BY <2>2, <2>3 DEF QueueInv
  <2> QED BY <1>1, <2>1, <2>4, GrownQueue
<1> QED BY <1>2, <1>3

\* The first snapshot hydrates the query unless a change of it is under way,
\* which then is in doubt.
LEMMA TakenQuery ==
  ASSUME NEW p \in PageState, NEW r, NEW next \in SnapshotState, NEW d,
         Taken(p, r, next), QueryInv(p, d),
         ~p.hydrated /\ p.native /\ (p.debounce \/ Has(p.queue, "query")) => "query" \in d,
         ~p.hydrated /\ p.native => next.seq > 0,
         "query" \notin d /\ ~p.hydrated /\ ~Has(p.queue, "query") /\ next.seq > 0 =>
           next.query = runtime.query
  PROVE  QueryInv(r, d)
<1>1. p.queue \in Seq(Mutation) /\ r \in PageState /\ r.queue \in Seq(Mutation)
  BY PageFields DEF Taken
<1>2. p.hydrated \in BOOLEAN /\ p.native \in BOOLEAN /\ next.query \in Query
  BY PageFields DEF SnapshotState
<1> SUFFICES ASSUME "query" \notin d
             PROVE  QueryInv(r, d)
  BY DEF QueryInv
<1>3. CASE p.hydrated
  <2>1. r.query = p.query /\ r.queue = p.queue /\ r.debounce = p.debounce /\ r.hydrated
    BY <1>3 DEF Taken
  <2> QED BY <1>3, <2>1 DEF QueryInv
<1>4. CASE ~p.hydrated /\ ~p.native
  <2>1. /\ r.query = p.query /\ r.queue = p.queue /\ r.debounce = p.debounce /\ ~r.hydrated
        /\ r.shown = next /\ Heard(p, r, next)
    BY <1>4 DEF Taken
  <2> QED BY <1>4, <2>1 DEF QueryInv, Heard
<1>5. CASE ~p.hydrated /\ p.native
  <2>1. ~p.debounce /\ ~Has(p.queue, "query") /\ r.hydrated /\ ~r.debounce
    BY <1>5 DEF Taken
  <2>2. next.query = runtime.query /\ (p.accepted.seq > 0 => p.accepted.query = runtime.query)
    BY <1>5, <2>1 DEF QueryInv
  <2>3. Greets(p, r, next)
    BY <1>5 DEF Taken
  <2>4. CASE r.query = runtime.query /\ ~Has(r.queue, "query")
    BY <2>1, <2>2, <2>4 DEF QueryInv, Has
  <2>5. CASE /\ Grows(p.queue, r.queue, "query") /\ Len(r.queue) = Len(p.queue) + 1
             /\ r.query = next.query
             /\ r.queue[Len(r.queue)] = New("query", [next.query EXCEPT !.focus = "attention"], FALSE, TRUE)
    <3>1. Has(r.queue, "query")
      BY <1>1, <2>5, GrownQueue
    <3>2. ASSUME NEW i \in DOMAIN r.queue, r.queue[i].kind = "query"
          PROVE  r.query.text = r.queue[i].value.text /\ r.queue[i].auto
      <4>1. i = Len(r.queue)
        <5>1. i \in 1 .. Len(r.queue) /\ Len(p.queue) \in Nat /\ DOMAIN p.queue = 1 .. Len(p.queue)
          BY <1>1, <3>2
        <5>2. i \in DOMAIN p.queue => r.queue[i].kind = p.queue[i].kind
          BY <2>5 DEF Grows
        <5>3. i \notin DOMAIN p.queue
          BY <2>1, <3>2, <5>2 DEF Has
        <5> QED BY <5>1, <5>3, <2>5
      <4>2. [next.query EXCEPT !.focus = "attention"].text = next.query.text
        BY <1>2 DEF Query
      <4>3. /\ r.queue[i].value = [next.query EXCEPT !.focus = "attention"]
            /\ r.queue[i].auto
        BY <4>1, <2>5 DEF New
      <4> QED BY <4>2, <4>3, <2>5
    <3> QED BY <2>1, <3>1, <3>2 DEF QueryInv
  <2>6. r.queue # p.queue => ~(Len(r.queue) = Len(p.queue)) \/ ~Has(r.queue, "query")
    <3>1. r.queue # p.queue => Grows(p.queue, r.queue, "query")
      BY <2>3 DEF Greets
    <3> QED BY <1>1, <2>1, <3>1, GrownQueue
  <2> QED BY <2>1, <2>2, <2>3, <2>4, <2>5, <2>6 DEF Greets
<1> QED BY <1>2, <1>3, <1>4, <1>5

-----------------------------------------------------------------------------
(* Steps that change nothing but reads, or nothing of them                  *)

\* The snapshots on their way are the ones that were, the one shown, or new.
LEMMA QuietStep ==
  ASSUME ControlsInv, UNCHANGED <<runtime, durable, channel, answer, store, chosen, slighted, doubt>>,
         page' \in PageState, page'.queue = page.queue, page'.shown = page.shown,
         page'.interval = page.interval, page'.paused = page.paused,
         page'.accepted = page.accepted, page'.hydrated = page.hydrated,
         page'.debounce \/ (page'.query = page.query /\ page'.debounce = page.debounce),
         poll'.snapshot \in OnTheirWay \cup {page.shown, Snapshot(runtime, durable)},
         refresh'.snapshot \in OnTheirWay \cup {page.shown, Snapshot(runtime, durable)}
  PROVE  /\ QueueInv(page, doubt)' /\ CallInv' /\ ChannelInv' /\ EchoInv(page)'
         /\ IntervalInv(page, doubt)' /\ PausedInv(page, doubt)' /\ QueryInv(page, doubt)'
         /\ SettledInv'
<1>0. /\ TypeOK /\ QueueInv(page, doubt) /\ CallInv /\ ChannelInv /\ EchoInv(page)
      /\ IntervalInv(page, doubt) /\ PausedInv(page, doubt) /\ QueryInv(page, doubt)
      /\ SettledInv
  BY DEF ControlsInv
<1> DEFINE n == Snapshot(runtime, durable)
<1>1. /\ n.seq = runtime.seq /\ n.query = runtime.query /\ n.interval = runtime.interval
      /\ n.paused = runtime.paused /\ runtime.seq \in Nat
  BY <1>0 DEF Snapshot, TypeOK, RuntimeState
<1> HIDE DEF n
<1>2. poll'.snapshot \in OnTheirWay \cup {page.shown, n} /\ refresh'.snapshot \in OnTheirWay \cup {page.shown, n}
  BY DEF n
<1>3. \A s \in (OnTheirWay \cup {page.shown})' : s \in OnTheirWay \cup {page.shown, n}
  BY <1>2 DEF OnTheirWay
<1>a. QueueInv(page, doubt)'
  BY <1>0 DEF QueueInv
<1>b. CallInv'
  BY <1>0 DEF CallInv
<1>c. ChannelInv'
  BY <1>0 DEF ChannelInv
<1>d. EchoInv(page)'
  <2>1. Echo(n)
    BY <1>1 DEF Echo
  <2> QED BY <1>0, <1>3, <2>1 DEF EchoInv, Echo
<1>e. IntervalInv(page, doubt)'
  BY <1>0, <1>1, <1>3 DEF IntervalInv
<1>f. PausedInv(page, doubt)'
  BY <1>0, <1>1, <1>3 DEF PausedInv
<1>g. QueryInv(page, doubt)'
  <2>1. \A s \in (OnTheirWay \cup {answer.snapshot, page.shown})' :
          s \in OnTheirWay \cup {answer.snapshot, page.shown, n}
    BY <1>2 DEF OnTheirWay
  <2> QED BY <1>0, <1>1, <2>1 DEF QueryInv
<1>h. SettledInv'
  BY <1>0 DEF SettledInv, Pending
<1> QED BY <1>a, <1>b, <1>c, <1>d, <1>e, <1>f, <1>g, <1>h

LEMMA CallFields ==
  ASSUME NEW r \in RuntimeState, NEW d \in Prefs \cup {None}
  PROVE  /\ Snapshot(r, d) \in SnapshotState
         /\ Read(r, d) \in Call /\ Read(r, d).state = "read" /\ Read(r, d).snapshot = Snapshot(r, d)
<1>1. Snapshot(r, d) \in SnapshotState
  BY DEF Snapshot, SnapshotState, RuntimeState
<1> QED BY <1>1 DEF Read, Call

LEMMA TypeTextStep ==
  ASSUME ControlsInv, NEW t \in Texts, TypeText(t)
  PROVE  ControlsInv'
<1>1. TypeOK
  BY DEF ControlsInv
<1>2. /\ page' = [page EXCEPT !.query.text = t, !.debounce = TRUE]
      /\ UNCHANGED <<runtime, durable, channel, answer, poll, refresh, hidden, timer, store, chosen, slighted, faults>>
      /\ changes < MaxChanges /\ changes' = changes + 1 /\ doubt' = doubt
  BY DEF TypeText, Leaves, Change, Doubts
<1>3. page' \in PageState
  <2>1. page.query \in Query /\ page \in PageState
    BY <1>1, PageFields DEF TypeOK
  <2>2. [page.query EXCEPT !.text = t] \in Query
    BY <2>1 DEF Query
  <2>3. page' = [page EXCEPT !.query = [page.query EXCEPT !.text = t], !.debounce = TRUE]
    BY <1>2, <2>1
  <2> QED BY <2>1, <2>2, <2>3 DEF PageState
<1>4. /\ page'.queue = page.queue /\ page'.shown = page.shown /\ page'.interval = page.interval
      /\ page'.paused = page.paused /\ page'.accepted = page.accepted
      /\ page'.hydrated = page.hydrated /\ page'.debounce /\ page'.native = page.native
  BY <1>1, <1>2 DEF TypeOK, PageState
<1>7. NativeInv'
  BY <1>2, <1>4 DEF ControlsInv, NativeInv
<1>5. TypeOK'
  BY <1>1, <1>2, <1>3, ControlsAssumption DEF TypeOK
<1>6. poll'.snapshot \in OnTheirWay /\ refresh'.snapshot \in OnTheirWay
  BY <1>2 DEF OnTheirWay
<1> QED BY <1>2, <1>3, <1>4, <1>5, <1>6, <1>7, QuietStep DEF ControlsInv

\* The steps of reading that leave the page alone
LEMMA ReadingStep ==
  ASSUME ControlsInv,
         RefreshReads \/ TimerFires \/ PollReads \/ Visibility \/ Watchdog \/ UNCHANGED vars
  PROVE  ControlsInv'
<1>1. TypeOK
  BY DEF ControlsInv
<1>2. UNCHANGED <<runtime, durable, channel, answer, store, chosen, slighted, doubt>>
  BY DEF RefreshReads, TimerFires, PollReads, Visibility, Watchdog, vars
<1>3. page' = page \/ page' = [page EXCEPT !.native = TRUE]
  BY DEF RefreshReads, TimerFires, PollReads, Visibility, Watchdog, vars
<1>4. /\ page' \in PageState
      /\ page'.queue = page.queue /\ page'.shown = page.shown /\ page'.interval = page.interval
      /\ page'.paused = page.paused /\ page'.accepted = page.accepted
      /\ page'.hydrated = page.hydrated /\ page'.debounce = page.debounce /\ page'.query = page.query
  BY <1>1, <1>3 DEF TypeOK, PageState
<1> DEFINE n == Snapshot(runtime, durable)
<1>5. n \in SnapshotState /\ Read(runtime, durable) \in Call /\ Read(runtime, durable).snapshot = n
  BY <1>1, CallFields DEF TypeOK
<1>6. poll \in Call /\ refresh \in Call /\ page.shown \in SnapshotState /\ NoRead \in Call
      /\ NoRead.snapshot = Empty
  BY <1>1, ConstantTypes, PageFields DEF TypeOK, NoRead
<1>7. /\ poll' \in {poll, [state |-> "asked", snapshot |-> page.shown], Read(runtime, durable),
                    [poll EXCEPT !.state = "read"]}
      /\ refresh' \in {refresh, Read(runtime, durable)}
  BY DEF RefreshReads, TimerFires, PollReads, Visibility, Watchdog, vars
<1> HIDE DEF n
<1>8. poll' \in Call /\ poll'.snapshot \in {poll.snapshot, page.shown, n}
  BY <1>5, <1>6, <1>7 DEF Call
<1>9. refresh' \in Call /\ refresh'.snapshot \in {refresh.snapshot, Empty, n}
  BY <1>5, <1>6, <1>7 DEF Call
<1>10. hidden' \in BOOLEAN /\ timer' \in BOOLEAN
  BY <1>1 DEF TypeOK, RefreshReads, TimerFires, PollReads, Visibility, Watchdog, vars
<1>11. changes' \in 0 .. MaxChanges /\ faults' \in 0 .. MaxFaults
  <2>1. changes' = changes \/ (changes < MaxChanges /\ changes' = changes + 1)
    BY DEF RefreshReads, TimerFires, PollReads, Visibility, Watchdog, vars, Change
  <2>2. faults' = faults \/ (faults < MaxFaults /\ faults' = faults + 1)
    BY DEF RefreshReads, TimerFires, PollReads, Visibility, Watchdog, vars, Fault
  <2> QED BY <1>1, <2>1, <2>2, ControlsAssumption DEF TypeOK
<1>12. TypeOK'
  BY <1>1, <1>2, <1>4, <1>8, <1>9, <1>10, <1>11 DEF TypeOK
<1>13. poll'.snapshot \in OnTheirWay \cup {page.shown, n} /\ refresh'.snapshot \in OnTheirWay \cup {page.shown, n}
  BY <1>8, <1>9 DEF OnTheirWay
<1>14. NativeInv'
  <2>1. NativeInv /\ n.seq > 0
    BY DEF ControlsInv, EchoInv, n, Snapshot
  <2>2. Read(runtime, durable).state = "read" /\ Read(runtime, durable).snapshot.seq > 0
    BY <1>1, <1>5, <2>1, CallFields DEF TypeOK
  <2>3. refresh' = refresh \/ refresh' = Read(runtime, durable)
    BY <1>7
  <2>4. \/ page' = page /\ poll' = poll
        \/ page' = page /\ poll.state # "read"
        \/ page'.shown = page.shown /\ page'.hydrated = page.hydrated /\ poll' = Read(runtime, durable)
    <3>1. CASE TimerFires
      BY <3>1 DEF TimerFires, Running, NoRead
    <3>2. CASE PollReads
      BY <1>4, <3>2 DEF PollReads
    <3>3. CASE RefreshReads \/ Visibility \/ Watchdog \/ UNCHANGED vars
      BY <3>3 DEF RefreshReads, Visibility, Watchdog, vars
    <3> QED BY <3>1, <3>2, <3>3
  <2> QED BY <2>1, <2>2, <2>3, <2>4 DEF NativeInv
<1> QED BY <1>2, <1>4, <1>12, <1>13, <1>14, QuietStep DEF ControlsInv, n

-----------------------------------------------------------------------------
(* Changes                                                                  *)

\* A change of kind k is issued, and in doubt if it was turned away.
LEMMA ChangeStep ==
  ASSUME ControlsInv, NEW k \in Kinds,
         UNCHANGED <<runtime, durable, channel, answer, poll, refresh>>,
         page' \in PageState, page'.shown = page.shown, page'.native = page.native,
         page'.hydrated = page.hydrated, Grows(page.queue, page'.queue, k),
         doubt \subseteq doubt', Len(page'.queue) = Len(page.queue) + 1 \/ k \in doubt' \/ k \notin Controls,
         k # "interval" => page'.interval = page.interval,
         k # "paused" => page'.paused = page.paused
  PROVE  /\ QueueInv(page, doubt)' /\ CallInv' /\ ChannelInv' /\ EchoInv(page)'
         /\ NativeInv' /\ IntervalInv(page, doubt)' /\ PausedInv(page, doubt)'
<1>0. /\ TypeOK /\ QueueInv(page, doubt) /\ CallInv /\ ChannelInv /\ EchoInv(page) /\ NativeInv
      /\ IntervalInv(page, doubt) /\ PausedInv(page, doubt)
  BY DEF ControlsInv
<1>1. page \in PageState /\ page.queue \in Seq(Mutation)
  BY <1>0, PageFields DEF TypeOK
<1>2. /\ \A j : j # k => (Has(page'.queue, j) <=> Has(page.queue, j))
      /\ Len(page'.queue) = Len(page.queue) + 1 => Has(page'.queue, k)
      /\ page.queue # <<>> => /\ page'.queue # <<>> /\ page'.queue[1].kind = page.queue[1].kind
                              /\ page'.queue[1].value = page.queue[1].value
  BY <1>1, GrownQueue
<1>3. OnTheirWay' = OnTheirWay
  BY DEF OnTheirWay
<1>a. QueueInv(page, doubt)'
  BY <1>0, <1>1, IssuedQueue
<1>b. CallInv'
  BY <1>0, <1>2 DEF CallInv
<1>c. ChannelInv'
  BY <1>0 DEF ChannelInv
<1>d. EchoInv(page)'
  BY <1>0, <1>3 DEF EchoInv, Echo
<1>e. IntervalInv(page, doubt)'
  <2>1. CASE k = "interval"
    BY <1>2, <2>1 DEF IntervalInv, Controls
  <2>2. CASE k # "interval"
    BY <1>0, <1>2, <1>3, <2>2 DEF IntervalInv
  <2> QED BY <2>1, <2>2
<1>f. PausedInv(page, doubt)'
  <2>1. CASE k = "paused"
    BY <1>0, <1>2, <2>1 DEF PausedInv, Controls
  <2>2. CASE k # "paused"
    BY <1>0, <1>2, <1>3, <2>2 DEF PausedInv
  <2> QED BY <2>1, <2>2
<1>g. NativeInv'
  BY <1>0 DEF NativeInv
<1> QED BY <1>g, <1>a, <1>b, <1>c, <1>d, <1>e, <1>f

\* The query is left alone by a change of something else.
LEMMA OtherChangeQuery ==
  ASSUME QueryInv(page, doubt), page \in PageState, NEW k, k # "query",
         UNCHANGED <<runtime, answer, poll, refresh>>,
         page' \in PageState, page'.shown = page.shown, page'.accepted = page.accepted,
         page'.hydrated = page.hydrated, page'.debounce = page.debounce, page'.query = page.query,
         Grows(page.queue, page'.queue, k), doubt \subseteq doubt'
  PROVE  QueryInv(page, doubt)'
<1>1. page.queue \in Seq(Mutation) /\ page'.queue \in Seq(Mutation)
  BY PageFields
<1>2. Has(page'.queue, "query") <=> Has(page.queue, "query")
  BY <1>1, GrownQueue
<1>3. OnTheirWay' = OnTheirWay
  BY DEF OnTheirWay
<1>4. ASSUME NEW i \in DOMAIN page'.queue, page'.queue[i].kind = "query", page'.queue[i].latest
      PROVE  /\ i \in DOMAIN page.queue /\ page.queue[i].kind = "query" /\ page.queue[i].latest
             /\ page.queue[i].value = page'.queue[i].value /\ page.queue[i].auto = page'.queue[i].auto
  <2>1. /\ i \in 1 .. Len(page'.queue) /\ Len(page.queue) \in Nat /\ Len(page'.queue) \in Nat
        /\ DOMAIN page.queue = 1 .. Len(page.queue)
    BY <1>1, <1>4
  <2>2. Len(page'.queue) <= Len(page.queue) + 1
    BY DEF Grows
  <2>3. Len(page'.queue) = Len(page.queue) + 1 => page'.queue[Len(page'.queue)].kind = k
    BY DEF Grows
  <2>4. i \in 1 .. Len(page.queue)
    BY <1>4, <2>1, <2>2, <2>3
  <2> QED BY <1>4, <2>1, <2>4 DEF Grows
<1>5. "query" \notin doubt' /\ ~page'.debounce =>
        \A i \in DOMAIN page'.queue :
          page'.queue[i].kind = "query" /\ page'.queue[i].latest =>
            /\ page'.query.text = page'.queue[i].value.text
            /\ ~page'.queue[i].auto => page'.query = page'.queue[i].value
  BY <1>4 DEF QueryInv
<1>6. /\ "query" \notin doubt' /\ ~Has(page'.queue, "query") /\ page'.hydrated /\ ~page'.debounce =>
           page'.query = runtime'.query
      /\ "query" \notin doubt' /\ ~Has(page'.queue, "query") /\ ~page'.hydrated =>
         /\ page'.accepted.seq > 0 => page'.accepted.query = runtime'.query
         /\ \A s \in (OnTheirWay \cup {answer.snapshot, page.shown})' :
              s.seq > 0 => s.query = runtime'.query
  BY <1>2, <1>3 DEF QueryInv
<1> QED BY <1>5, <1>6 DEF QueryInv

LEMMA SendsQueryStep ==
  ASSUME ControlsInv, NEW p \in PageState, SendsQuery(p),
         p.queue = page.queue, p.shown = page.shown, p.interval = page.interval,
         p.paused = page.paused, p.accepted = page.accepted, p.hydrated = page.hydrated,
         p.native = page.native, changes' \in 0 .. MaxChanges
  PROVE  ControlsInv'
<1>0. TypeOK /\ QueryInv(page, doubt) /\ SettledInv
  BY DEF ControlsInv
<1> DEFINE u == [p EXCEPT !.debounce = FALSE]
<1>1. /\ page' = Issued(u, "query", p.query, FALSE, FALSE)
      /\ UNCHANGED <<runtime, durable, channel, answer, poll, refresh, hidden, timer, store, chosen, slighted, faults>>
      /\ doubt' = doubt \cup (TurnedAway("query") \cap Controls)
  BY DEF SendsQuery, Leaves, Doubts
<1>2. /\ u \in PageState /\ u.queue = page.queue /\ u.shown = page.shown /\ u.interval = page.interval
      /\ u.paused = page.paused /\ u.accepted = page.accepted /\ u.hydrated = page.hydrated
      /\ u.debounce = FALSE /\ u.query = p.query /\ u.native = page.native
  BY DEF PageState
<1>3. p.query \in ValuesOf("query") /\ "query" \in Kinds
  BY PageFields, ValueTypes DEF Kinds, Controls
<1> HIDE DEF u
<1>4. /\ Shares(u, page') /\ Grows(u.queue, page'.queue, "query")
      /\ page'.interval = u.interval /\ page'.paused = u.paused
      /\ ~Full(u) =>
           /\ Len(page'.queue) = Len(u.queue) + 1
           /\ page'.queue[Len(page'.queue)] = New("query", p.query, FALSE, FALSE)
           /\ page'.query = u.query
  BY <1>1, <1>2, <1>3, IssuedFacts
<1>5. page' \in PageState /\ page'.shown = page.shown /\ Grows(page.queue, page'.queue, "query")
      /\ page'.interval = page.interval /\ page'.paused = page.paused /\ page'.debounce = FALSE
      /\ page'.native = page.native /\ page'.hydrated = page.hydrated
  BY <1>2, <1>4 DEF Shares
<1>6. doubt \subseteq doubt' /\ doubt' \subseteq Controls /\ (Full(page) => "query" \in doubt')
  BY <1>0, <1>1 DEF TurnedAway, TypeOK, Controls
<1>7. Full(u) <=> Full(page)
  BY <1>2 DEF Full
<1>8. Len(page'.queue) = Len(page.queue) + 1 \/ "query" \in doubt'
  BY <1>2, <1>4, <1>6, <1>7
<1>9. TypeOK'
  BY <1>0, <1>1, <1>5, <1>6 DEF TypeOK
<1>10. QueryInv(page, doubt)'
  <2>1. CASE "query" \in doubt'
    BY <2>1 DEF QueryInv
  <2>2. CASE "query" \notin doubt'
    <3>1. /\ Len(page'.queue) = Len(page.queue) + 1 /\ page'.query = p.query
          /\ page'.queue[Len(page'.queue)] = New("query", p.query, FALSE, FALSE)
      BY <1>2, <1>4, <1>6, <1>7, <2>2
    <3>2. page.queue \in Seq(Mutation) /\ page'.queue \in Seq(Mutation)
      BY <1>0, <1>5, PageFields DEF TypeOK
    <3>3. Has(page'.queue, "query")
      BY <1>5, <3>1, <3>2, GrownQueue
    <3>4. ASSUME NEW i \in DOMAIN page'.queue, page'.queue[i].kind = "query", page'.queue[i].latest
          PROVE  page'.query = page'.queue[i].value
      <4>1. /\ i \in 1 .. Len(page'.queue) /\ Len(page.queue) \in Nat
            /\ DOMAIN page.queue = 1 .. Len(page.queue)
        BY <3>2, <3>4
      <4>2. i \in DOMAIN page.queue =>
              page'.queue[i].kind = page.queue[i].kind
              /\ (page'.queue[i].latest <=> page.queue[i].latest /\ page.queue[i].kind # "query")
        BY <1>5 DEF Grows
      <4>3. i \notin 1 .. Len(page.queue)
        BY <3>4, <4>1, <4>2
      <4>4. i = Len(page'.queue)
        BY <3>1, <4>1, <4>3
      <4> QED BY <3>1, <4>4 DEF New
    <3> QED BY <3>3, <3>4 DEF QueryInv
  <2> QED BY <2>1, <2>2
<1>11. SettledInv'
  <2>1. Has(page'.queue, "prefs") <=> Has(page.queue, "prefs")
    BY <1>0, <1>5, GrownQueue, PageFields DEF TypeOK
  <2> QED BY <1>0, <1>1, <2>1 DEF SettledInv, Pending
<1>12. /\ QueueInv(page, doubt)' /\ CallInv' /\ ChannelInv' /\ EchoInv(page)'
       /\ NativeInv' /\ IntervalInv(page, doubt)' /\ PausedInv(page, doubt)'
  BY <1>1, <1>3, <1>5, <1>6, <1>8, ChangeStep
<1> QED BY <1>9, <1>10, <1>11, <1>12 DEF ControlsInv

LEMMA QueryChangeStep ==
  ASSUME ControlsInv, DebounceEnds \/ \E f \in {"all", "attention"} : SetFocus(f)
  PROVE  ControlsInv'
<1>1. TypeOK /\ page \in PageState /\ page.query \in Query
  BY PageFields DEF ControlsInv, TypeOK
<1>2. CASE DebounceEnds
  <2>1. SendsQuery(page) /\ changes' \in 0 .. MaxChanges
    BY <1>1, <1>2 DEF DebounceEnds, TypeOK
  <2> QED BY <1>1, <2>1, SendsQueryStep
<1>3. ASSUME NEW f \in {"all", "attention"}, SetFocus(f)
      PROVE  ControlsInv'
  <2> DEFINE p == [page EXCEPT !.query.focus = f]
  <2>1. [page.query EXCEPT !.focus = f] \in Query
    BY <1>1 DEF Query
  <2>2. p = [page EXCEPT !.query = [page.query EXCEPT !.focus = f]]
    BY <1>1
  <2>3. /\ p \in PageState /\ p.queue = page.queue /\ p.shown = page.shown /\ p.interval = page.interval
        /\ p.paused = page.paused /\ p.accepted = page.accepted /\ p.hydrated = page.hydrated
        /\ p.native = page.native
    BY <1>1, <2>1, <2>2 DEF PageState
  <2>4. SendsQuery(p) /\ changes' \in 0 .. MaxChanges
    BY <1>1, <1>3, ControlsAssumption DEF SetFocus, Change, TypeOK
  <2> HIDE DEF p
  <2> QED BY <2>3, <2>4, SendsQueryStep
<1> QED BY <1>2, <1>3

LEMMA ControlChangeStep ==
  ASSUME ControlsInv, TogglePaused \/ \E i \in Offered : SetInterval(i)
  PROVE  ControlsInv'
<1>0. TypeOK /\ QueryInv(page, doubt) /\ SettledInv /\ page \in PageState
  BY DEF ControlsInv, TypeOK
<1> DEFINE From(p, k) ==
        /\ \E v \in ValuesOf(k), prev \in BOOLEAN : page' = Issued(p, k, v, prev, FALSE)
        /\ p.queue = page.queue /\ p.shown = page.shown /\ p.accepted = page.accepted
        /\ p.hydrated = page.hydrated /\ p.debounce = page.debounce /\ p.query = page.query
        /\ p.native = page.native
        /\ k # "interval" => p.interval = page.interval
        /\ k # "paused" => p.paused = page.paused
        /\ doubt' = doubt \cup (TurnedAway(k) \cap Controls)
<1>1. \E p \in PageState, k \in {"interval", "paused"} : From(p, k)
  <2>1. ASSUME TogglePaused
        PROVE  \E p \in PageState : From(p, "paused")
    <3> DEFINE p == [page EXCEPT !.paused = ~page.paused]
    <3>1. page.paused \in BOOLEAN
      BY <1>0, PageFields
    <3>2. /\ p \in PageState /\ p.queue = page.queue /\ p.shown = page.shown /\ p.accepted = page.accepted
          /\ p.hydrated = page.hydrated /\ p.debounce = page.debounce /\ p.query = page.query
          /\ p.interval = page.interval /\ p.native = page.native
      BY <1>0, <3>1 DEF PageState
    <3>3. page' = Issued(p, "paused", ~page.paused, page.paused, FALSE)
          /\ doubt' = doubt \cup (TurnedAway("paused") \cap Controls)
      BY <2>1 DEF TogglePaused, Doubts
    <3>4. (~page.paused) \in ValuesOf("paused")
      BY <3>1, ValueTypes
    <3> HIDE DEF p
    <3>5. \E v \in ValuesOf("paused"), prev \in BOOLEAN : page' = Issued(p, "paused", v, prev, FALSE)
      BY <3>1, <3>3, <3>4
    <3> QED BY <3>2, <3>3, <3>5
  <2>2. ASSUME NEW i \in Offered, SetInterval(i)
        PROVE  \E p \in PageState : From(p, "interval")
    <3> DEFINE p == [page EXCEPT !.interval = i]
    <3>2. /\ p \in PageState /\ p.queue = page.queue /\ p.shown = page.shown /\ p.accepted = page.accepted
          /\ p.hydrated = page.hydrated /\ p.debounce = page.debounce /\ p.query = page.query
          /\ p.paused = page.paused /\ p.native = page.native
      BY <1>0, ControlsAssumption DEF PageState
    <3>3. page' = Issued(p, "interval", i, FALSE, FALSE)
          /\ doubt' = doubt \cup (TurnedAway("interval") \cap Controls)
      BY <2>2 DEF SetInterval, Doubts
    <3>4. i \in ValuesOf("interval")
      BY ValueTypes, ControlsAssumption
    <3> HIDE DEF p
    <3>5. \E v \in ValuesOf("interval"), prev \in BOOLEAN : page' = Issued(p, "interval", v, prev, FALSE)
      BY <3>3, <3>4
    <3> QED BY <3>2, <3>3, <3>5
  <2> HIDE DEF From
  <2> QED BY <2>1, <2>2
<1>2. /\ UNCHANGED <<runtime, durable, channel, answer, poll, refresh, hidden, timer, store, chosen, slighted, faults>>
      /\ changes < MaxChanges /\ changes' = changes + 1
  BY DEF TogglePaused, SetInterval, Leaves, Change
<1>3. PICK p \in PageState, k \in {"interval", "paused"} : From(p, k)
  BY <1>1
<1>4. PICK v \in ValuesOf(k), prev \in BOOLEAN : page' = Issued(p, k, v, prev, FALSE)
  BY <1>3
<1>5. k \in Kinds /\ k \in Controls /\ k # "query" /\ k # "prefs"
  BY DEF Kinds, Controls
<1>6. /\ Shares(p, page') /\ Grows(p.queue, page'.queue, k)
      /\ page'.query = p.query
      /\ k # "interval" => page'.interval = p.interval
      /\ k # "paused" => page'.paused = p.paused
      /\ ~Full(p) => Len(page'.queue) = Len(p.queue) + 1
  BY <1>4, <1>5, IssuedFacts
<1>7. /\ page' \in PageState /\ page'.shown = page.shown /\ page'.accepted = page.accepted
      /\ page'.hydrated = page.hydrated /\ page'.debounce = page.debounce /\ page'.query = page.query
      /\ Grows(page.queue, page'.queue, k) /\ page'.native = page.native
      /\ k # "interval" => page'.interval = page.interval
      /\ k # "paused" => page'.paused = page.paused
  BY <1>3, <1>6 DEF Shares
<1>8. doubt \subseteq doubt' /\ doubt' \subseteq Controls /\ (Full(page) => k \in doubt')
  BY <1>0, <1>3, <1>5 DEF TurnedAway, TypeOK
<1>9. Len(page'.queue) = Len(page.queue) + 1 \/ k \in doubt'
  BY <1>3, <1>6, <1>8 DEF Full
<1>10. TypeOK'
  BY <1>0, <1>2, <1>7, <1>8, ControlsAssumption DEF TypeOK
<1>11. QueryInv(page, doubt)'
  BY <1>0, <1>2, <1>5, <1>7, <1>8, OtherChangeQuery
<1>12. SettledInv'
  <2>1. Has(page'.queue, "prefs") <=> Has(page.queue, "prefs")
    BY <1>0, <1>5, <1>7, GrownQueue, PageFields
  <2> QED BY <1>0, <1>2, <2>1 DEF SettledInv, Pending
<1>13. /\ QueueInv(page, doubt)' /\ CallInv' /\ ChannelInv' /\ EchoInv(page)'
       /\ NativeInv' /\ IntervalInv(page, doubt)' /\ PausedInv(page, doubt)'
  BY <1>2, <1>5, <1>7, <1>8, <1>9, ChangeStep
<1> QED BY <1>10, <1>11, <1>12, <1>13 DEF ControlsInv

\* persistUiPreferences
LEMMA PreferencesStep ==
  ASSUME ControlsInv, SaveHydrated \/ \E h \in Halves : \E v \in Prefs : Chooses(h, v[h])
  PROVE  ControlsInv'
<1>0. TypeOK /\ QueryInv(page, doubt) /\ page \in PageState /\ page.prefs \in Prefs
  BY PageFields DEF ControlsInv, TypeOK
<1> DEFINE From(p) ==
        /\ Saves(p)
        /\ p.queue = page.queue /\ p.shown = page.shown /\ p.accepted = page.accepted
        /\ p.hydrated = page.hydrated /\ p.debounce = page.debounce /\ p.query = page.query
        /\ p.interval = page.interval /\ p.paused = page.paused /\ p.native = page.native
<1>1. changes' \in 0 .. MaxChanges /\ chosen' \in Prefs /\ slighted' \subseteq Halves
      /\ \E p \in PageState : From(p)
  <2>1. CASE SaveHydrated
    <3> DEFINE p == [page EXCEPT !.saveDue = FALSE]
    <3>1. /\ p \in PageState /\ p.queue = page.queue /\ p.shown = page.shown /\ p.accepted = page.accepted
          /\ p.hydrated = page.hydrated /\ p.debounce = page.debounce /\ p.query = page.query
          /\ p.interval = page.interval /\ p.paused = page.paused /\ p.native = page.native
      BY <1>0 DEF PageState
    <3>2. /\ Saves(p) /\ changes' \in 0 .. MaxChanges
          /\ chosen' \in Prefs /\ slighted' \subseteq Halves
      BY <1>0, <2>1 DEF SaveHydrated, TypeOK
    <3> HIDE DEF p
    <3> QED BY <3>1, <3>2
  <2>2. ASSUME NEW h \in Halves, NEW v \in Prefs, Chooses(h, v[h])
        PROVE  /\ changes' \in 0 .. MaxChanges /\ chosen' \in Prefs /\ slighted' \subseteq Halves
               /\ \E p \in PageState : From(p)
    <3> DEFINE p == [page EXCEPT !.prefs[h] = v[h]]
    <3>1. /\ [page.prefs EXCEPT ![h] = v[h]] \in Prefs /\ [chosen EXCEPT ![h] = v[h]] \in Prefs
      BY <1>0 DEF Prefs, Halves, TypeOK
    <3>2. p = [page EXCEPT !.prefs = [page.prefs EXCEPT ![h] = v[h]]]
      BY <1>0
    <3>3. /\ p \in PageState /\ p.queue = page.queue /\ p.shown = page.shown /\ p.accepted = page.accepted
          /\ p.hydrated = page.hydrated /\ p.debounce = page.debounce /\ p.query = page.query
          /\ p.interval = page.interval /\ p.paused = page.paused /\ p.native = page.native
      BY <1>0, <3>1, <3>2 DEF PageState
    <3>4. Saves(p) /\ changes' \in 0 .. MaxChanges
      BY <1>0, <2>2, ControlsAssumption DEF Chooses, Change, TypeOK
    <3>5. chosen' \in Prefs /\ slighted' \subseteq Halves
      BY <1>0, <2>2, <3>1 DEF Chooses, TypeOK
    <3> HIDE DEF p
    <3> QED BY <3>3, <3>4, <3>5
  <2> HIDE DEF From
  <2> QED BY <2>1, <2>2
<1>2. PICK p \in PageState : From(p)
  BY <1>1
<1>3. /\ UNCHANGED <<runtime, durable, channel, answer, poll, refresh, hidden, timer, faults>>
      /\ store' = p.prefs /\ page' = Issued(p, "prefs", p.prefs, FALSE, FALSE)
      /\ doubt' = doubt
  BY <1>2 DEF Saves, Leaves, Doubts
<1>4. p.prefs \in Prefs /\ p.prefs \in ValuesOf("prefs") /\ "prefs" \in Kinds /\ "prefs" \notin Controls
  BY PageFields, ValueTypes DEF Kinds, Controls
<1>5. /\ Shares(p, page') /\ Grows(p.queue, page'.queue, "prefs") /\ page'.query = p.query
      /\ page'.interval = p.interval /\ page'.paused = p.paused
  BY <1>3, <1>4, IssuedFacts
<1>6. /\ page' \in PageState /\ page'.shown = page.shown /\ page'.accepted = page.accepted
      /\ page'.hydrated = page.hydrated /\ page'.debounce = page.debounce /\ page'.query = page.query
      /\ Grows(page.queue, page'.queue, "prefs")
      /\ page'.interval = page.interval /\ page'.paused = page.paused /\ page'.native = page.native
  BY <1>2, <1>5 DEF Shares
<1>7. TypeOK'
  BY <1>0, <1>1, <1>3, <1>4, <1>6, ConstantTypes DEF TypeOK
<1>8. QueryInv(page, doubt)'
  BY <1>0, <1>3, <1>6, OtherChangeQuery
<1>9. SettledInv'
  BY <1>3, <1>4, ConstantTypes DEF SettledInv, Pending
<1>10. /\ QueueInv(page, doubt)' /\ CallInv' /\ ChannelInv' /\ EchoInv(page)'
       /\ NativeInv' /\ IntervalInv(page, doubt)' /\ PausedInv(page, doubt)'
  BY <1>3, <1>4, <1>6, ChangeStep
<1> QED BY <1>7, <1>8, <1>9, <1>10 DEF ControlsInv

-----------------------------------------------------------------------------
(* The runtime                                                              *)

LEMMA StartedFacts ==
  ASSUME NEW i \in Installations, NEW d \in Prefs \cup {None}
  PROVE  LET r == Started(i.settings, d)
         IN r \in RuntimeState /\ r.seq = 1 /\ r.storePaused = r.paused /\ r.prefs = d
<1>1. i.settings \in Settings
  BY ControlsAssumption
<1> QED BY <1>1 DEF Started, RuntimeState, Settings

LEMMA InitControlsInv == Init => ControlsInv
<1> SUFFICES ASSUME Init PROVE ControlsInv
  OBVIOUS
<1>0. PICK i \in Installations :
        durable = i.durable /\ store = i.store /\ runtime = Started(i.settings, i.durable)
  BY DEF Init
<1>1. /\ channel = <<>> /\ page = Page(store) /\ answer = NoRead /\ poll = NoRead
      /\ refresh = NoRead /\ hidden = FALSE /\ timer = TRUE /\ chosen = Kept /\ slighted = {}
      /\ doubt = {} /\ changes = 0 /\ faults = 0
      /\ durable \in Prefs \cup {None} /\ store \in Stores
  BY <1>0, ControlsAssumption DEF Init
<1>3. /\ runtime \in RuntimeState /\ runtime.seq = 1 /\ runtime.storePaused = runtime.paused
      /\ runtime.prefs = durable
  BY <1>0, <1>1, StartedFacts
<1>2. TypeOK
  <2>2. <<>> \in Seq(Mutation)
    OBVIOUS
  <2>3. chosen \in Prefs
    BY <1>1, ConstantTypes, CompletedType DEF Kept
  <2>4. changes \in 0 .. MaxChanges /\ faults \in 0 .. MaxFaults
    BY <1>1, ControlsAssumption
  <2>5. hidden \in BOOLEAN /\ timer \in BOOLEAN /\ doubt \subseteq Controls /\ slighted \subseteq Halves
    BY <1>1
  <2>6. page \in PageState /\ answer \in Call /\ poll \in Call /\ refresh \in Call
    BY <1>1, ConstantTypes
  <2> QED BY <1>1, <1>3, <2>2, <2>3, <2>4, <2>5, <2>6 DEF TypeOK
<1>4. /\ page.shown = Empty /\ page.accepted.seq = 0 /\ page.queue = <<>>
      /\ poll.snapshot = Empty /\ refresh.snapshot = Empty /\ answer.snapshot = Empty
      /\ answer.state = "none" /\ refresh.state = "none"
      /\ page.hydrated = FALSE /\ page.native = FALSE
  BY <1>1 DEF Page, NoRead
<1>5. Empty.seq = 0
  BY DEF Empty
<1>6. QueueInv(page, doubt)
  BY <1>4 DEF QueueInv, LatestOnce, Live
<1>7. CallInv /\ ChannelInv /\ NativeInv
  BY <1>1, <1>4 DEF CallInv, ChannelInv, NativeInv
<1>8. OnTheirWay = {Empty}
  BY <1>4 DEF OnTheirWay
<1>9. EchoInv(page)
  BY <1>3, <1>4, <1>5, <1>8 DEF EchoInv, Echo
<1>10. IntervalInv(page, doubt) /\ PausedInv(page, doubt)
  BY <1>3, <1>4, <1>5, <1>8 DEF IntervalInv, PausedInv
<1>11. QueryInv(page, doubt)
  BY <1>3, <1>4, <1>5, <1>8 DEF QueryInv
<1>12. SettledInv
  BY <1>1, <1>3, <1>4 DEF SettledInv, Has
<1> QED BY <1>2, <1>6, <1>7, <1>9, <1>10, <1>11, <1>12 DEF ControlsInv

LEMMA RestartStep ==
  ASSUME ControlsInv, Restart
  PROVE  ControlsInv'
<1>0. TypeOK
  BY DEF ControlsInv
<1>1. /\ channel' = <<>> /\ page' = Page(store) /\ answer' = NoRead
      /\ poll' = NoRead /\ refresh' = NoRead /\ hidden' = FALSE /\ timer' = TRUE /\ doubt' = {}
      /\ UNCHANGED <<durable, store, chosen, slighted, changes>>
      /\ faults < MaxFaults /\ faults' = faults + 1
  BY DEF Restart, Fault
<1>3. /\ runtime' \in RuntimeState /\ runtime'.seq = 1 /\ runtime'.storePaused = runtime'.paused
      /\ runtime'.prefs = durable
  BY <1>0, StartedFacts DEF Restart, TypeOK
<1>2. TypeOK'
  <2>2. <<>> \in Seq(Mutation)
    OBVIOUS
  <2>3. changes' \in 0 .. MaxChanges /\ faults' \in 0 .. MaxFaults
    BY <1>0, <1>1, ControlsAssumption DEF TypeOK
  <2>4. hidden' \in BOOLEAN /\ timer' \in BOOLEAN /\ doubt' \subseteq Controls
    BY <1>1
  <2>5. page' \in PageState /\ answer' \in Call /\ poll' \in Call /\ refresh' \in Call
    BY <1>0, <1>1, ConstantTypes DEF TypeOK
  <2> QED BY <1>0, <1>1, <1>3, <2>2, <2>3, <2>4, <2>5 DEF TypeOK
<1>4. /\ page'.shown = Empty /\ page'.accepted.seq = 0 /\ page'.queue = <<>>
      /\ poll'.snapshot = Empty /\ refresh'.snapshot = Empty /\ answer'.snapshot = Empty
      /\ answer'.state = "none" /\ refresh'.state = "none"
      /\ page'.hydrated = FALSE /\ page'.native = FALSE
  BY <1>1 DEF Page, NoRead
<1>5. Empty.seq = 0
  BY DEF Empty
<1>6. QueueInv(page, doubt)'
  BY <1>4 DEF QueueInv, LatestOnce, Live
<1>7. CallInv' /\ ChannelInv' /\ NativeInv'
  BY <1>1, <1>4 DEF CallInv, ChannelInv, NativeInv
<1>8. OnTheirWay' = {Empty}
  BY <1>4 DEF OnTheirWay
<1>9. EchoInv(page)'
  BY <1>3, <1>4, <1>5, <1>8 DEF EchoInv, Echo
<1>10. IntervalInv(page, doubt)' /\ PausedInv(page, doubt)'
  BY <1>3, <1>4, <1>5, <1>8 DEF IntervalInv, PausedInv
<1>11. QueryInv(page, doubt)'
  BY <1>3, <1>4, <1>5, <1>8 DEF QueryInv
<1>12. SettledInv'
  BY <1>1, <1>3, <1>4 DEF SettledInv, Has
<1> QED BY <1>2, <1>6, <1>7, <1>9, <1>10, <1>11, <1>12 DEF ControlsInv

\* Steps that leave the page and the runtime alone and may only add doubts:
\* what does not speak of the call and the channel stays.
LEMMA DoubtStep ==
  ASSUME ControlsInv, UNCHANGED <<runtime, durable, page, store, poll, refresh, chosen, slighted>>,
         doubt \subseteq doubt', answer'.snapshot \in {Empty, answer.snapshot}
  PROVE  /\ QueueInv(page, doubt)' /\ EchoInv(page)' /\ NativeInv' /\ IntervalInv(page, doubt)'
         /\ PausedInv(page, doubt)' /\ QueryInv(page, doubt)'
<1>0. /\ QueueInv(page, doubt) /\ EchoInv(page) /\ NativeInv /\ IntervalInv(page, doubt)
      /\ PausedInv(page, doubt) /\ QueryInv(page, doubt)
  BY DEF ControlsInv
<1>1. OnTheirWay' = OnTheirWay /\ Empty \in OnTheirWay
  BY DEF OnTheirWay
<1>2. QueueInv(page, doubt)' /\ EchoInv(page)' /\ NativeInv'
  BY <1>0, <1>1 DEF QueueInv, EchoInv, Echo, NativeInv
<1>3. IntervalInv(page, doubt)' /\ PausedInv(page, doubt)'
  BY <1>0, <1>1 DEF IntervalInv, PausedInv
<1>4. QueryInv(page, doubt)'
  BY <1>0, <1>1, ConstantTypes DEF QueryInv
<1> QED BY <1>2, <1>3, <1>4

LEMMA SendStep ==
  ASSUME ControlsInv, Send
  PROVE  ControlsInv'
<1>0. TypeOK /\ CallInv /\ ChannelInv /\ SettledInv
  BY DEF ControlsInv
<1>1. /\ page.queue # <<>> /\ answer = NoRead
      /\ UNCHANGED <<runtime, durable, page, store, poll, refresh, hidden, timer, chosen, slighted, changes>>
  BY DEF Send, InRuntime
<1> DEFINE m == Head(page.queue)
<1>2. page.queue \in Seq(Mutation) /\ m = page.queue[1] /\ m \in Mutation /\ m.kind \in Kinds
      /\ Has(page.queue, m.kind)
  <2>1. page.queue \in Seq(Mutation)
    BY <1>0, PageFields DEF TypeOK
  <2>2. m = page.queue[1] /\ page.queue[1] \in Mutation /\ Has(page.queue, page.queue[1].kind)
    BY <1>1, <2>1, TailQueue
  <2> QED BY <2>1, <2>2, MutationFields
<1>3. answer.state = "none" /\ channel \in Seq(Mutation)
  BY <1>0, <1>1 DEF NoRead, TypeOK
<1>4. \A i \in DOMAIN channel : channel[i].kind \notin Controls \ doubt
  BY <1>0, <1>3 DEF ChannelInv
<1>5. CASE channel' = Append(channel, m) /\ answer' = [NoRead EXCEPT !.state = "asked"]
           /\ UNCHANGED <<doubt, faults>>
  <2>1. answer'.state = "asked" /\ answer'.snapshot = Empty /\ answer' \in Call
    BY <1>5, ConstantTypes DEF NoRead, Call
  <2> HIDE DEF m
  <2>2. /\ channel' \in Seq(Mutation) /\ Len(channel') = Len(channel) + 1 /\ Len(channel) \in Nat
        /\ channel'[Len(channel) + 1] = m /\ DOMAIN channel' = 1 .. Len(channel')
        /\ DOMAIN channel = 1 .. Len(channel)
        /\ \A i \in 1 .. Len(channel) : channel'[i] = channel[i]
    BY <1>2, <1>3, <1>5
  <2>3. channel' # <<>>
    BY <2>2
  <2>4. TypeOK'
    BY <1>0, <1>1, <1>5, <2>1, <2>2 DEF TypeOK
  <2>5. CallInv'
    BY <1>1, <1>2, <2>1, <2>2, <2>3 DEF CallInv
  <2>6. ChannelInv'
    <3>1. SUFFICES ASSUME NEW i \in 1 .. Len(channel'), channel'[i].kind \in Controls \ doubt
                   PROVE  i = Len(channel')
      BY <1>5, <2>1, <2>2 DEF ChannelInv
    <3>2. i \notin 1 .. Len(channel)
      BY <1>4, <2>2, <3>1
    <3> QED BY <2>2, <3>1, <3>2
  <2>7. SettledInv'
    <3>1. Has(channel', "prefs") => Has(channel, "prefs") \/ m.kind = "prefs"
      BY <2>2 DEF Has
    <3> QED BY <1>0, <1>1, <1>2, <3>1 DEF SettledInv, Pending
  <2> QED BY <1>1, <1>5, <2>1, <2>4, <2>5, <2>6, <2>7, DoubtStep DEF ControlsInv
<1>6. CASE Fault /\ answer' = FailedCall /\ Doubts({m.kind}) /\ UNCHANGED channel
  <2>1. answer'.state = "failed" /\ answer'.snapshot = Empty /\ answer' \in Call
    BY <1>6, ConstantTypes
  <2>2. doubt' = doubt \cup ({m.kind} \cap Controls) /\ faults < MaxFaults /\ faults' = faults + 1
        /\ channel' = channel
    BY <1>6 DEF Doubts, Fault
  <2>3. TypeOK'
    BY <1>0, <1>1, <2>1, <2>2, ControlsAssumption DEF TypeOK
  <2>4. m.kind \in doubt' \cup {"prefs"}
    BY <1>2, <2>2 DEF Kinds
  <2>5. CallInv'
    BY <1>1, <1>2, <2>1, <2>4 DEF CallInv
  <2>6. ChannelInv'
    BY <1>4, <2>2 DEF ChannelInv
  <2>7. SettledInv'
    BY <1>0, <1>1, <2>2 DEF SettledInv, Pending
  <2>8. doubt \subseteq doubt'
    BY <2>2
  <2> QED BY <1>1, <2>1, <2>3, <2>5, <2>6, <2>7, <2>8, DoubtStep DEF ControlsInv
<1> QED BY <1>5, <1>6 DEF Send

LEMMA TimeOutStep ==
  ASSUME ControlsInv, TimeOut
  PROVE  ControlsInv'
<1>0. TypeOK /\ CallInv /\ ChannelInv /\ SettledInv
  BY DEF ControlsInv
<1> DEFINE m == Head(page.queue)
<1>1. /\ answer.state = "asked" /\ answer' = FailedCall /\ doubt' = doubt \cup ({m.kind} \cap Controls)
      /\ faults < MaxFaults /\ faults' = faults + 1
      /\ UNCHANGED <<runtime, durable, channel, page, store, poll, refresh, hidden, timer, chosen, slighted, changes>>
  BY DEF TimeOut, Fault, Doubts, InRuntime
<1>2. page.queue # <<>> /\ channel[Len(channel)].kind = page.queue[1].kind
  BY <1>0, <1>1 DEF CallInv
<1>3. page.queue \in Seq(Mutation) /\ m = page.queue[1] /\ m.kind \in Kinds
  BY <1>0, <1>2, PageFields, TailQueue, MutationFields DEF TypeOK
<1> HIDE DEF m
<1>4. answer'.state = "failed" /\ answer'.snapshot = Empty /\ answer' \in Call
  BY <1>1, ConstantTypes
<1>5. TypeOK'
  BY <1>0, <1>1, <1>4, ControlsAssumption DEF TypeOK
<1>6. CallInv'
  <2>1. m.kind \in doubt' \cup {"prefs"}
    BY <1>1, <1>3 DEF Kinds
  <2> QED BY <1>1, <1>2, <1>3, <1>4, <2>1 DEF CallInv
<1>7. ChannelInv'
  BY <1>0, <1>1, <1>2, <1>3 DEF ChannelInv
<1>8. SettledInv'
  BY <1>0, <1>1 DEF SettledInv, Pending
<1>9. doubt \subseteq doubt'
  BY <1>1
<1> QED BY <1>1, <1>4, <1>5, <1>6, <1>7, <1>8, <1>9, DoubtStep DEF ControlsInv

LEMMA StoredStep ==
  ASSUME ControlsInv, Stored
  PROVE  ControlsInv'
<1>0. /\ TypeOK /\ QueueInv(page, doubt) /\ CallInv /\ ChannelInv /\ EchoInv(page) /\ NativeInv
      /\ IntervalInv(page, doubt) /\ PausedInv(page, doubt) /\ QueryInv(page, doubt)
      /\ SettledInv
  BY DEF ControlsInv
<1>1. /\ durable # runtime.prefs /\ durable' = runtime.prefs
      /\ UNCHANGED <<runtime, channel, page, store, answer, poll, refresh, hidden, timer, chosen, slighted, doubt,
                     changes, faults>>
  BY DEF Stored, InRuntime
<1>2. OnTheirWay' = OnTheirWay
  BY <1>1 DEF OnTheirWay
<1>3. TypeOK'
  BY <1>0, <1>1 DEF TypeOK, RuntimeState
<1>4. QueueInv(page, doubt)' /\ CallInv' /\ ChannelInv' /\ NativeInv'
  BY <1>0, <1>1 DEF QueueInv, CallInv, ChannelInv, NativeInv
<1>5. EchoInv(page)'
  BY <1>0, <1>1, <1>2 DEF EchoInv, Echo
<1>6. IntervalInv(page, doubt)' /\ PausedInv(page, doubt)'
  BY <1>0, <1>1, <1>2 DEF IntervalInv, PausedInv
<1>7. QueryInv(page, doubt)'
  BY <1>0, <1>1, <1>2 DEF QueryInv
<1>8. SettledInv'
  BY <1>0, <1>1 DEF SettledInv, Pending
<1> QED BY <1>3, <1>4, <1>5, <1>6, <1>7, <1>8 DEF ControlsInv

\* The engine takes the head of its channel: a change of a control that is not
\* in doubt is the one at the head of the page's queue.
LEMMA ChannelHead ==
  ASSUME ControlsInv, channel # <<>>
  PROVE  /\ channel \in Seq(Mutation) /\ Head(channel) = channel[1] /\ Head(channel) \in Mutation
         /\ Tail(channel) \in Seq(Mutation) /\ Len(Tail(channel)) = Len(channel) - 1
         /\ Len(channel) \in Nat /\ Len(channel) > 0
         /\ Head(channel).kind \in Controls \ doubt => Has(page.queue, Head(channel).kind)
         /\ ~Awaited /\ answer.state = "asked" => Len(channel) > 1
         /\ Awaited => Tail(channel) = <<>> /\ channel[Len(channel)] = Head(channel)
         /\ \A i \in DOMAIN Tail(channel) :
              Tail(channel)[i].kind \in Controls \ doubt => i = Len(Tail(channel)) /\ answer.state = "asked"
         /\ Len(channel) > 1 =>
              Tail(channel) # <<>> /\ Tail(channel)[Len(Tail(channel))] = channel[Len(channel)]
         /\ answer.state # "read"
<1>0. TypeOK /\ CallInv /\ ChannelInv
  BY DEF ControlsInv
<1> DEFINE t == Tail(channel)
           n == Len(channel)
<1>1. /\ channel \in Seq(Mutation) /\ Head(channel) = channel[1] /\ channel[1] \in Mutation
      /\ t \in Seq(Mutation) /\ Len(t) = n - 1 /\ n \in Nat /\ n > 0
      /\ DOMAIN channel = 1 .. n /\ DOMAIN t = 1 .. Len(t)
      /\ \A i \in 1 .. Len(t) : t[i] = channel[i + 1]
  BY <1>0, TailQueue DEF TypeOK
<1>2. ASSUME Head(channel).kind \in Controls \ doubt
      PROVE  Has(page.queue, Head(channel).kind)
  <2>1. 1 = n /\ answer.state = "asked"
    BY <1>0, <1>1, <1>2 DEF ChannelInv
  <2>2. page.queue # <<>> /\ page.queue[1].kind = Head(channel).kind
    BY <1>0, <1>1, <2>1 DEF CallInv
  <2> QED BY <1>0, <2>2, TailQueue, PageFields DEF TypeOK
<1>5. ASSUME NEW i \in DOMAIN t, t[i].kind \in Controls \ doubt
      PROVE  i = Len(t) /\ answer.state = "asked"
  <2>1. i + 1 \in DOMAIN channel /\ channel[i + 1].kind \in Controls \ doubt
    BY <1>1, <1>5
  <2>2. i + 1 = n /\ answer.state = "asked"
    BY <1>0, <2>1 DEF ChannelInv
  <2> QED BY <1>1, <2>2
<1>6. answer.state # "read"
  BY <1>0 DEF CallInv
<1>7. Awaited <=> answer.state = "asked" /\ n = 1
  BY DEF Awaited
<1> HIDE DEF t, n
<1>3. n = 1 => t = <<>>
  <2>1. t \in Seq(Mutation) /\ Len(t) = 0 => t = <<>>
    OBVIOUS
  <2> QED BY <1>1, <2>1
<1>4. n > 1 => t # <<>> /\ t[Len(t)] = channel[n]
  <2>1. n > 1 => Len(t) \in 1 .. Len(t) /\ Len(t) + 1 = n /\ Len(t) # 0
    BY <1>1
  <2>2. Len(t) # 0 => t # <<>>
    OBVIOUS
  <2> QED BY <1>1, <2>1, <2>2
<1>8. ~Awaited /\ answer.state = "asked" => n > 1
  BY <1>1, <1>7
<1>9. Awaited => t = <<>> /\ channel[n] = Head(channel)
  BY <1>1, <1>3, <1>7
<1> QED BY <1>1, <1>2, <1>4, <1>5, <1>6, <1>8, <1>9 DEF t, n

LEMMA CarriedFacts ==
  ASSUME NEW m \in Mutation, runtime \in RuntimeState
  PROVE  LET r == Carried(m)
         IN /\ r \in RuntimeState /\ r.seq = runtime.seq + 1
            /\ r.query = IF m.kind = "query" THEN m.value ELSE runtime.query
            /\ r.interval = IF m.kind = "interval" THEN m.value ELSE runtime.interval
            /\ r.paused = IF m.kind = "paused" THEN m.value ELSE runtime.storePaused
            /\ r.storePaused = IF m.kind = "paused" THEN m.value ELSE runtime.storePaused
            /\ r.prefs = IF m.kind = "prefs" THEN m.value ELSE runtime.prefs
<1> DEFINE u == [runtime EXCEPT !.seq = runtime.seq + 1, !.paused = runtime.storePaused]
           r == Carried(m)
<1>1. m.kind \in Kinds /\ m.value \in ValuesOf(m.kind)
  BY MutationFields
<1>2. u \in RuntimeState /\ u.seq = runtime.seq + 1 /\ u.query = runtime.query
      /\ u.interval = runtime.interval /\ u.paused = runtime.storePaused
      /\ u.storePaused = runtime.storePaused /\ u.prefs = runtime.prefs
  <2>1. runtime.seq + 1 \in Nat /\ runtime.storePaused \in BOOLEAN
    BY DEF RuntimeState
  <2> QED BY <2>1 DEF RuntimeState
<1>3. /\ m.kind = "query" => r = [u EXCEPT !.query = m.value]
      /\ m.kind = "interval" => r = [u EXCEPT !.interval = m.value]
      /\ m.kind = "paused" => r = [u EXCEPT !.paused = m.value, !.storePaused = m.value]
      /\ m.kind = "prefs" => r = [u EXCEPT !.prefs = m.value]
  BY DEF Carried
<1> HIDE DEF u, r
<1>4. CASE m.kind = "query"
  BY <1>1, <1>2, <1>3, <1>4, ValueTypes DEF RuntimeState, r
<1>5. CASE m.kind = "interval"
  BY <1>1, <1>2, <1>3, <1>5, ValueTypes DEF RuntimeState, r
<1>6. CASE m.kind = "paused"
  BY <1>1, <1>2, <1>3, <1>6, ValueTypes DEF RuntimeState, r
<1>7. CASE m.kind = "prefs"
  BY <1>1, <1>2, <1>3, <1>7, ValueTypes DEF RuntimeState, r
<1> QED BY <1>1, <1>4, <1>5, <1>6, <1>7 DEF Kinds, Controls

LEMMA HandleStep ==
  ASSUME ControlsInv, Handle
  PROVE  ControlsInv'
<1>0. /\ TypeOK /\ QueueInv(page, doubt) /\ CallInv /\ ChannelInv /\ EchoInv(page) /\ NativeInv
      /\ IntervalInv(page, doubt) /\ PausedInv(page, doubt) /\ QueryInv(page, doubt)
      /\ SettledInv
  BY DEF ControlsInv
<1> DEFINE m == Head(channel)
<1>1. /\ channel # <<>> /\ channel' = Tail(channel) /\ runtime' = Carried(m)
      /\ durable' \in {durable, runtime'.prefs}
      /\ answer' = IF Awaited THEN Read(runtime', durable') ELSE answer
      /\ UNCHANGED <<page, store, poll, refresh, hidden, timer, chosen, slighted, changes, doubt, faults>>
  BY DEF Handle, Replies, InRuntime
<1>2. /\ channel \in Seq(Mutation) /\ m = channel[1] /\ m \in Mutation
      /\ channel' \in Seq(Mutation) /\ Len(channel) \in Nat
      /\ m.kind \in Controls \ doubt => Has(page.queue, m.kind)
      /\ ~Awaited /\ answer.state = "asked" => Len(channel) > 1
      /\ Awaited => channel' = <<>> /\ channel[Len(channel)] = m
      /\ \A i \in DOMAIN channel' :
           channel'[i].kind \in Controls \ doubt => i = Len(channel') /\ answer.state = "asked"
      /\ Len(channel) > 1 => channel' # <<>> /\ channel'[Len(channel')] = channel[Len(channel)]
      /\ answer.state # "read"
  BY <1>1, ChannelHead
<1>3. /\ runtime' \in RuntimeState /\ runtime'.seq = runtime.seq + 1
      /\ runtime'.query = IF m.kind = "query" THEN m.value ELSE runtime.query
      /\ runtime'.interval = IF m.kind = "interval" THEN m.value ELSE runtime.interval
      /\ runtime'.paused = IF m.kind = "paused" THEN m.value ELSE runtime.storePaused
      /\ runtime'.storePaused = IF m.kind = "paused" THEN m.value ELSE runtime.storePaused
      /\ runtime'.prefs = IF m.kind = "prefs" THEN m.value ELSE runtime.prefs
  BY <1>0, <1>1, <1>2, CarriedFacts DEF TypeOK
<1>4. durable' \in Prefs \cup {None} /\ runtime.seq \in Nat
  BY <1>0, <1>1, <1>3 DEF TypeOK, RuntimeState
<1> DEFINE n == Snapshot(runtime', durable')
<1>5. /\ n \in SnapshotState /\ n.seq = runtime'.seq /\ n.query = runtime'.query
      /\ n.interval = runtime'.interval /\ n.paused = runtime'.paused /\ n.prefs = runtime'.prefs
      /\ n.durable => durable' = runtime'.prefs
      /\ Read(runtime', durable') \in Call /\ Read(runtime', durable').state = "read"
      /\ Read(runtime', durable').snapshot = n
  <2>1. n \in SnapshotState /\ Read(runtime', durable') \in Call
        /\ Read(runtime', durable').state = "read" /\ Read(runtime', durable').snapshot = n
    BY <1>3, <1>4, CallFields
  <2> QED BY <2>1 DEF Snapshot
<1> HIDE DEF m, n
<1>6. OnTheirWay' = OnTheirWay
  BY <1>1 DEF OnTheirWay
<1>7. answer' \in Call /\ (Awaited => answer'.state = "read" /\ answer'.snapshot = n)
      /\ (~Awaited => answer' = answer)
  BY <1>0, <1>1, <1>5 DEF TypeOK
<1>a. TypeOK'
  BY <1>0, <1>1, <1>2, <1>3, <1>4, <1>7 DEF TypeOK
<1>b. QueueInv(page, doubt)' /\ NativeInv'
  BY <1>0, <1>1 DEF QueueInv, NativeInv
<1>c. CallInv'
  <2>1. CASE Awaited
    <3>1. answer.state = "asked"
      BY <2>1 DEF Awaited
    <3>2. page.queue # <<>> /\ m.kind = page.queue[1].kind /\ m.value = page.queue[1].value
      BY <1>0, <1>2, <2>1, <3>1 DEF CallInv
    <3> QED BY <1>1, <1>2, <1>3, <1>5, <1>7, <2>1, <3>2 DEF CallInv
  <2>2. CASE ~Awaited
    BY <1>0, <1>1, <1>2, <1>7, <2>2 DEF CallInv
  <2> QED BY <2>1, <2>2
<1>d. ChannelInv'
  <2>1. CASE Awaited
    BY <1>2, <2>1 DEF ChannelInv
  <2>2. CASE ~Awaited
    BY <1>1, <1>2, <1>7, <2>2 DEF ChannelInv
  <2> QED BY <2>1, <2>2
<1>e. EchoInv(page)'
  <2>1. \A s \in OnTheirWay \cup {page.shown} : s.seq \in Nat
    BY <1>0, PageFields, ConstantTypes DEF TypeOK, OnTheirWay, Call, SnapshotState
  <2> QED BY <1>0, <1>1, <1>3, <1>4, <1>6, <2>1 DEF EchoInv, Echo
<1>f. IntervalInv(page, doubt)'
  <2>1. "interval" \notin doubt /\ ~Has(page.queue, "interval") => m.kind # "interval"
    BY <1>2 DEF Controls
  <2> QED BY <1>0, <1>1, <1>3, <1>6, <2>1 DEF IntervalInv
<1>g. PausedInv(page, doubt)'
  <2>1. "paused" \notin doubt /\ ~Has(page.queue, "paused") => m.kind # "paused"
    BY <1>2 DEF Controls
  <2> QED BY <1>0, <1>1, <1>3, <1>6, <2>1 DEF PausedInv
<1>h. QueryInv(page, doubt)'
  <2>1. "query" \notin doubt /\ ~Has(page.queue, "query") => runtime'.query = runtime.query
    BY <1>2, <1>3 DEF Controls
  <2>2. answer'.snapshot = answer.snapshot \/ answer'.snapshot.query = runtime'.query
    BY <1>5, <1>7
  <2> QED BY <1>0, <1>1, <1>6, <2>1, <2>2 DEF QueryInv
<1>i. SettledInv'
  <2>1. CASE Pending
    BY <1>0, <1>1, <2>1 DEF SettledInv, Pending
  <2>2. CASE ~Pending
    <3>1. runtime.prefs = durable /\ ~Has(page.queue, "prefs") /\ ~Has(channel, "prefs")
      BY <1>0, <2>2 DEF SettledInv, Pending
    <3>2. m.kind # "prefs" /\ ~Has(channel', "prefs")
      BY <1>1, <1>2, <3>1, TailQueue
    <3>3. runtime'.prefs = durable /\ durable' = durable
      BY <1>1, <1>3, <3>1, <3>2
    <3> QED BY <1>0, <1>1, <2>2, <3>1, <3>2, <3>3 DEF SettledInv, Pending
  <2> QED BY <2>1, <2>2
<1> QED BY <1>a, <1>b, <1>c, <1>d, <1>e, <1>f, <1>g, <1>h, <1>i DEF ControlsInv

LEMMA HandleFailsStep ==
  ASSUME ControlsInv, HandleFails
  PROVE  ControlsInv'
<1>0. /\ TypeOK /\ QueueInv(page, doubt) /\ CallInv /\ ChannelInv /\ EchoInv(page) /\ NativeInv
      /\ IntervalInv(page, doubt) /\ PausedInv(page, doubt) /\ QueryInv(page, doubt)
      /\ SettledInv
  BY DEF ControlsInv
<1> DEFINE m == Head(channel)
<1>1. /\ channel # <<>> /\ channel' = Tail(channel)
      /\ m.kind \in {"paused", "interval"}
      /\ runtime' = IF m.kind = "paused" /\ ~m.value THEN [runtime EXCEPT !.storePaused = FALSE] ELSE runtime
      /\ answer' = IF Awaited THEN FailedCall ELSE answer
      /\ doubt' = doubt \cup {m.kind}
      /\ faults < MaxFaults /\ faults' = faults + 1
      /\ UNCHANGED <<durable, page, store, poll, refresh, hidden, timer, chosen, slighted, changes>>
  BY DEF HandleFails, Replies, InRuntime, Fault, Doubts, Controls
<1>2. /\ channel \in Seq(Mutation) /\ m = channel[1] /\ m \in Mutation
      /\ channel' \in Seq(Mutation) /\ Len(channel) \in Nat
      /\ ~Awaited /\ answer.state = "asked" => Len(channel) > 1
      /\ Awaited => channel' = <<>> /\ channel[Len(channel)] = m
      /\ \A i \in DOMAIN channel' :
           channel'[i].kind \in Controls \ doubt => i = Len(channel') /\ answer.state = "asked"
      /\ Len(channel) > 1 => channel' # <<>> /\ channel'[Len(channel')] = channel[Len(channel)]
      /\ answer.state # "read"
  BY <1>1, ChannelHead
<1> HIDE DEF m
<1>3. /\ runtime' \in RuntimeState /\ runtime'.seq = runtime.seq /\ runtime'.query = runtime.query
      /\ runtime'.interval = runtime.interval /\ runtime'.paused = runtime.paused
      /\ runtime'.prefs = runtime.prefs
      /\ m.kind # "paused" => runtime'.storePaused = runtime.storePaused
  BY <1>0, <1>1 DEF TypeOK, RuntimeState
<1>4. OnTheirWay' = OnTheirWay /\ Empty \in OnTheirWay
  BY <1>1 DEF OnTheirWay
<1>5. answer' \in Call /\ (Awaited => answer'.state = "failed" /\ answer'.snapshot = Empty)
      /\ (~Awaited => answer' = answer)
  BY <1>0, <1>1, ConstantTypes DEF TypeOK
<1>a. TypeOK'
  <2>1. doubt' \subseteq Controls
    BY <1>0, <1>1 DEF TypeOK, Controls
  <2>2. faults' \in 0 .. MaxFaults
    BY <1>0, <1>1, ControlsAssumption DEF TypeOK
  <2> QED BY <1>0, <1>1, <1>2, <1>3, <1>5, <2>1, <2>2 DEF TypeOK
<1>b. QueueInv(page, doubt)' /\ NativeInv'
  BY <1>0, <1>1 DEF QueueInv, NativeInv
<1>c. CallInv'
  <2>1. CASE Awaited
    <3>1. answer.state = "asked"
      BY <2>1 DEF Awaited
    <3>2. page.queue # <<>> /\ m.kind = page.queue[1].kind
      BY <1>0, <1>2, <2>1, <3>1 DEF CallInv
    <3> QED BY <1>1, <1>5, <2>1, <3>2 DEF CallInv
  <2>2. CASE ~Awaited
    BY <1>0, <1>1, <1>2, <1>3, <1>5, <2>2 DEF CallInv
  <2> QED BY <2>1, <2>2
<1>d. ChannelInv'
  <2>1. CASE Awaited
    BY <1>2, <2>1 DEF ChannelInv
  <2>2. CASE ~Awaited
    BY <1>1, <1>2, <1>5, <2>2 DEF ChannelInv
  <2> QED BY <2>1, <2>2
<1>e. EchoInv(page)'
  BY <1>0, <1>1, <1>3, <1>4 DEF EchoInv, Echo
<1>f. IntervalInv(page, doubt)'
  BY <1>0, <1>1, <1>3, <1>4 DEF IntervalInv
<1>g. PausedInv(page, doubt)'
  <2>1. "paused" \notin doubt' => m.kind # "paused" /\ "paused" \notin doubt
    BY <1>1
  <2> QED BY <1>0, <1>1, <1>3, <1>4, <2>1 DEF PausedInv
<1>h. QueryInv(page, doubt)'
  <2>1. answer'.snapshot \in {answer.snapshot, Empty}
    BY <1>5
  <2> QED BY <1>0, <1>1, <1>3, <1>4, <2>1 DEF QueryInv
<1>i. SettledInv'
  <2>1. Has(channel', "prefs") => Has(channel, "prefs")
    BY <1>1, <1>2, TailQueue
  <2> QED BY <1>0, <1>1, <1>3, <2>1 DEF SettledInv, Pending
<1> QED BY <1>a, <1>b, <1>c, <1>d, <1>e, <1>f, <1>g, <1>h, <1>i DEF ControlsInv

-----------------------------------------------------------------------------
(* Snapshots and answers                                                    *)

\* A snapshot that is on its way is taken into the page p, which is the page,
\* or has just learnt that the runtime is there.
LEMMA TakeStep ==
  ASSUME ControlsInv, NEW p \in PageState, NEW next \in OnTheirWay, next \in SnapshotState,
         p.shown = page.shown, p.queue = page.queue, p.interval = page.interval,
         p.paused = page.paused, p.query = page.query, p.debounce = page.debounce,
         p.hydrated = page.hydrated, p.accepted = page.accepted,
         NEW attend \in BOOLEAN, NEW healthy \in BOOLEAN,
         page' = Ingested(p, next, attend, healthy), Doubts(Overtakes),
         UNCHANGED <<runtime, durable, channel, answer, store, chosen, slighted>>,
         poll'.snapshot \in OnTheirWay, refresh'.snapshot \in OnTheirWay,
         p.native => page.shown.seq > 0 \/ next.seq > 0,
         refresh'.state = "read" => refresh'.snapshot.seq > 0
  PROVE  /\ page' \in PageState /\ doubt' \subseteq Controls /\ NativeInv'
         /\ QueueInv(page, doubt)' /\ CallInv' /\ ChannelInv' /\ EchoInv(page)'
         /\ IntervalInv(page, doubt)' /\ PausedInv(page, doubt)' /\ QueryInv(page, doubt)'
         /\ SettledInv'
<1>0. /\ TypeOK /\ QueueInv(page, doubt) /\ CallInv /\ ChannelInv /\ EchoInv(page) /\ NativeInv
      /\ IntervalInv(page, doubt) /\ PausedInv(page, doubt) /\ QueryInv(page, doubt)
      /\ SettledInv
  BY DEF ControlsInv
<1>1. /\ next.seq >= p.shown.seq => Taken(p, page', next)
      /\ ~(next.seq >= p.shown.seq) => page' = p
  BY <1>0, IngestedFacts DEF TypeOK
<1>2. OnTheirWay' \subseteq OnTheirWay
  BY DEF OnTheirWay
<1>3. doubt \subseteq doubt' /\ doubt' \subseteq Controls
  BY <1>0 DEF Doubts, Overtakes, TypeOK
<1>4. /\ QueueInv(p, doubt') /\ IntervalInv(p, doubt') /\ PausedInv(p, doubt') /\ QueryInv(p, doubt')
      /\ EchoInv(p)
  <2>1. QueueInv(p, doubt') /\ EchoInv(p)
    BY <1>0, <1>3 DEF QueueInv, EchoInv
  <2>2. IntervalInv(p, doubt') /\ PausedInv(p, doubt')
    BY <1>0, <1>3 DEF IntervalInv, PausedInv
  <2>3. QueryInv(p, doubt')
    BY <1>0, <1>3 DEF QueryInv
  <2> QED BY <2>1, <2>2, <2>3
<1>5. /\ p.queue \in Seq(Mutation) /\ p.hydrated \in BOOLEAN /\ p.native \in BOOLEAN
      /\ next.seq \in Nat /\ p.shown.seq \in Nat
  BY PageFields DEF SnapshotState
<1>6. CASE ~(next.seq >= p.shown.seq)
  <2>1. page' = p
    BY <1>1, <1>6
  <2>2. QueueInv(page, doubt)' /\ CallInv' /\ ChannelInv'
    BY <1>0, <1>3, <1>4, <2>1 DEF CallInv, ChannelInv
  <2>3. EchoInv(page)'
    BY <1>2, <1>4, <2>1 DEF EchoInv, Echo
  <2>4. IntervalInv(page, doubt)' /\ PausedInv(page, doubt)'
    BY <1>2, <1>4, <2>1 DEF IntervalInv, PausedInv
  <2>5. QueryInv(page, doubt)'
    BY <1>2, <1>4, <2>1 DEF QueryInv
  <2>6. SettledInv'
    BY <1>0, <2>1 DEF SettledInv, Pending
  <2>7. NativeInv'
    BY <1>0, <1>5, <1>6, <2>1 DEF NativeInv
  <2> QED BY <1>3, <2>1, <2>2, <2>3, <2>4, <2>5, <2>6, <2>7
<1>7. CASE next.seq >= p.shown.seq
  <2>1. Taken(p, page', next)
    BY <1>1, <1>7
  <2>2. page' \in PageState /\ page'.shown = next /\ page'.paused = next.paused
        /\ (~Has(p.queue, "interval") /\ next.interval \in Offered => page'.interval = next.interval)
        /\ page'.hydrated = (p.hydrated \/ p.native) /\ page'.native = p.native
    BY <2>1 DEF Taken
  <2>14. NativeInv' /\ (p.native \/ p.hydrated => next.seq > 0)
    <3>1. p.hydrated => p.shown.seq > 0
      BY <1>0 DEF NativeInv
    <3>2. p.native \/ p.hydrated => next.seq > 0
      BY <1>5, <1>7, <3>1
    <3> QED BY <2>2, <3>2 DEF NativeInv
  <2>3. ~p.hydrated /\ p.native /\ (p.debounce \/ Has(p.queue, "query")) => "query" \in doubt'
    BY <2>2 DEF Doubts, Overtakes, Overtaken, Has, Controls
  <2>4. /\ QueueInv(page', doubt')
        /\ \A k : k # "query" => (Has(page'.queue, k) <=> Has(p.queue, k))
        /\ p.queue # <<>> =>
             /\ page'.queue # <<>> /\ page'.queue[1].kind = p.queue[1].kind
             /\ page'.queue[1].value = p.queue[1].value
    BY <1>4, <2>1, <2>3, TakenQueue
  <2>5. QueryInv(page', doubt')
    <3>1. "query" \notin doubt' /\ ~p.hydrated /\ ~Has(p.queue, "query") /\ next.seq > 0 =>
            next.query = runtime.query
      BY <1>4 DEF QueryInv
    <3> QED BY <1>4, <2>1, <2>3, <2>14, <3>1, TakenQuery
  <2>6. CallInv' /\ ChannelInv'
    BY <1>0, <1>3, <2>4 DEF CallInv, ChannelInv
  <2>7. Echo(next) /\ \A s \in OnTheirWay : Echo(s)
    BY <1>4 DEF EchoInv
  <2>8. EchoInv(page)'
    BY <1>2, <1>4, <2>2, <2>7 DEF EchoInv, Echo
  <2>9. \A s \in OnTheirWay' \cup {next} : s.seq \in Nat /\ (s.seq >= next.seq => s.seq >= p.shown.seq)
    <3>1. \A s \in OnTheirWay : s.seq \in Nat
      BY <1>0, ConstantTypes DEF TypeOK, OnTheirWay, Call, SnapshotState
    <3> QED BY <1>2, <1>5, <1>7, <3>1
  <2>10. IntervalInv(page, doubt)'
    <3>1. SUFFICES ASSUME "interval" \notin doubt', ~Has(page'.queue, "interval")
                   PROVE  /\ next.seq > 0 /\ runtime.interval \in Offered => page'.interval = runtime.interval
                          /\ \A s \in OnTheirWay' \cup {next} :
                               s.seq >= next.seq /\ s.seq > 0 => s.interval = runtime.interval
      BY <2>2 DEF IntervalInv
    <3>2. ~Has(p.queue, "interval")
      BY <2>4, <3>1
    <3>3. \A s \in OnTheirWay \cup {p.shown} :
            s.seq >= p.shown.seq /\ s.seq > 0 => s.interval = runtime.interval
      BY <1>4, <3>1, <3>2 DEF IntervalInv
    <3> QED BY <1>2, <1>7, <2>2, <2>9, <3>2, <3>3
  <2>11. PausedInv(page, doubt)'
    <3>1. SUFFICES ASSUME "paused" \notin doubt'
                   PROVE  /\ runtime.storePaused = runtime.paused
                          /\ ~Has(page'.queue, "paused") =>
                               /\ next.seq > 0 => page'.paused = runtime.paused
                               /\ \A s \in OnTheirWay' \cup {next} :
                                    s.seq >= next.seq /\ s.seq > 0 => s.paused = runtime.paused
      BY <2>2 DEF PausedInv
    <3>2. /\ runtime.storePaused = runtime.paused
          /\ ~Has(p.queue, "paused") =>
               \A s \in OnTheirWay \cup {p.shown} :
                 s.seq >= p.shown.seq /\ s.seq > 0 => s.paused = runtime.paused
      BY <1>4, <3>1 DEF PausedInv
    <3> QED BY <1>2, <1>7, <2>2, <2>4, <2>9, <3>2
  <2>12. QueryInv(page, doubt)'
    BY <1>2, <2>5 DEF QueryInv
  <2>13. SettledInv'
    BY <1>0, <2>4 DEF SettledInv, Pending
  <2> QED BY <1>3, <2>2, <2>4, <2>6, <2>8, <2>10, <2>11, <2>12, <2>13, <2>14
<1> QED BY <1>6, <1>7

LEMMA BusyBound ==
  ASSUME TypeOK, NEW attend \in BOOLEAN, Busy(attend)
  PROVE  changes' \in 0 .. MaxChanges
BY ControlsAssumption DEF TypeOK, Busy, Change

LEMMA PollEndsStep ==
  ASSUME ControlsInv, PollEnds
  PROVE  ControlsInv'
<1>1. TypeOK /\ page \in PageState /\ poll \in Call
  BY DEF ControlsInv, TypeOK
<1>2. /\ poll' = NoRead /\ timer' = (timer \/ ~hidden) /\ Doubts(Overtakes)
      /\ UNCHANGED <<runtime, durable, channel, store, answer, refresh, hidden, chosen, slighted, faults>>
  BY DEF PollEnds
<1>3. PICK attend \in BOOLEAN, healthy \in BOOLEAN :
        Busy(attend) /\ page' = Ingested(page, poll.snapshot, attend, healthy)
  BY DEF PollEnds
<1>4. /\ poll.snapshot \in OnTheirWay /\ poll.snapshot \in SnapshotState
      /\ poll'.snapshot \in OnTheirWay /\ refresh'.snapshot \in OnTheirWay
  BY <1>1, <1>2 DEF OnTheirWay, Call, NoRead
<1>7. /\ page.native => page.shown.seq > 0 \/ poll.snapshot.seq > 0
      /\ refresh'.state = "read" => refresh'.snapshot.seq > 0
  BY <1>2 DEF ControlsInv, NativeInv
<1>5. /\ page' \in PageState /\ doubt' \subseteq Controls /\ NativeInv'
      /\ QueueInv(page, doubt)' /\ CallInv' /\ ChannelInv' /\ EchoInv(page)'
      /\ IntervalInv(page, doubt)' /\ PausedInv(page, doubt)' /\ QueryInv(page, doubt)'
      /\ SettledInv'
  BY <1>1, <1>2, <1>3, <1>4, <1>7, TakeStep
<1>6. TypeOK'
  <2>1. timer' \in BOOLEAN
    BY <1>2
  <2>2. changes' \in 0 .. MaxChanges
    BY <1>1, <1>3, BusyBound
  <2> QED BY <1>1, <1>2, <1>5, <2>1, <2>2, ConstantTypes DEF TypeOK
<1> QED BY <1>5, <1>6 DEF ControlsInv

LEMMA RefreshEndsStep ==
  ASSUME ControlsInv, RefreshEnds
  PROVE  ControlsInv'
<1>1. TypeOK /\ page \in PageState /\ refresh \in Call
  BY DEF ControlsInv, TypeOK
<1>2. /\ refresh' = NoRead /\ Doubts(Overtakes)
      /\ UNCHANGED <<runtime, durable, channel, store, answer, poll, hidden, timer, chosen, slighted, faults>>
  BY DEF RefreshEnds
<1> DEFINE p == [page EXCEPT !.native = TRUE]
<1>3. PICK attend \in BOOLEAN, healthy \in BOOLEAN :
        Busy(attend) /\ page' = Ingested(p, refresh.snapshot, attend, healthy)
  BY DEF RefreshEnds, Applied
<1>4. /\ p \in PageState /\ p.shown = page.shown /\ p.queue = page.queue /\ p.interval = page.interval
      /\ p.paused = page.paused /\ p.query = page.query /\ p.debounce = page.debounce
      /\ p.hydrated = page.hydrated /\ p.accepted = page.accepted
  BY <1>1 DEF PageState
<1> HIDE DEF p
<1>5. /\ refresh.snapshot \in OnTheirWay /\ refresh.snapshot \in SnapshotState
      /\ poll'.snapshot \in OnTheirWay /\ refresh'.snapshot \in OnTheirWay
  BY <1>1, <1>2 DEF OnTheirWay, Call, NoRead
<1>8. refresh.snapshot.seq > 0 /\ refresh'.state = "none"
  BY <1>2 DEF ControlsInv, NativeInv, RefreshEnds, NoRead
<1>6. /\ page' \in PageState /\ doubt' \subseteq Controls /\ NativeInv'
      /\ QueueInv(page, doubt)' /\ CallInv' /\ ChannelInv' /\ EchoInv(page)'
      /\ IntervalInv(page, doubt)' /\ PausedInv(page, doubt)' /\ QueryInv(page, doubt)'
      /\ SettledInv'
  BY <1>2, <1>3, <1>4, <1>5, <1>8, TakeStep
<1>7. TypeOK'
  <2>1. changes' \in 0 .. MaxChanges
    BY <1>1, <1>3, BusyBound
  <2> QED BY <1>1, <1>2, <1>6, <2>1, ConstantTypes DEF TypeOK
<1> QED BY <1>6, <1>7 DEF ControlsInv

\* The page loses the head of its queue and keeps its controls, but for one in
\* doubt: the call failed, or a newer change of its kind is behind it.
LEMMA DropStep ==
  ASSUME ControlsInv, page.queue # <<>>, answer.state \in {"read", "failed"}, answer' = NoRead,
         page' \in PageState, page'.queue = Tail(page.queue), page'.shown = page.shown,
         page'.hydrated = page.hydrated, page'.debounce = page.debounce, page'.native = page.native,
         page'.accepted = page.accepted \/ Heard(page, page', answer.snapshot),
         page.queue[1].kind \in {"query", "interval"} \ doubt => ~page.queue[1].latest,
         page.queue[1].kind = "paused" => "paused" \in doubt,
         "query" \notin doubt => page'.query = page.query,
         "interval" \notin doubt => page'.interval = page.interval,
         "paused" \notin doubt => page'.paused = page.paused,
         UNCHANGED <<runtime, durable, channel, poll, refresh, store, chosen, slighted, doubt>>
  PROVE  /\ QueueInv(page, doubt)' /\ CallInv' /\ ChannelInv' /\ EchoInv(page)' /\ NativeInv'
         /\ IntervalInv(page, doubt)' /\ PausedInv(page, doubt)' /\ QueryInv(page, doubt)'
         /\ SettledInv'
<1>0. /\ TypeOK /\ QueueInv(page, doubt) /\ CallInv /\ ChannelInv /\ EchoInv(page) /\ NativeInv
      /\ IntervalInv(page, doubt) /\ PausedInv(page, doubt) /\ QueryInv(page, doubt)
      /\ SettledInv
  BY DEF ControlsInv
<1> DEFINE q == page.queue
           m == page.queue[1]
           t == Tail(page.queue)
<1>1. q \in Seq(Mutation)
  BY <1>0, PageFields DEF TypeOK
<1>2. /\ \A i \in DOMAIN t : i + 1 \in DOMAIN q /\ t[i] = q[i + 1]
      /\ LatestOnce(t) /\ \A k : Live(q, k) => Live(t, k)
      /\ \A k : Has(t, k) => Has(q, k)
      /\ \A k : Has(q, k) /\ m.kind # k => Has(t, k)
      /\ Live(q, m.kind) /\ ~m.latest => Has(t, m.kind)
  BY <1>0, <1>1, TailQueue DEF QueueInv
<1>3. OnTheirWay' = OnTheirWay /\ Empty \in OnTheirWay /\ answer'.snapshot = Empty /\ answer'.state = "none"
  BY DEF OnTheirWay, NoRead
<1> HIDE DEF q, m, t
<1>4. /\ "query" \notin doubt => (Has(t, "query") <=> Has(q, "query"))
      /\ "interval" \notin doubt => (Has(t, "interval") <=> Has(q, "interval"))
      /\ "paused" \notin doubt => (Has(t, "paused") <=> Has(q, "paused"))
  BY <1>0, <1>2 DEF QueueInv, q, m
<1>5. page.queue = q /\ page'.queue = t
  BY DEF q, t
<1>a. QueueInv(page, doubt)'
  BY <1>0, <1>2, <1>5 DEF QueueInv
<1>b. CallInv' /\ ChannelInv' /\ NativeInv'
  BY <1>0, <1>3 DEF CallInv, ChannelInv, NativeInv
<1>c. EchoInv(page)'
  BY <1>0, <1>3 DEF EchoInv, Echo
<1>d. IntervalInv(page, doubt)'
  BY <1>0, <1>3, <1>4, <1>5 DEF IntervalInv
<1>e. PausedInv(page, doubt)'
  BY <1>0, <1>3, <1>4, <1>5 DEF PausedInv
<1>f. QueryInv(page, doubt)'
  <2>1. "query" \notin doubt /\ ~page'.debounce =>
          \A i \in DOMAIN t :
            t[i].kind = "query" /\ t[i].latest =>
              /\ page'.query.text = t[i].value.text
              /\ ~t[i].auto => page'.query = t[i].value
    BY <1>0, <1>2, <1>5 DEF QueryInv
  <2>2. "query" \notin doubt /\ ~Has(t, "query") /\ page'.hydrated /\ ~page'.debounce =>
          page'.query = runtime.query
    BY <1>0, <1>4, <1>5 DEF QueryInv
  <2>3. "query" \notin doubt /\ ~Has(t, "query") /\ ~page'.hydrated =>
          /\ page'.accepted.seq > 0 => page'.accepted.query = runtime.query
          /\ \A s \in OnTheirWay \cup {Empty, page.shown} : s.seq > 0 => s.query = runtime.query
    BY <1>0, <1>3, <1>4, <1>5 DEF QueryInv, Heard
  <2> QED BY <1>3, <1>5, <2>1, <2>2, <2>3 DEF QueryInv
<1>g. SettledInv'
  BY <1>0, <1>2, <1>5 DEF SettledInv, Pending
<1> QED BY <1>a, <1>b, <1>c, <1>d, <1>e, <1>f, <1>g

\* The answer to the head of the queue is taken in: it is as new as anything
\* the page may show, and it has the change.
LEMMA AnswerTakenStep ==
  ASSUME ControlsInv, answer.state = "read", answer' = NoRead,
         NEW p \in PageState, p.queue = Tail(page.queue), p.shown = page.shown,
         p.hydrated = page.hydrated, p.native, p.debounce = page.debounce,
         p.accepted = page.accepted \/ Heard(page, p, answer.snapshot),
         page.queue[1].kind # "query" => p.query = page.query,
         page.queue[1].kind = "query" =>
           /\ page.queue[1].latest
           /\ p.query = IF page.queue[1].auto THEN [page.query EXCEPT !.focus = page.queue[1].value.focus]
                                              ELSE page.query,
         page.queue[1].kind = "prefs" => page.queue[1].latest,
         Taken(p, page', answer.snapshot), Doubts(Overtakes),
         store' = IF page.queue[1].kind = "prefs" /\ Clears(page.queue[1], answer.snapshot)
                  THEN NoPrefs ELSE store,
         UNCHANGED <<runtime, durable, channel, poll, refresh, chosen, slighted>>
  PROVE  /\ doubt' \subseteq Controls
         /\ QueueInv(page, doubt)' /\ CallInv' /\ ChannelInv' /\ EchoInv(page)' /\ NativeInv'
         /\ IntervalInv(page, doubt)' /\ PausedInv(page, doubt)' /\ QueryInv(page, doubt)'
         /\ SettledInv'
<1>0. /\ TypeOK /\ QueueInv(page, doubt) /\ CallInv /\ ChannelInv /\ EchoInv(page) /\ NativeInv
      /\ IntervalInv(page, doubt) /\ PausedInv(page, doubt) /\ QueryInv(page, doubt)
      /\ SettledInv
  BY DEF ControlsInv
<1> DEFINE q == page.queue
           m == page.queue[1]
           t == Tail(page.queue)
           next == answer.snapshot
<1>1. /\ q # <<>> /\ channel = <<>> /\ next.seq = runtime.seq /\ next.query = runtime.query
      /\ next.interval = runtime.interval /\ next.paused = runtime.paused /\ next.prefs = runtime.prefs
      /\ next.durable => durable = runtime.prefs
      /\ m.kind = "query" => m.value = runtime.query
  BY <1>0 DEF CallInv
<1>2. q \in Seq(Mutation)
  BY <1>0, PageFields DEF TypeOK
<1>3. /\ m \in Mutation
      /\ \A i \in DOMAIN t : i + 1 \in DOMAIN q /\ t[i] = q[i + 1]
      /\ LatestOnce(t) /\ \A k : Live(q, k) => Live(t, k)
      /\ \A k : Has(t, k) => Has(q, k)
      /\ \A k : Has(q, k) /\ m.kind # k => Has(t, k)
      /\ Has(q, m.kind)
      /\ m.latest => ~Has(t, m.kind)
  BY <1>0, <1>1, <1>2, TailQueue DEF QueueInv
<1>4. m.kind \in Kinds /\ m.value \in ValuesOf(m.kind) /\ m.auto \in BOOLEAN /\ m.latest \in BOOLEAN
  BY <1>3, MutationFields
<1>5. next \in SnapshotState /\ next.seq \in Nat
  BY <1>0 DEF TypeOK, Call, SnapshotState
<1> HIDE DEF q, m, t, next
<1>6. /\ page.queue = q /\ p.queue = t /\ page.queue[1] = m /\ answer.snapshot = next
      /\ Taken(p, page', next)
      /\ store' = IF m.kind = "prefs" /\ Clears(m, next) THEN NoPrefs ELSE store
  BY DEF q, t, m, next
<1>7. OnTheirWay' = OnTheirWay /\ Empty \in OnTheirWay /\ answer'.snapshot = Empty /\ answer'.state = "none"
  BY DEF OnTheirWay, NoRead
<1>8. doubt \subseteq doubt' /\ doubt' \subseteq Controls
  BY <1>0 DEF Doubts, Overtakes, TypeOK
<1>9. /\ page' \in PageState /\ page'.shown = next /\ page'.paused = next.paused /\ page'.hydrated
      /\ ~Has(t, "interval") /\ next.interval \in Offered => page'.interval = next.interval
  BY <1>6 DEF Taken
<1>10. ~page.hydrated /\ (page.debounce \/ Has(q, "query")) => "query" \in doubt'
  BY <1>6, <1>9 DEF Doubts, Overtakes, Overtaken, Has, Controls
<1>11. QueueInv(p, doubt')
  BY <1>0, <1>3, <1>6, <1>8 DEF QueueInv
<1>12. /\ QueueInv(page', doubt')
       /\ \A k : k # "query" => (Has(page'.queue, k) <=> Has(t, k))
  <2>1. ~p.hydrated /\ p.native /\ Has(p.queue, "query") => "query" \in doubt'
    BY <1>3, <1>6, <1>10
  <2> QED BY <1>6, <1>11, <2>1, TakenQueue
<1>13. QueryInv(p, doubt')
  <2> SUFFICES ASSUME "query" \notin doubt'
               PROVE  QueryInv(p, doubt')
    BY DEF QueryInv
  <2>0. "query" \notin doubt
    BY <1>8
  <2>1. CASE m.kind # "query"
    <3>1. (Has(t, "query") <=> Has(q, "query")) /\ p.query = page.query
      BY <1>3, <1>6, <2>1
    <3>2. ~p.debounce =>
            \A i \in DOMAIN t :
              t[i].kind = "query" /\ t[i].latest =>
                /\ p.query.text = t[i].value.text
                /\ ~t[i].auto => p.query = t[i].value
      BY <1>0, <1>3, <1>6, <2>0, <3>1 DEF QueryInv
    <3>3. ~Has(t, "query") /\ p.hydrated /\ ~p.debounce => p.query = runtime.query
      BY <1>0, <1>6, <2>0, <3>1 DEF QueryInv
    <3>4. ~Has(t, "query") /\ ~p.hydrated =>
            /\ p.accepted.seq > 0 => p.accepted.query = runtime.query
            /\ \A s \in OnTheirWay \cup {answer.snapshot, p.shown} : s.seq > 0 => s.query = runtime.query
      BY <1>0, <1>1, <1>6, <2>0, <3>1 DEF QueryInv, Heard
    <3> QED BY <1>6, <3>2, <3>3, <3>4 DEF QueryInv
  <2>2. CASE m.kind = "query"
    <3>1. m.latest /\ ~Has(t, "query") /\ Has(q, "query")
      BY <1>3, <1>6, <2>2
    <3>2. page.hydrated /\ p.hydrated
      BY <1>10, <3>1
    <3>3. ASSUME ~p.debounce
          PROVE  p.query = runtime.query
      <4>1. 1 \in DOMAIN q
        BY <1>1, <1>2 DEF q
      <4>2. page.query.text = m.value.text /\ (~m.auto => page.query = m.value)
        BY <1>0, <1>6, <2>0, <2>2, <3>1, <3>3, <4>1 DEF QueryInv
      <4>3. page.query \in Query /\ m.value \in Query
        BY <1>0, <1>4, <2>2, PageFields, ValueTypes DEF TypeOK
      <4>4. [page.query EXCEPT !.focus = m.value.focus] = m.value
        BY <4>2, <4>3 DEF Query
      <4>5. p.query = IF m.auto THEN [page.query EXCEPT !.focus = m.value.focus] ELSE page.query
        BY <1>6, <2>2
      <4> QED BY <1>1, <1>4, <2>2, <4>2, <4>4, <4>5
    <3> QED BY <1>6, <3>1, <3>2, <3>3 DEF QueryInv, Has
  <2> QED BY <2>1, <2>2
<1>14. QueryInv(page', doubt')
  <2>1. ~p.hydrated /\ p.native /\ (p.debounce \/ Has(p.queue, "query")) => "query" \in doubt'
    BY <1>3, <1>6, <1>10
  <2>2. next.query = runtime.query /\ next.seq > 0
    BY <1>0, <1>1 DEF EchoInv
  <2> QED BY <1>5, <1>6, <1>13, <2>1, <2>2, TakenQuery
<1>15. \A s \in OnTheirWay \cup {next} :
         s.seq >= next.seq => s.interval = runtime.interval /\ s.paused = runtime.paused
  <2>1. \A s \in OnTheirWay : s.seq \in Nat /\ Echo(s)
    BY <1>0, ConstantTypes DEF EchoInv, TypeOK, OnTheirWay, Call, SnapshotState
  <2>2. ASSUME NEW s \in OnTheirWay, s.seq >= next.seq
        PROVE  s.interval = runtime.interval /\ s.paused = runtime.paused
    <3>1. s.seq = runtime.seq
      BY <1>1, <1>5, <2>1, <2>2 DEF Echo
    <3> QED BY <2>1, <2>2, <3>1 DEF Echo
  <2> QED BY <1>1, <2>2
<1>a. QueueInv(page, doubt)'
  BY <1>12
<1>b. CallInv' /\ ChannelInv'
  BY <1>1, <1>7 DEF CallInv, ChannelInv
<1>h. NativeInv'
  BY <1>0, <1>1, <1>9 DEF NativeInv, EchoInv
<1>c. EchoInv(page)'
  BY <1>0, <1>1, <1>5, <1>7, <1>9 DEF EchoInv, Echo
<1>d. IntervalInv(page, doubt)'
  BY <1>1, <1>7, <1>9, <1>12, <1>15 DEF IntervalInv
<1>e. PausedInv(page, doubt)'
  BY <1>0, <1>1, <1>7, <1>8, <1>9, <1>15 DEF PausedInv
<1>f. QueryInv(page, doubt)'
  BY <1>7, <1>14 DEF QueryInv
<1>g. SettledInv'
  <2>0. ~Has(channel', "prefs")
    BY <1>1 DEF Has
  <2>1. CASE m.kind = "prefs" /\ Clears(m, next)
    <3>1. /\ m.latest /\ next.prefs = m.value /\ next.durable /\ store = m.value /\ m.value \in Prefs
          /\ store' = NoPrefs
      BY <1>4, <1>6, <2>1, ValueTypes DEF Clears
    <3>2. durable = store /\ runtime.prefs = durable
      BY <1>1, <3>1
    <3>3. ~Has(page'.queue, "prefs")
      BY <1>3, <1>12, <2>1, <3>1
    <3> QED BY <1>0, <2>0, <3>1, <3>2, <3>3 DEF SettledInv, Pending
  <2>2. CASE ~(m.kind = "prefs" /\ Clears(m, next))
    <3>1. store' = store
      BY <1>6, <2>2
    <3>2. Has(page'.queue, "prefs") => Has(q, "prefs")
      BY <1>3, <1>12
    <3> QED BY <1>0, <1>6, <2>0, <3>1, <3>2 DEF SettledInv, Pending
  <2> QED BY <2>1, <2>2
<1> QED BY <1>8, <1>a, <1>b, <1>c, <1>d, <1>e, <1>f, <1>g, <1>h

\* The answer to the change m is taken into p, which is the page without m.
TakesIn(p, m) ==
  /\ p.queue = Tail(page.queue) /\ p.shown = page.shown /\ p.hydrated = page.hydrated
  /\ p.native = TRUE /\ p.debounce = page.debounce
  /\ p.accepted = page.accepted \/ Heard(page, p, answer.snapshot)
  /\ p.query = IF m.kind = "query" /\ m.auto
               THEN [page.query EXCEPT !.focus = m.value.focus] ELSE page.query
  /\ p.prefs = page.prefs /\ p.saveDue = page.saveDue
  /\ Taken(p, page', answer.snapshot)

\* The page after the answer to its change m: it loses the change if a newer
\* one is behind it, and else takes in the answer.
LEMMA AcceptsFacts ==
  ASSUME ControlsInv, answer.state = "read", NEW attend \in BOOLEAN, NEW healthy \in BOOLEAN,
         NEW m, m = Head(page.queue),
         page' = Accepts([page EXCEPT !.queue = Tail(page.queue)], m, answer.snapshot, attend, healthy)
  PROVE  /\ ~m.latest /\ m.kind # "paused" =>
              /\ page' \in PageState /\ page'.queue = Tail(page.queue) /\ page'.shown = page.shown
              /\ page'.hydrated = page.hydrated /\ page'.debounce = page.debounce
              /\ page'.accepted = page.accepted \/ Heard(page, page', answer.snapshot)
              /\ page'.query = page.query /\ page'.interval = page.interval /\ page'.paused = page.paused
              /\ page'.native = page.native /\ page'.prefs = page.prefs /\ page'.saveDue = page.saveDue
         /\ m.latest \/ m.kind = "paused" =>
              \E p \in PageState : TakesIn(p, m)
<1>0. TypeOK /\ CallInv /\ EchoInv(page)
  BY DEF ControlsInv
<1> DEFINE rest == [page EXCEPT !.queue = Tail(page.queue)]
           next == answer.snapshot
           o == Observed(rest, next)
           v == IF m.kind = "query" /\ m.auto THEN [page.query EXCEPT !.focus = m.value.focus]
                                              ELSE page.query
<1>2. page.queue # <<>> /\ page \in PageState /\ page.queue \in Seq(Mutation)
  BY <1>0, PageFields DEF CallInv, TypeOK
<1>3. Tail(page.queue) \in Seq(Mutation) /\ m = page.queue[1] /\ m \in Mutation
  BY <1>2, TailQueue
<1>4. m.kind \in Kinds /\ m.value \in ValuesOf(m.kind) /\ m.auto \in BOOLEAN /\ m.latest \in BOOLEAN
  BY <1>3, MutationFields
<1>5. /\ rest \in PageState /\ rest.queue = Tail(page.queue) /\ rest.shown = page.shown
      /\ rest.hydrated = page.hydrated /\ rest.debounce = page.debounce
      /\ rest.accepted = page.accepted /\ rest.query = page.query /\ rest.native = page.native
      /\ rest.interval = page.interval /\ rest.paused = page.paused /\ rest.prefs = page.prefs
      /\ rest.saveDue = page.saveDue
  BY <1>2, <1>3 DEF PageState
<1>6. next \in SnapshotState /\ next.seq \in Nat /\ page.shown.seq \in Nat /\ page.query \in Query
  BY <1>0, PageFields DEF TypeOK, Call, SnapshotState
<1>7. /\ o \in PageState /\ o.shown = page.shown /\ o.query = page.query /\ o.interval = page.interval
      /\ o.paused = page.paused /\ o.hydrated = page.hydrated /\ o.queue = Tail(page.queue)
      /\ o.debounce = page.debounce /\ o.native = page.native /\ Heard(page, o, next)
      /\ o.prefs = page.prefs /\ o.saveDue = page.saveDue
  <2> HIDE DEF rest
  <2> QED BY <1>5, <1>6, ObservedFacts DEF Heard
<1>8. ASSUME ~m.latest, m.kind # "paused"
      PROVE  /\ page' \in PageState /\ page'.queue = Tail(page.queue) /\ page'.shown = page.shown
             /\ page'.hydrated = page.hydrated /\ page'.debounce = page.debounce
             /\ page'.accepted = page.accepted \/ Heard(page, page', answer.snapshot)
             /\ page'.query = page.query /\ page'.interval = page.interval /\ page'.paused = page.paused
             /\ page'.native = page.native /\ page'.prefs = page.prefs /\ page'.saveDue = page.saveDue
  <2>1. page' \in {rest, o}
    BY <1>4, <1>8 DEF Accepts, Kinds, Controls
  <2> HIDE DEF rest, o
  <2> QED BY <1>5, <1>7, <2>1 DEF Heard
<1>9. ASSUME m.latest \/ m.kind = "paused"
      PROVE  \E p \in PageState : TakesIn(p, m)
  <2>1. PICK p \in PageState :
          /\ p.queue = Tail(page.queue) /\ p.shown = page.shown /\ p.hydrated = page.hydrated
          /\ p.native = TRUE /\ p.debounce = page.debounce
          /\ p.accepted = page.accepted \/ Heard(page, p, next)
          /\ p.query = v /\ p.prefs = page.prefs /\ p.saveDue = page.saveDue
          /\ page' = Ingested(p, next, attend, healthy)
    <3>1. CASE m.kind = "query"
      <4> DEFINE u == [o EXCEPT !.query.focus = IF m.auto THEN m.value.focus ELSE o.query.focus]
                 p == [u EXCEPT !.native = TRUE]
      <4>1. page' = Ingested(p, next, attend, healthy)
        BY <1>9, <3>1 DEF Accepts, Applied
      <4> HIDE DEF o
      <4>2. m.value \in Query
        BY <1>4, <3>1, ValueTypes
      <4>3. v \in Query /\ v = [o.query EXCEPT !.focus = IF m.auto THEN m.value.focus ELSE o.query.focus]
        BY <1>6, <1>7, <3>1, <4>2 DEF Query
      <4>4. u = [o EXCEPT !.query = v]
        BY <1>7, <4>3 DEF PageState
      <4> HIDE DEF v, u
      <4>5. /\ p \in PageState /\ p.queue = o.queue /\ p.shown = o.shown /\ p.hydrated = o.hydrated
            /\ p.native = TRUE /\ p.debounce = o.debounce /\ p.accepted = o.accepted /\ p.query = v
            /\ p.prefs = o.prefs /\ p.saveDue = o.saveDue
        BY <1>7, <4>3, <4>4 DEF PageState
      <4> HIDE DEF p
      <4> QED BY <1>7, <4>1, <4>5 DEF Heard
    <3>2. CASE m.kind # "query"
      <4>1. PICK u \in {rest, o} : page' = Ingested([u EXCEPT !.native = TRUE], next, attend, healthy)
        BY <1>4, <1>9, <3>2 DEF Accepts, Applied, Kinds, Controls
      <4> DEFINE p == [u EXCEPT !.native = TRUE]
      <4> HIDE DEF rest, o
      <4>2. /\ u \in PageState /\ u.queue = Tail(page.queue) /\ u.shown = page.shown
            /\ u.hydrated = page.hydrated /\ u.debounce = page.debounce
            /\ u.accepted = page.accepted \/ Heard(page, u, next)
            /\ u.query = page.query /\ u.prefs = page.prefs /\ u.saveDue = page.saveDue
        BY <1>5, <1>7, <4>1
      <4>3. /\ p \in PageState /\ p.queue = u.queue /\ p.shown = u.shown /\ p.hydrated = u.hydrated
            /\ p.native = TRUE /\ p.debounce = u.debounce /\ p.accepted = u.accepted
            /\ p.query = u.query /\ p.prefs = u.prefs /\ p.saveDue = u.saveDue
        BY <4>2 DEF PageState
      <4>4. v = page.query
        BY <3>2
      <4> HIDE DEF p, v
      <4> QED BY <4>1, <4>2, <4>3, <4>4 DEF p, Heard
    <3> QED BY <3>1, <3>2
  <2>2. next.seq >= page.shown.seq
    BY <1>0, <1>6 DEF CallInv, EchoInv, Echo
  <2>3. Taken(p, page', next)
    BY <1>0, <1>6, <2>1, <2>2, IngestedFacts DEF TypeOK
  <2>4. TakesIn(p, m)
    BY <2>1, <2>3 DEF TakesIn
  <2> QED BY <2>4
<1> HIDE DEF rest, o
<1> QED BY <1>8, <1>9

LEMMA AnsweredStep ==
  ASSUME ControlsInv, Answered
  PROVE  ControlsInv'
<1>0. TypeOK /\ CallInv /\ EchoInv(page)
  BY DEF ControlsInv
<1> DEFINE m == Head(page.queue)
           rest == [page EXCEPT !.queue = Tail(page.queue)]
           next == answer.snapshot
<1>1. /\ UNCHANGED <<runtime, durable, channel, poll, refresh, hidden, timer, chosen, slighted, faults>>
      /\ answer.state \in {"read", "failed"} /\ answer' = NoRead
  BY DEF Answered, Settles
<1>2. page.queue # <<>> /\ page \in PageState /\ page.queue \in Seq(Mutation)
  BY <1>0, <1>1, PageFields DEF CallInv, TypeOK
<1>3. Tail(page.queue) \in Seq(Mutation) /\ m = page.queue[1] /\ m \in Mutation
  BY <1>2, TailQueue
<1>4. m.kind \in Kinds /\ m.value \in ValuesOf(m.kind) /\ m.auto \in BOOLEAN /\ m.latest \in BOOLEAN
  BY <1>3, MutationFields
<1>5. /\ rest \in PageState /\ rest.queue = Tail(page.queue) /\ rest.shown = page.shown
      /\ rest.hydrated = page.hydrated /\ rest.debounce = page.debounce
      /\ rest.accepted = page.accepted /\ rest.query = page.query /\ rest.native = page.native
      /\ rest.interval = page.interval /\ rest.paused = page.paused
  BY <1>2, <1>3 DEF PageState
<1>6. next \in SnapshotState /\ next.seq \in Nat /\ page.shown.seq \in Nat /\ page.query \in Query
  BY <1>0, PageFields DEF TypeOK, Call, SnapshotState
<1> DEFINE Rest == /\ QueueInv(page, doubt)' /\ CallInv' /\ ChannelInv' /\ EchoInv(page)' /\ NativeInv'
                   /\ IntervalInv(page, doubt)' /\ PausedInv(page, doubt)' /\ QueryInv(page, doubt)'
                   /\ SettledInv'
<1> SUFFICES page' \in PageState /\ doubt' \subseteq Controls /\ store' \in Stores /\ Rest
  <2>1. ASSUME page' \in PageState, doubt' \subseteq Controls, store' \in Stores
        PROVE  TypeOK'
    <3>1. changes' \in 0 .. MaxChanges
      BY <1>0, BusyBound DEF Answered, TypeOK
    <3> QED BY <1>0, <1>1, <2>1, <3>1, ConstantTypes DEF TypeOK
  <2> QED BY <2>1 DEF ControlsInv
<1>7. CASE answer.state = "failed" /\ Settles(Failed(rest, m)) /\ UNCHANGED <<store, doubt, changes>>
  <2>1. page' = Failed(rest, m)
    BY <1>7 DEF Settles
  <2>2. m.kind \in doubt \cup {"prefs"}
    BY <1>0, <1>3, <1>7 DEF CallInv
  <2> HIDE DEF rest, m
  <2>3. /\ Shares(rest, page') /\ page'.queue = rest.queue
        /\ m.kind # "query" => page'.query = rest.query
        /\ m.kind # "interval" => page'.interval = rest.interval
        /\ m.kind # "paused" => page'.paused = rest.paused
    BY <1>3, <1>5, <2>1, FailedFacts
  <2>4. /\ page' \in PageState /\ page'.queue = Tail(page.queue) /\ page'.shown = page.shown
        /\ page'.hydrated = page.hydrated /\ page'.debounce = page.debounce
        /\ page'.accepted = page.accepted /\ page'.native = page.native
    BY <1>5, <2>3 DEF Shares
  <2>5. /\ page.queue[1].kind \in {"query", "interval"} \ doubt => ~page.queue[1].latest
        /\ page.queue[1].kind = "paused" => "paused" \in doubt
        /\ "query" \notin doubt => page'.query = page.query
        /\ "interval" \notin doubt => page'.interval = page.interval
        /\ "paused" \notin doubt => page'.paused = page.paused
    BY <1>3, <1>5, <2>2, <2>3
  <2>6. Rest
    BY <1>1, <1>2, <1>7, <2>4, <2>5, DropStep
  <2> QED BY <1>0, <1>7, <2>4, <2>6 DEF TypeOK
<1>8. CASE /\ answer.state = "read"
           /\ \E attend, healthy \in BOOLEAN :
                Busy(attend) /\ Settles(Accepts(rest, m, next, attend, healthy))
           /\ store' = IF m.kind = "prefs" /\ Clears(m, next) THEN NoPrefs ELSE store
           /\ Doubts(Overtakes)
  <2>1. PICK attend \in BOOLEAN, healthy \in BOOLEAN : page' = Accepts(rest, m, next, attend, healthy)
    BY <1>8 DEF Settles
  <2>2. store' \in Stores
    BY <1>0, <1>8, ConstantTypes DEF TypeOK
  <2>a. m = Head(page.queue) /\ page' = Accepts([page EXCEPT !.queue = Tail(page.queue)], m, next, attend, healthy)
    BY <2>1
  <2> HIDE DEF m
  <2>3. CASE ~m.latest /\ m.kind # "paused"
    <3>4. /\ page' \in PageState /\ page'.queue = Tail(page.queue) /\ page'.shown = page.shown
          /\ page'.hydrated = page.hydrated /\ page'.debounce = page.debounce
          /\ page'.accepted = page.accepted \/ Heard(page, page', answer.snapshot)
          /\ page'.query = page.query /\ page'.interval = page.interval /\ page'.paused = page.paused
          /\ page'.native = page.native
      BY <1>8, <2>3, <2>a, AcceptsFacts
    <3>5. doubt' = doubt /\ store' = store
      BY <1>8, <2>3, <3>4 DEF Doubts, Overtakes, Clears
    <3>6. Rest
      BY <1>1, <1>2, <1>3, <2>3, <3>4, <3>5, DropStep
    <3> QED BY <1>0, <2>2, <3>4, <3>5, <3>6 DEF TypeOK
  <2>4. CASE m.latest \/ m.kind = "paused"
    <3>0. PICK p \in PageState : TakesIn(p, m)
      BY <1>8, <2>4, <2>a, AcceptsFacts
    <3>1. /\ p.queue = Tail(page.queue) /\ p.shown = page.shown /\ p.hydrated = page.hydrated
          /\ p.native = TRUE /\ p.debounce = page.debounce
          /\ p.accepted = page.accepted \/ Heard(page, p, answer.snapshot)
          /\ p.query = IF m.kind = "query" /\ m.auto
                       THEN [page.query EXCEPT !.focus = m.value.focus] ELSE page.query
          /\ p.prefs = page.prefs /\ p.saveDue = page.saveDue
          /\ Taken(p, page', answer.snapshot)
      BY <3>0 DEF TakesIn
    <3>4. page' \in PageState
      BY <3>1 DEF Taken
    <3>5. /\ page.queue[1].kind # "query" => p.query = page.query
          /\ page.queue[1].kind = "query" =>
               /\ page.queue[1].latest
               /\ p.query = IF page.queue[1].auto THEN [page.query EXCEPT !.focus = page.queue[1].value.focus]
                                                  ELSE page.query
          /\ page.queue[1].kind = "prefs" => page.queue[1].latest
          /\ store' = IF page.queue[1].kind = "prefs" /\ Clears(page.queue[1], answer.snapshot)
                      THEN NoPrefs ELSE store
      BY <1>3, <1>8, <2>4, <3>1
    <3>6. doubt' \subseteq Controls /\ Rest
      BY <1>1, <1>8, <3>1, <3>5, AnswerTakenStep
    <3> QED BY <2>2, <3>4, <3>6
  <2> QED BY <2>3, <2>4
<1> QED BY <1>7, <1>8 DEF Answered

-----------------------------------------------------------------------------
(* The invariant of the controls                                            *)

\* Either choice is one of some preferences.
LEMMA ChoiceFacts ==
  ASSUME (\E t \in Themes : SetTheme(t)) \/ \E l \in Lengths : SetHistoryPointLimit(l)
  PROVE  \E h \in Halves : \E v \in Prefs : Chooses(h, v[h])
<1>1. ASSUME NEW t \in Themes, SetTheme(t)
      PROVE  \E h \in Halves : \E v \in Prefs : Chooses(h, v[h])
  <2> DEFINE v == [theme |-> t, history |-> DefaultLength]
  <2>1. v \in Prefs /\ v["theme"] = t /\ "theme" \in Halves
    BY ControlsAssumption DEF Prefs, Halves
  <2>2. Chooses("theme", v["theme"])
    BY <1>1, <2>1 DEF SetTheme
  <2> HIDE DEF v
  <2> QED BY <2>1, <2>2
<1>2. ASSUME NEW l \in Lengths, SetHistoryPointLimit(l)
      PROVE  \E h \in Halves : \E v \in Prefs : Chooses(h, v[h])
  <2> DEFINE v == [theme |-> DefaultTheme, history |-> l]
  <2>1. v \in Prefs /\ v["history"] = l /\ "history" \in Halves
    BY ControlsAssumption DEF Prefs, Halves
  <2>2. Chooses("history", v["history"])
    BY <1>2, <2>1 DEF SetHistoryPointLimit
  <2> HIDE DEF v
  <2> QED BY <2>1, <2>2
<1> QED BY <1>1, <1>2

LEMMA NextControlsInv == ControlsInv /\ [Next]_vars => ControlsInv'
<1> SUFFICES ASSUME ControlsInv, [Next]_vars
             PROVE  ControlsInv'
  OBVIOUS
<1>1. CASE User
  <2>1. CASE \E t \in Texts : TypeText(t)
    BY <2>1, TypeTextStep
  <2>2. CASE \E f \in {"all", "attention"} : SetFocus(f)
    BY <2>2, QueryChangeStep
  <2>3. CASE TogglePaused \/ \E i \in Offered : SetInterval(i)
    BY <2>3, ControlChangeStep
  <2>4. CASE (\E t \in Themes : SetTheme(t)) \/ \E l \in Lengths : SetHistoryPointLimit(l)
    BY <2>4, ChoiceFacts, PreferencesStep
  <2> QED BY <1>1, <2>1, <2>2, <2>3, <2>4 DEF User
<1>2. CASE DebounceEnds
  BY <1>2, QueryChangeStep
<1>3. CASE SaveHydrated
  BY <1>3, PreferencesStep
<1>4. CASE Send
  BY <1>4, SendStep
<1>5. CASE TimeOut
  BY <1>5, TimeOutStep
<1>6. CASE Handle
  BY <1>6, HandleStep
<1>7. CASE HandleFails
  BY <1>7, HandleFailsStep
<1>8. CASE Stored
  BY <1>8, StoredStep
<1>9. CASE Answered
  BY <1>9, AnsweredStep
<1>10. CASE RefreshReads \/ TimerFires \/ PollReads \/ Visibility \/ Watchdog \/ UNCHANGED vars
  BY <1>10, ReadingStep
<1>11. CASE RefreshEnds
  BY <1>11, RefreshEndsStep
<1>12. CASE PollEnds
  BY <1>12, PollEndsStep
<1>13. CASE Restart
  BY <1>13, RestartStep
<1> QED BY <1>1, <1>2, <1>3, <1>4, <1>5, <1>6, <1>7, <1>8, <1>9, <1>10, <1>11, <1>12, <1>13 DEF Next

-----------------------------------------------------------------------------
(* The preferences                                                          *)

LEMMA CompletedFacts ==
  ASSUME NEW st \in Stores, NEW p \in Prefs
  PROVE  /\ Completed(st, Completed(st, p)) = Completed(st, p)
         /\ Completed(NoPrefs, p) = p
         /\ \A v \in Prefs : Completed(v, p) = v
<1>1. Completed(st, Completed(st, p)) = Completed(st, p)
  BY DEF Completed
<1>2. Completed(NoPrefs, p) = p
  BY DEF Completed, NoPrefs, Prefs
<1>3. ASSUME NEW v \in Prefs
      PROVE  Completed(v, p) = v
  <2>1. v.theme # None /\ v.history # None
    BY ControlsAssumption DEF Prefs
  <2> QED BY <2>1 DEF Completed, Prefs
<1> QED BY <1>1, <1>2, <1>3

LEMMA InitPrefsInv == Init => PrefsInv
<1> SUFFICES ASSUME Init PROVE PrefsInv
  OBVIOUS
<1>1. TypeOK
  BY InitControlsInv DEF ControlsInv
<1>2. /\ page = Page(store) /\ answer = NoRead /\ poll = NoRead /\ refresh = NoRead
      /\ chosen = Kept
  BY DEF Init
<1>3. /\ page.prefs = Completed(store, DefaultPrefs) /\ ~page.saveDue /\ ~page.hydrated
      /\ OnTheirWay \cup {answer.snapshot, page.shown} = {Empty}
  BY <1>2 DEF Page, NoRead, OnTheirWay
<1>4. store = NoPrefs => page.prefs = DefaultPrefs
  BY <1>1, <1>3, CompletedFacts, ConstantTypes
<1> QED BY <1>2, <1>3, <1>4, ConstantTypes DEF PrefsInv, Kept, Pending, PreferencesAreKept

LEMMA RestartPrefs ==
  ASSUME TypeOK, PrefsInv, Restart
  PROVE  PrefsInv'
<1>1. /\ page' = Page(store) /\ answer' = NoRead /\ poll' = NoRead /\ refresh' = NoRead
      /\ UNCHANGED <<durable, store, chosen, slighted>>
  BY DEF Restart
<1>2. /\ page'.prefs = Completed(store, DefaultPrefs) /\ ~page'.saveDue /\ ~page'.hydrated
      /\ (OnTheirWay \cup {answer.snapshot, page.shown})' = {Empty}
  BY <1>1 DEF Page, NoRead, OnTheirWay
<1>3. store = NoPrefs => page'.prefs = DefaultPrefs
  BY <1>2, CompletedFacts, ConstantTypes DEF TypeOK
<1> QED BY <1>1, <1>2, <1>3, ConstantTypes DEF PrefsInv, Kept, Pending, PreferencesAreKept

\* A step that leaves the preferences on the page and in localStorage alone:
\* with nothing in localStorage whatever comes from the runtime has those of
\* the settings file.
LEMMA LeftPrefs ==
  ASSUME ControlsInv, PrefsInv, UNCHANGED <<store, chosen, slighted>>, durable' = durable \/ Pending,
         page'.prefs = page.prefs, page'.hydrated = page.hydrated, page'.saveDue = page.saveDue,
         ~Pending => \A s \in (OnTheirWay \cup {answer.snapshot, page.shown})' :
                       s \in OnTheirWay \cup {answer.snapshot, page.shown} \/ s.prefs = runtime.prefs
  PROVE  PrefsInv'
<1>1. Kept' = Kept /\ (Pending' <=> Pending)
  BY DEF Kept, Pending
<1>2. ~Pending => runtime.prefs = durable /\ durable' = durable
  BY DEF ControlsInv, SettledInv
<1>3. PreferencesAreKept'
  BY <1>1 DEF PrefsInv, PreferencesAreKept
<1> QED BY <1>1, <1>2, <1>3 DEF PrefsInv

LEMMA ReadingPrefs ==
  ASSUME ControlsInv, PrefsInv,
         RefreshReads \/ TimerFires \/ PollReads \/ Visibility \/ Watchdog \/ UNCHANGED vars
  PROVE  PrefsInv'
<1>1. TypeOK /\ page \in PageState
  BY DEF ControlsInv, TypeOK
<1>2. UNCHANGED <<durable, answer, store, chosen, slighted>>
  BY DEF RefreshReads, TimerFires, PollReads, Visibility, Watchdog, vars
<1>3. page' = page \/ page' = [page EXCEPT !.native = TRUE]
  BY DEF RefreshReads, TimerFires, PollReads, Visibility, Watchdog, vars
<1>4. /\ page'.prefs = page.prefs /\ page'.hydrated = page.hydrated /\ page'.saveDue = page.saveDue
      /\ page'.shown = page.shown
  BY <1>1, <1>3 DEF PageState
<1> DEFINE n == Read(runtime, durable).snapshot
<1>5. n.prefs = runtime.prefs
  BY DEF Read, Snapshot
<1>6. /\ poll' \in {poll, [state |-> "asked", snapshot |-> page.shown], Read(runtime, durable),
                    [poll EXCEPT !.state = "read"]}
      /\ refresh' \in {refresh, Read(runtime, durable)}
  BY DEF RefreshReads, TimerFires, PollReads, Visibility, Watchdog, vars
<1>7. poll'.snapshot \in {poll.snapshot, page.shown, n} /\ refresh'.snapshot \in {refresh.snapshot, n}
  BY <1>1, <1>6 DEF TypeOK, Call
<1> HIDE DEF n
<1>8. \A s \in (OnTheirWay \cup {answer.snapshot, page.shown})' :
        s \in OnTheirWay \cup {answer.snapshot, page.shown} \/ s = n
  BY <1>2, <1>4, <1>7 DEF OnTheirWay
<1> QED BY <1>2, <1>4, <1>5, <1>8, LeftPrefs

\* Changes of the controls
LEMMA ControlPrefs ==
  ASSUME ControlsInv, PrefsInv,
         \/ DebounceEnds \/ TogglePaused
         \/ \E t \in Texts : TypeText(t)
         \/ \E f \in {"all", "attention"} : SetFocus(f)
         \/ \E i \in Offered : SetInterval(i)
  PROVE  PrefsInv'
<1>1. page \in PageState
  BY DEF ControlsInv, TypeOK
<1>2. UNCHANGED <<durable, answer, poll, refresh, store, chosen, slighted>>
  BY DEF DebounceEnds, TogglePaused, TypeText, SetFocus, SendsQuery, SetInterval, Leaves
<1> DEFINE Keeps(p) == /\ p.prefs = page.prefs /\ p.hydrated = page.hydrated
                       /\ p.saveDue = page.saveDue /\ p.shown = page.shown
<1>3. Keeps(page')
  <2>1. ASSUME NEW p \in PageState, Keeps(p), NEW k \in Kinds, NEW v \in ValuesOf(k),
               NEW prev \in BOOLEAN, page' = Issued(p, k, v, prev, FALSE)
        PROVE  Keeps(page')
    BY <2>1, IssuedFacts DEF Shares
  <2>2. "query" \in Kinds /\ "interval" \in Kinds /\ "paused" \in Kinds
    BY DEF Kinds, Controls
  <2>3. CASE \E t \in Texts : TypeText(t)
    BY <1>1, <2>3 DEF TypeText, PageState
  <2>4. ASSUME NEW p \in PageState, Keeps(p), SendsQuery(p)
        PROVE  Keeps(page')
    <3> DEFINE u == [p EXCEPT !.debounce = FALSE]
    <3>1. u \in PageState /\ Keeps(u)
      BY <2>4 DEF PageState
    <3>2. p.query \in ValuesOf("query")
      BY PageFields, ValueTypes
    <3>3. page' = Issued(u, "query", p.query, FALSE, FALSE)
      BY <2>4 DEF SendsQuery
    <3> HIDE DEF u, Keeps
    <3> QED BY <2>1, <2>2, <3>1, <3>2, <3>3
  <2>5. CASE DebounceEnds
    BY <1>1, <2>4, <2>5 DEF DebounceEnds
  <2>6. ASSUME NEW f \in {"all", "attention"}, SetFocus(f)
        PROVE  Keeps(page')
    <3> DEFINE p == [page EXCEPT !.query.focus = f]
    <3>1. page.query \in Query /\ [page.query EXCEPT !.focus = f] \in Query
      BY <1>1, PageFields DEF Query
    <3>2. p = [page EXCEPT !.query = [page.query EXCEPT !.focus = f]]
      BY <1>1
    <3>3. p \in PageState /\ Keeps(p)
      BY <1>1, <3>1, <3>2 DEF PageState
    <3>4. SendsQuery(p)
      BY <2>6 DEF SetFocus
    <3> HIDE DEF p, Keeps
    <3> QED BY <2>4, <3>3, <3>4
  <2>7. ASSUME NEW i \in Offered, SetInterval(i)
        PROVE  Keeps(page')
    <3> DEFINE p == [page EXCEPT !.interval = i]
    <3>1. p \in PageState /\ Keeps(p)
      BY <1>1, ControlsAssumption DEF PageState
    <3>2. i \in ValuesOf("interval")
      BY ValueTypes, ControlsAssumption
    <3>3. page' = Issued(p, "interval", i, FALSE, FALSE)
      BY <2>7 DEF SetInterval
    <3> HIDE DEF p, Keeps
    <3> QED BY <2>1, <2>2, <3>1, <3>2, <3>3
  <2>8. CASE TogglePaused
    <3> DEFINE p == [page EXCEPT !.paused = ~page.paused]
    <3>1. page.paused \in BOOLEAN
      BY <1>1, PageFields
    <3>2. p \in PageState /\ Keeps(p)
      BY <1>1, <3>1 DEF PageState
    <3>3. (~page.paused) \in ValuesOf("paused")
      BY <3>1, ValueTypes
    <3>4. page' = Issued(p, "paused", ~page.paused, page.paused, FALSE)
      BY <2>8 DEF TogglePaused
    <3> HIDE DEF p, Keeps
    <3> QED BY <2>1, <2>2, <3>1, <3>2, <3>3, <3>4
  <2> HIDE DEF Keeps
  <2> QED BY <2>3, <2>5, <2>6, <2>7, <2>8
<1>4. (OnTheirWay \cup {answer.snapshot, page.shown})' = OnTheirWay \cup {answer.snapshot, page.shown}
  BY <1>2, <1>3 DEF OnTheirWay
<1> QED BY <1>2, <1>3, <1>4, LeftPrefs

\* The user's choice and the save after hydration: the page had the half it
\* does not change, or that half is slighted.
LEMMA SavedPrefs ==
  ASSUME ControlsInv, PrefsInv, SaveHydrated \/ \E h \in Halves : \E v \in Prefs : Chooses(h, v[h])
  PROVE  PrefsInv'
<1>1. TypeOK /\ page \in PageState /\ page.prefs \in Prefs
  BY PageFields DEF ControlsInv, TypeOK
<1>2. ASSUME NEW p \in PageState, Saves(p), p.hydrated = page.hydrated, p.saveDue => page.hydrated
      PROVE  /\ page'.prefs = p.prefs /\ (page'.saveDue => page'.hydrated)
             /\ Pending' /\ Kept' = p.prefs
  <2>1. store' = p.prefs /\ page' = Issued(p, "prefs", p.prefs, FALSE, FALSE)
    BY <1>2 DEF Saves
  <2>2. p.prefs \in Prefs /\ p.prefs \in ValuesOf("prefs") /\ "prefs" \in Kinds
    BY PageFields, ValueTypes DEF Kinds
  <2>3. Shares(p, page')
    BY <2>1, <2>2, IssuedFacts
  <2>4. Pending' /\ Kept' = p.prefs
    BY <2>1, <2>2, CompletedFacts, ConstantTypes DEF Kept, Pending
  <2> QED BY <1>2, <2>3, <2>4 DEF Shares
<1>3. CASE SaveHydrated
  <2> DEFINE p == [page EXCEPT !.saveDue = FALSE]
  <2>1. p \in PageState /\ p.hydrated = page.hydrated /\ ~p.saveDue /\ p.prefs = page.prefs
    BY <1>1 DEF PageState
  <2>2. Saves(p) /\ page.saveDue /\ UNCHANGED <<chosen, slighted>>
    BY <1>3 DEF SaveHydrated
  <2> HIDE DEF p
  <2>3. page'.prefs = p.prefs /\ (page'.saveDue => page'.hydrated) /\ Pending' /\ Kept' = p.prefs
    BY <1>2, <2>1, <2>2
  <2>4. page.prefs = Kept
    BY <2>2 DEF PrefsInv
  <2>5. PreferencesAreKept'
    BY <2>1, <2>2, <2>3, <2>4 DEF PrefsInv, PreferencesAreKept
  <2> QED BY <2>1, <2>3, <2>5 DEF PrefsInv
<1>4. ASSUME NEW h \in Halves, NEW v \in Prefs, Chooses(h, v[h])
      PROVE  PrefsInv'
  <2> DEFINE w == [page.prefs EXCEPT ![h] = v[h]]
             p == [page EXCEPT !.prefs[h] = v[h]]
  <2>1. w \in Prefs /\ w[h] = v[h] /\ \A g \in Halves : g # h => w[g] = page.prefs[g]
    BY <1>1 DEF Prefs, Halves
  <2>2. p = [page EXCEPT !.prefs = w]
    BY <1>1
  <2>3. p \in PageState /\ p.hydrated = page.hydrated /\ p.saveDue = page.saveDue /\ p.prefs = w
    BY <1>1, <2>1, <2>2 DEF PageState
  <2>4. /\ Saves(p) /\ chosen' = [chosen EXCEPT ![h] = v[h]]
        /\ slighted' = (IF page.hydrated \/ Pending THEN slighted ELSE Halves) \ {h}
    BY <1>4 DEF Chooses
  <2> HIDE DEF p
  <2>5. page'.prefs = p.prefs /\ (page'.saveDue => page'.hydrated) /\ Pending' /\ Kept' = p.prefs
    BY <1>2, <2>3, <2>4 DEF PrefsInv
  <2>6. ASSUME NEW g \in Halves
        PROVE  w[g] = chosen'[g] \/ g \in slighted'
    <3>1. CASE g = h
      BY <1>1, <2>1, <2>4, <3>1 DEF Prefs, Halves, TypeOK
    <3>2. CASE g # h
      <4>1. chosen'[g] = chosen[g] /\ w[g] = page.prefs[g]
        BY <1>1, <2>1, <2>4, <3>2 DEF Prefs, Halves, TypeOK
      <4>2. CASE page.hydrated \/ Pending
        <5>1. page.prefs = Kept /\ (Kept[g] = chosen[g] \/ g \in slighted)
          BY <4>2 DEF PrefsInv, PreferencesAreKept
        <5> QED BY <2>4, <3>2, <4>1, <4>2, <5>1
      <4>3. CASE ~(page.hydrated \/ Pending)
        BY <2>4, <3>2, <4>3
      <4> QED BY <4>2, <4>3
    <3> QED BY <3>1, <3>2
  <2> HIDE DEF w
  <2>7. PreferencesAreKept'
    BY <2>3, <2>5, <2>6 DEF PreferencesAreKept
  <2> QED BY <2>3, <2>5, <2>7 DEF PrefsInv
<1> QED BY <1>3, <1>4

\* The steps of the runtime: with nothing in localStorage there is no change
\* of the preferences on its way.
LEMMA RuntimePrefs ==
  ASSUME ControlsInv, PrefsInv, Send \/ TimeOut \/ Handle \/ HandleFails \/ Stored
  PROVE  PrefsInv'
<1>1. TypeOK /\ SettledInv
  BY DEF ControlsInv
<1>2. UNCHANGED <<page, store, poll, refresh, chosen, slighted>>
  BY DEF Send, TimeOut, Handle, HandleFails, Stored, InRuntime
<1>3. CASE Send \/ TimeOut \/ HandleFails
  <2>1. durable' = durable /\ answer'.snapshot \in {answer.snapshot, Empty}
    BY <1>3, ConstantTypes DEF Send, TimeOut, HandleFails, Replies, NoRead
  <2>2. \A s \in (OnTheirWay \cup {answer.snapshot, page.shown})' :
          s \in OnTheirWay \cup {answer.snapshot, page.shown}
    BY <1>2, <2>1 DEF OnTheirWay
  <2> QED BY <1>2, <2>1, <2>2, LeftPrefs
<1>4. CASE Stored
  <2>1. Pending
    BY <1>1, <1>4 DEF Stored, SettledInv
  <2> QED BY <1>2, <2>1, LeftPrefs
<1>5. CASE Handle
  <2> DEFINE m == Head(channel)
  <2>1. /\ channel # <<>> /\ runtime' = Carried(m) /\ durable' \in {durable, runtime'.prefs}
        /\ answer' = IF Awaited THEN Read(runtime', durable') ELSE answer
    BY <1>5 DEF Handle, Replies
  <2>2. m \in Mutation /\ (m.kind = "prefs" => Has(channel, "prefs"))
    BY <1>1, <2>1, TailQueue DEF TypeOK, Has
  <2> HIDE DEF m
  <2>3. ~Pending => runtime'.prefs = runtime.prefs /\ durable' = durable
    <3>1. runtime'.prefs = IF m.kind = "prefs" THEN m.value ELSE runtime.prefs
      BY <1>1, <2>1, <2>2, CarriedFacts DEF TypeOK
    <3> QED BY <1>1, <2>1, <2>2, <3>1 DEF SettledInv
  <2>4. answer'.snapshot = answer.snapshot \/ answer'.snapshot.prefs = runtime'.prefs
    BY <2>1 DEF Read, Snapshot
  <2>5. ~Pending => \A s \in (OnTheirWay \cup {answer.snapshot, page.shown})' :
                      s \in OnTheirWay \cup {answer.snapshot, page.shown} \/ s.prefs = runtime.prefs
    BY <1>2, <2>3, <2>4 DEF OnTheirWay
  <2> QED BY <1>2, <2>3, <2>5, LeftPrefs
<1> QED BY <1>3, <1>4, <1>5

\* A snapshot is taken in: the first one brings what the next session would go
\* by, and only then may localStorage have been cleared.
LEMMA TakenPrefs ==
  ASSUME ControlsInv, PrefsInv, NEW p \in PageState, NEW next \in SnapshotState,
         p.shown = page.shown, p.hydrated = page.hydrated, p.prefs = page.prefs,
         p.saveDue = page.saveDue,
         page' = p \/ Taken(p, page', next),
         Taken(p, page', next) /\ ~p.hydrated /\ p.native => next.seq > 0,
         ~Pending /\ ~page.hydrated /\ next.seq > 0 => next.prefs = durable,
         UNCHANGED <<durable, chosen, slighted>>, Kept' = Kept, store' = store \/ page'.hydrated,
         poll'.snapshot \in OnTheirWay, refresh'.snapshot \in OnTheirWay,
         answer'.snapshot \in {Empty, answer.snapshot}
  PROVE  PrefsInv'
<1>1. TypeOK /\ store \in Stores /\ p.hydrated \in BOOLEAN /\ p.native \in BOOLEAN
  BY PageFields DEF ControlsInv, TypeOK
<1>2. PreferencesAreKept'
  BY DEF PrefsInv, PreferencesAreKept
<1>3. \A s \in (OnTheirWay \cup {answer.snapshot})' : s \in OnTheirWay \cup {answer.snapshot}
  BY DEF OnTheirWay
<1>4. CASE page' = p
  <2>1. Pending' => Pending \/ page.hydrated
    BY <1>4 DEF Pending
  <2>2. ~Pending' => ~Pending \/ page.hydrated
    BY <1>4 DEF Pending
  <2> QED BY <1>2, <1>3, <1>4, <2>1, <2>2 DEF PrefsInv
<1>5. CASE Taken(p, page', next) /\ (p.hydrated \/ ~p.native)
  <2>1. /\ page'.prefs = page.prefs /\ page'.saveDue = page.saveDue /\ page'.hydrated = page.hydrated
        /\ page'.shown = next
    BY <1>1, <1>5 DEF Taken
  <2>2. (Pending' <=> Pending) \/ page.hydrated
    BY <2>1 DEF Pending
  <2> QED BY <1>2, <1>3, <2>1, <2>2 DEF PrefsInv
<1>6. CASE Taken(p, page', next) /\ ~p.hydrated /\ p.native
  <2>1. page'.prefs = Adopted(p, next) /\ page'.hydrated = TRUE /\ next.seq > 0
    BY <1>1, <1>6 DEF Taken
  <2>2. Adopted(p, next) = Kept
    <3>1. CASE Pending
      <4>1. page.prefs = Completed(store, DefaultPrefs)
        BY <3>1 DEF PrefsInv, Kept
      <4> QED BY <1>1, <3>1, <4>1, CompletedFacts, ConstantTypes DEF Adopted, Kept
    <3>2. CASE ~Pending
      <4>1. page.prefs = DefaultPrefs /\ next.prefs = durable
        BY <1>6, <2>1, <3>2 DEF PrefsInv
      <4> QED BY <3>2, <4>1 DEF Adopted, Kept
    <3> QED BY <3>1, <3>2
  <2> QED BY <1>2, <2>1, <2>2 DEF PrefsInv
<1> QED BY <1>1, <1>4, <1>5, <1>6

LEMMA ReadPrefs ==
  ASSUME ControlsInv, PrefsInv, PollEnds \/ RefreshEnds
  PROVE  PrefsInv'
<1>1. TypeOK /\ NativeInv /\ page \in PageState /\ poll \in Call /\ refresh \in Call
  BY DEF ControlsInv, TypeOK
<1>2. UNCHANGED <<durable, store, answer, chosen, slighted>>
  BY DEF PollEnds, RefreshEnds
<1>3. Kept' = Kept
  BY <1>2 DEF Kept, Pending
<1>4. poll'.snapshot \in OnTheirWay /\ refresh'.snapshot \in OnTheirWay
  BY DEF PollEnds, RefreshEnds, NoRead, OnTheirWay
<1>5. \E p \in PageState, next \in {poll.snapshot, refresh.snapshot}, attend, healthy \in BOOLEAN :
        /\ p.shown = page.shown /\ p.hydrated = page.hydrated /\ p.prefs = page.prefs
        /\ p.saveDue = page.saveDue /\ page' = Ingested(p, next, attend, healthy)
        /\ p.native => page.shown.seq > 0 \/ next.seq > 0
  <2>1. CASE PollEnds
    BY <1>1, <2>1 DEF PollEnds, NativeInv
  <2>2. CASE RefreshEnds
    <3> DEFINE p == [page EXCEPT !.native = TRUE]
    <3>1. /\ p \in PageState /\ p.shown = page.shown /\ p.hydrated = page.hydrated
          /\ p.prefs = page.prefs /\ p.saveDue = page.saveDue
      BY <1>1 DEF PageState
    <3>2. \E attend, healthy \in BOOLEAN : page' = Ingested(p, refresh.snapshot, attend, healthy)
      BY <2>2 DEF RefreshEnds, Applied
    <3>3. refresh.snapshot.seq > 0
      BY <1>1, <2>2 DEF RefreshEnds, NativeInv
    <3> HIDE DEF p
    <3> QED BY <3>1, <3>2, <3>3
  <2> QED BY <2>1, <2>2
<1>6. PICK p \in PageState, next \in {poll.snapshot, refresh.snapshot}, attend, healthy \in BOOLEAN :
        /\ p.shown = page.shown /\ p.hydrated = page.hydrated /\ p.prefs = page.prefs
        /\ p.saveDue = page.saveDue /\ page' = Ingested(p, next, attend, healthy)
        /\ p.native => page.shown.seq > 0 \/ next.seq > 0
  BY <1>5
<1>7. next \in SnapshotState /\ next \in OnTheirWay /\ next.seq \in Nat /\ page.shown.seq \in Nat
  BY <1>1, PageFields DEF OnTheirWay, Call, SnapshotState
<1>8. /\ next.seq >= p.shown.seq => Taken(p, page', next)
      /\ ~(next.seq >= p.shown.seq) => page' = p
  BY <1>1, <1>6, <1>7, IngestedFacts DEF TypeOK
<1>9. ~Pending /\ ~page.hydrated /\ next.seq > 0 => next.prefs = durable
  BY <1>7 DEF PrefsInv
<1>10. CASE next.seq >= page.shown.seq
  <2>1. p.native => next.seq > 0
    BY <1>6, <1>7, <1>10
  <2> QED BY <1>2, <1>3, <1>4, <1>6, <1>7, <1>8, <1>9, <1>10, <2>1, TakenPrefs
<1>11. CASE ~(next.seq >= page.shown.seq)
  <2>1. page' = p
    BY <1>6, <1>8, <1>11
  <2>2. ~Taken(p, page', next)
    <3>1. page'.shown = page.shown
      BY <1>6, <2>1
    <3> QED BY <1>7, <1>11, <3>1 DEF Taken
  <2> QED BY <1>2, <1>3, <1>4, <1>6, <1>7, <1>9, <2>1, <2>2, TakenPrefs
<1> QED BY <1>10, <1>11

LEMMA AnsweredPrefs ==
  ASSUME ControlsInv, PrefsInv, Answered
  PROVE  PrefsInv'
<1>1. TypeOK /\ CallInv /\ EchoInv(page) /\ SettledInv /\ page \in PageState
  BY DEF ControlsInv, TypeOK
<1> DEFINE m == Head(page.queue)
           rest == [page EXCEPT !.queue = Tail(page.queue)]
           next == answer.snapshot
<1>2. /\ UNCHANGED <<durable, poll, refresh, chosen, slighted>>
      /\ answer.state \in {"read", "failed"} /\ answer' = NoRead
  BY DEF Answered, Settles
<1>3. page.queue # <<>> /\ page.queue \in Seq(Mutation)
  BY <1>1, <1>2, PageFields DEF CallInv
<1>4. Tail(page.queue) \in Seq(Mutation) /\ m \in Mutation
  BY <1>3, TailQueue
<1>5. \A s \in OnTheirWay' \cup {answer'.snapshot} : s \in OnTheirWay
  BY <1>2 DEF OnTheirWay, NoRead
<1>6. CASE answer.state = "failed" /\ Settles(Failed(rest, m)) /\ UNCHANGED <<store, doubt, changes>>
  <2>1. rest \in PageState /\ page' = Failed(rest, m)
    BY <1>1, <1>4, <1>6 DEF Settles, PageState
  <2>2. /\ rest.prefs = page.prefs /\ rest.hydrated = page.hydrated /\ rest.saveDue = page.saveDue
        /\ rest.shown = page.shown
    BY <1>1 DEF PageState
  <2> HIDE DEF rest, m
  <2>3. Shares(rest, page')
    BY <1>4, <2>1, FailedFacts
  <2>4. /\ page'.prefs = page.prefs /\ page'.hydrated = page.hydrated
        /\ page'.saveDue = page.saveDue /\ page'.shown = page.shown
    BY <2>2, <2>3 DEF Shares
  <2> QED BY <1>2, <1>5, <1>6, <2>4, LeftPrefs
<1>7. CASE /\ answer.state = "read"
           /\ \E attend, healthy \in BOOLEAN :
                Busy(attend) /\ Settles(Accepts(rest, m, next, attend, healthy))
           /\ store' = IF m.kind = "prefs" /\ Clears(m, next) THEN NoPrefs ELSE store
           /\ Doubts(Overtakes)
  <2>1. PICK attend \in BOOLEAN, healthy \in BOOLEAN : page' = Accepts(rest, m, next, attend, healthy)
    BY <1>7 DEF Settles
  <2>a. m = Head(page.queue) /\ page' = Accepts([page EXCEPT !.queue = Tail(page.queue)], m, next, attend, healthy)
    BY <2>1
  <2>2. next.seq = runtime.seq /\ next.prefs = runtime.prefs /\ (next.durable => durable = runtime.prefs)
        /\ runtime.seq > 0
    BY <1>1, <1>7 DEF CallInv, EchoInv
  <2> HIDE DEF m
  <2>3. CASE ~m.latest /\ m.kind # "paused"
    <3>1. /\ page'.prefs = page.prefs /\ page'.hydrated = page.hydrated
          /\ page'.saveDue = page.saveDue /\ page'.shown = page.shown
      BY <1>7, <2>3, <2>a, AcceptsFacts
    <3>2. store' = store
      BY <1>7, <2>3 DEF Clears
    <3> QED BY <1>2, <1>5, <3>1, <3>2, LeftPrefs
  <2>4. CASE m.latest \/ m.kind = "paused"
    <3>0. PICK p \in PageState : TakesIn(p, m)
      BY <1>7, <2>4, <2>a, AcceptsFacts
    <3>1. /\ p.queue = Tail(page.queue) /\ p.shown = page.shown /\ p.hydrated = page.hydrated
          /\ p.native = TRUE /\ p.debounce = page.debounce
          /\ p.accepted = page.accepted \/ Heard(page, p, answer.snapshot)
          /\ p.query = IF m.kind = "query" /\ m.auto
                       THEN [page.query EXCEPT !.focus = m.value.focus] ELSE page.query
          /\ p.prefs = page.prefs /\ p.saveDue = page.saveDue
          /\ Taken(p, page', answer.snapshot)
      BY <3>0 DEF TakesIn
    <3>2. page'.hydrated = TRUE /\ next \in SnapshotState
      BY <1>1, <3>1 DEF Taken, TypeOK, Call
    <3>3. ~Pending => next.prefs = durable
      BY <1>1, <2>2 DEF SettledInv
    <3>4. Kept' = Kept
      <4>1. CASE store' = store
        BY <1>2, <4>1 DEF Kept, Pending
      <4>2. CASE m.kind = "prefs" /\ Clears(m, next) /\ store' = NoPrefs
        <5>1. m.value \in Prefs
          BY <1>4, <4>2, MutationFields, ValueTypes DEF m
        <5>2. store = m.value /\ durable = m.value
          BY <2>2, <4>2 DEF Clears
        <5>3. Kept = m.value /\ Kept' = m.value
          BY <1>2, <4>2, <5>1, <5>2, CompletedFacts, ConstantTypes DEF Kept, Pending
        <5> QED BY <5>3
      <4> QED BY <1>7, <4>1, <4>2
    <3>5. /\ poll'.snapshot \in OnTheirWay /\ refresh'.snapshot \in OnTheirWay
          /\ answer'.snapshot = Empty
      BY <1>2 DEF OnTheirWay, NoRead
    <3> QED BY <1>2, <2>2, <3>1, <3>2, <3>3, <3>4, <3>5, TakenPrefs
  <2> QED BY <2>3, <2>4
<1> QED BY <1>6, <1>7 DEF Answered

LEMMA NextPrefsInv == ControlsInv /\ PrefsInv /\ [Next]_vars => PrefsInv'
<1> SUFFICES ASSUME ControlsInv, PrefsInv, [Next]_vars
             PROVE  PrefsInv'
  OBVIOUS
<1>1. CASE User
  <2>1. CASE (\E t \in Themes : SetTheme(t)) \/ \E l \in Lengths : SetHistoryPointLimit(l)
    BY <2>1, ChoiceFacts, SavedPrefs
  <2> QED BY <1>1, <2>1, ControlPrefs DEF User
<1>2. CASE DebounceEnds
  BY <1>2, ControlPrefs
<1>3. CASE SaveHydrated
  BY <1>3, SavedPrefs
<1>4. CASE Send \/ TimeOut \/ Handle \/ HandleFails \/ Stored
  BY <1>4, RuntimePrefs
<1>5. CASE Answered
  BY <1>5, AnsweredPrefs
<1>6. CASE RefreshReads \/ TimerFires \/ PollReads \/ Visibility \/ Watchdog \/ UNCHANGED vars
  BY <1>6, ReadingPrefs
<1>7. CASE RefreshEnds \/ PollEnds
  BY <1>7, ReadPrefs
<1>8. CASE Restart
  BY <1>8, RestartPrefs DEF ControlsInv
<1> QED BY <1>1, <1>2, <1>3, <1>4, <1>5, <1>6, <1>7, <1>8 DEF Next

-----------------------------------------------------------------------------
(* The theorems                                                             *)

\* In every state the page, the queue, the channel, the snapshots on their way,
\* localStorage and the settings file are related as ControlsInv and PrefsInv
\* say.
THEOREM ControlsInvariance == Spec => [](ControlsInv /\ PrefsInv)
<1>1. Init => ControlsInv /\ PrefsInv
  BY InitControlsInv, InitPrefsInv
<1>2. ControlsInv /\ PrefsInv /\ [Next]_vars => (ControlsInv /\ PrefsInv)'
  BY NextControlsInv, NextPrefsInv
<1> QED BY <1>1, <1>2, PTL DEF Spec

\* With nothing on its way a control shows what the runtime goes by, whatever
\* settings it started from and whatever order answers, polls and refreshes come
\* back in (ingest, AcceptedRuntimeControls, RuntimeMutationQueue), but for a
\* control in doubt and a cadence that the page does not offer.
THEOREM ControlsShowTheRuntime == Spec => []ControlsAgree
<1>1. ControlsInv => ControlsAgree
  <2> SUFFICES ASSUME ControlsInv, page.hydrated, NEW k \in Controls, ~Outstanding(k), k \notin doubt
               PROVE  Shows(k)
    BY DEF ControlsAgree
  <2>1. ~Has(page.queue, k) /\ (k = "query" => ~page.debounce)
    BY DEF Outstanding, Has
  <2>2. /\ IntervalInv(page, doubt) /\ PausedInv(page, doubt) /\ QueryInv(page, doubt)
        /\ page.shown.seq > 0
    BY DEF ControlsInv, NativeInv
  <2>3. CASE k = "query"
    <3>1. page.query = runtime.query
      BY <2>1, <2>2, <2>3 DEF QueryInv
    <3> QED BY <2>3, <3>1 DEF Shows
  <2>4. CASE k = "interval"
    <3>1. runtime.interval \in Offered => page.interval = runtime.interval
      BY <2>1, <2>2, <2>4 DEF IntervalInv
    <3> QED BY <2>4, <3>1 DEF Shows
  <2>5. CASE k = "paused"
    <3>1. page.paused = runtime.paused
      BY <2>1, <2>2, <2>5 DEF PausedInv
    <3> QED BY <2>5, <3>1 DEF Shows
  <2> QED BY <2>3, <2>4, <2>5 DEF Controls
<1> QED BY <1>1, ControlsInvariance, PTL

\* localStorage or the settings file has the theme and the history length the
\* user chose last, wherever the application is killed
\* (clearMigratedUiPreferences, hydrateRuntimeControls), but for a half that
\* was saved unseen with a choice of the other (persistUiPreferences).
THEOREM PreferencesSurvive == Spec => []PreferencesAreKept
<1>1. PrefsInv => PreferencesAreKept
  BY DEF PrefsInv
<1> QED BY <1>1, ControlsInvariance, PTL
=============================================================================
