---------------------------- MODULE RuntimeEngine ----------------------------
(***************************************************************************)
(* The sampling engine of runtime_store.rs: the thread that owns the       *)
(* runtime store, the callers of RuntimeState, and the collector as this   *)
(* thread meets it (CollectorEngine has the collector in full).            *)
(*                                                                         *)
(* The engine applies what the collector publishes: told by a notification *)
(* in the control channel, or on its own every 100 ms, or because it asked *)
(* for it.  Its refresh gate is a second one, not the collector's: a       *)
(* generation that fails counts as started, results are kept for good and  *)
(* a completed generation is looked for before a closed gate.  Its         *)
(* waiting_callers is counted and never read; the model leaves it out.     *)
(***************************************************************************)
EXTENDS Naturals, Sequences, FiniteSets

CONSTANTS Callers,          \* threads that call RuntimeState
          Nobody,           \* no caller awaits the reply
          Controls,         \* the control messages callers send
          Capacity,         \* CONTROL_QUEUE_CAPACITY of the engine's channel
          MaxCalls,         \* bound of the model: calls made
          MaxTicks,         \* bound of the model: deadlines of the collector
          MaxFailures       \* bound of the model: calls on the collector that fail

ASSUME RuntimeAssumption ==
  /\ Nobody \notin Callers
  /\ Controls \subseteq {"Pause", "Resume", "SetSampleInterval", "SetQuery"}
  /\ Capacity \in Nat \ {0}
  /\ MaxCalls \in Nat /\ MaxTicks \in Nat /\ MaxFailures \in Nat

VARIABLES
  requested, started, completed,     \* RefreshGateState: the generations
  wake, failed, terminal,            \* wake_queued, failed_generation (0: none), terminal_error
  measurement,                       \* completed_measurement: the collection, 0: none
  sleeping,                          \* callers asleep on the condition variable
  control,                           \* the engine's control channel
  shutdown,                          \* how far shutdown() has got
  engine, job,                       \* the engine thread and the message it handles
  store,                             \* settings.paused, engine_state, collections applied
  last,                              \* last_collector_revision
  published,                         \* the snapshot readers see
  queued,                            \* collector_notification_queued
  publication,                       \* the collector's last publication
  inbox,                             \* the collector's control channel
  collector, serving, pausedThere,   \* its thread, the message it serves, its pause flag
  answer,                            \* the answer the engine waits for
  begun,                             \* history: collections begun
  failures,                          \* history: calls on the collector that failed
  call, target,                      \* the callers
  asked,                             \* history: collections begun when they asked
  calls, ticks                       \* bound of the model

gateVars == <<requested, started, completed, wake, failed, terminal, measurement>>
storeVars == <<store, last, published>>
collectorVars == <<publication, inbox, collector, serving, pausedThere, begun>>
callVars == <<call, target, asked>>
bounds == <<calls, ticks>>
vars == <<gateVars, sleeping, control, shutdown, engine, job, storeVars, queued,
          collectorVars, answer, failures, callVars, bounds>>

Message == [kind : {"CollectorPublished", "Refresh", "Pause", "Resume", "SetSampleInterval",
                    "SetQuery", "Shutdown"},
            from : Callers \cup {Nobody}]
NoJob == [kind |-> "none", from |-> Nobody, gen |-> 0]
Event == {"none", "sample", "unavailable", "fatal", "heartbeat"}
Publication == [revision : Nat, collection : Nat, event : Event]
NoPublication == [revision |-> 0, collection |-> 0, event |-> "none"]
NoAnswer == [kind |-> "none", publication |-> NoPublication]
Request == [kind : {"Refresh", "Pause", "Resume", "SetInterval"}, awaited : BOOLEAN]
Deadline == [kind |-> "deadline", awaited |-> FALSE]

GateType ==
  /\ requested \in Nat /\ started \in Nat /\ completed \in Nat /\ failed \in Nat /\ measurement \in Nat
  /\ wake \in BOOLEAN /\ terminal \in BOOLEAN
  /\ sleeping \subseteq Callers
StoreType == [paused : BOOLEAN, state : {"starting", "running", "paused", "fatal"}, samples : Nat]
EngineType ==
  /\ control \in Seq(Message)
  /\ shutdown \in {"idle", "flagged", "terminated", "sent"}
  /\ engine \in {"top", "recv", "latest", "calling", "complete", "failGate", "terminate", "cleanup",
                 "cleanupFatal", "fatal", "done"}
  /\ job \in [kind : {"none", "Refresh", "Pause", "Resume", "SetSampleInterval"},
              from : Callers \cup {Nobody}, gen : Nat]
  /\ store \in StoreType /\ published \in StoreType
  /\ last \in Nat /\ queued \in BOOLEAN
  /\ answer \in [kind : {"none", "ok", "error"}, publication : Publication]
CollectorType ==
  /\ publication \in Publication
  /\ inbox \in Seq(Request)
  /\ collector \in {"idle", "collecting", "swap", "send", "clear", "stopped"}
  /\ serving \in Request \cup {Deadline}
  /\ pausedThere \in BOOLEAN
  /\ begun \in Nat /\ failures \in Nat
CallerType ==
  /\ call \in [Callers -> {"idle", "gate", "send", "failing", "wait", "control", "reply"}]
  /\ target \in [Callers -> Nat] /\ asked \in [Callers -> Nat]
  /\ calls \in Nat /\ ticks \in Nat
TypeOK == GateType /\ EngineType /\ CollectorType /\ CallerType

Init ==
  /\ requested = 0 /\ started = 0 /\ completed = 0 /\ wake = FALSE /\ failed = 0 /\ terminal = FALSE
  /\ measurement = 0 /\ sleeping = {} /\ control = <<>> /\ shutdown = "idle"
  /\ engine = "top" /\ job = NoJob
  /\ \E paused \in BOOLEAN :
       /\ store = [paused |-> paused, state |-> IF paused THEN "paused" ELSE "starting", samples |-> 0]
       /\ pausedThere = paused
  /\ last = 0 /\ published = store
  /\ queued = FALSE /\ publication = NoPublication /\ inbox = <<>>
  /\ collector = "idle" /\ serving = Deadline /\ answer = NoAnswer /\ begun = 0 /\ failures = 0
  /\ call = [c \in Callers |-> "idle"]
  /\ target = [c \in Callers |-> 0] /\ asked = [c \in Callers |-> 0]
  /\ calls = 0 /\ ticks = 0

-----------------------------------------------------------------------------
(* A caller of RuntimeState                                                 *)

Step(c, pc) == call' = [call EXCEPT ![c] = pc]
NotifyAll == sleeping' = {}
Accepts == Len(control) < Capacity /\ engine # "done"
Send(kind, c) == control' = Append(control, [kind |-> kind, from |-> c])

\* A call returns; what it asked for is forgotten.
Return(c) == /\ Step(c, "idle")
             /\ target' = [target EXCEPT ![c] = 0] /\ asked' = [asked EXCEPT ![c] = 0]

engineVars == <<engine, job, storeVars, queued, collectorVars, answer, failures>>

\* refresh_now or a control request; one that finds shutdown_started set
\* returns an error and changes nothing.
Begin(c, pc) ==
  /\ call[c] = "idle" /\ calls < MaxCalls /\ shutdown = "idle"
  /\ Step(c, pc) /\ calls' = calls + 1
  /\ UNCHANGED <<gateVars, sleeping, control, shutdown, engineVars, target, asked, ticks>>

RequestUnderWay(c) ==
  /\ call[c] = "gate"
  /\ IF terminal
     THEN Return(c) /\ UNCHANGED <<requested, wake, failed>>
     ELSE /\ requested' = IF requested = completed THEN requested + 1 ELSE requested
          /\ target' = [target EXCEPT ![c] = requested']
          /\ asked' = [asked EXCEPT ![c] = begun]
          /\ Step(c, IF wake THEN "wait" ELSE "send")
          /\ failed' = IF wake THEN failed ELSE 0
          /\ wake' = TRUE
  /\ UNCHANGED <<started, completed, terminal, measurement, sleeping, control, shutdown,
                 engineVars, bounds>>

\* refresh_now_measured under the gate's lock
RequestRefresh(c) ==
  /\ call[c] = "gate"
  /\ IF terminal
     THEN Return(c) /\ UNCHANGED <<requested, wake, failed>>
     ELSE /\ requested' = IF requested = started THEN requested + 1 ELSE requested
          /\ target' = [target EXCEPT ![c] = requested']
          /\ asked' = [asked EXCEPT ![c] = begun]
          /\ Step(c, IF wake THEN "wait" ELSE "send")
          /\ failed' = IF wake THEN failed ELSE 0
          /\ wake' = TRUE
  /\ UNCHANGED <<started, completed, terminal, measurement, sleeping, control, shutdown,
                 engineVars, bounds>>

SendRefresh(c) ==
  /\ call[c] = "send"
  /\ IF Accepts THEN Send("Refresh", Nobody) /\ Step(c, "wait")
                ELSE UNCHANGED control /\ Step(c, "failing")
  /\ UNCHANGED <<gateVars, sleeping, shutdown, engineVars, target, asked, bounds>>

Larger(m, n) == IF m > n THEN m ELSE n

\* fail_refresh_generation: the generation counts as started, so that a wake
\* still queued for it does not begin it again.
FailGeneration(gen) ==
  /\ wake' = FALSE /\ started' = Larger(started, gen) /\ failed' = gen
  /\ NotifyAll
  /\ UNCHANGED <<requested, completed, terminal, measurement>>

\* The channel was full or closed: the caller fails its generation itself.
FailRefresh(c) ==
  /\ call[c] = "failing"
  /\ FailGeneration(target[c])
  /\ Return(c)
  /\ UNCHANGED <<control, shutdown, engineVars, bounds>>

\* wait_for_refresh_generation looks at the gate: completed, closed, failed.
Wait(c) ==
  /\ call[c] = "wait" /\ c \notin sleeping
  /\ IF completed >= target[c] \/ terminal \/ (failed # 0 /\ failed >= target[c])
     THEN Return(c) /\ UNCHANGED sleeping
     ELSE sleeping' = sleeping \cup {c} /\ UNCHANGED callVars
  /\ UNCHANGED <<gateVars, control, shutdown, engineVars, bounds>>

WaitTimeout(c) ==
  /\ call[c] = "wait" /\ c \in sleeping
  /\ sleeping' = sleeping \ {c}
  /\ Return(c)
  /\ UNCHANGED <<gateVars, control, shutdown, engineVars, bounds>>

SpuriousWakeup(c) ==
  /\ c \in sleeping
  /\ sleeping' = sleeping \ {c}
  /\ UNCHANGED <<gateVars, control, shutdown, engineVars, callVars, bounds>>

\* request_snapshot
SendControl(c, kind) ==
  /\ call[c] = "control"
  /\ IF Accepts THEN Send(kind, c) /\ Step(c, "reply")
                ELSE UNCHANGED control /\ Step(c, "idle")
  /\ UNCHANGED <<gateVars, sleeping, shutdown, engineVars, target, asked, bounds>>

\* receive_snapshot gives up; the message stays where it is.
Deaf(m, c) == IF m.from = c THEN [m EXCEPT !.from = Nobody] ELSE m
ReplyTimeout(c) ==
  /\ call[c] = "reply"
  /\ Step(c, "idle")
  /\ control' = [i \in 1..Len(control) |-> Deaf(control[i], c)]
  /\ job' = Deaf(job, c)
  /\ UNCHANGED <<gateVars, sleeping, shutdown, engine, storeVars, queued, collectorVars,
                 answer, failures, target, asked, bounds>>

-----------------------------------------------------------------------------
(* The collector, as the engine meets it.  It serves its channel in order,  *)
(* answers Pause at once, collects for Refresh and Resume and on its        *)
(* deadline, publishes, and then calls notify.                              *)

callerVars == <<gateVars, sleeping, shutdown, callVars>>

Serve ==
  /\ collector = "idle" /\ inbox # <<>>
  /\ serving' = Head(inbox) /\ inbox' = Tail(inbox)
  /\ pausedThere' = CASE Head(inbox).kind = "Pause" -> TRUE
                      [] Head(inbox).kind = "Resume" -> FALSE
                      [] OTHER -> pausedThere
  /\ IF Head(inbox).kind \in {"Refresh", "Resume"}
     THEN collector' = "collecting" /\ begun' = begun + 1 /\ UNCHANGED answer
     ELSE /\ answer' = IF Head(inbox).awaited THEN [NoAnswer EXCEPT !.kind = "ok"] ELSE answer
          /\ UNCHANGED <<collector, begun>>
  /\ UNCHANGED <<callerVars, control, engine, job, storeVars, queued, publication, failures, bounds>>

Tick ==
  /\ collector = "idle" /\ ticks < MaxTicks
  /\ ticks' = ticks + 1
  /\ serving' = Deadline
  /\ IF pausedThere
     THEN /\ publication' = [publication EXCEPT !.revision = @ + 1, !.event = "heartbeat"]
          /\ collector' = "swap" /\ UNCHANGED begun
     ELSE collector' = "collecting" /\ begun' = begun + 1 /\ UNCHANGED publication
  /\ UNCHANGED <<callerVars, control, engine, job, storeVars, queued, inbox, pausedThere, answer,
                 failures, calls>>

Publish(event) ==
  /\ collector = "collecting"
  /\ publication' = [revision |-> publication.revision + 1, collection |-> begun, event |-> event]
  /\ collector' = "swap"
  /\ UNCHANGED <<callerVars, control, engine, job, storeVars, queued, inbox, serving, pausedThere,
                 begun, answer, failures, bounds>>

\* After notify the one who asked has the answer; after a fatal event the
\* collector only tells its callers so.
Notified ==
  LET fatal == publication.event = "fatal"
  IN /\ collector' = IF fatal THEN "stopped" ELSE "idle"
     /\ serving' = Deadline
     /\ answer' = IF fatal /\ engine = "calling" /\ answer = NoAnswer
                  THEN [NoAnswer EXCEPT !.kind = "error"]
                  ELSE IF serving.awaited THEN [kind |-> "ok", publication |-> publication]
                  ELSE answer

\* notify: the flag, then the message; the flag is put back if that fails.
NotifySwap ==
  /\ collector = "swap"
  /\ IF queued THEN Notified /\ UNCHANGED queued
               ELSE queued' = TRUE /\ collector' = "send" /\ UNCHANGED <<serving, answer>>
  /\ UNCHANGED <<callerVars, control, engine, job, storeVars, publication, inbox, pausedThere, begun,
                 failures, bounds>>

NotifySend ==
  /\ collector = "send"
  /\ IF Accepts THEN Send("CollectorPublished", Nobody) /\ Notified
                ELSE collector' = "clear" /\ UNCHANGED <<control, serving, answer>>
  /\ UNCHANGED <<callerVars, engine, job, storeVars, queued, publication, inbox, pausedThere, begun,
                 failures, bounds>>

NotifyClear ==
  /\ collector = "clear"
  /\ queued' = FALSE /\ Notified
  /\ UNCHANGED <<callerVars, control, engine, job, storeVars, publication, inbox, pausedThere, begun,
                 failures, bounds>>

\* A call of the engine's comes to nothing: the collector's channel is full,
\* or the answer does not come in time, and the message is served later all
\* the same.
Unawaited(m) == [m EXCEPT !.awaited = FALSE]
CallFails ==
  /\ engine = "calling" /\ answer = NoAnswer /\ failures < MaxFailures
  /\ failures' = failures + 1
  /\ answer' = [NoAnswer EXCEPT !.kind = "error"]
  /\ \/ inbox' = [i \in 1..Len(inbox) |-> Unawaited(inbox[i])] /\ serving' = Unawaited(serving)
     \/ inbox # <<>> /\ inbox[Len(inbox)].awaited
        /\ inbox' = SubSeq(inbox, 1, Len(inbox) - 1) /\ UNCHANGED serving
  /\ UNCHANGED <<callerVars, control, engine, job, storeVars, queued, publication, collector,
                 pausedThere, begun, bounds>>

-----------------------------------------------------------------------------
(* The engine thread                                                        *)

outside == <<shutdown, target, asked, bounds>>
Answer(c) == IF c = Nobody THEN UNCHANGED call ELSE Step(c, "idle")

\* apply_collector_publication: what a publication does to the store.  A
\* fatal one ends the engine.
Applied(st, pub) ==
  LET awake == pub.event # "heartbeat" /\ ~st.paused
  IN [st EXCEPT !.state = IF pub.event = "fatal" THEN "fatal" ELSE IF awake THEN "running" ELSE @,
                !.samples = IF pub.event = "sample" THEN @ + 1 ELSE @]
Apply(st, pub) == store' = Applied(st, pub) /\ published' = store' /\ last' = pub.revision
IsNew(pub) == pub.revision > last

Top ==
  /\ engine = "top"
  /\ engine' = IF shutdown # "idle" THEN "cleanup" ELSE "recv"
  /\ UNCHANGED <<gateVars, sleeping, control, job, storeVars, queued, collectorVars, answer, failures,
                 call, outside>>

RecvTimeoutIdle ==
  /\ engine = "recv" /\ control = <<>>
  /\ engine' = "top"
  /\ UNCHANGED <<gateVars, sleeping, control, job, storeVars, queued, collectorVars, answer, failures,
                 call, outside>>

\* 100 ms without a message
RecvTimeout ==
  /\ engine = "recv" /\ control = <<>>
  /\ engine' = "latest"
  /\ UNCHANGED <<gateVars, sleeping, control, job, storeVars, queued, collectorVars, answer, failures,
                 call, outside>>

Receive(kind) ==
  /\ engine = "recv" /\ control # <<>> /\ Head(control).kind = kind
  /\ control' = Tail(control)
  /\ UNCHANGED <<failures, outside>>

RecvPublished ==
  /\ Receive("CollectorPublished")
  /\ queued' = FALSE
  /\ engine' = "latest"
  /\ UNCHANGED <<gateVars, sleeping, job, storeVars, collectorVars, answer, call>>

\* apply_latest_collector_publication; after a refresh that failed the
\* generation is failed next.
ApplyLatest ==
  /\ engine = "latest"
  /\ IF IsNew(publication) THEN Apply(store, publication) ELSE UNCHANGED storeVars
  /\ engine' = IF IsNew(publication) /\ publication.event = "fatal" THEN "terminate"
               ELSE IF job.kind = "Refresh" THEN "failGate" ELSE "top"
  /\ job' = IF engine' = "failGate" THEN job ELSE NoJob
  /\ UNCHANGED <<gateVars, sleeping, control, queued, collectorVars, answer, failures, call, outside>>

CallCollectorUnderWay(kind, from, gen) ==
  /\ engine' = "calling" /\ answer' = NoAnswer
  /\ job' = [kind |-> kind, from |-> from, gen |-> gen]
  /\ LET request == [kind |-> IF kind = "SetSampleInterval" THEN "SetInterval" ELSE kind,
                     awaited |-> TRUE]
     IN IF kind = "Refresh" /\ collector # "idle"
        THEN serving' = request /\ UNCHANGED inbox
        ELSE inbox' = Append(inbox, request) /\ UNCHANGED serving
  /\ UNCHANGED <<publication, collector, pausedThere, begun>>

\* A call on the collector: the message goes into its channel.  A refresh
\* shares a wake that is still there.
CallCollector(kind, from, gen) ==
  /\ engine' = "calling" /\ answer' = NoAnswer
  /\ job' = [kind |-> kind, from |-> from, gen |-> gen]
  /\ LET request == [kind |-> IF kind = "SetSampleInterval" THEN "SetInterval" ELSE kind,
                     awaited |-> TRUE]
         waiting == {i \in 1..Len(inbox) : inbox[i].kind = "Refresh"}
     IN inbox' = IF kind = "Refresh" /\ waiting # {}
                 THEN [i \in 1..Len(inbox) |-> IF i \in waiting THEN request ELSE inbox[i]]
                 ELSE Append(inbox, request)
  /\ UNCHANGED <<publication, collector, serving, pausedThere, begun>>

\* begin_refresh_generation, and collector.refresh_now()
RecvRefresh ==
  /\ Receive("Refresh")
  /\ wake' = FALSE
  /\ IF requested <= started
     THEN engine' = "top" /\ UNCHANGED <<started, job, collectorVars, answer>>
     ELSE started' = requested /\ CallCollector("Refresh", Nobody, requested)
  /\ UNCHANGED <<requested, completed, failed, terminal, measurement, sleeping, storeVars, queued, call>>

RecvPause ==
  /\ Receive("Pause")
  /\ CallCollector("Pause", Head(control).from, 0)
  /\ UNCHANGED <<gateVars, sleeping, storeVars, queued, call>>

RecvResume ==
  /\ Receive("Resume")
  /\ store' = [store EXCEPT !.paused = FALSE, !.state = "running"]
  /\ CallCollector("Resume", Head(control).from, 0)
  /\ UNCHANGED <<gateVars, sleeping, last, published, queued, call>>

\* set_query and set_ui_preferences, or an interval that is the same
RecvSet ==
  /\ \/ Receive("SetQuery") \/ Receive("SetSampleInterval")
  /\ published' = store
  /\ engine' = "top"
  /\ Answer(Head(control).from)
  /\ UNCHANGED <<gateVars, sleeping, job, store, last, queued, collectorVars, answer>>

RecvSetInterval ==
  /\ Receive("SetSampleInterval")
  /\ CallCollector("SetSampleInterval", Head(control).from, 0)
  /\ UNCHANGED <<gateVars, sleeping, storeVars, queued, call>>

RecvShutdown ==
  /\ Receive("Shutdown")
  /\ engine' = "cleanup"
  /\ UNCHANGED <<gateVars, sleeping, job, storeVars, queued, collectorVars, answer, call>>

Called(kind) ==
  /\ engine = "calling" /\ job.kind = kind /\ answer # NoAnswer
  /\ UNCHANGED <<gateVars, sleeping, control, queued, collectorVars, failures, outside>>

\* A collector that has stopped answers every call with an error.
Refused ==
  /\ engine = "calling" /\ answer = NoAnswer /\ collector = "stopped"
  /\ answer' = [NoAnswer EXCEPT !.kind = "error"]
  /\ UNCHANGED <<gateVars, sleeping, control, engine, job, storeVars, queued, collectorVars, failures,
                 call, outside>>

Refreshed ==
  /\ Called("Refresh")
  /\ IF answer.kind = "error" THEN engine' = "latest" /\ UNCHANGED storeVars
     ELSE IF IsNew(answer.publication)
     THEN engine' = "complete" /\ Apply(store, answer.publication)
     ELSE engine' = "failGate" /\ UNCHANGED storeVars
  /\ UNCHANGED <<job, answer, call>>

PausedTooEarly ==
  /\ Called("Pause")
  /\ IF answer.kind = "error"
     THEN engine' = "top" /\ UNCHANGED storeVars
     ELSE /\ engine' = "top" /\ UNCHANGED last
          /\ store' = [store EXCEPT !.paused = TRUE, !.state = "paused"]
          /\ published' = store'
  /\ Answer(job.from) /\ job' = NoJob
  /\ answer' = NoAnswer

\* The collector has paused: what it published before is applied first.
Paused ==
  /\ Called("Pause")
  /\ IF answer.kind = "error"
     THEN engine' = "top" /\ UNCHANGED storeVars
     ELSE IF IsNew(publication) /\ publication.event = "fatal"
     THEN engine' = "terminate" /\ Apply(store, publication)
     ELSE LET st == IF IsNew(publication) THEN Applied(store, publication) ELSE store
          IN /\ engine' = "top"
             /\ store' = [st EXCEPT !.paused = TRUE, !.state = "paused"]
             /\ published' = store'
             /\ last' = IF IsNew(publication) THEN publication.revision ELSE last
  /\ Answer(job.from) /\ job' = NoJob
  /\ answer' = NoAnswer

Resumed ==
  /\ Called("Resume")
  /\ engine' = "top"
  /\ IF answer.kind = "ok" /\ IsNew(answer.publication) THEN Apply(store, answer.publication)
                                                       ELSE UNCHANGED storeVars
  /\ Answer(job.from) /\ job' = NoJob
  /\ answer' = NoAnswer

IntervalSet ==
  /\ Called("SetSampleInterval")
  /\ engine' = "top"
  /\ published' = IF answer.kind = "ok" THEN store ELSE published
  /\ UNCHANGED <<store, last>>
  /\ Answer(job.from) /\ job' = NoJob
  /\ answer' = NoAnswer

\* complete_refresh_generation
Complete ==
  /\ engine = "complete"
  /\ completed' = Larger(completed, job.gen) /\ measurement' = answer.publication.collection
  /\ NotifyAll
  /\ engine' = "top" /\ job' = NoJob /\ answer' = NoAnswer
  /\ UNCHANGED <<requested, started, wake, failed, terminal, control, storeVars, queued,
                 collectorVars, failures, call, outside>>

FailJob ==
  /\ engine = "failGate"
  /\ FailGeneration(job.gen)
  /\ engine' = "top" /\ job' = NoJob /\ answer' = NoAnswer
  /\ UNCHANGED <<control, storeVars, queued, collectorVars, failures, call, outside>>

\* The loop panics while it applies something: run_sampling_engine publishes
\* the last snapshot as fatal, and the reply in hand is dropped.
Panic ==
  /\ engine = "latest" \/ (engine = "calling" /\ answer # NoAnswer)
  /\ published' = [published EXCEPT !.state = "fatal"]
  /\ engine' = "terminate" /\ Answer(job.from) /\ job' = NoJob /\ answer' = NoAnswer
  /\ UNCHANGED <<gateVars, sleeping, control, store, last, queued, collectorVars, failures, outside>>

\* terminate_refresh_gate
TerminateGate ==
  /\ terminal' = TRUE /\ NotifyAll
  /\ UNCHANGED <<requested, started, completed, wake, failed, measurement>>

Terminate ==
  /\ engine = "terminate"
  /\ TerminateGate
  /\ engine' = "cleanupFatal"
  /\ UNCHANGED <<control, job, storeVars, queued, collectorVars, answer, failures, call, outside>>

\* collector_engine.shutdown() and shutdown_owned_resources(); the collector
\* may outlast its time-out.
Cleanup ==
  /\ engine \in {"cleanup", "cleanupFatal"}
  /\ engine' = IF engine = "cleanupFatal" THEN "fatal" ELSE "done"
  /\ control' = IF engine' = "done" THEN <<>> ELSE control
  /\ IF collector \in {"idle", "stopped"} THEN collector' = "stopped" /\ inbox' = <<>>
                                         ELSE UNCHANGED <<collector, inbox>>
  /\ UNCHANGED <<gateVars, sleeping, job, storeVars, queued, publication, serving, pausedThere, begun,
                 answer, failures, call, outside>>

\* fatal_control_loop looks at the flag at least every 100 ms.
FatalControl ==
  /\ engine = "fatal"
  /\ IF shutdown # "idle"
     THEN engine' = "done" /\ control' = <<>> /\ UNCHANGED call
     ELSE /\ control # <<>>
          /\ control' = Tail(control) /\ UNCHANGED engine
          /\ Answer(Head(control).from)
  /\ UNCHANGED <<gateVars, sleeping, job, storeVars, queued, collectorVars, answer, failures, outside>>

-----------------------------------------------------------------------------
(* shutdown: the flag, the gate, the message                                *)

Shutdown ==
  /\ \/ /\ shutdown = "idle" /\ shutdown' = "flagged"
        /\ UNCHANGED <<gateVars, sleeping, control>>
     \/ /\ shutdown = "flagged" /\ shutdown' = "terminated"
        /\ TerminateGate /\ UNCHANGED control
     \/ /\ shutdown = "terminated" /\ shutdown' = "sent"
        /\ IF Accepts THEN Send("Shutdown", Nobody) ELSE UNCHANGED control
        /\ UNCHANGED <<gateVars, sleeping>>
  /\ UNCHANGED <<engineVars, callVars, bounds>>

CallerStep(c) == RequestRefresh(c) \/ SendRefresh(c) \/ FailRefresh(c) \/ Wait(c)

EngineStep ==
  \/ Top \/ RecvTimeout \/ RecvPublished \/ ApplyLatest
  \/ RecvRefresh \/ RecvPause \/ RecvResume \/ RecvSet \/ RecvSetInterval \/ RecvShutdown
  \/ Refused \/ Refreshed \/ Paused \/ Resumed \/ IntervalSet
  \/ Complete \/ FailJob \/ Terminate \/ Cleanup \/ FatalControl

CollectorStep ==
  \/ Serve \/ NotifySwap \/ NotifySend \/ NotifyClear
  \/ \E event \in {"sample", "unavailable", "fatal"} : Publish(event)

Next ==
  \/ \E c \in Callers :
       \/ Begin(c, "gate") \/ (Controls # {} /\ Begin(c, "control"))
       \/ CallerStep(c) \/ WaitTimeout(c) \/ ReplyTimeout(c) \/ SpuriousWakeup(c)
       \/ \E kind \in Controls : SendControl(c, kind)
  \/ Tick \/ CollectorStep \/ CallFails
  \/ EngineStep \/ Panic
  \/ Shutdown

Spec == Init /\ [][Next]_vars

\* The threads run, and a shutdown once begun goes on; deadlines, failures,
\* time-outs, panics and a shutdown may come or not.
FairSpec == /\ Spec
            /\ WF_vars(EngineStep) /\ WF_vars(CollectorStep)
            /\ WF_vars(shutdown # "idle" /\ Shutdown)
            /\ \A c \in Callers : WF_vars(CallerStep(c))

-----------------------------------------------------------------------------
Stopped == engine \in {"terminate", "cleanup", "cleanupFatal", "fatal", "done"}
Waking(c) == call[c] \in {"send", "failing"}
InControl(kind) == \E i \in 1..Len(control) : control[i].kind = kind

\* What a caller at the gate would be handed now was collected after it
\* asked, whatever was under way or had failed when it did.
RefreshIsFresh ==
  \A c \in Callers : call[c] = "wait" /\ completed >= target[c] => measurement > asked[c]

\* What the collector answers a refresh or a resume with has not been applied
\* yet, so neither fails with runtime_refresh_result_unavailable.
AnswerIsNew ==
  engine = "calling" /\ job.kind \in {"Refresh", "Resume"} /\ answer.kind = "ok"
    => IsNew(answer.publication) /\ answer.publication.event \in {"sample", "unavailable"}

\* A waiting caller is served: there is an answer for it, the engine is at
\* its generation or a later one, or a wake that will start one is on the
\* way.  There is one exception, the code's own: its generation failed with a
\* full channel, and the failure of the generation before it, which comes in
\* later, has taken the only place there is for a failure.  That caller waits
\* for the next refresh or for its time-out.
FailureOverwritten(c) == failed # 0 /\ failed < target[c] /\ target[c] <= started
EveryWaiterIsServed ==
  \A c \in Callers :
    call[c] = "wait" =>
      \/ terminal \/ Stopped \/ shutdown = "flagged"
      \/ completed >= target[c]
      \/ failed # 0 /\ failed >= target[c]
      \/ job.kind = "Refresh" /\ job.gen >= target[c]
      \/ requested > started /\ (InControl("Refresh") \/ \E d \in Callers : Waking(d))
      \/ \E d \in Callers : call[d] = "failing" /\ target[d] >= target[c]
      \/ FailureOverwritten(c)

\* While the runtime is paused only a refresh brings a new sample.
PausedHolds ==
  [][failures = 0 /\ store.paused /\ store'.paused /\ store'.samples # store.samples
       => job.kind = "Refresh"]_vars

\* Time and again, as long as the engine runs, the store has caught up with the
\* collector: every publication, or a later one, reaches it, though notifications
\* may find the channel full.
Follows == []<>(last >= publication.revision \/ Stopped)

-----------------------------------------------------------------------------
(* The inductive invariant (RuntimeEngineProofs)                            *)

Asking == engine = "calling" /\ answer = NoAnswer
Publishing == collector \in {"swap", "send", "clear"}
Attended == (Publishing \/ collector = "collecting") /\ serving.awaited
InRefresh(c) == call[c] \in {"send", "failing", "wait"}

\* The generations in their order, and a wake is for one not started.
GateInv ==
  /\ completed <= started /\ started <= requested
  /\ wake => requested > started
  /\ \A c \in Callers : InRefresh(c) => 0 < target[c] /\ target[c] <= requested
  /\ \A c \in Callers : asked[c] <= begun

\* The message the engine handles at each of its places
JobInv ==
  /\ engine = "calling" => job.kind # "none"
  /\ job.kind \notin {"none", "Refresh"} => engine = "calling"
  /\ engine \in {"complete", "failGate"} => job.kind = "Refresh"
  /\ engine \notin {"calling", "complete", "failGate", "latest"} => job = NoJob
  /\ job.kind = "Refresh" => completed < job.gen /\ job.gen <= started
  /\ engine = "complete" => answer.kind = "ok"
  /\ answer.kind = "none" => answer = NoAnswer

\* The collector has at most one request whose sender still waits for the
\* answer: it is of the kind the engine asked for.
OfJob(kind) == kind = IF job.kind = "SetSampleInterval" THEN "SetInterval" ELSE job.kind
RequestInv ==
  /\ \A i, j \in 1..Len(inbox) : inbox[i].kind = "Refresh" /\ inbox[j].kind = "Refresh" => i = j
  /\ collector # "stopped" =>
       /\ \A i \in 1..Len(inbox) : inbox[i].awaited => Asking /\ ~Attended /\ OfJob(inbox[i].kind)
       /\ \A i, j \in 1..Len(inbox) : inbox[i].awaited /\ inbox[j].awaited => i = j
  /\ Attended => Asking /\ serving.kind \in {"Refresh", "Resume"} /\ OfJob(serving.kind)

\* Whoever asked for the generation under way or an earlier one asked before
\* collection n was begun.
After(n) == \A c \in Callers : InRefresh(c) /\ target[c] <= job.gen => asked[c] < n
FreshInv ==
  /\ job.kind = "Refresh" =>
       /\ Attended => After(IF Publishing THEN publication.collection ELSE begun)
       /\ answer.kind = "ok" => After(answer.publication.collection)
  /\ \A c \in Callers : InRefresh(c) /\ completed >= target[c] => measurement > asked[c]

\* What is answered has not been applied, and a collector that stops has said why.
RevisionInv ==
  /\ collector = "stopped" => Stopped \/ publication.event = "fatal"
  /\ last <= publication.revision /\ answer.publication.revision <= publication.revision
  /\ Attended /\ Publishing =>
       IsNew(publication) /\ publication.event \in {"sample", "unavailable", "fatal"}
  /\ AnswerIsNew

\* A generation that has not been started has a wake on its way, sent or to be
\* sent by a caller who asked for it; one that has been is under way, has a
\* result, or has failed, unless that was overwritten.
ServedInv ==
  /\ requested > started =>
       \/ Stopped \/ InControl("Refresh")
       \/ \E d \in Callers : Waking(d) /\ target[d] = requested
  /\ \A c \in Callers : InRefresh(c) /\ target[c] <= started =>
       \/ Stopped \/ completed >= target[c] \/ requested > started
       \/ failed # 0 /\ failed >= target[c]
       \/ job.kind = "Refresh" /\ job.gen >= target[c]
       \/ FailureOverwritten(c)

\* As long as no call on it failed, a paused store has a paused collector, which
\* collects for nothing but a refresh.
PauseInv ==
  failures = 0 =>
    /\ collector # "stopped" => \A i \in 1..Len(inbox) : inbox[i].awaited
    /\ Publishing \/ collector = "collecting" => serving = Deadline \/ serving.awaited
    /\ collector = "collecting" /\ pausedThere => serving.kind = "Refresh"
    /\ store.paused => pausedThere
    /\ job.kind = "Resume" => ~store.paused
    /\ engine = "calling" /\ job.kind = "Pause" /\ answer.kind = "ok" => pausedThere
    /\ (\/ engine = "calling" /\ answer.kind = "error"
        \/ engine \in {"latest", "failGate"} /\ job.kind = "Refresh")
         => collector = "stopped" /\ publication.event = "fatal"
    /\ ~Stopped /\ store.paused /\ IsNew(publication) /\ publication.event = "sample" =>
         /\ engine = "calling" /\ job.kind = "Refresh"
         /\ answer = NoAnswer \/ answer.publication = publication

\* Whoever a reply in hand or in the channel is for waits for that one.
ReplyInv ==
  /\ job.from # Nobody => call[job.from] = "reply" /\ \A i \in 1..Len(control) : control[i].from # job.from
  /\ \A i \in 1..Len(control) : control[i].from # Nobody => call[control[i].from] = "reply"
  /\ \A i, j \in 1..Len(control) : control[i].from # Nobody /\ control[i].from = control[j].from => i = j

RuntimeInv ==
  /\ TypeOK /\ GateInv /\ JobInv /\ RequestInv /\ FreshInv /\ RevisionInv
  /\ ServedInv /\ PauseInv /\ ReplyInv
=============================================================================
