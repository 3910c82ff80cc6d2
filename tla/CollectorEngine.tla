--------------------------- MODULE CollectorEngine ---------------------------
(***************************************************************************)
(* The raw-collector thread of collector_engine.rs and its handle.         *)
(* Callers ask for a refresh through a gate of generations (a mutex and a  *)
(* condition variable) that lets any number of them share one collection,  *)
(* or send control messages with a reply channel over a bounded queue; the *)
(* thread collects on its own deadline as well; shutdown may come at any   *)
(* time.  A step is what happens under one lock, or one queue operation.   *)
(*                                                                         *)
(* Time is abstract: the deadline falls due at some moment (Tick).  It is  *)
(* never due again at the top of the loop right after scheduled work,      *)
(* because complete_scheduled_work moves it past the completion.           *)
(***************************************************************************)
EXTENDS Naturals, Sequences, FiniteSets

CONSTANTS Callers,         \* threads that hold a handle
          Nobody,          \* the receiver of a reply is gone, or there is none
          Capacity,        \* CONTROL_QUEUE_CAPACITY
          MaxCalls,        \* bound of the model: calls made
          MaxTicks         \* bound of the model: deadlines

ASSUME EngineAssumption ==
  /\ Nobody \notin Callers
  /\ Capacity \in Nat \ {0}
  /\ MaxCalls \in Nat /\ MaxTicks \in Nat

VARIABLES
  requested, started, completed,  \* RefreshGateState: the generations
  waiting,                        \* the callers waiting_callers counts
  wake, failed, terminal,         \* wake_queued, failed_generation (0: none), terminal_error
  publication,                    \* completed_publication: generation (0: none) and collection
  sleeping,                       \* callers asleep on the condition variable
  control,                        \* the control channel
  shutdownStarted,
  thread, work, due, paused,      \* the collector thread
  published,                      \* the event of the last publication
  begun,                          \* history: collections begun
  call, target, result,           \* the callers
  asked, got,                     \* history: collections begun when asked; collection returned
  shutdown,                       \* the thread that shuts the engine down
  calls, ticks                    \* bound of the model

gateVars == <<requested, started, completed, waiting, wake, failed, terminal, publication>>
threadVars == <<thread, work, due, paused, published, begun>>
callVars == <<call, target, result, asked, got>>
bounds == <<calls, ticks>>
vars == <<gateVars, sleeping, control, shutdownStarted, threadVars, callVars, shutdown, bounds>>

Cause == {"deadline", "refresh", "resume"}
NoWork == [cause |-> "none", gen |-> 0, from |-> Nobody]
Work == [cause : Cause, gen : Nat, from : Callers \cup {Nobody}] \cup {NoWork}
Message == [kind : {"Refresh", "Pause", "Resume", "SetInterval", "Shutdown"},
            from : Callers \cup {Nobody}]
Event == {"none", "sample", "unavailable", "fatal", "heartbeat"}

TypeOK ==
  /\ requested \in Nat /\ started \in Nat /\ completed \in Nat
  /\ waiting \subseteq Callers
  /\ wake \in BOOLEAN /\ failed \in Nat /\ terminal \in BOOLEAN
  /\ publication \in [gen : Nat, collection : Nat]
  /\ sleeping \subseteq Callers
  /\ control \in Seq(Message)
  /\ shutdownStarted \in BOOLEAN
  /\ thread \in {"top", "recv", "collecting", "complete", "reply", "terminate", "fatal", "exiting", "done"}
  /\ work \in Work
  /\ due \in BOOLEAN /\ paused \in BOOLEAN
  /\ published \in Event
  /\ begun \in Nat
  /\ call \in [Callers -> {"idle", "gate", "send", "failing", "wait", "finish",
                           "control", "reply"}]
  /\ target \in [Callers -> Nat]
  /\ result \in [Callers -> {"none", "ok", "busy", "terminal", "failed", "unavailable", "timeout"}]
  /\ asked \in [Callers -> Nat] /\ got \in [Callers -> Nat]
  /\ shutdown \in {"idle", "flagged", "terminated", "awaiting", "timedOut", "ended"}
  /\ calls \in Nat /\ ticks \in Nat

Init ==
  /\ requested = 0 /\ started = 0 /\ completed = 0
  /\ waiting = {} /\ wake = FALSE /\ failed = 0 /\ terminal = FALSE
  /\ publication = [gen |-> 0, collection |-> 0]
  /\ sleeping = {} /\ control = <<>> /\ shutdownStarted = FALSE
  /\ thread = "top" /\ work = NoWork
  /\ paused \in BOOLEAN /\ due = ~paused
  /\ published = "none" /\ begun = 0
  /\ call = [c \in Callers |-> "idle"] /\ target = [c \in Callers |-> 0]
  /\ result = [c \in Callers |-> "none"]
  /\ asked = [c \in Callers |-> 0] /\ got = [c \in Callers |-> 0]
  /\ shutdown = "idle" /\ calls = 0 /\ ticks = 0

-----------------------------------------------------------------------------
(* A caller                                                                 *)

Step(c, pc) == call' = [call EXCEPT ![c] = pc]
Return(c, r) == Step(c, "finish") /\ result' = [result EXCEPT ![c] = r]

\* The call is over: the model forgets what only mattered while it lasted.
Leave(c) == /\ Step(c, "idle")
            /\ target' = [target EXCEPT ![c] = 0]
            /\ result' = [result EXCEPT ![c] = "none"]
            /\ asked' = [asked EXCEPT ![c] = 0] /\ got' = [got EXCEPT ![c] = 0]

NotifyAll == sleeping' = {}

\* The channel takes a message: it is not full and its receiver is alive.
Accepts == Len(control) < Capacity /\ thread # "done"
Send(kind, c) == control' = Append(control, [kind |-> kind, from |-> c])

\* refresh_now looks at the shutdown flag, then goes for the gate.  (A call
\* that finds the flag set returns an error and changes nothing.)
BeginRefresh(c) ==
  /\ call[c] = "idle" /\ calls < MaxCalls
  /\ calls' = calls + 1
  /\ ~shutdownStarted /\ Step(c, "gate")
  /\ UNCHANGED <<gateVars, sleeping, control, shutdownStarted, threadVars, target, result, asked,
                 got, shutdown, ticks>>

RequestUnderWay(c) ==
  /\ call[c] = "gate"
  /\ IF terminal
     THEN Step(c, "idle") /\ UNCHANGED <<requested, waiting, wake, failed, target, asked>>
     ELSE /\ requested' = IF requested = completed THEN requested + 1 ELSE requested
          /\ target' = [target EXCEPT ![c] = requested']
          /\ asked' = [asked EXCEPT ![c] = begun]
          /\ Step(c, IF wake THEN "wait" ELSE "send")
          /\ failed' = IF wake THEN failed ELSE 0
          /\ wake' = TRUE
          /\ waiting' = waiting \cup {c}
  /\ UNCHANGED <<started, completed, terminal, publication, sleeping, control, shutdownStarted,
                 threadVars, result, got, shutdown, bounds>>

\* refresh_now under the gate's lock: join the generation that has not
\* started yet, and be the one to wake the thread if nobody else is.
Request(c) ==
  /\ call[c] = "gate"
  /\ IF terminal
     THEN Step(c, "idle") /\ UNCHANGED <<requested, waiting, wake, failed, target, asked>>
     ELSE /\ requested' = IF requested = started THEN requested + 1 ELSE requested
          /\ target' = [target EXCEPT ![c] = requested']
          /\ asked' = [asked EXCEPT ![c] = begun]
          /\ Step(c, IF wake THEN "wait" ELSE "send")
          /\ failed' = IF wake THEN failed ELSE 0
          /\ wake' = TRUE
          /\ waiting' = waiting \cup {c}
  /\ UNCHANGED <<started, completed, terminal, publication, sleeping, control, shutdownStarted,
                 threadVars, result, got, shutdown, bounds>>

\* try_send(Refresh), by the caller that found no wake queued
SendRefresh(c) ==
  /\ call[c] = "send"
  /\ IF Accepts THEN Send("Refresh", Nobody) /\ Step(c, "wait")
                ELSE UNCHANGED control /\ Step(c, "failing")
  /\ UNCHANGED <<gateVars, sleeping, shutdownStarted, threadVars, target, result, asked, got,
                 shutdown, bounds>>

\* fail_refresh_generation: those who joined the generation fail with it.
FailGeneration(c) ==
  /\ call[c] = "failing"
  /\ failed' = target[c] /\ wake' = FALSE
  /\ NotifyAll
  /\ Return(c, "busy")
  /\ UNCHANGED <<requested, started, completed, waiting, terminal, publication, control,
                 shutdownStarted, threadVars, target, asked, got, shutdown, bounds>>

\* wait_for_refresh_generation, with the lock held
Wait(c) ==
  /\ call[c] = "wait" /\ c \notin sleeping
  /\ IF terminal THEN Return(c, "terminal") /\ UNCHANGED <<sleeping, got>>
     ELSE IF completed >= target[c]
     THEN /\ IF publication.gen >= target[c] /\ publication.gen # 0
             THEN /\ Return(c, "ok")
                  /\ got' = [got EXCEPT ![c] = publication.collection]
             ELSE Return(c, "unavailable") /\ UNCHANGED got
          /\ UNCHANGED sleeping
     ELSE IF failed # 0 /\ failed >= target[c]
     THEN Return(c, "failed") /\ UNCHANGED <<sleeping, got>>
     ELSE sleeping' = sleeping \cup {c} /\ UNCHANGED <<call, result, got>>
  /\ UNCHANGED <<gateVars, control, shutdownStarted, threadVars, target, asked, shutdown, bounds>>

\* wait_timeout reports that the time is up; nothing is looked at again.
WaitTimeout(c) ==
  /\ call[c] = "wait" /\ c \in sleeping
  /\ sleeping' = sleeping \ {c}
  /\ Return(c, "timeout")
  /\ UNCHANGED <<gateVars, control, shutdownStarted, threadVars, target, asked, got, shutdown, bounds>>

FinishClearing(c) ==
  /\ call[c] = "finish"
  /\ Leave(c)
  /\ waiting' = waiting \ {c}
  /\ publication' = [gen |-> 0, collection |-> 0]
  /\ failed' = 0
  /\ UNCHANGED <<requested, started, completed, wake, terminal, sleeping, control, shutdownStarted,
                 threadVars, shutdown, bounds>>

\* finish_refresh_wait: the last one out clears the results.
Finish(c) ==
  /\ call[c] = "finish"
  /\ Leave(c)
  /\ waiting' = waiting \ {c}
  /\ IF waiting \ {c} = {} THEN publication' = [gen |-> 0, collection |-> 0] /\ failed' = 0
                           ELSE UNCHANGED <<publication, failed>>
  /\ UNCHANGED <<requested, started, completed, wake, terminal, sleeping, control, shutdownStarted,
                 threadVars, shutdown, bounds>>

\* pause, resume and set_interval: the flag, then the message.
BeginControl(c) ==
  /\ call[c] = "idle" /\ calls < MaxCalls
  /\ calls' = calls + 1
  /\ ~shutdownStarted /\ Step(c, "control")
  /\ UNCHANGED <<gateVars, sleeping, control, shutdownStarted, threadVars, target, result, asked,
                 got, shutdown, ticks>>

SendControl(c, kind) ==
  /\ call[c] = "control"
  /\ IF Accepts THEN Send(kind, c) /\ Step(c, "reply")
                ELSE UNCHANGED control /\ Step(c, "idle")
  /\ UNCHANGED <<gateVars, sleeping, shutdownStarted, threadVars, target, result, asked, got, shutdown, bounds>>

\* recv_timeout on the reply: too late, or the sender is gone.  The message
\* may still be handled; its answer then goes nowhere.
Deaf(m, c) == IF m.from = c THEN [m EXCEPT !.from = Nobody] ELSE m
ReplyTimeout(c) ==
  /\ call[c] = "reply"
  /\ Step(c, "idle")
  /\ control' = [i \in 1..Len(control) |-> Deaf(control[i], c)]
  /\ work' = Deaf(work, c)
  /\ UNCHANGED <<gateVars, sleeping, shutdownStarted, thread, due, paused, published, begun,
                 target, result, asked, got, shutdown, bounds>>

-----------------------------------------------------------------------------
(* The thread: collector_loop                                               *)

\* Whoever waits for the reply has it; Ok and the errors are not told apart.
Answer(c) == IF c = Nobody THEN UNCHANGED call ELSE Step(c, "idle")

Tick ==
  /\ thread \in {"recv", "collecting"} /\ ~due
  /\ ticks < MaxTicks
  /\ due' = TRUE /\ ticks' = ticks + 1
  /\ UNCHANGED <<gateVars, sleeping, control, shutdownStarted, thread, work, paused, published,
                 begun, callVars, shutdown, calls>>

\* Start the collection w.
Collect(w) == /\ thread' = "collecting" /\ work' = w /\ begun' = begun + 1
              /\ UNCHANGED <<due, paused, published>>

Publish(event) == published' = event

Top ==
  /\ thread = "top"
  /\ IF shutdownStarted
     THEN thread' = "exiting" /\ UNCHANGED <<work, due, paused, published, begun>>
     ELSE IF due /\ paused
     THEN Publish("heartbeat") /\ due' = FALSE /\ UNCHANGED <<thread, work, paused, begun>>
     ELSE IF due THEN Collect([cause |-> "deadline", gen |-> 0, from |-> Nobody])
     ELSE thread' = "recv" /\ UNCHANGED <<work, due, paused, published, begun>>
  /\ UNCHANGED <<gateVars, sleeping, control, shutdownStarted, callVars, shutdown, bounds>>

RecvTimeout ==
  /\ thread = "recv" /\ control = <<>> /\ due
  /\ thread' = "top"
  /\ UNCHANGED <<gateVars, sleeping, control, shutdownStarted, work, due, paused, published, begun,
                 callVars, shutdown, bounds>>

Receive(kind) ==
  /\ thread = "recv" /\ control # <<>> /\ Head(control).kind = kind
  /\ control' = Tail(control)
  /\ UNCHANGED <<shutdownStarted, shutdown, bounds>>

\* begin_refresh_generation, and the collection starts.
RecvRefresh ==
  /\ Receive("Refresh")
  /\ wake' = FALSE
  /\ IF requested <= started
     THEN /\ thread' = "top"
          /\ UNCHANGED <<started, work, due, paused, published, begun>>
     ELSE /\ started' = started + 1
          /\ Collect([cause |-> "refresh", gen |-> started + 1, from |-> Nobody])
  /\ UNCHANGED <<requested, completed, waiting, failed, terminal, publication, sleeping, callVars>>

RecvPause ==
  /\ Receive("Pause")
  /\ paused' = TRUE /\ due' = FALSE /\ thread' = "top"
  /\ Answer(Head(control).from)
  /\ UNCHANGED <<gateVars, sleeping, work, published, begun, target, result, asked, got>>

RecvSetInterval ==
  /\ Receive("SetInterval")
  /\ due' = FALSE /\ thread' = "top"
  /\ Answer(Head(control).from)
  /\ UNCHANGED <<gateVars, sleeping, work, paused, published, begun, target, result, asked, got>>

RecvResume ==
  /\ Receive("Resume")
  /\ paused' = FALSE /\ due' = TRUE
  /\ thread' = "collecting" /\ begun' = begun + 1
  /\ work' = [cause |-> "resume", gen |-> 0, from |-> Head(control).from]
  /\ UNCHANGED <<gateVars, sleeping, published, callVars>>

RecvShutdown ==
  /\ Receive("Shutdown")
  /\ thread' = "exiting"
  /\ UNCHANGED <<gateVars, sleeping, work, due, paused, published, begun, callVars>>

\* collect_and_publish comes back: scheduled work moves the deadline on.
Collected(event) ==
  /\ thread = "collecting"
  /\ Publish(event)
  /\ due' = IF work.cause = "refresh" THEN due ELSE FALSE
  /\ thread' = CASE event = "fatal" /\ work.cause = "resume" -> "reply"
                 [] event = "fatal" /\ work.cause # "resume" -> "terminate"
                 [] event # "fatal" /\ work.cause = "deadline" -> "top"
                 [] event # "fatal" /\ work.cause = "refresh" -> "complete"
                 [] event # "fatal" /\ work.cause = "resume" -> "reply"
  /\ work' = IF thread' = "top" THEN NoWork ELSE work
  /\ UNCHANGED <<gateVars, sleeping, control, shutdownStarted, paused, begun, callVars,
                 shutdown, bounds>>

\* The collector panics: run_collector_engine publishes the fatal event; the
\* reply channel in hand is dropped.
Panicked ==
  /\ thread = "collecting"
  /\ Publish("fatal")
  /\ thread' = "terminate"
  /\ Answer(work.from)
  /\ work' = NoWork
  /\ UNCHANGED <<gateVars, sleeping, control, shutdownStarted, due, paused, begun, target,
                 result, asked, got, shutdown, bounds>>

CompleteQuietly ==
  /\ thread = "complete"
  /\ completed' = work.gen
  /\ publication' = [gen |-> work.gen, collection |-> begun]
  /\ thread' = "top" /\ work' = NoWork
  /\ UNCHANGED <<requested, started, waiting, wake, failed, terminal, sleeping, control,
                 shutdownStarted, due, paused, published, begun, callVars, shutdown, bounds>>

\* complete_refresh_generation
Complete ==
  /\ thread = "complete"
  /\ completed' = work.gen
  /\ publication' = [gen |-> work.gen, collection |-> begun]
  /\ NotifyAll
  /\ thread' = "top" /\ work' = NoWork
  /\ UNCHANGED <<requested, started, waiting, wake, failed, terminal, control, shutdownStarted,
                 due, paused, published, begun, callVars, shutdown, bounds>>

ReplyResume ==
  /\ thread = "reply"
  /\ Answer(work.from)
  /\ thread' = IF published = "fatal" THEN "terminate" ELSE "top"
  /\ work' = NoWork
  /\ UNCHANGED <<gateVars, sleeping, control, shutdownStarted, due, paused, published, begun,
                 target, result, asked, got, shutdown, bounds>>

\* terminate_refresh_gate
TerminateGate == terminal' = TRUE /\ wake' = FALSE /\ NotifyAll

\* Collection was fatal: the gate closes for good.
Terminate ==
  /\ thread = "terminate"
  /\ TerminateGate
  /\ thread' = "fatal" /\ work' = NoWork
  /\ UNCHANGED <<requested, started, completed, waiting, failed, publication, control,
                 shutdownStarted, due, paused, published, begun, callVars, shutdown, bounds>>

FatalControlAwaitingMessage ==
  /\ thread = "fatal"
  /\ control # <<>>
  /\ control' = Tail(control)
  /\ thread' = IF Head(control).kind = "Shutdown" THEN "exiting" ELSE "fatal"
  /\ Answer(Head(control).from)
  /\ UNCHANGED <<gateVars, sleeping, shutdownStarted, work, due, paused, published, begun, target,
                 result, asked, got, shutdown, bounds>>

\* fatal_control_loop looks at the flag at least every 50 ms.
FatalControl ==
  /\ thread = "fatal"
  /\ IF shutdownStarted
     THEN thread' = "exiting" /\ UNCHANGED <<control, call>>
     ELSE /\ control # <<>>
          /\ control' = Tail(control)
          /\ thread' = IF Head(control).kind = "Shutdown" THEN "exiting" ELSE "fatal"
          /\ Answer(Head(control).from)
  /\ UNCHANGED <<gateVars, sleeping, shutdownStarted, work, due, paused, published, begun, target,
                 result, asked, got, shutdown, bounds>>

\* collector.shutdown(), the result is sent, and the channel is dropped with
\* whatever is in it.
Exit ==
  /\ thread = "exiting"
  /\ thread' = "done"
  /\ control' = <<>>
  /\ UNCHANGED <<gateVars, sleeping, shutdownStarted, work, due, paused, published, begun,
                 callVars, shutdown, bounds>>

-----------------------------------------------------------------------------
(* shutdown; shutdown_lock admits one thread at a time                      *)

BeginShutdown ==
  /\ shutdown = "idle"
  /\ shutdown' = "flagged"
  /\ shutdownStarted' = TRUE
  /\ UNCHANGED <<gateVars, sleeping, control, threadVars, callVars, bounds>>

ShutdownGateLeftOpen ==
  /\ shutdown = "flagged"
  /\ shutdown' = "terminated"
  /\ UNCHANGED <<gateVars, sleeping, control, shutdownStarted, threadVars, callVars, bounds>>

ShutdownGate ==
  /\ shutdown = "flagged"
  /\ TerminateGate
  /\ shutdown' = "terminated"
  /\ UNCHANGED <<requested, started, completed, waiting, failed, publication, control,
                 shutdownStarted, threadVars, callVars, bounds>>

ShutdownSend ==
  /\ shutdown = "terminated"
  /\ shutdown' = "awaiting"
  /\ IF Accepts THEN Send("Shutdown", Nobody) ELSE UNCHANGED control
  /\ UNCHANGED <<gateVars, sleeping, shutdownStarted, threadVars, callVars, bounds>>

ShutdownEnds ==
  /\ shutdown = "awaiting" /\ thread = "done"
  /\ shutdown' = "ended"
  /\ UNCHANGED <<gateVars, sleeping, control, shutdownStarted, threadVars, callVars, bounds>>

\* It gives up waiting; a later call of shutdown waits again.
ShutdownTimeout ==
  /\ \/ shutdown = "awaiting" /\ thread # "done" /\ shutdown' = "timedOut"
     \/ shutdown = "timedOut" /\ shutdown' = "awaiting"
  /\ UNCHANGED <<gateVars, sleeping, control, shutdownStarted, threadVars, callVars, bounds>>

SpuriousWakeup(c) ==
  /\ c \in sleeping
  /\ sleeping' = sleeping \ {c}
  /\ UNCHANGED <<gateVars, control, shutdownStarted, threadVars, callVars, shutdown, bounds>>

-----------------------------------------------------------------------------
CallerStep(c) ==
  Request(c) \/ SendRefresh(c) \/ FailGeneration(c) \/ Wait(c) \/ Finish(c)

ThreadStep ==
  \/ Top \/ RecvTimeout
  \/ RecvRefresh \/ RecvPause \/ RecvSetInterval \/ RecvResume \/ RecvShutdown
  \/ \E event \in {"sample", "unavailable", "fatal"} : Collected(event)
  \/ Panicked
  \/ Complete \/ ReplyResume \/ Terminate \/ FatalControl \/ Exit

Next ==
  \/ \E c \in Callers :
       \/ BeginRefresh(c) \/ CallerStep(c) \/ WaitTimeout(c)
       \/ BeginControl(c) \/ ReplyTimeout(c) \/ SpuriousWakeup(c)
       \/ \E kind \in {"Pause", "Resume", "SetInterval"} : SendControl(c, kind)
  \/ Tick
  \/ ThreadStep
  \/ BeginShutdown \/ ShutdownGate \/ ShutdownSend \/ ShutdownEnds \/ ShutdownTimeout

Spec == Init /\ [][Next]_vars

\* Threads that can run do run; deadlines, time-outs and a shutdown may come
\* or not, and a shutdown once begun goes on.
Fairness ==
  /\ \A c \in Callers : WF_vars(CallerStep(c))
  /\ WF_vars(ThreadStep)
  /\ WF_vars(ShutdownGate) /\ WF_vars(ShutdownSend) /\ WF_vars(ShutdownEnds)

FairSpec == Spec /\ Fairness

-----------------------------------------------------------------------------
\* A refresh that returns Ok returns a collection begun after it was asked
\* for, however many callers shared it and whatever was under way when they
\* asked.
RefreshIsFresh ==
  \A c \in Callers : result[c] = "ok" /\ call[c] = "finish" => got[c] > asked[c]

\* The publication of a completed generation is still there when the last
\* caller waiting for it looks: collector_refresh_result_unavailable is never
\* returned.
ResultIsThere == \A c \in Callers : result[c] # "unavailable"

Waking(c) == call[c] \in {"send", "failing"}
RefreshAt(i) == control[i].kind = "Refresh"
WakeOnTheWay ==
  \/ \E c \in Callers : Waking(c)
  \/ \E i \in 1..Len(control) : RefreshAt(i)
Refreshing == thread \in {"collecting", "complete"} /\ work.cause = "refresh"

\* No caller waits in vain: its generation is done or failed, is being
\* collected, or a wake for it is on the way; otherwise the gate is closed or
\* about to be.
EveryWaiterIsServed ==
  \A c \in Callers :
    call[c] = "wait" =>
      \/ terminal \/ shutdown = "flagged" \/ thread = "terminate"
      \/ target[c] <= completed
      \/ failed # 0 /\ failed >= target[c]
      \/ Refreshing /\ work.gen = target[c]
      \/ target[c] > started /\ WakeOnTheWay

\* Callers share the wake: at any time one caller at most is sending it, or
\* the channel holds it once.
OneWakeAtATime ==
  /\ \A i, j \in 1..Len(control) : RefreshAt(i) /\ RefreshAt(j) => i = j
  /\ \A c, d \in Callers : Waking(c) /\ Waking(d) => c = d
  /\ \A c \in Callers, i \in 1..Len(control) : ~(Waking(c) /\ RefreshAt(i))

\* The inductive invariant behind the four: the generations and the thread.
GenerationInv ==
  /\ completed <= started /\ started <= completed + 1
  /\ started <= requested /\ requested <= started + 1
  /\ thread \in {"complete", "reply", "collecting"} => work # NoWork
  /\ thread = "complete" => work.cause = "refresh"
  /\ thread = "reply" => work.cause = "resume"
  /\ Refreshing => work.gen = started
  /\ completed = started \/ Refreshing \/ thread \in {"terminate", "fatal", "exiting", "done"}
  /\ thread = "fatal" => terminal
  /\ thread \in {"exiting", "done"} => terminal \/ shutdown = "flagged"
  /\ shutdownStarted <=> shutdown # "idle"
  /\ shutdown \notin {"idle", "flagged"} => terminal
  /\ \A i \in 1..Len(control) : control[i].kind = "Shutdown" => terminal

\* ... the callers at the gate, what they asked for and what they will get
WaiterInv ==
  /\ waiting = {c \in Callers : call[c] \in {"send", "failing", "wait", "finish"}}
  /\ \A c \in waiting : /\ target[c] > 0 /\ target[c] <= requested
                        /\ asked[c] <= begun
                        /\ target[c] <= started => asked[c] < begun
                        /\ publication.gen = 0 => target[c] > completed
                        /\ target[c] <= publication.gen => asked[c] < publication.collection
  /\ publication.gen \in {0, completed}

\* ... the wake
WakeInv ==
  /\ WakeOnTheWay => requested = started + 1
  /\ \A c \in Callers : Waking(c) => target[c] = requested
  /\ WakeOnTheWay => wake \/ terminal
  /\ wake => WakeOnTheWay \/ terminal \/ thread = "done"

\* ... and the replies: each goes to the one caller that awaits it.
ReplyInv ==
  /\ \A i \in 1..Len(control) : control[i].from # Nobody => call[control[i].from] = "reply"
  /\ \A i, j \in 1..Len(control) : control[i].from # Nobody /\ control[i].from = control[j].from => i = j
  /\ work.from # Nobody => call[work.from] = "reply"
  /\ work.from # Nobody => \A i \in 1..Len(control) : control[i].from # work.from

\* The engine's inductive invariant.
EngineInv ==
  /\ TypeOK /\ GenerationInv /\ WaiterInv /\ WakeInv /\ ReplyInv
  /\ RefreshIsFresh /\ ResultIsThere /\ EveryWaiterIsServed /\ OneWakeAtATime

\* Every refresh returns, without its time-out's help.
RefreshReturns == \A c \in Callers : call[c] = "wait" ~> call[c] # "wait"

\* Once shutdown has begun the thread ends, though the Shutdown message may
\* find the channel full and be dropped.
ThreadEnds == shutdownStarted ~> thread = "done"
=============================================================================
