-------------------------- MODULE RuntimeEngineProofs --------------------------
(***************************************************************************)
(* RuntimeInv (RuntimeEngine) is inductive for any number of callers, any  *)
(* capacity and any bounds; the properties of the engine follow from it.   *)
(*                                                                         *)
(* One lemma per action: the parts whose variables it leaves alone, then   *)
(* one step for each part that it could disturb.  Before them stand the    *)
(* facts about the two channels, the answers and the store that several    *)
(* actions share.                                                          *)
(***************************************************************************)
EXTENDS RuntimeEngine, TLAPS

Kinds == {"CollectorPublished", "Refresh", "Pause", "Resume", "SetSampleInterval", "SetQuery", "Shutdown"}
CallStates == {"idle", "gate", "send", "failing", "wait", "control", "reply"}

\* A message has a kind and a receiver for its reply, or none.
LEMMA MessageFacts ==
  ASSUME RuntimeInv, NEW i \in 1..Len(control)
  PROVE  control[i].from \in Callers \cup {Nobody} /\ control[i].kind \in Kinds
<1>1. control[i] \in Message
  BY DEF RuntimeInv, TypeOK, EngineType
<1> QED
  BY <1>1 DEF Message, Kinds

\* What the engine takes from its channel, and what it leaves there.
LEMMA ReceiveFacts ==
  ASSUME RuntimeInv, control # <<>>, control' = Tail(control)
  PROVE  /\ control' \in Seq(Message) /\ Len(control) \in Nat /\ 1 \in 1..Len(control)
         /\ Head(control) = control[1] /\ Head(control).from \in Callers \cup {Nobody}
         /\ \A i \in 1..Len(control') : i + 1 \in 1..Len(control) /\ control'[i] = control[i + 1]
         /\ Head(control).kind # "Refresh" /\ InControl("Refresh") => InControl("Refresh")'
<1>1. /\ control' \in Seq(Message) /\ Len(control) \in Nat /\ 1 \in 1..Len(control)
      /\ Head(control) = control[1] /\ Len(control') = Len(control) - 1
      /\ \A i \in 1..Len(control') : i + 1 \in 1..Len(control) /\ control'[i] = control[i + 1]
      /\ \A i \in 1..Len(control) : i # 1 => i - 1 \in 1..Len(control') /\ control'[i - 1] = control[i]
  BY DEF RuntimeInv, TypeOK, EngineType
<1>2. Head(control).from \in Callers \cup {Nobody}
  BY <1>1, MessageFacts
<1>3. ASSUME Head(control).kind # "Refresh", InControl("Refresh") PROVE InControl("Refresh")'
  <2>1. PICK i \in 1..Len(control) : control[i].kind = "Refresh"
    BY <1>3 DEF InControl
  <2>2. i - 1 \in 1..Len(control') /\ control'[i - 1].kind = "Refresh"
    BY <1>1, <1>3, <2>1
  <2> QED
    BY <2>2 DEF InControl
<1> QED
  BY <1>1, <1>2, <1>3

\* What a message sent leaves as it was.
LEMMA SendFacts ==
  ASSUME RuntimeInv, NEW kind \in Kinds, NEW f \in Callers \cup {Nobody}, Send(kind, f)
  PROVE  /\ control' \in Seq(Message) /\ Len(control) \in Nat
         /\ \A i \in 1..Len(control) : i \in 1..Len(control') /\ control'[i] = control[i]
         /\ \A i \in 1..Len(control') :
              \/ i \in 1..Len(control) /\ control'[i] = control[i]
              \/ i = Len(control) + 1 /\ control'[i].kind = kind /\ control'[i].from = f
         /\ InControl("Refresh") \/ kind = "Refresh" => InControl("Refresh")'
<1> DEFINE m == [kind |-> kind, from |-> f]
<1>1. m \in Message
  BY DEF Message, Kinds
<1>2. control \in Seq(Message)
  BY DEF RuntimeInv, TypeOK, EngineType
<1>3. m.kind = kind /\ m.from = f
  OBVIOUS
<1> HIDE DEF m
<1>4. control' = Append(control, m)
  BY DEF Send, m
<1>5. /\ control' \in Seq(Message) /\ Len(control) \in Nat /\ Len(control') = Len(control) + 1
      /\ \A i \in 1..Len(control) : i \in 1..Len(control') /\ control'[i] = control[i]
      /\ Len(control) + 1 \in 1..Len(control') /\ control'[Len(control) + 1] = m
  BY <1>1, <1>2, <1>4
<1>6. \A i \in 1..Len(control') : i \in 1..Len(control) \/ i = Len(control) + 1
  BY <1>5
<1>7. InControl("Refresh") \/ kind = "Refresh" => InControl("Refresh")'
  BY <1>3, <1>5 DEF InControl
<1> QED
  BY <1>3, <1>5, <1>6, <1>7

\* A reply ends the control call that waits for it; the callers in refresh_now stay.
Answered ==
  /\ call' \in [Callers -> CallStates]
  /\ \A d \in Callers : /\ InRefresh(d)' <=> InRefresh(d)
                        /\ Waking(d)' <=> Waking(d)
                        /\ call'[d] = "wait" <=> call[d] = "wait"

\* What a reply does to the calls.
LEMMA AnswerFacts ==
  ASSUME RuntimeInv, NEW f \in Callers \cup {Nobody}, f # Nobody => call[f] = "reply", Answer(f)
  PROVE  Answered /\ \A d \in Callers : d # f => call'[d] = call[d]
<1>1. call \in [Callers -> CallStates]
  BY DEF RuntimeInv, TypeOK, CallerType, CallStates
<1>2. CASE f = Nobody
  BY <1>1, <1>2, RuntimeAssumption DEF Answer, Answered, InRefresh, Waking
<1>3. CASE f # Nobody
  BY <1>1, <1>3 DEF Answer, Step, CallStates, Answered, InRefresh, Waking
<1> QED
  BY <1>2, <1>3

\* A reply in hand is for a caller who waits for it.
LEMMA JobFacts ==
  ASSUME RuntimeInv
  PROVE  job.from \in Callers \cup {Nobody} /\ (job.from # Nobody => call[job.from] = "reply")
  BY DEF RuntimeInv, TypeOK, EngineType, ReplyInv

\* When the reply in hand has been given nobody else is affected.
LEMMA AnswerJob ==
  ASSUME RuntimeInv, Answer(job.from), job' = NoJob, control' = control
  PROVE  Answered /\ ReplyInv'
<1>1. Answered /\ \A d \in Callers : d # job.from => call'[d] = call[d]
  BY JobFacts, AnswerFacts
<1>2. \A i \in 1..Len(control) : control[i].from \in Callers \cup {Nobody}
  BY MessageFacts
<1> QED
  BY <1>1, <1>2 DEF RuntimeInv, ReplyInv, NoJob

\* The message taken is answered at once, or is the engine's job from now on.
LEMMA AnswerHead ==
  ASSUME RuntimeInv, control # <<>>, control' = Tail(control), Answer(Head(control).from),
         job' = job, job = NoJob
  PROVE  Answered /\ ReplyInv'
<1>1. Answered /\ \A d \in Callers : d # control[1].from => call'[d] = call[d]
  BY ReceiveFacts, AnswerFacts DEF RuntimeInv, ReplyInv
<1>2. \A i \in 1..Len(control) : control[i].from \in Callers \cup {Nobody}
  BY MessageFacts
<1>3. /\ \A i \in 1..Len(control') : i + 1 \in 1..Len(control) /\ control'[i] = control[i + 1]
      /\ 1 \in 1..Len(control) /\ Len(control) \in Nat /\ Len(control') \in Nat
  BY ReceiveFacts
<1>4. \A i \in 1..Len(control') : i \in Nat /\ i + 1 # 1
  BY <1>3
<1>5. ASSUME NEW i \in 1..Len(control'), control'[i].from # Nobody
      PROVE  call'[control'[i].from] = "reply"
  BY <1>1, <1>2, <1>3, <1>4, <1>5 DEF RuntimeInv, ReplyInv
<1>6. ASSUME NEW i \in 1..Len(control'), NEW j \in 1..Len(control'), control'[i].from # Nobody,
             control'[i].from = control'[j].from
      PROVE  i = j
  BY <1>3, <1>4, <1>6 DEF RuntimeInv, ReplyInv
<1> QED
  BY <1>1, <1>5, <1>6 DEF ReplyInv, NoJob

\* A message that is taken and becomes the job is answered later.
LEMMA TakeHead ==
  ASSUME RuntimeInv, control # <<>>, control' = Tail(control), call' = call,
         job'.from = Head(control).from \/ job'.from = Nobody
  PROVE  ReplyInv'
<1>1. \A i \in 1..Len(control) : control[i].from \in Callers \cup {Nobody}
  BY MessageFacts
<1>2. /\ \A i \in 1..Len(control') : i + 1 \in 1..Len(control) /\ control'[i] = control[i + 1]
      /\ 1 \in 1..Len(control) /\ Len(control) \in Nat /\ Len(control') \in Nat
      /\ Head(control) = control[1]
  BY ReceiveFacts
<1>3. \A i \in 1..Len(control') : i \in Nat /\ i + 1 # 1
  BY <1>2
<1>4. ASSUME job'.from # Nobody
      PROVE  call[job'.from] = "reply" /\ \A i \in 1..Len(control') : control'[i].from # job'.from
  BY <1>2, <1>3, <1>4 DEF RuntimeInv, ReplyInv
<1>5. ASSUME NEW i \in 1..Len(control'), control'[i].from # Nobody
      PROVE  call[control'[i].from] = "reply"
  BY <1>2, <1>5 DEF RuntimeInv, ReplyInv
<1>6. ASSUME NEW i \in 1..Len(control'), NEW j \in 1..Len(control'), control'[i].from # Nobody,
             control'[i].from = control'[j].from
      PROVE  i = j
  BY <1>2, <1>3, <1>6 DEF RuntimeInv, ReplyInv
<1> QED
  BY <1>4, <1>5, <1>6 DEF ReplyInv

\* A message sent: its reply is awaited by its sender, who awaited none before.
LEMMA SendReply ==
  ASSUME RuntimeInv, NEW kind \in Kinds, NEW f \in Callers \cup {Nobody}, Send(kind, f), job' = job,
         f # Nobody => call[f] # "reply" /\ call'[f] = "reply",
         \A d \in Callers : call[d] = "reply" => call'[d] = "reply"
  PROVE  ReplyInv'
<1>1. \A i \in 1..Len(control') :
        \/ i \in 1..Len(control) /\ control'[i] = control[i]
        \/ i = Len(control) + 1 /\ control'[i].from = f
  BY SendFacts
<1>2. \A i \in 1..Len(control) : control[i].from \in Callers \cup {Nobody}
  BY MessageFacts
<1>3. job.from \in Callers \cup {Nobody}
  BY JobFacts
<1>4. ASSUME job.from # Nobody
      PROVE  call'[job.from] = "reply" /\ \A i \in 1..Len(control') : control'[i].from # job.from
  BY <1>1, <1>3, <1>4 DEF RuntimeInv, ReplyInv
<1>5. ASSUME NEW i \in 1..Len(control'), control'[i].from # Nobody
      PROVE  call'[control'[i].from] = "reply"
  <2>1. CASE i \in 1..Len(control) /\ control'[i] = control[i]
    BY <1>2, <1>5, <2>1 DEF RuntimeInv, ReplyInv
  <2>2. CASE i = Len(control) + 1 /\ control'[i].from = f
    BY <1>5, <2>2
  <2> QED
    BY <1>1, <2>1, <2>2
<1>6. ASSUME NEW i \in 1..Len(control'), NEW j \in 1..Len(control'), control'[i].from # Nobody,
             control'[i].from = control'[j].from
      PROVE  i = j
  <2>1. \A k \in 1..Len(control) : f # Nobody => control[k].from # f
    BY <1>2 DEF RuntimeInv, ReplyInv
  <2> QED
    BY <1>1, <1>6, <2>1 DEF RuntimeInv, ReplyInv
<1> QED
  BY <1>4, <1>5, <1>6 DEF ReplyInv

\* Steps that send and take no message and end no control call.
LEMMA ReplyFrame ==
  ASSUME RuntimeInv, control' = control, job'.from = job.from,
         \A d \in Callers : call[d] = "reply" => call'[d] = "reply"
  PROVE  ReplyInv'
<1>1. \A i \in 1..Len(control) : control[i].from \in Callers \cup {Nobody}
  BY MessageFacts
<1> QED
  BY <1>1, JobFacts DEF RuntimeInv, ReplyInv


Answers == [kind : {"none", "ok", "error"}, publication : Publication]
Refusal == [NoAnswer EXCEPT !.kind = "error"]
Consent == [NoAnswer EXCEPT !.kind = "ok"]

\* The answers that carry no publication.
LEMMA AnswerTypes ==
  /\ NoPublication \in Publication /\ NoPublication.revision = 0
  /\ NoAnswer \in Answers /\ NoAnswer.kind = "none" /\ NoAnswer.publication = NoPublication
  /\ Refusal \in Answers /\ Refusal.kind = "error" /\ Refusal.publication = NoPublication
  /\ Consent \in Answers /\ Consent.kind = "ok" /\ Consent.publication = NoPublication
<1>1. NoPublication \in Publication /\ NoPublication.revision = 0
  BY DEF NoPublication, Publication, Event
<1>2. /\ NoAnswer = [kind |-> "none", publication |-> NoPublication]
      /\ Refusal = [kind |-> "error", publication |-> NoPublication]
      /\ Consent = [kind |-> "ok", publication |-> NoPublication]
  BY DEF NoAnswer, Refusal, Consent
<1> QED
  BY <1>1, <1>2 DEF Answers

\* An answer in hand is none at all, or says how it went.
LEMMA AnswerKinds ==
  ASSUME RuntimeInv
  PROVE  /\ answer \in Answers /\ publication \in Publication
         /\ publication.revision \in Nat /\ publication.collection \in Nat
         /\ answer.publication \in Publication /\ answer.publication.revision \in Nat
         /\ answer.publication.collection \in Nat
         /\ answer = NoAnswer => answer.kind = "none" /\ answer.publication = NoPublication
<1>1. answer \in Answers /\ publication \in Publication
  BY DEF RuntimeInv, TypeOK, EngineType, CollectorType, Answers
<1> QED
  BY <1>1, AnswerTypes DEF Answers, Publication

\* What a publication does to the store: nothing to the pause, and only a sample counts.
LEMMA AppliedFacts ==
  ASSUME NEW st \in StoreType, NEW pub \in Publication
  PROVE  /\ Applied(st, pub) \in StoreType /\ Applied(st, pub).paused = st.paused
         /\ pub.event # "sample" => Applied(st, pub).samples = st.samples
         /\ pub.revision \in Nat
<1>1. pub.revision \in Nat
  BY DEF Publication
<1> DEFINE state == IF pub.event = "fatal" THEN "fatal"
                    ELSE IF pub.event # "heartbeat" /\ ~st.paused THEN "running" ELSE st.state
           samples == IF pub.event = "sample" THEN st.samples + 1 ELSE st.samples
<1>2. state \in {"starting", "running", "paused", "fatal"} /\ samples \in Nat
  BY DEF StoreType
<1>3. Applied(st, pub) = [st EXCEPT !.state = state, !.samples = samples]
  BY DEF Applied, StoreType
<1> HIDE DEF state
<1>4. Applied(st, pub) \in StoreType /\ Applied(st, pub).paused = st.paused
      /\ Applied(st, pub).samples = samples
  BY <1>2, <1>3 DEF StoreType
<1> QED
  BY <1>1, <1>4

\* Pausing and resuming a store.
LEMMA PauseFacts ==
  ASSUME NEW st \in StoreType
  PROVE  /\ [st EXCEPT !.paused = TRUE, !.state = "paused"] \in StoreType
         /\ [st EXCEPT !.paused = TRUE, !.state = "paused"].paused = TRUE
         /\ [st EXCEPT !.paused = TRUE, !.state = "paused"].samples = st.samples
         /\ [st EXCEPT !.paused = FALSE, !.state = "running"] \in StoreType
         /\ [st EXCEPT !.paused = FALSE, !.state = "running"].paused = FALSE
         /\ [st EXCEPT !.state = "fatal"] \in StoreType
  BY DEF StoreType

\* A request in the collector's channel
LEMMA RequestFacts ==
  ASSUME RuntimeInv, NEW i \in 1..Len(inbox)
  PROVE  /\ inbox[i] \in Request /\ inbox[i].awaited \in BOOLEAN
         /\ inbox[i].kind \in {"Refresh", "Pause", "Resume", "SetInterval"}
<1>1. inbox[i] \in Request
  BY DEF RuntimeInv, TypeOK, CollectorType
<1> QED
  BY <1>1 DEF Request

\* What the collector takes from its channel, and what it leaves there.
LEMMA ServeFacts ==
  ASSUME RuntimeInv, inbox # <<>>, inbox' = Tail(inbox)
  PROVE  /\ inbox' \in Seq(Request) /\ Len(inbox) \in Nat /\ Len(inbox') \in Nat /\ 1 \in 1..Len(inbox)
         /\ Head(inbox) = inbox[1] /\ Head(inbox) \in Request
         /\ \A i \in 1..Len(inbox') : i \in Nat /\ i + 1 \in 1..Len(inbox) /\ i + 1 # 1
                                      /\ inbox'[i] = inbox[i + 1]
<1>1. /\ inbox' \in Seq(Request) /\ Len(inbox) \in Nat /\ Len(inbox') \in Nat /\ 1 \in 1..Len(inbox)
      /\ Head(inbox) = inbox[1] /\ Len(inbox') = Len(inbox) - 1 /\ Head(inbox) \in Request
      /\ \A i \in 1..Len(inbox') : i + 1 \in 1..Len(inbox) /\ inbox'[i] = inbox[i + 1]
  BY DEF RuntimeInv, TypeOK, CollectorType
<1> QED
  BY <1>1


\* The request the collector serves from now on: it collects for a refresh and a resume, and
\* answers any other at once.
LEMMA ServedFacts ==
  ASSUME RuntimeInv, Serve
  PROVE  /\ inbox[1].kind \in {"Refresh", "Pause", "Resume", "SetInterval"} /\ inbox[1].awaited \in BOOLEAN
         /\ serving' = inbox[1] /\ 1 \in 1..Len(inbox)
         /\ ~Attended /\ ~Publishing /\ ~Publishing' /\ collector # "stopped"
         /\ \A i \in 1..Len(inbox') : /\ i \in Nat /\ i + 1 \in 1..Len(inbox) /\ i + 1 # 1
                                      /\ inbox'[i] = inbox[i + 1]
         /\ inbox[1].kind \in {"Refresh", "Resume"} =>
              /\ collector' = "collecting" /\ begun' = begun + 1 /\ answer' = answer
              /\ Attended' <=> inbox[1].awaited
         /\ inbox[1].kind \notin {"Refresh", "Resume"} =>
              /\ collector' = "idle" /\ begun' = begun /\ ~Attended'
              /\ answer' = IF inbox[1].awaited THEN Consent ELSE answer
<1>1. /\ inbox[1].kind \in {"Refresh", "Pause", "Resume", "SetInterval"} /\ inbox[1].awaited \in BOOLEAN
      /\ serving' = inbox[1] /\ Head(inbox) = inbox[1] /\ 1 \in 1..Len(inbox)
  BY ServeFacts, RequestFacts DEF Serve
<1>2. ~Attended /\ ~Publishing /\ ~Publishing' /\ collector # "stopped"
  BY DEF Serve, Attended, Publishing
<1>3. \A i \in 1..Len(inbox') : /\ i \in Nat /\ i + 1 \in 1..Len(inbox) /\ i + 1 # 1
                                /\ inbox'[i] = inbox[i + 1]
  BY ServeFacts DEF Serve
<1>4. ASSUME inbox[1].kind \in {"Refresh", "Resume"}
      PROVE  /\ collector' = "collecting" /\ begun' = begun + 1 /\ answer' = answer
             /\ Attended' <=> inbox[1].awaited
  BY <1>1, <1>4 DEF Serve, Attended
<1>5. ASSUME inbox[1].kind \notin {"Refresh", "Resume"}
      PROVE  /\ collector' = "idle" /\ begun' = begun /\ ~Attended'
             /\ answer' = IF inbox[1].awaited THEN Consent ELSE answer
  BY <1>1, <1>5 DEF Serve, Attended, Publishing, Consent
<1> QED
  BY <1>1, <1>2, <1>3, <1>4, <1>5

\* What becomes of the answer when a publication has been notified: the one who asked has
\* the publication, or an error if the collector has stopped.
LEMMA NotifiedFacts ==
  ASSUME RuntimeInv, Publishing, Notified
  PROVE  /\ collector' = IF publication.event = "fatal" THEN "stopped" ELSE "idle"
         /\ serving' = Deadline /\ ~Attended'
         /\ answer' \in Answers
         /\ \/ answer' = answer /\ ~Attended
            \/ answer' = Refusal /\ Asking /\ publication.event = "fatal"
            \/ /\ answer' = [kind |-> "ok", publication |-> publication]
               /\ Attended /\ publication.event # "fatal"
<1>1. Attended <=> serving.awaited
  BY DEF Attended
<1>2. Attended => Asking
  BY DEF RuntimeInv, RequestInv
<1>3. answer \in Answers /\ publication \in Publication
  BY AnswerKinds
<1>4. [kind |-> "ok", publication |-> publication] \in Answers
  BY <1>3 DEF Answers
<1>5. collector' = IF publication.event = "fatal" THEN "stopped" ELSE "idle"
  BY DEF Notified
<1>6. serving' = Deadline /\ ~Attended'
  BY <1>5 DEF Notified, Attended, Publishing, Deadline
<1>7. \/ answer' = answer /\ ~Attended
      \/ answer' = Refusal /\ Asking /\ publication.event = "fatal"
      \/ answer' = [kind |-> "ok", publication |-> publication] /\ Attended /\ publication.event # "fatal"
  BY <1>1, <1>2 DEF Notified, Asking, Refusal
<1> QED
  BY <1>3, <1>4, <1>5, <1>6, <1>7, AnswerTypes

Wanted(kind) == [kind |-> IF kind = "SetSampleInterval" THEN "SetInterval" ELSE kind, awaited |-> TRUE]
Jobs == [kind : {"none", "Refresh", "Pause", "Resume", "SetSampleInterval"},
         from : Callers \cup {Nobody}, gen : Nat]

\* A call on the collector leaves one request of its kind, and every other as it was; there
\* is no second wake for a refresh.
LEMMA AskFacts ==
  ASSUME RuntimeInv, NEW kind \in {"Refresh", "Pause", "Resume", "SetSampleInterval"},
         NEW f \in Callers \cup {Nobody}, NEW gen \in Nat, CallCollector(kind, f, gen)
  PROVE  /\ inbox' \in Seq(Request) /\ Len(inbox') \in Nat /\ Len(inbox) \in Nat
         /\ engine' = "calling" /\ answer' = NoAnswer
         /\ job' \in Jobs /\ job'.kind = kind /\ job'.from = f /\ job'.gen = gen
         /\ \E k \in 1..Len(inbox') :
              /\ inbox'[k] = Wanted(kind)
              /\ \A i \in 1..Len(inbox') : i # k =>
                   /\ i \in 1..Len(inbox) /\ inbox'[i] = inbox[i]
                   /\ kind = "Refresh" => inbox[i].kind # "Refresh"
         /\ UNCHANGED <<publication, collector, serving, pausedThere, begun>>
<1>1. Wanted(kind) \in Request
  BY DEF Wanted, Request
<1>2. inbox \in Seq(Request) /\ Len(inbox) \in Nat
  BY DEF RuntimeInv, TypeOK, CollectorType
<1>3. job' = [kind |-> kind, from |-> f, gen |-> gen]
  BY DEF CallCollector
<1>4. job' \in Jobs /\ job'.kind = kind /\ job'.from = f /\ job'.gen = gen
  BY <1>3 DEF Jobs
<1> DEFINE waiting == {i \in 1..Len(inbox) : inbox[i].kind = "Refresh"}
           r == Wanted(kind)
<1>5. inbox' = IF kind = "Refresh" /\ waiting # {}
               THEN [i \in 1..Len(inbox) |-> IF i \in waiting THEN r ELSE inbox[i]]
               ELSE Append(inbox, r)
  BY DEF CallCollector, Wanted
<1> HIDE DEF r
<1>6. CASE kind = "Refresh" /\ waiting # {}
  <2>1. PICK k \in 1..Len(inbox) : inbox[k].kind = "Refresh"
    BY <1>6
  <2>2. \A i \in 1..Len(inbox) : inbox[i].kind = "Refresh" => i = k
    BY <2>1 DEF RuntimeInv, RequestInv
  <2>3. inbox' = [i \in 1..Len(inbox) |-> IF i = k THEN r ELSE inbox[i]]
    BY <1>5, <1>6, <2>1, <2>2
  <2>4. inbox' \in Seq(Request) /\ Len(inbox') = Len(inbox)
    BY <1>1, <1>2, <2>3 DEF r
  <2>5. /\ inbox'[k] = r
        /\ \A i \in 1..Len(inbox') : i # k => inbox'[i] = inbox[i] /\ inbox[i].kind # "Refresh"
    BY <2>1, <2>2, <2>3, <2>4
  <2> QED
    BY <1>2, <1>4, <2>4, <2>5 DEF CallCollector, r
<1>7. CASE ~(kind = "Refresh" /\ waiting # {})
  <2>1. inbox' = Append(inbox, r)
    BY <1>5, <1>7
  <2>2. /\ inbox' \in Seq(Request) /\ Len(inbox') = Len(inbox) + 1
        /\ inbox'[Len(inbox) + 1] = r /\ Len(inbox) + 1 \in 1..Len(inbox')
        /\ \A i \in 1..Len(inbox) : inbox'[i] = inbox[i]
    BY <1>1, <1>2, <2>1 DEF r
  <2>3. \A i \in 1..Len(inbox') : i # Len(inbox) + 1 =>
          /\ i \in 1..Len(inbox) /\ inbox'[i] = inbox[i]
          /\ kind = "Refresh" => inbox[i].kind # "Refresh"
    BY <1>2, <1>7, <2>2
  <2>4. Len(inbox') \in Nat
    BY <1>2, <2>2
  <2>5. \E k \in 1..Len(inbox') :
          /\ inbox'[k] = r
          /\ \A i \in 1..Len(inbox') : i # k =>
               /\ i \in 1..Len(inbox) /\ inbox'[i] = inbox[i]
               /\ kind = "Refresh" => inbox[i].kind # "Refresh"
    BY <2>2, <2>3
  <2> QED
    BY <1>2, <1>4, <2>2, <2>4, <2>5 DEF CallCollector, r
<1> QED
  BY <1>6, <1>7

\* The request of a new call is the only one that is awaited.
LEMMA AskRequest ==
  ASSUME RuntimeInv, NEW kind \in {"Refresh", "Pause", "Resume", "SetSampleInterval"},
         NEW f \in Callers \cup {Nobody}, NEW gen \in Nat, engine = "recv", CallCollector(kind, f, gen)
  PROVE  RequestInv'
<1>1. PICK k \in 1..Len(inbox') :
        /\ inbox'[k] = Wanted(kind)
        /\ \A i \in 1..Len(inbox') : i # k =>
             /\ i \in 1..Len(inbox) /\ inbox'[i] = inbox[i]
             /\ kind = "Refresh" => inbox[i].kind # "Refresh"
  BY AskFacts
<1>2. /\ engine' = "calling" /\ answer' = NoAnswer /\ job'.kind = kind
      /\ UNCHANGED <<publication, collector, serving, pausedThere, begun>>
  BY AskFacts
<1>3. ~Asking /\ ~Attended /\ ~Attended'
  BY <1>2 DEF RuntimeInv, RequestInv, Asking, Attended, Publishing
<1>4. inbox'[k].awaited /\ (inbox'[k].kind = "Refresh" <=> kind = "Refresh") /\ OfJob(inbox[k].kind)'
  BY <1>1, <1>2 DEF Wanted, OfJob
<1>5. collector # "stopped" => \A i \in 1..Len(inbox') : i # k => ~inbox'[i].awaited
  BY <1>1, <1>3 DEF RuntimeInv, RequestInv
<1>6. ASSUME NEW i \in 1..Len(inbox'), NEW j \in 1..Len(inbox'),
             inbox'[i].kind = "Refresh", inbox'[j].kind = "Refresh"
      PROVE  i = j
  BY <1>1, <1>4, <1>6 DEF RuntimeInv, RequestInv
<1>7. Asking'
  BY <1>2 DEF Asking
<1> QED
  BY <1>2, <1>3, <1>4, <1>5, <1>6, <1>7 DEF RequestInv, OfJob

\* A step that changes nothing at the gate, starts or ends no refresh of a caller and takes
\* no wake leaves everyone served.
LEMMA ServedFrame ==
  ASSUME RuntimeInv, UNCHANGED <<requested, started, completed, failed, target>>,
         Stopped => Stopped', InControl("Refresh") => InControl("Refresh")' \/ Stopped',
         job.kind = "Refresh" => job' = job,
         \A d \in Callers : (Waking(d) => Waking(d)') /\ (InRefresh(d)' => InRefresh(d))
  PROVE  ServedInv'
  BY DEF RuntimeInv, ServedInv, FailureOverwritten

Untouched(c) ==
  \A d \in Callers \ {c} : call'[d] = call[d] /\ target'[d] = target[d] /\ asked'[d] = asked[d]

\* A refresh that ends, and everyone else.
LEMMA ReturnFacts ==
  ASSUME RuntimeInv, NEW c \in Callers, Return(c)
  PROVE  /\ call' \in [Callers -> CallStates] /\ target' \in [Callers -> Nat] /\ asked' \in [Callers -> Nat]
         /\ call'[c] = "idle" /\ target'[c] = 0 /\ asked'[c] = 0 /\ Untouched(c)
<1>1. /\ call \in [Callers -> CallStates] /\ target \in [Callers -> Nat] /\ asked \in [Callers -> Nat]
  BY DEF RuntimeInv, TypeOK, CallerType, CallStates
<1> QED
  BY <1>1 DEF Return, Step, CallStates, Untouched

\* A refresh that is asked for while the gate is open: its generation has not been started.
LEMMA RequestedFacts ==
  ASSUME RuntimeInv, NEW c \in Callers, RequestRefresh(c), ~terminal
  PROVE  /\ call' \in [Callers -> CallStates] /\ target' \in [Callers -> Nat] /\ asked' \in [Callers -> Nat]
         /\ call'[c] = IF wake THEN "wait" ELSE "send"
         /\ target'[c] = requested' /\ asked'[c] = begun /\ Untouched(c)
         /\ requested' \in Nat /\ requested <= requested' /\ started < requested'
         /\ begun \in Nat /\ begun' = begun
<1>1. /\ call \in [Callers -> CallStates] /\ target \in [Callers -> Nat] /\ asked \in [Callers -> Nat]
      /\ begun \in Nat /\ requested \in Nat /\ started \in Nat /\ started <= requested
  BY DEF RuntimeInv, TypeOK, CallerType, CallStates, CollectorType, GateType, GateInv
<1>2. requested' = IF requested = started THEN requested + 1 ELSE requested
  BY DEF RequestRefresh
<1>3. requested' \in Nat /\ requested <= requested' /\ started < requested'
  BY <1>1, <1>2
<1>4. /\ target' = [target EXCEPT ![c] = requested'] /\ asked' = [asked EXCEPT ![c] = begun]
      /\ call' = [call EXCEPT ![c] = IF wake THEN "wait" ELSE "send"] /\ begun' = begun
  BY DEF RequestRefresh, Step, engineVars, collectorVars
<1> QED
  BY <1>1, <1>3, <1>4 DEF CallStates, Untouched

\* The collector shows that it is alive: a later revision of the same collection.
LEMMA HeartbeatFacts ==
  ASSUME RuntimeInv, publication' = [publication EXCEPT !.revision = @ + 1, !.event = "heartbeat"]
  PROVE  /\ publication' \in Publication /\ publication'.event = "heartbeat"
         /\ publication'.revision = publication.revision + 1
         /\ publication'.collection = publication.collection
<1>1. publication \in Publication
  BY AnswerKinds
<1>2. publication.revision \in Nat /\ publication.collection \in Nat
  BY <1>1 DEF Publication
<1>3. publication' = [revision |-> publication.revision + 1, collection |-> publication.collection,
                      event |-> "heartbeat"]
  BY <1>1 DEF Publication
<1> QED
  BY <1>2, <1>3 DEF Publication, Event

\* When a refresh ends the generations of the others are as they were.
LEMMA ReturnGate ==
  ASSUME RuntimeInv, NEW c \in Callers, Return(c), UNCHANGED <<requested, started, completed, wake, begun>>
  PROVE  GateInv'
<1>1. /\ \A d \in Callers : d # c => call'[d] = call[d] /\ target'[d] = target[d] /\ asked'[d] = asked[d]
      /\ call'[c] = "idle" /\ asked'[c] = 0
  BY ReturnFacts DEF Untouched
<1>2. begun \in Nat
  BY DEF RuntimeInv, TypeOK, CollectorType
<1> QED
  BY <1>1, <1>2 DEF RuntimeInv, GateInv, InRefresh

\* An answer without a publication, when nothing is applied or published.
LEMMA RevisionFrame ==
  ASSUME RuntimeInv, UNCHANGED <<publication, last, collector>>, answer' \in {NoAnswer, Refusal},
         Attended' => Attended, Stopped => Stopped'
  PROVE  RevisionInv'
<1>1. answer'.kind # "ok" /\ answer'.publication.revision <= publication.revision
  BY AnswerTypes, AnswerKinds
<1> QED
  BY <1>1 DEF RuntimeInv, RevisionInv, AnswerIsNew, IsNew, Publishing

-----------------------------------------------------------------------------
(* The actions                                                              *)

USE RuntimeAssumption
USE DEF gateVars, storeVars, collectorVars, callVars, bounds, engineVars, callerVars, outside, vars,
        Step, NotifyAll, Return

\* A call begins: it has asked for nothing yet.
LEMMA BeginKeeps ==
  ASSUME RuntimeInv, NEW c \in Callers, NEW pc \in {"gate", "control"}, Begin(c, pc)
  PROVE  RuntimeInv'
<1>1. /\ GateType' /\ EngineType' /\ CollectorType' /\ JobInv' /\ RequestInv' /\ RevisionInv'
      /\ PauseInv'
  BY DEF Begin, RuntimeInv, TypeOK, GateType, EngineType, CollectorType, JobInv, RequestInv, Asking,
     Attended, OfJob, Publishing, RevisionInv, Stopped, IsNew, AnswerIsNew, PauseInv
<1>2. CallerType'
  BY DEF Begin, RuntimeInv, TypeOK, CallerType
<1>3. GateInv'
  BY DEF Begin, RuntimeInv, GateInv, InRefresh
<1>4. FreshInv'
  BY DEF Begin, RuntimeInv, FreshInv, Attended, After, Publishing, InRefresh
<1>5. ServedInv'
  BY DEF Begin, RuntimeInv, ServedInv, Stopped, InControl, Waking, InRefresh, FailureOverwritten
<1>6. ReplyInv'
  BY DEF Begin, RuntimeInv, ReplyInv
<1> QED
  BY <1>1, <1>2, <1>3, <1>4, <1>5, <1>6 DEF RuntimeInv, TypeOK

\* A refresh is asked for: its generation is one that has not been started.
LEMMA RequestRefreshKeeps ==
  ASSUME RuntimeInv, NEW c \in Callers, RequestRefresh(c)
  PROVE  RuntimeInv'
<1>1. /\ EngineType' /\ CollectorType' /\ JobInv' /\ RequestInv' /\ RevisionInv' /\ PauseInv'
  BY DEF RequestRefresh, RuntimeInv, TypeOK, EngineType, CollectorType, JobInv, RequestInv, Asking,
     Attended, OfJob, Publishing, RevisionInv, Stopped, IsNew, AnswerIsNew, PauseInv
<1>2. GateType'
  <2>1. CASE terminal
    BY <2>1 DEF RequestRefresh, RuntimeInv, TypeOK, GateType
  <2>2. CASE ~terminal
    BY <2>2 DEF RequestRefresh, RuntimeInv, TypeOK, GateType
  <2> QED
    BY <2>1, <2>2
<1>3. CallerType'
  <2>1. CASE terminal
    BY <2>1, ReturnFacts DEF RequestRefresh, CallerType, CallStates, RuntimeInv, TypeOK
  <2>2. CASE ~terminal
    BY <2>2, RequestedFacts DEF RequestRefresh, CallerType, CallStates, RuntimeInv, TypeOK
  <2> QED
    BY <2>1, <2>2
<1>4. GateInv'
  <2>1. CASE terminal
    BY <2>1, ReturnGate DEF RequestRefresh
  <2>2. CASE ~terminal
    <3>1. \A d \in Callers : d # c => call'[d] = call[d] /\ target'[d] = target[d] /\ asked'[d] = asked[d]
      BY <2>2, RequestedFacts DEF Untouched
    <3>2. \A d \in Callers : target[d] \in Nat /\ asked[d] \in Nat
      BY DEF RuntimeInv, TypeOK, CallerType
    <3>3. /\ completed \in Nat /\ started \in Nat /\ requested \in Nat
          /\ completed <= started /\ started <= requested
          /\ \A d \in Callers : InRefresh(d) => 0 < target[d] /\ target[d] <= requested
          /\ \A d \in Callers : asked[d] <= begun
      BY DEF RuntimeInv, TypeOK, GateType, GateInv
    <3>4. /\ \A d \in Callers : InRefresh(d)' => 0 < target'[d] /\ target'[d] <= requested'
          /\ \A d \in Callers : asked'[d] <= begun'
      BY <2>2, <3>1, <3>2, <3>3, RequestedFacts DEF InRefresh
    <3> QED
      BY <2>2, <3>3, <3>4, RequestedFacts DEF RequestRefresh, GateInv
  <2> QED
    BY <2>1, <2>2
<1>5. FreshInv'
  <2>1. CASE terminal
    BY <2>1, ReturnFacts DEF RequestRefresh, RuntimeInv, FreshInv, After, InRefresh, Untouched,
       Attended, Publishing
  <2>2. CASE ~terminal
    <3>1. \A d \in Callers : d # c => call'[d] = call[d] /\ target'[d] = target[d] /\ asked'[d] = asked[d]
      BY <2>2, RequestedFacts DEF Untouched
    <3>2. /\ completed \in Nat /\ started \in Nat /\ completed <= started
          /\ job.kind = "Refresh" => job.gen \in Nat /\ job.gen <= started
      BY DEF RuntimeInv, TypeOK, GateType, EngineType, GateInv, JobInv
    <3>3. ~(target'[c] <= completed) /\ (job.kind = "Refresh" => ~(target'[c] <= job.gen))
      BY <2>2, <3>2, RequestedFacts
    <3> QED
      BY <3>1, <3>2, <3>3 DEF RequestRefresh, RuntimeInv, FreshInv, After, InRefresh, Attended, Publishing
  <2> QED
    BY <2>1, <2>2
<1>6. ServedInv'
  <2>1. CASE terminal
    <3>1. \A d \in Callers : (Waking(d) => Waking(d)') /\ (InRefresh(d)' => InRefresh(d))
      BY <2>1, ReturnFacts DEF RequestRefresh, Waking, InRefresh, Untouched
    <3>2. \A d \in Callers : InRefresh(d)' => target'[d] = target[d]
      BY <2>1, ReturnFacts DEF RequestRefresh, InRefresh, Untouched
    <3>3. \A d \in Callers : Waking(d) => target'[d] = target[d]
      BY <2>1, ReturnFacts DEF RequestRefresh, Waking, Untouched
    <3> QED
      BY <2>1, <3>1, <3>2, <3>3 DEF RequestRefresh, RuntimeInv, ServedInv, Stopped, InControl,
         FailureOverwritten
  <2>2. CASE ~terminal
    <3>1. requested' > started'
      BY <2>2, RequestedFacts DEF RequestRefresh, RuntimeInv, TypeOK, GateType
    <3>2. CASE wake
      <4>1. requested' = requested /\ requested > started
        BY <2>2, <3>2 DEF RequestRefresh, RuntimeInv, TypeOK, GateType, GateInv
      <4>2. \A d \in Callers : Waking(d) => Waking(d)' /\ target'[d] = target[d]
        BY <2>2, RequestedFacts DEF RequestRefresh, Waking, Untouched
      <4> QED
        BY <3>1, <4>1, <4>2 DEF RequestRefresh, RuntimeInv, ServedInv, Stopped, InControl
    <3>3. CASE ~wake
      <4>1. Waking(c)' /\ target'[c] = requested'
        BY <2>2, <3>3, RequestedFacts DEF Waking
      <4> QED
        BY <3>1, <4>1 DEF ServedInv
    <3> QED
      BY <3>2, <3>3
  <2> QED
    BY <2>1, <2>2
<1>7. ReplyInv'
  BY ReplyFrame DEF RequestRefresh, RuntimeInv, TypeOK, CallerType
<1> QED
  BY <1>1, <1>2, <1>3, <1>4, <1>5, <1>6, <1>7 DEF RuntimeInv, TypeOK

\* The wake is sent, or finds the channel full.
LEMMA SendRefreshKeeps ==
  ASSUME RuntimeInv, NEW c \in Callers, SendRefresh(c)
  PROVE  RuntimeInv'
<1>1. /\ GateType' /\ CollectorType' /\ JobInv' /\ RequestInv' /\ RevisionInv' /\ PauseInv'
  BY DEF SendRefresh, Accepts, Send, RuntimeInv, TypeOK, GateType, CollectorType, JobInv, RequestInv,
     Asking, Attended, OfJob, Publishing, RevisionInv, Stopped, IsNew, AnswerIsNew, PauseInv
<1>2. EngineType'
  BY SendFacts DEF SendRefresh, RuntimeInv, TypeOK, EngineType, Kinds
<1>3. CallerType'
  BY DEF SendRefresh, Accepts, Send, RuntimeInv, TypeOK, CallerType
<1>4. GateInv'
  BY DEF SendRefresh, Accepts, Send, RuntimeInv, GateInv, InRefresh, TypeOK, GateType, CallerType,
   CollectorType
<1>5. FreshInv'
  BY DEF SendRefresh, Accepts, Send, RuntimeInv, FreshInv, Attended, After, Publishing, InRefresh, TypeOK,
   CallerType, GateType, EngineType, CollectorType
<1>6. ServedInv'
  <2>1. \A d \in Callers : InRefresh(d) <=> InRefresh(d)'
    BY DEF SendRefresh, RuntimeInv, TypeOK, CallerType, InRefresh
  <2>2. CASE Accepts
    <3>1. InControl("Refresh")'
      BY <2>2, SendFacts DEF SendRefresh, Kinds
    <3> QED
      BY <2>1, <3>1 DEF SendRefresh, RuntimeInv, ServedInv, Stopped, FailureOverwritten
  <2>3. CASE ~Accepts
    <3>1. \A d \in Callers : Waking(d) => Waking(d)'
      BY <2>3 DEF SendRefresh, RuntimeInv, TypeOK, CallerType, Waking
    <3> QED
      BY <2>1, <2>3, <3>1, ServedFrame DEF SendRefresh, Stopped, InControl
  <2> QED
    BY <2>2, <2>3
<1>7. ReplyInv'
  <2>1. CASE Accepts
    BY <2>1, SendReply DEF SendRefresh, RuntimeInv, TypeOK, CallerType, Kinds
  <2>2. CASE ~Accepts
    BY <2>2, ReplyFrame DEF SendRefresh, RuntimeInv, TypeOK, CallerType
  <2> QED
    BY <2>1, <2>2
<1> QED
  BY <1>1, <1>2, <1>3, <1>4, <1>5, <1>6, <1>7 DEF RuntimeInv, TypeOK

\* A caller fails the generation it could not ask for; the others learn of it.
LEMMA FailRefreshKeeps ==
  ASSUME RuntimeInv, NEW c \in Callers, FailRefresh(c)
  PROVE  RuntimeInv'
<1>1. /\ EngineType' /\ CollectorType' /\ RequestInv' /\ RevisionInv' /\ PauseInv'
  BY DEF FailRefresh, FailGeneration, Larger, RuntimeInv, TypeOK, EngineType, CollectorType, RequestInv,
     Asking, Attended, OfJob, Publishing, RevisionInv, Stopped, IsNew, AnswerIsNew, PauseInv
<1>2. GateType'
  <2>1. target[c] \in Nat /\ started \in Nat /\ Larger(started, target[c]) \in Nat
    BY DEF RuntimeInv, TypeOK, GateType, CallerType, Larger
  <2> QED
    BY <2>1 DEF FailRefresh, FailGeneration, RuntimeInv, TypeOK, GateType
<1>3. CallerType'
  BY DEF FailRefresh, FailGeneration, Larger, RuntimeInv, TypeOK, CallerType
<1>4. GateInv'
  BY DEF FailRefresh, FailGeneration, Larger, RuntimeInv, GateInv, InRefresh, TypeOK, GateType,
   CallerType, CollectorType
<1>5. JobInv'
  BY DEF FailRefresh, FailGeneration, Larger, RuntimeInv, JobInv, TypeOK, GateType, EngineType
<1>6. FreshInv'
  BY DEF FailRefresh, FailGeneration, RuntimeInv, FreshInv, Attended, After, Publishing, InRefresh,
   TypeOK, CallerType, GateType, EngineType, CollectorType
<1>7. ServedInv'
  BY DEF FailRefresh, FailGeneration, Larger, RuntimeInv, ServedInv, Stopped, InControl, Waking,
   InRefresh, FailureOverwritten, TypeOK, CallerType, GateType, EngineType, GateInv, JobInv
<1>8. ReplyInv'
  BY DEF FailRefresh, FailGeneration, Larger, RuntimeInv, ReplyInv
<1> QED
  BY <1>1, <1>2, <1>3, <1>4, <1>5, <1>6, <1>7, <1>8 DEF RuntimeInv, TypeOK

\* A waiting caller looks at the gate and returns, or goes to sleep.
LEMMA WaitKeeps ==
  ASSUME RuntimeInv, NEW c \in Callers, Wait(c)
  PROVE  RuntimeInv'
<1>1. /\ EngineType' /\ CollectorType' /\ JobInv' /\ RequestInv' /\ RevisionInv' /\ PauseInv'
  BY DEF Wait, RuntimeInv, TypeOK, EngineType, CollectorType, JobInv, RequestInv, Asking, Attended,
     OfJob, Publishing, RevisionInv, Stopped, IsNew, AnswerIsNew, PauseInv
<1>2. GateType'
  BY DEF Wait, RuntimeInv, TypeOK, GateType
<1>3. CallerType'
  BY DEF Wait, RuntimeInv, TypeOK, CallerType
<1>4. GateInv'
  <2>1. CASE Return(c)
    BY <2>1, ReturnGate DEF Wait
  <2>2. CASE UNCHANGED callVars
    BY <2>2 DEF Wait, RuntimeInv, GateInv, InRefresh
  <2> QED
    BY <2>1, <2>2 DEF Wait
<1>5. FreshInv'
  <2>1. CASE Return(c)
    BY <2>1, ReturnFacts DEF Wait, RuntimeInv, FreshInv, After, InRefresh, Untouched, Attended, Publishing
  <2>2. CASE UNCHANGED callVars
    BY <2>2 DEF Wait, RuntimeInv, FreshInv, After, InRefresh, Attended, Publishing
  <2> QED
    BY <2>1, <2>2 DEF Wait
<1>6. ServedInv'
  <2>1. CASE Return(c)
    <3>1. \A d \in Callers : InRefresh(d)' => InRefresh(d) /\ target'[d] = target[d]
      BY <2>1, ReturnFacts DEF InRefresh, Untouched
    <3>2. \A d \in Callers : Waking(d) => Waking(d)' /\ target'[d] = target[d]
      BY <2>1, ReturnFacts DEF Wait, Waking, Untouched
    <3> QED
      BY <3>1, <3>2 DEF Wait, RuntimeInv, ServedInv, Stopped, InControl, FailureOverwritten
  <2>2. CASE UNCHANGED callVars
    BY <2>2, ServedFrame DEF Wait, Waking, InRefresh, Stopped, InControl
  <2> QED
    BY <2>1, <2>2 DEF Wait
<1>7. ReplyInv'
  BY ReplyFrame DEF Wait, RuntimeInv, TypeOK, CallerType
<1> QED
  BY <1>1, <1>2, <1>3, <1>4, <1>5, <1>6, <1>7 DEF RuntimeInv, TypeOK

\* A waiting caller gives up.
LEMMA WaitTimeoutKeeps ==
  ASSUME RuntimeInv, NEW c \in Callers, WaitTimeout(c)
  PROVE  RuntimeInv'
<1>1. /\ EngineType' /\ CollectorType' /\ JobInv' /\ RequestInv' /\ RevisionInv' /\ PauseInv'
  BY DEF WaitTimeout, RuntimeInv, TypeOK, EngineType, CollectorType, JobInv, RequestInv, Asking,
     Attended, OfJob, Publishing, RevisionInv, Stopped, IsNew, AnswerIsNew, PauseInv
<1>2. GateType'
  BY DEF WaitTimeout, RuntimeInv, TypeOK, GateType
<1>3. CallerType'
  BY DEF WaitTimeout, RuntimeInv, TypeOK, CallerType
<1>4. GateInv'
  BY DEF WaitTimeout, RuntimeInv, GateInv, InRefresh, TypeOK, GateType, CallerType, CollectorType
<1>5. FreshInv'
  BY DEF WaitTimeout, RuntimeInv, FreshInv, Attended, After, Publishing, InRefresh, TypeOK, CallerType,
   GateType, EngineType, CollectorType
<1>6. ServedInv'
  BY DEF WaitTimeout, RuntimeInv, ServedInv, Stopped, InControl, Waking, InRefresh, FailureOverwritten,
   TypeOK, CallerType, GateType, EngineType
<1>7. ReplyInv'
  BY DEF WaitTimeout, RuntimeInv, ReplyInv
<1> QED
  BY <1>1, <1>2, <1>3, <1>4, <1>5, <1>6, <1>7 DEF RuntimeInv, TypeOK

\* A control call gives up: nobody awaits the reply any more.
LEMMA ReplyTimeoutKeeps ==
  ASSUME RuntimeInv, NEW c \in Callers, ReplyTimeout(c)
  PROVE  RuntimeInv'
<1>1. /\ GateType' /\ CollectorType'
  BY DEF ReplyTimeout, Deaf, RuntimeInv, TypeOK, GateType, CollectorType
<1>2. EngineType'
  <2>1. control \in Seq(Message) /\ job \in Jobs
    BY DEF RuntimeInv, TypeOK, EngineType, Jobs
  <2>2. \A m \in Message : Deaf(m, c) \in Message
    BY DEF Deaf, Message
  <2>3. Deaf(job, c) \in Jobs
    BY <2>1 DEF Deaf, Jobs
  <2>4. control' \in Seq(Message)
    BY <2>1, <2>2 DEF ReplyTimeout
  <2> QED
    BY <2>3, <2>4 DEF ReplyTimeout, RuntimeInv, TypeOK, EngineType, Jobs
<1>3. CallerType'
  BY DEF ReplyTimeout, Deaf, RuntimeInv, TypeOK, CallerType
<1>4. GateInv'
  BY DEF ReplyTimeout, Deaf, RuntimeInv, GateInv, InRefresh
<1>5. JobInv'
  BY DEF ReplyTimeout, Deaf, RuntimeInv, JobInv, NoJob
<1>6. RequestInv'
  BY DEF ReplyTimeout, Deaf, RuntimeInv, RequestInv, Asking, Attended, OfJob, Publishing
<1>7. FreshInv'
  BY DEF ReplyTimeout, Deaf, RuntimeInv, FreshInv, Attended, After, Publishing, InRefresh
<1>8. RevisionInv'
  BY DEF ReplyTimeout, Deaf, RuntimeInv, RevisionInv, Stopped, Attended, Publishing, IsNew, AnswerIsNew
<1>9. ServedInv'
  BY DEF ReplyTimeout, Deaf, RuntimeInv, ServedInv, Stopped, InControl, Waking, InRefresh,
   FailureOverwritten
<1>10. PauseInv'
  BY DEF ReplyTimeout, Deaf, RuntimeInv, PauseInv, Publishing, Stopped, IsNew
<1>11. ReplyInv'
  BY DEF ReplyTimeout, Deaf, RuntimeInv, ReplyInv
<1> QED
  BY <1>1, <1>2, <1>3, <1>4, <1>5, <1>6, <1>7, <1>8, <1>9, <1>10, <1>11 DEF RuntimeInv, TypeOK

\* A sleeping caller wakes for no reason.
LEMMA SpuriousWakeupKeeps ==
  ASSUME RuntimeInv, NEW c \in Callers, SpuriousWakeup(c)
  PROVE  RuntimeInv'
<1>1. /\ EngineType' /\ CollectorType' /\ CallerType' /\ GateInv' /\ JobInv' /\ RequestInv'
      /\ FreshInv' /\ RevisionInv' /\ ServedInv' /\ PauseInv' /\ ReplyInv'
  BY DEF SpuriousWakeup, RuntimeInv, TypeOK, EngineType, CollectorType, CallerType, GateInv, InRefresh,
     JobInv, RequestInv, Asking, Attended, OfJob, Publishing, FreshInv, After, RevisionInv, Stopped,
     IsNew, AnswerIsNew, ServedInv, InControl, Waking, FailureOverwritten, PauseInv, ReplyInv
<1>2. GateType'
  BY DEF SpuriousWakeup, RuntimeInv, TypeOK, GateType
<1> QED
  BY <1>1, <1>2 DEF RuntimeInv, TypeOK

\* A control message is sent, or finds the channel full.
LEMMA SendControlKeeps ==
  ASSUME RuntimeInv, NEW c \in Callers, NEW kind \in Controls, SendControl(c, kind)
  PROVE  RuntimeInv'
<1>1. /\ GateType' /\ CollectorType' /\ JobInv' /\ RequestInv' /\ RevisionInv' /\ PauseInv'
  BY DEF SendControl, Accepts, Send, RuntimeInv, TypeOK, GateType, CollectorType, JobInv, RequestInv,
     Asking, Attended, OfJob, Publishing, RevisionInv, Stopped, IsNew, AnswerIsNew, PauseInv
<1>2. EngineType'
  BY SendFacts DEF SendControl, RuntimeInv, TypeOK, EngineType, Kinds
<1>3. CallerType'
  BY DEF SendControl, Accepts, Send, RuntimeInv, TypeOK, CallerType
<1>4. GateInv'
  BY DEF SendControl, Accepts, Send, RuntimeInv, GateInv, InRefresh, TypeOK, GateType, CallerType,
   CollectorType
<1>5. FreshInv'
  BY DEF SendControl, Accepts, Send, RuntimeInv, FreshInv, Attended, After, Publishing, InRefresh, TypeOK,
   CallerType, GateType, EngineType, CollectorType
<1>6. ServedInv'
  <2>1. call \in [Callers -> CallStates]
    BY DEF RuntimeInv, TypeOK, CallerType, CallStates
  <2>2. \A d \in Callers : (Waking(d) => Waking(d)') /\ (InRefresh(d)' => InRefresh(d))
    BY <2>1 DEF SendControl, Waking, InRefresh
  <2>3. CASE Accepts
    BY <2>2, <2>3, SendFacts, ServedFrame DEF SendControl, Kinds, Stopped
  <2>4. CASE ~Accepts
    BY <2>2, <2>4, ServedFrame DEF SendControl, Stopped, InControl
  <2> QED
    BY <2>3, <2>4
<1>7. ReplyInv'
  <2>1. call \in [Callers -> CallStates] /\ kind \in Kinds /\ c \in Callers \cup {Nobody}
    BY DEF RuntimeInv, TypeOK, CallerType, CallStates, Kinds
  <2>2. \A d \in Callers : call[d] = "reply" => call'[d] = "reply"
    BY <2>1 DEF SendControl
  <2>3. CASE Accepts
    <3>1. Send(kind, c) /\ job' = job /\ call[c] # "reply" /\ call'[c] = "reply"
      BY <2>1, <2>3 DEF SendControl
    <3> QED
      BY <2>1, <2>2, <3>1, SendReply
  <2>4. CASE ~Accepts
    BY <2>2, <2>4, ReplyFrame DEF SendControl
  <2> QED
    BY <2>3, <2>4
<1> QED
  BY <1>1, <1>2, <1>3, <1>4, <1>5, <1>6, <1>7 DEF RuntimeInv, TypeOK

\* A deadline of the collector: a heartbeat while paused, a collection otherwise.
LEMMA TickKeeps ==
  ASSUME RuntimeInv, Tick
  PROVE  RuntimeInv'
<1>1. /\ GateType' /\ EngineType' /\ JobInv' /\ ServedInv' /\ ReplyInv'
  BY DEF Tick, RuntimeInv, TypeOK, GateType, EngineType, JobInv, ServedInv, Stopped, InControl, Waking,
     InRefresh, FailureOverwritten, ReplyInv
<1>2. CollectorType'
  <2>1. CASE pausedThere
    BY <2>1, HeartbeatFacts DEF Tick, RuntimeInv, TypeOK, CollectorType
  <2>2. CASE ~pausedThere
    BY <2>2 DEF Tick, RuntimeInv, TypeOK, CollectorType
  <2> QED
    BY <2>1, <2>2
<1>3. CallerType'
  BY DEF Tick, RuntimeInv, TypeOK, CallerType
<1>4. GateInv'
  BY DEF Tick, RuntimeInv, GateInv, InRefresh, TypeOK, GateType, CallerType, CollectorType
<1>5. RequestInv'
  BY DEF Tick, RuntimeInv, RequestInv, Asking, Attended, OfJob, Publishing, TypeOK, CollectorType,
   EngineType, NoJob, Deadline
<1>6. FreshInv'
  BY DEF Tick, RuntimeInv, FreshInv, Attended, After, Publishing, InRefresh, TypeOK, CallerType, GateType,
   EngineType, CollectorType, NoJob, Deadline
<1>7. RevisionInv'
  <2>1. CASE pausedThere
    <3>1. publication'.revision = publication.revision + 1
      BY <2>1, HeartbeatFacts DEF Tick
    <3>2. publication.revision \in Nat /\ answer.publication.revision \in Nat /\ last \in Nat
      BY AnswerKinds DEF RuntimeInv, TypeOK, EngineType
    <3> QED
      BY <3>1, <3>2 DEF Tick, RuntimeInv, RevisionInv, Attended, Deadline, AnswerIsNew, IsNew
  <2>2. CASE ~pausedThere
    BY <2>2 DEF Tick, RuntimeInv, RevisionInv, Attended, Deadline, AnswerIsNew, IsNew
  <2> QED
    BY <2>1, <2>2
<1>8. PauseInv'
  <2>1. CASE pausedThere
    <3>1. publication'.event = "heartbeat"
      BY <2>1, HeartbeatFacts DEF Tick
    <3> QED
      BY <2>1, <3>1 DEF Tick, RuntimeInv, PauseInv, Publishing
  <2>2. CASE ~pausedThere
    BY <2>2 DEF Tick, RuntimeInv, PauseInv, Publishing, Stopped, IsNew
  <2> QED
    BY <2>1, <2>2
<1> QED
  BY <1>1, <1>2, <1>3, <1>4, <1>5, <1>6, <1>7, <1>8 DEF RuntimeInv, TypeOK

\* The collector takes a request: a collection begun now is after everyone who has asked.
LEMMA ServeKeeps ==
  ASSUME RuntimeInv, Serve
  PROVE  RuntimeInv'
<1>1. /\ GateType' /\ CallerType' /\ ServedInv' /\ ReplyInv'
  BY DEF Serve, RuntimeInv, TypeOK, GateType, CallerType, ServedInv, Stopped, InControl, Waking,
     InRefresh, FailureOverwritten, ReplyInv
<1>2. EngineType'
  BY AnswerTypes, AnswerKinds DEF Serve, RuntimeInv, TypeOK, EngineType, Answers, Consent
<1>3. CollectorType'
  <2>1. inbox' \in Seq(Request) /\ serving' \in Request
    BY ServeFacts DEF Serve
  <2>2. pausedThere' \in BOOLEAN
    BY DEF Serve, RuntimeInv, TypeOK, CollectorType
  <2>3. collector' \in {"idle", "collecting"} /\ begun' \in Nat
    BY DEF Serve, RuntimeInv, TypeOK, CollectorType
  <2> QED
    BY <2>1, <2>2, <2>3 DEF Serve, RuntimeInv, TypeOK, CollectorType
<1>4. GateInv'
  BY DEF Serve, RuntimeInv, TypeOK, CollectorType, CallerType, GateInv, InRefresh
<1>5. JobInv'
  BY AnswerTypes DEF Serve, RuntimeInv, JobInv, TypeOK, GateType, EngineType, NoJob, Jobs, Answers
<1>6. RequestInv'
  <2>1. CASE inbox[1].kind \in {"Refresh", "Resume"}
    BY <2>1, ServedFacts DEF Serve, RuntimeInv, RequestInv, Asking, OfJob
  <2>2. CASE inbox[1].kind \notin {"Refresh", "Resume"}
    <3>1. \A i \in 1..Len(inbox') :
            inbox'[i].awaited => ~inbox[1].awaited /\ Asking /\ OfJob(inbox'[i].kind)
      BY ServedFacts DEF RuntimeInv, RequestInv
    <3>2. \A i \in 1..Len(inbox') : inbox'[i].awaited => Asking'
      BY <2>2, <3>1, ServedFacts DEF Serve, Asking
    <3> QED
      BY <2>2, <3>1, <3>2, ServedFacts DEF Serve, RuntimeInv, RequestInv, OfJob
  <2> QED
    BY <2>1, <2>2
<1>7. FreshInv'
  <2>1. CASE inbox[1].kind \in {"Refresh", "Resume"}
    <3>1. \A c \in Callers : asked[c] \in Nat /\ asked[c] <= begun /\ begun \in Nat
      BY DEF RuntimeInv, TypeOK, CallerType, CollectorType, GateInv
    <3>2. \A c \in Callers : asked[c] < begun'
      BY <2>1, <3>1, ServedFacts
    <3> QED
      BY <2>1, <3>2, ServedFacts DEF Serve, RuntimeInv, FreshInv, After, InRefresh
  <2>2. CASE inbox[1].kind \notin {"Refresh", "Resume"}
    <3>1. inbox[1].awaited => job.kind # "Refresh"
      BY <2>2, ServedFacts DEF RuntimeInv, RequestInv, OfJob
    <3> QED
      BY <2>2, <3>1, ServedFacts DEF Serve, RuntimeInv, FreshInv, After, InRefresh
  <2> QED
    BY <2>1, <2>2
<1>8. RevisionInv'
  <2>1. CASE inbox[1].kind \in {"Refresh", "Resume"}
    BY <2>1, ServedFacts DEF Serve, RuntimeInv, RevisionInv, AnswerIsNew, IsNew
  <2>2. CASE inbox[1].kind \notin {"Refresh", "Resume"}
    <3>1. inbox[1].awaited => job.kind \notin {"Refresh", "Resume"}
      BY <2>2, ServedFacts DEF RuntimeInv, RequestInv, OfJob
    <3>2. Consent.publication.revision <= publication.revision
      BY AnswerTypes, AnswerKinds
    <3> QED
      BY <2>2, <3>1, <3>2, ServedFacts DEF Serve, RuntimeInv, RevisionInv, AnswerIsNew, IsNew
  <2> QED
    BY <2>1, <2>2
<1>9. PauseInv'
  <2>1. CASE inbox[1].kind \in {"Refresh", "Resume"}
    BY <2>1, ServedFacts, ServeFacts DEF Serve, RuntimeInv, PauseInv, RequestInv, OfJob, Stopped, IsNew,
       Publishing, Asking, JobInv
  <2>2. CASE inbox[1].kind \notin {"Refresh", "Resume"}
    BY <2>2, ServedFacts, ServeFacts, AnswerTypes DEF Serve, RuntimeInv, PauseInv, RequestInv, OfJob,
       Stopped, IsNew, Publishing, Asking, JobInv
  <2> QED
    BY <2>1, <2>2
<1> QED
  BY <1>1, <1>2, <1>3, <1>4, <1>5, <1>6, <1>7, <1>8, <1>9 DEF RuntimeInv, TypeOK

\* The first step of notify, which is the last one when the flag is set already.
LEMMA NotifySwapKeeps ==
  ASSUME RuntimeInv, NotifySwap
  PROVE  RuntimeInv'
<1>1. /\ GateType' /\ CallerType' /\ GateInv' /\ ServedInv' /\ ReplyInv'
  BY DEF NotifySwap, Notified, RuntimeInv, TypeOK, GateType, CallerType, GateInv, InRefresh, ServedInv,
     Stopped, InControl, Waking, FailureOverwritten, ReplyInv
<1>2. EngineType'
  BY AnswerKinds, AnswerTypes, NotifiedFacts DEF NotifySwap, RuntimeInv, TypeOK, EngineType, Publishing,
     Answers
<1>3. CollectorType'
  BY DEF NotifySwap, Notified, RuntimeInv, TypeOK, CollectorType
<1>4. JobInv'
  BY DEF NotifySwap, Notified, RuntimeInv, JobInv, TypeOK, GateType, EngineType
<1>5. RequestInv'
  BY DEF NotifySwap, Notified, RuntimeInv, RequestInv, Asking, Attended, OfJob, Publishing
<1>6. FreshInv'
  <2>1. CASE queued
    BY <2>1, AnswerKinds, AnswerTypes, NotifiedFacts DEF NotifySwap, RuntimeInv, FreshInv, RequestInv,
       JobInv, OfJob, After, InRefresh, Attended, Publishing, Asking, Deadline
  <2>2. CASE ~queued
    BY <2>2 DEF NotifySwap, RuntimeInv, FreshInv, RequestInv, JobInv, OfJob, After, InRefresh, Attended,
       Publishing, Asking, Deadline
  <2> QED
    BY <2>1, <2>2
<1>7. RevisionInv'
  <2>1. CASE queued
    BY <2>1, AnswerKinds, AnswerTypes, NotifiedFacts DEF NotifySwap, RuntimeInv, RevisionInv,
       RequestInv, JobInv, OfJob, AnswerIsNew, IsNew, Attended, Publishing, Asking, Deadline
  <2>2. CASE ~queued
    BY <2>2 DEF NotifySwap, RuntimeInv, RevisionInv, RequestInv, JobInv, OfJob, AnswerIsNew, IsNew,
       Attended, Publishing, Asking, Deadline
  <2> QED
    BY <2>1, <2>2
<1>8. PauseInv'
  <2>1. CASE queued
    BY <2>1, AnswerKinds, AnswerTypes, NotifiedFacts DEF NotifySwap, RuntimeInv, PauseInv, RequestInv,
       RevisionInv, AnswerIsNew, JobInv, OfJob, Stopped, IsNew, Attended, Publishing, Asking, Deadline
  <2>2. CASE ~queued
    BY <2>2 DEF NotifySwap, RuntimeInv, PauseInv, RequestInv, RevisionInv, AnswerIsNew, JobInv, OfJob,
       Stopped, IsNew, Attended, Publishing, Asking, Deadline
  <2> QED
    BY <2>1, <2>2
<1> QED
  BY <1>1, <1>2, <1>3, <1>4, <1>5, <1>6, <1>7, <1>8 DEF RuntimeInv, TypeOK

\* The notification is sent, or finds the channel full.
LEMMA NotifySendKeeps ==
  ASSUME RuntimeInv, NotifySend
  PROVE  RuntimeInv'
<1>1. /\ GateType' /\ CallerType' /\ GateInv'
  BY DEF NotifySend, Accepts, Send, Notified, RuntimeInv, TypeOK, GateType, CallerType, GateInv,
     InRefresh
<1>2. EngineType'
  BY AnswerKinds, AnswerTypes, NotifiedFacts, SendFacts DEF NotifySend, RuntimeInv, TypeOK, EngineType,
     Publishing, Answers, Kinds
<1>3. CollectorType'
  BY DEF NotifySend, Accepts, Send, Notified, RuntimeInv, TypeOK, CollectorType
<1>4. JobInv'
  BY DEF NotifySend, Accepts, Send, Notified, RuntimeInv, JobInv, TypeOK, GateType, EngineType
<1>5. RequestInv'
  BY DEF NotifySend, Accepts, Send, Notified, RuntimeInv, RequestInv, Asking, Attended, OfJob, Publishing
<1>6. FreshInv'
  <2>1. CASE Accepts
    BY <2>1, AnswerKinds, AnswerTypes, NotifiedFacts DEF NotifySend, RuntimeInv, FreshInv, RequestInv,
       JobInv, OfJob, After, InRefresh, Attended, Publishing, Asking, Deadline
  <2>2. CASE ~Accepts
    BY <2>2 DEF NotifySend, RuntimeInv, FreshInv, RequestInv, JobInv, OfJob, After, InRefresh, Attended,
       Publishing, Asking, Deadline
  <2> QED
    BY <2>1, <2>2
<1>7. RevisionInv'
  <2>1. CASE Accepts
    BY <2>1, AnswerKinds, AnswerTypes, NotifiedFacts DEF NotifySend, RuntimeInv, RevisionInv,
       RequestInv, JobInv, OfJob, AnswerIsNew, IsNew, Attended, Publishing, Asking, Deadline
  <2>2. CASE ~Accepts
    BY <2>2 DEF NotifySend, RuntimeInv, RevisionInv, RequestInv, JobInv, OfJob, AnswerIsNew, IsNew,
       Attended, Publishing, Asking, Deadline
  <2> QED
    BY <2>1, <2>2
<1>8. ServedInv'
  <2>1. CASE Accepts
    BY <2>1, SendFacts, ServedFrame DEF NotifySend, Kinds, Stopped, Waking, InRefresh
  <2>2. CASE ~Accepts
    BY <2>2, ServedFrame DEF NotifySend, Stopped, Waking, InRefresh, InControl
  <2> QED
    BY <2>1, <2>2
<1>9. PauseInv'
  <2>1. CASE Accepts
    BY <2>1, AnswerKinds, AnswerTypes, NotifiedFacts DEF NotifySend, RuntimeInv, PauseInv, RequestInv,
       RevisionInv, AnswerIsNew, JobInv, OfJob, Stopped, IsNew, Attended, Publishing, Asking, Deadline
  <2>2. CASE ~Accepts
    BY <2>2 DEF NotifySend, RuntimeInv, PauseInv, RequestInv, RevisionInv, AnswerIsNew, JobInv, OfJob,
       Stopped, IsNew, Attended, Publishing, Asking, Deadline
  <2> QED
    BY <2>1, <2>2
<1>10. ReplyInv'
  <2>1. CASE Accepts
    BY <2>1, SendReply DEF NotifySend, Kinds
  <2>2. CASE ~Accepts
    BY <2>2, ReplyFrame DEF NotifySend
  <2> QED
    BY <2>1, <2>2
<1> QED
  BY <1>1, <1>2, <1>3, <1>4, <1>5, <1>6, <1>7, <1>8, <1>9, <1>10 DEF RuntimeInv, TypeOK

\* A notification that could not be sent is taken back.
LEMMA NotifyClearKeeps ==
  ASSUME RuntimeInv, NotifyClear
  PROVE  RuntimeInv'
<1>1. /\ GateType' /\ CallerType' /\ GateInv' /\ ServedInv' /\ ReplyInv'
  BY DEF NotifyClear, Notified, RuntimeInv, TypeOK, GateType, CallerType, GateInv, InRefresh, ServedInv,
     Stopped, InControl, Waking, FailureOverwritten, ReplyInv
<1>2. EngineType'
  BY AnswerKinds, AnswerTypes, NotifiedFacts DEF NotifyClear, RuntimeInv, TypeOK, EngineType,
     Publishing, Answers
<1>3. CollectorType'
  BY DEF NotifyClear, Notified, RuntimeInv, TypeOK, CollectorType
<1>4. JobInv'
  BY DEF NotifyClear, Notified, RuntimeInv, JobInv
<1>5. RequestInv'
  BY DEF NotifyClear, Notified, RuntimeInv, RequestInv, Asking, Attended, OfJob, Publishing
<1>6. FreshInv'
  BY DEF NotifyClear, Notified, RuntimeInv, FreshInv, Attended, After, Publishing, InRefresh
<1>7. RevisionInv'
  BY AnswerKinds, AnswerTypes, NotifiedFacts DEF NotifyClear, RuntimeInv, RevisionInv, RequestInv,
     JobInv, OfJob, AnswerIsNew, IsNew, Attended, Publishing, Asking, Deadline
<1>8. PauseInv'
  BY DEF NotifyClear, Notified, RuntimeInv, PauseInv, Publishing, Stopped, IsNew, JobInv, RequestInv,
   Attended, Asking, OfJob, NoJob
<1> QED
  BY <1>1, <1>2, <1>3, <1>4, <1>5, <1>6, <1>7, <1>8 DEF RuntimeInv, TypeOK

\* The collector publishes what it collected, for the one who asked if there is one.
LEMMA PublishKeeps ==
  ASSUME RuntimeInv, NEW event \in {"sample", "unavailable", "fatal"}, Publish(event)
  PROVE  RuntimeInv'
<1>1. /\ GateType' /\ EngineType' /\ CallerType' /\ GateInv' /\ JobInv' /\ ServedInv'
      /\ ReplyInv'
  BY DEF Publish, RuntimeInv, TypeOK, GateType, EngineType, CallerType, GateInv, InRefresh, JobInv,
     ServedInv, Stopped, InControl, Waking, FailureOverwritten, ReplyInv
<1>2. CollectorType'
  BY DEF Publish, RuntimeInv, TypeOK, CollectorType, NoJob, Jobs, Answers, Publication, Request, Event
<1>3. RequestInv'
  BY DEF Publish, RuntimeInv, RequestInv, Asking, Attended, OfJob, Publishing
<1>4. FreshInv'
  BY DEF Publish, RuntimeInv, FreshInv, Attended, After, Publishing, InRefresh
<1>5. RevisionInv'
  BY AnswerTypes, AnswerKinds DEF Publish, RuntimeInv, RevisionInv, Stopped, Attended, Publishing, IsNew,
   AnswerIsNew, TypeOK, EngineType, CollectorType, NoJob
<1>6. PauseInv'
  <2>1. ~Publishing /\ Publishing' /\ publication'.event = event
    BY DEF Publish, Publishing
  <2>2. ASSUME failures = 0, store.paused
        PROVE  engine = "calling" /\ job.kind = "Refresh" /\ answer = NoAnswer
    <3>1. serving.kind = "Refresh" /\ serving.awaited
      BY <2>2 DEF Publish, RuntimeInv, PauseInv, Deadline
    <3> QED
      BY <3>1 DEF Publish, RuntimeInv, RequestInv, Attended, Asking, OfJob
  <2> QED
    BY <2>1, <2>2 DEF Publish, RuntimeInv, PauseInv, Stopped, IsNew
<1> QED
  BY <1>1, <1>2, <1>3, <1>4, <1>5, <1>6 DEF RuntimeInv, TypeOK

\* A call on the collector fails, and what was asked for is served later or never.
LEMMA CallFailsKeeps ==
  ASSUME RuntimeInv, CallFails
  PROVE  RuntimeInv'
<1>1. /\ GateType' /\ CallerType' /\ GateInv' /\ ServedInv' /\ ReplyInv'
  BY DEF CallFails, Unawaited, RuntimeInv, TypeOK, GateType, CallerType, GateInv, InRefresh, ServedInv,
     Stopped, InControl, Waking, FailureOverwritten, ReplyInv
<1>2. EngineType'
  BY DEF CallFails, Unawaited, RuntimeInv, TypeOK, EngineType
<1>3. CollectorType'
  <2>1. inbox \in Seq(Request) /\ Len(inbox) \in Nat /\ serving \in Request \cup {Deadline}
    BY DEF RuntimeInv, TypeOK, CollectorType
  <2>2. \A m \in Request \cup {Deadline} : m \in Request => Unawaited(m) \in Request
    BY DEF Unawaited, Request
  <2>3. Unawaited(Deadline) = Deadline
    <3> DEFINE d == [kind |-> "deadline", awaited |-> FALSE]
    <3>1. d \in [kind : {"deadline"}, awaited : {FALSE}]
      OBVIOUS
    <3> HIDE DEF d
    <3>2. [d EXCEPT !.awaited = FALSE] = d
      BY <3>1
    <3> QED
      BY <3>2 DEF Unawaited, Deadline, d
  <2>4. inbox' \in Seq(Request)
    <3>1. CASE inbox' = [i \in 1..Len(inbox) |-> Unawaited(inbox[i])]
      BY <2>1, <2>2, <3>1
    <3>2. CASE inbox # <<>> /\ inbox' = SubSeq(inbox, 1, Len(inbox) - 1)
      BY <2>1, <3>2
    <3> QED
      BY <3>1, <3>2 DEF CallFails
  <2> QED
    BY <2>1, <2>2, <2>3, <2>4 DEF CallFails, RuntimeInv, TypeOK, CollectorType
<1>4. JobInv'
  BY DEF CallFails, Unawaited, RuntimeInv, JobInv
<1>5. RequestInv'
  <2>1. inbox \in Seq(Request) /\ Len(inbox) \in Nat /\ \A i \in 1..Len(inbox) : inbox[i] \in Request
    BY DEF RuntimeInv, TypeOK, CollectorType
  <2>2. CASE inbox' = [i \in 1..Len(inbox) |-> Unawaited(inbox[i])] /\ serving' = Unawaited(serving)
    <3>1. Len(inbox') = Len(inbox)
      BY <2>1, <2>2
    <3>2. \A i \in 1..Len(inbox') : inbox'[i].kind = inbox[i].kind /\ inbox'[i].awaited = FALSE
      BY <2>1, <2>2, <3>1 DEF Unawaited, Request
    <3>3. serving'.awaited = FALSE
      BY <2>2 DEF Unawaited, RuntimeInv, TypeOK, CollectorType, Request, Deadline
    <3> QED
      BY <3>1, <3>2, <3>3 DEF CallFails, RuntimeInv, RequestInv, Attended
  <2>3. CASE /\ inbox # <<>> /\ inbox[Len(inbox)].awaited
             /\ inbox' = SubSeq(inbox, 1, Len(inbox) - 1) /\ serving' = serving
    <3>1. \A i \in 1..Len(inbox') : i \in 1..Len(inbox) /\ i # Len(inbox) /\ inbox'[i] = inbox[i]
      BY <2>1, <2>3
    <3>2. Len(inbox) \in 1..Len(inbox)
      BY <2>1, <2>3
    <3>3. collector # "stopped" => ~Attended /\ \A i \in 1..Len(inbox') : ~inbox'[i].awaited
      BY <2>3, <3>1, <3>2 DEF RuntimeInv, RequestInv
    <3>4. ~Attended'
      BY <2>3, <3>3 DEF CallFails, Attended, Publishing
    <3> QED
      BY <3>1, <3>3, <3>4 DEF CallFails, RuntimeInv, RequestInv
  <2> QED
    BY <2>2, <2>3 DEF CallFails
<1>6. FreshInv'
  BY DEF CallFails, Unawaited, RuntimeInv, FreshInv, Attended, After, Publishing, InRefresh, TypeOK,
   CallerType, GateType, EngineType, CollectorType, NoJob, Jobs, Answers, Publication, Request, Event,
   Deadline
<1>7. RevisionInv'
  <2>1. Attended' => Attended
    BY DEF CallFails, Unawaited, Attended, Publishing, RuntimeInv, TypeOK, CollectorType, Request,
       Deadline
  <2> QED
    BY <2>1, RevisionFrame DEF CallFails, Refusal, Stopped
<1>8. PauseInv'
  BY DEF CallFails, Unawaited, RuntimeInv, PauseInv, Publishing, Stopped, IsNew, TypeOK, EngineType,
   CollectorType
<1> QED
  BY <1>1, <1>2, <1>3, <1>4, <1>5, <1>6, <1>7, <1>8 DEF RuntimeInv, TypeOK

\* The engine looks at the shutdown flag.
LEMMA TopKeeps ==
  ASSUME RuntimeInv, Top
  PROVE  RuntimeInv'
<1>1. /\ GateType' /\ CollectorType' /\ CallerType' /\ GateInv' /\ FreshInv' /\ ReplyInv'
  BY DEF Top, RuntimeInv, TypeOK, GateType, CollectorType, CallerType, GateInv, InRefresh, FreshInv,
     Attended, After, Publishing, ReplyInv
<1>2. EngineType'
  BY DEF Top, RuntimeInv, TypeOK, EngineType
<1>3. JobInv'
  BY DEF Top, RuntimeInv, JobInv
<1>4. RequestInv'
  BY DEF Top, RuntimeInv, RequestInv, Asking, Attended, OfJob, Publishing
<1>5. RevisionInv'
  BY DEF Top, RuntimeInv, RevisionInv, Stopped, Attended, Publishing, IsNew, AnswerIsNew
<1>6. ServedInv'
  BY DEF Top, RuntimeInv, ServedInv, Stopped, InControl, Waking, InRefresh, FailureOverwritten
<1>7. PauseInv'
  BY DEF Top, RuntimeInv, PauseInv, Publishing, Stopped, IsNew
<1> QED
  BY <1>1, <1>2, <1>3, <1>4, <1>5, <1>6, <1>7 DEF RuntimeInv, TypeOK

\* The engine looks for a publication without having been told of one.
LEMMA RecvTimeoutKeeps ==
  ASSUME RuntimeInv, RecvTimeout
  PROVE  RuntimeInv'
<1>1. /\ GateType' /\ CollectorType' /\ CallerType' /\ GateInv' /\ FreshInv' /\ ReplyInv'
  BY DEF RecvTimeout, RuntimeInv, TypeOK, GateType, CollectorType, CallerType, GateInv, InRefresh,
     FreshInv, Attended, After, Publishing, ReplyInv
<1>2. EngineType'
  BY DEF RecvTimeout, RuntimeInv, TypeOK, EngineType
<1>3. JobInv'
  BY DEF RecvTimeout, RuntimeInv, JobInv
<1>4. RequestInv'
  BY DEF RecvTimeout, RuntimeInv, RequestInv, Asking, Attended, OfJob, Publishing
<1>5. RevisionInv'
  BY DEF RecvTimeout, RuntimeInv, RevisionInv, Stopped, Attended, Publishing, IsNew, AnswerIsNew
<1>6. ServedInv'
  BY DEF RecvTimeout, RuntimeInv, ServedInv, Stopped, InControl, Waking, InRefresh, FailureOverwritten
<1>7. PauseInv'
  BY DEF RecvTimeout, RuntimeInv, PauseInv, Publishing, Stopped, IsNew, JobInv, RequestInv, Attended,
   Asking, OfJob, NoJob
<1> QED
  BY <1>1, <1>2, <1>3, <1>4, <1>5, <1>6, <1>7 DEF RuntimeInv, TypeOK

\* A notification is taken.
LEMMA RecvPublishedKeeps ==
  ASSUME RuntimeInv, RecvPublished
  PROVE  RuntimeInv'
<1>1. /\ GateType' /\ CollectorType' /\ CallerType' /\ GateInv' /\ FreshInv'
  BY DEF RecvPublished, Receive, RuntimeInv, TypeOK, GateType, CollectorType, CallerType, GateInv,
     InRefresh, FreshInv, Attended, After, Publishing
<1>2. EngineType'
  BY ReceiveFacts DEF RecvPublished, Receive, RuntimeInv, TypeOK, EngineType
<1>3. JobInv'
  BY DEF RecvPublished, Receive, RuntimeInv, JobInv
<1>4. RequestInv'
  BY DEF RecvPublished, Receive, RuntimeInv, RequestInv, Asking, Attended, OfJob, Publishing
<1>5. RevisionInv'
  BY DEF RecvPublished, Receive, RuntimeInv, RevisionInv, Stopped, Attended, Publishing, IsNew,
   AnswerIsNew
<1>6. ServedInv'
  BY ReceiveFacts, ServedFrame DEF RecvPublished, Receive, Stopped, Waking, InRefresh
<1>7. PauseInv'
  BY DEF RecvPublished, Receive, RuntimeInv, PauseInv, Publishing, Stopped, IsNew, JobInv, RequestInv,
   Attended, Asking, OfJob, NoJob
<1>8. ReplyInv'
  BY TakeHead DEF RecvPublished, Receive, RuntimeInv, JobInv, NoJob
<1> QED
  BY <1>1, <1>2, <1>3, <1>4, <1>5, <1>6, <1>7, <1>8 DEF RuntimeInv, TypeOK

\* The latest publication is applied if it is new.
LEMMA ApplyLatestKeeps ==
  ASSUME RuntimeInv, ApplyLatest
  PROVE  RuntimeInv'
<1>1. /\ GateType' /\ CollectorType' /\ CallerType' /\ GateInv'
  BY DEF ApplyLatest, IsNew, Apply, Applied, RuntimeInv, TypeOK, GateType, CollectorType, CallerType,
     GateInv, InRefresh
<1>2. EngineType'
  <2>1. /\ store \in StoreType /\ publication \in Publication
        /\ answer \in Answers /\ answer.publication \in Publication
    BY AnswerKinds DEF RuntimeInv, TypeOK, EngineType
  <2>2. store' \in StoreType /\ published' \in StoreType /\ last' \in Nat
    BY <2>1, AppliedFacts DEF ApplyLatest, Apply, RuntimeInv, TypeOK, EngineType
  <2>3. NoJob \in Jobs
    BY DEF NoJob, Jobs
  <2> QED
    BY <2>1, <2>2, <2>3 DEF ApplyLatest, RuntimeInv, TypeOK, EngineType, Answers, Jobs
<1>3. JobInv'
  BY DEF ApplyLatest, IsNew, Apply, Applied, RuntimeInv, JobInv, NoJob
<1>4. RequestInv'
  BY DEF ApplyLatest, IsNew, Apply, Applied, RuntimeInv, RequestInv, Asking, Attended, OfJob, Publishing
<1>5. FreshInv'
  BY DEF ApplyLatest, IsNew, Apply, Applied, RuntimeInv, FreshInv, Attended, After, Publishing, InRefresh,
   NoJob
<1>6. RevisionInv'
  <2>1. publication.revision \in Nat /\ last \in Nat
    BY AnswerKinds DEF RuntimeInv, TypeOK, EngineType
  <2>2. ~Attended /\ ~Attended'
    BY DEF ApplyLatest, RuntimeInv, RequestInv, Asking, Attended, Publishing
  <2>3. last' <= publication.revision
    BY <2>1 DEF ApplyLatest, Apply, RuntimeInv, RevisionInv
  <2> QED
    BY <2>2, <2>3 DEF ApplyLatest, RuntimeInv, RevisionInv, AnswerIsNew, Stopped
<1>7. ServedInv'
  BY DEF ApplyLatest, IsNew, Apply, Applied, RuntimeInv, ServedInv, Stopped, InControl, Waking, InRefresh,
   FailureOverwritten
<1>8. PauseInv'
  <2>1. /\ store \in StoreType /\ publication \in Publication
        /\ publication.revision \in Nat /\ last \in Nat
    BY AnswerKinds DEF RuntimeInv, TypeOK, EngineType
  <2>2. store'.paused = store.paused /\ ~IsNew(publication)'
    BY <2>1, AppliedFacts DEF ApplyLatest, Apply, IsNew
  <2>3. /\ engine' \in {"terminate", "failGate", "top"}
        /\ engine' = "failGate" => job' = job /\ job.kind = "Refresh"
        /\ engine' # "failGate" => job'.kind = "none"
    BY DEF ApplyLatest, NoJob
  <2> QED
    BY <2>2, <2>3 DEF ApplyLatest, RuntimeInv, PauseInv, JobInv, Publishing
<1>9. ReplyInv'
  BY DEF ApplyLatest, IsNew, Apply, Applied, RuntimeInv, ReplyInv, NoJob
<1> QED
  BY <1>1, <1>2, <1>3, <1>4, <1>5, <1>6, <1>7, <1>8, <1>9 DEF RuntimeInv, TypeOK

\* A wake is taken: the generation starts, unless it has been started already.
LEMMA RecvRefreshKeeps ==
  ASSUME RuntimeInv, RecvRefresh
  PROVE  RuntimeInv'
<1>1. /\ CallerType'
  BY DEF RecvRefresh, Receive, CallCollector, RuntimeInv, TypeOK, CallerType
<1>2. GateType'
  BY DEF RecvRefresh, Receive, CallCollector, RuntimeInv, TypeOK, GateType
<1>3. EngineType'
  <2>1. CASE requested <= started
    BY <2>1, ReceiveFacts DEF RecvRefresh, Receive, RuntimeInv, TypeOK, EngineType
  <2>2. CASE ~(requested <= started)
    <3>1. CallCollector("Refresh", Nobody, requested) /\ requested \in Nat
      BY <2>2 DEF RecvRefresh, RuntimeInv, TypeOK, GateType
    <3>2. control' \in Seq(Message) /\ engine' = "calling" /\ answer' \in Answers /\ job' \in Jobs
      BY <3>1, ReceiveFacts, AskFacts, AnswerTypes DEF RecvRefresh, Receive
    <3> QED
      BY <3>2 DEF RecvRefresh, Receive, RuntimeInv, TypeOK, EngineType, Answers, Jobs
  <2> QED
    BY <2>1, <2>2
<1>4. CollectorType'
  <2>1. CASE requested <= started
    BY <2>1 DEF RecvRefresh, Receive, RuntimeInv, TypeOK, CollectorType
  <2>2. CASE ~(requested <= started)
    <3>1. CallCollector("Refresh", Nobody, requested) /\ requested \in Nat
      BY <2>2 DEF RecvRefresh, RuntimeInv, TypeOK, GateType
    <3> QED
      BY <3>1, AskFacts DEF RecvRefresh, Receive, RuntimeInv, TypeOK, CollectorType
  <2> QED
    BY <2>1, <2>2
<1>5. GateInv'
  BY DEF RecvRefresh, Receive, CallCollector, RuntimeInv, GateInv, InRefresh, TypeOK, GateType,
   CallerType, CollectorType
<1>6. JobInv'
  BY DEF RecvRefresh, Receive, CallCollector, RuntimeInv, JobInv, TypeOK, GateType, EngineType, GateInv,
   InRefresh
<1>7. RequestInv'
  <2>1. CASE requested <= started
    BY <2>1 DEF RecvRefresh, Receive, RuntimeInv, RequestInv, Asking, Attended, Publishing, OfJob
  <2>2. CASE ~(requested <= started)
    <3>1. CallCollector("Refresh", Nobody, requested) /\ requested \in Nat
      BY <2>2 DEF RecvRefresh, RuntimeInv, TypeOK, GateType
    <3> QED
      BY <3>1, AskRequest DEF RecvRefresh, Receive
  <2> QED
    BY <2>1, <2>2
<1>8. FreshInv'
  BY AnswerTypes DEF RecvRefresh, Receive, CallCollector, RuntimeInv, FreshInv, Attended, After,
   Publishing, InRefresh, JobInv, RequestInv, Asking, OfJob, NoJob
<1>9. RevisionInv'
  <2>1. CASE requested <= started
    BY <2>1 DEF RecvRefresh, Receive, RuntimeInv, RevisionInv, AnswerIsNew, IsNew, Attended, Publishing,
       Stopped
  <2>2. CASE ~(requested <= started)
    BY <2>2, RevisionFrame DEF RecvRefresh, Receive, CallCollector, Attended, Publishing, Stopped
  <2> QED
    BY <2>1, <2>2
<1>10. ServedInv'
  BY DEF RecvRefresh, Receive, CallCollector, RuntimeInv, ServedInv, Stopped, InControl, Waking,
   InRefresh, FailureOverwritten, TypeOK, CallerType, GateType, EngineType
<1>11. PauseInv'
  <2>1. CASE requested <= started
    BY <2>1 DEF RecvRefresh, Receive, RuntimeInv, PauseInv, JobInv, Publishing, Stopped, IsNew
  <2>2. CASE ~(requested <= started)
    <3>1. CallCollector("Refresh", Nobody, requested) /\ requested \in Nat
      BY <2>2 DEF RecvRefresh, RuntimeInv, TypeOK, GateType
    <3>2. PICK k \in 1..Len(inbox') :
            /\ inbox'[k] = Wanted("Refresh")
            /\ \A i \in 1..Len(inbox') : i # k =>
                 i \in 1..Len(inbox) /\ inbox'[i] = inbox[i] /\ inbox[i].kind # "Refresh"
      BY <3>1, AskFacts
    <3>3. /\ engine' = "calling" /\ answer' = NoAnswer /\ job'.kind = "Refresh"
          /\ UNCHANGED <<publication, collector, serving, pausedThere, begun>>
      BY <3>1, AskFacts
    <3>4. ~Asking /\ ~Attended /\ ~Attended'
      BY <3>3 DEF RecvRefresh, Receive, RuntimeInv, RequestInv, Asking, Attended, Publishing
    <3> QED
      BY <3>2, <3>3, <3>4, AnswerTypes DEF RecvRefresh, Receive, RuntimeInv, PauseInv, Publishing,
         Stopped, IsNew, Wanted
  <2> QED
    BY <2>1, <2>2
<1>12. ReplyInv'
  BY DEF RecvRefresh, Receive, CallCollector, RuntimeInv, ReplyInv
<1> QED
  BY <1>1, <1>2, <1>3, <1>4, <1>5, <1>6, <1>7, <1>8, <1>9, <1>10, <1>11, <1>12 DEF RuntimeInv, TypeOK

\* A pause is passed to the collector.
LEMMA RecvPauseKeeps ==
  ASSUME RuntimeInv, RecvPause
  PROVE  RuntimeInv'
<1>1. /\ GateType' /\ CallerType' /\ GateInv'
  BY DEF RecvPause, Receive, CallCollector, RuntimeInv, TypeOK, GateType, CallerType, GateInv, InRefresh
<1>2. EngineType'
  <2>1. /\ control' \in Seq(Message) /\ engine' = "calling" /\ answer' \in Answers /\ job' \in Jobs
    BY ReceiveFacts, AskFacts, AnswerTypes DEF RecvPause, Receive
  <2>2. store' \in StoreType
    BY PauseFacts DEF RecvPause, RuntimeInv, TypeOK, EngineType
  <2> QED
    BY <2>1, <2>2 DEF RecvPause, Receive, RuntimeInv, TypeOK, EngineType, Answers, Jobs
<1>3. CollectorType'
  BY DEF RecvPause, Receive, CallCollector, RuntimeInv, TypeOK, CollectorType, NoJob, Jobs, Answers,
   Publication, Request, Event
<1>4. JobInv'
  BY DEF RecvPause, Receive, CallCollector, RuntimeInv, JobInv
<1>5. RequestInv'
  BY ReceiveFacts, AskRequest DEF RecvPause, Receive
<1>6. FreshInv'
  BY DEF RecvPause, Receive, CallCollector, RuntimeInv, FreshInv, Attended, After, Publishing, InRefresh
<1>7. RevisionInv'
  BY RevisionFrame DEF RecvPause, Receive, CallCollector, Attended, Publishing, Stopped
<1>8. ServedInv'
  BY ReceiveFacts, ServedFrame DEF RecvPause, Receive, RuntimeInv, JobInv, NoJob, Stopped, Waking,
     InRefresh
<1>9. PauseInv'
  BY AnswerTypes DEF RecvPause, Receive, CallCollector, RuntimeInv, PauseInv, Publishing, Stopped, IsNew,
   NoJob
<1>10. ReplyInv'
  BY ReceiveFacts, AskFacts, TakeHead DEF RecvPause, Receive
<1> QED
  BY <1>1, <1>2, <1>3, <1>4, <1>5, <1>6, <1>7, <1>8, <1>9, <1>10 DEF RuntimeInv, TypeOK

\* The store is resumed, and then the collector.
LEMMA RecvResumeKeeps ==
  ASSUME RuntimeInv, RecvResume
  PROVE  RuntimeInv'
<1>1. /\ GateType' /\ CallerType' /\ GateInv'
  BY DEF RecvResume, Receive, CallCollector, RuntimeInv, TypeOK, GateType, CallerType, GateInv,
     InRefresh
<1>2. EngineType'
  <2>1. /\ control' \in Seq(Message) /\ engine' = "calling" /\ answer' \in Answers /\ job' \in Jobs
    BY ReceiveFacts, AskFacts, AnswerTypes DEF RecvResume, Receive
  <2>2. store' \in StoreType
    BY PauseFacts DEF RecvResume, RuntimeInv, TypeOK, EngineType
  <2> QED
    BY <2>1, <2>2 DEF RecvResume, Receive, RuntimeInv, TypeOK, EngineType, Answers, Jobs
<1>3. CollectorType'
  BY DEF RecvResume, Receive, CallCollector, RuntimeInv, TypeOK, CollectorType, NoJob, Jobs, Answers,
   Publication, Request, Event
<1>4. JobInv'
  BY DEF RecvResume, Receive, CallCollector, RuntimeInv, JobInv
<1>5. RequestInv'
  BY ReceiveFacts, AskRequest DEF RecvResume, Receive
<1>6. FreshInv'
  BY DEF RecvResume, Receive, CallCollector, RuntimeInv, FreshInv, Attended, After, Publishing, InRefresh
<1>7. RevisionInv'
  BY RevisionFrame DEF RecvResume, Receive, CallCollector, Attended, Publishing, Stopped
<1>8. ServedInv'
  BY ReceiveFacts, ServedFrame DEF RecvResume, Receive, RuntimeInv, JobInv, NoJob, Stopped, Waking,
     InRefresh
<1>9. PauseInv'
  <2>1. store'.paused = FALSE
    BY PauseFacts DEF RecvResume, RuntimeInv, TypeOK, EngineType
  <2>2. /\ engine' = "calling" /\ answer'.kind = "none" /\ job'.kind = "Resume"
        /\ UNCHANGED <<publication, collector, serving, pausedThere, begun>>
    BY ReceiveFacts, AskFacts, AnswerTypes DEF RecvResume, Receive
  <2>3. \A i \in 1..Len(inbox') : inbox'[i].awaited \/ (i \in 1..Len(inbox) /\ inbox'[i] = inbox[i])
    <3>1. CallCollector("Resume", Head(control).from, 0) /\ Head(control).from \in Callers \cup {Nobody}
      BY ReceiveFacts DEF RecvResume, Receive
    <3>2. PICK k \in 1..Len(inbox') :
            /\ inbox'[k] = Wanted("Resume")
            /\ \A i \in 1..Len(inbox') : i # k => i \in 1..Len(inbox) /\ inbox'[i] = inbox[i]
      BY <3>1, AskFacts
    <3> QED
      BY <3>2 DEF Wanted
  <2> QED
    BY <2>1, <2>2, <2>3 DEF RecvResume, Receive, RuntimeInv, PauseInv, Publishing
<1>10. ReplyInv'
  BY ReceiveFacts, AskFacts, TakeHead DEF RecvResume, Receive
<1> QED
  BY <1>1, <1>2, <1>3, <1>4, <1>5, <1>6, <1>7, <1>8, <1>9, <1>10 DEF RuntimeInv, TypeOK

\* A setting that does not concern the collector is answered at once.
LEMMA RecvSetKeeps ==
  ASSUME RuntimeInv, RecvSet
  PROVE  RuntimeInv'
<1>1. /\ GateType' /\ CollectorType'
  BY DEF RecvSet, Receive, Answer, RuntimeInv, TypeOK, GateType, CollectorType
<1>2. EngineType'
  BY ReceiveFacts DEF RecvSet, Receive, RuntimeInv, TypeOK, EngineType
<1>3. CallerType'
  BY DEF RecvSet, Receive, Answer, RuntimeInv, TypeOK, CallerType
<1>4. GateInv'
  BY DEF RecvSet, Receive, Answer, RuntimeInv, GateInv, InRefresh, TypeOK, GateType, CallerType,
   CollectorType
<1>5. JobInv'
  BY DEF RecvSet, Receive, Answer, RuntimeInv, JobInv
<1>6. RequestInv'
  BY DEF RecvSet, Receive, Answer, RuntimeInv, RequestInv, Asking, Attended, OfJob, Publishing
<1>7. FreshInv'
  BY DEF RecvSet, Receive, Answer, RuntimeInv, FreshInv, Attended, After, Publishing, InRefresh, TypeOK,
   CallerType, GateType, EngineType, CollectorType
<1>8. RevisionInv'
  BY DEF RecvSet, Receive, Answer, RuntimeInv, RevisionInv, Stopped, Attended, Publishing, IsNew,
   AnswerIsNew
<1>9. ServedInv'
  BY ReceiveFacts, AnswerHead, ServedFrame DEF RecvSet, Receive, RuntimeInv, JobInv, NoJob, Answered,
     Stopped
<1>10. PauseInv'
  BY DEF RecvSet, Receive, Answer, RuntimeInv, PauseInv, Publishing, Stopped, IsNew
<1>11. ReplyInv'
  BY AnswerHead DEF RecvSet, Receive, RuntimeInv, JobInv
<1> QED
  BY <1>1, <1>2, <1>3, <1>4, <1>5, <1>6, <1>7, <1>8, <1>9, <1>10, <1>11 DEF RuntimeInv, TypeOK

\* A new interval is passed to the collector.
LEMMA RecvSetIntervalKeeps ==
  ASSUME RuntimeInv, RecvSetInterval
  PROVE  RuntimeInv'
<1>1. /\ GateType' /\ CallerType' /\ GateInv'
  BY DEF RecvSetInterval, Receive, CallCollector, RuntimeInv, TypeOK, GateType, CallerType, GateInv,
     InRefresh
<1>2. EngineType'
  <2>1. /\ control' \in Seq(Message) /\ engine' = "calling" /\ answer' \in Answers /\ job' \in Jobs
    BY ReceiveFacts, AskFacts, AnswerTypes DEF RecvSetInterval, Receive
  <2>2. store' \in StoreType
    BY PauseFacts DEF RecvSetInterval, RuntimeInv, TypeOK, EngineType
  <2> QED
    BY <2>1, <2>2 DEF RecvSetInterval, Receive, RuntimeInv, TypeOK, EngineType, Answers, Jobs
<1>3. CollectorType'
  BY DEF RecvSetInterval, Receive, CallCollector, RuntimeInv, TypeOK, CollectorType, NoJob, Jobs, Answers,
   Publication, Request, Event
<1>4. JobInv'
  BY DEF RecvSetInterval, Receive, CallCollector, RuntimeInv, JobInv
<1>5. RequestInv'
  BY ReceiveFacts, AskRequest DEF RecvSetInterval, Receive
<1>6. FreshInv'
  BY DEF RecvSetInterval, Receive, CallCollector, RuntimeInv, FreshInv, Attended, After, Publishing,
   InRefresh
<1>7. RevisionInv'
  BY RevisionFrame DEF RecvSetInterval, Receive, CallCollector, Attended, Publishing, Stopped
<1>8. ServedInv'
  BY ReceiveFacts, ServedFrame DEF RecvSetInterval, Receive, RuntimeInv, JobInv, NoJob, Stopped, Waking,
     InRefresh
<1>9. PauseInv'
  BY AnswerTypes DEF RecvSetInterval, Receive, CallCollector, RuntimeInv, PauseInv, Publishing, Stopped,
   IsNew, NoJob
<1>10. ReplyInv'
  BY ReceiveFacts, AskFacts, TakeHead DEF RecvSetInterval, Receive
<1> QED
  BY <1>1, <1>2, <1>3, <1>4, <1>5, <1>6, <1>7, <1>8, <1>9, <1>10 DEF RuntimeInv, TypeOK

\* The shutdown message is taken.
LEMMA RecvShutdownKeeps ==
  ASSUME RuntimeInv, RecvShutdown
  PROVE  RuntimeInv'
<1>1. /\ GateType' /\ CollectorType' /\ CallerType' /\ GateInv' /\ FreshInv'
  BY DEF RecvShutdown, Receive, RuntimeInv, TypeOK, GateType, CollectorType, CallerType, GateInv,
     InRefresh, FreshInv, Attended, After, Publishing
<1>2. EngineType'
  BY DEF RecvShutdown, Receive, RuntimeInv, TypeOK, EngineType
<1>3. JobInv'
  BY DEF RecvShutdown, Receive, RuntimeInv, JobInv
<1>4. RequestInv'
  BY DEF RecvShutdown, Receive, RuntimeInv, RequestInv, Asking, Attended, OfJob, Publishing
<1>5. RevisionInv'
  BY DEF RecvShutdown, Receive, RuntimeInv, RevisionInv, Stopped, Attended, Publishing, IsNew, AnswerIsNew
<1>6. ServedInv'
  BY DEF RecvShutdown, Receive, RuntimeInv, ServedInv, Stopped, InControl, Waking, InRefresh,
   FailureOverwritten
<1>7. PauseInv'
  BY DEF RecvShutdown, Receive, RuntimeInv, PauseInv, Publishing, Stopped, IsNew
<1>8. ReplyInv'
  BY DEF RecvShutdown, Receive, RuntimeInv, ReplyInv
<1> QED
  BY <1>1, <1>2, <1>3, <1>4, <1>5, <1>6, <1>7, <1>8 DEF RuntimeInv, TypeOK

\* A collector that has stopped refuses what it is asked, and has said before that it stops.
LEMMA RefusedKeeps ==
  ASSUME RuntimeInv, Refused
  PROVE  RuntimeInv'
<1>1. /\ GateType' /\ CollectorType' /\ CallerType' /\ GateInv' /\ ServedInv' /\ ReplyInv'
  BY DEF Refused, RuntimeInv, TypeOK, GateType, CollectorType, CallerType, GateInv, InRefresh,
     ServedInv, Stopped, InControl, Waking, FailureOverwritten, ReplyInv
<1>2. EngineType'
  BY DEF Refused, RuntimeInv, TypeOK, EngineType
<1>3. JobInv'
  BY DEF Refused, RuntimeInv, JobInv
<1>4. RequestInv'
  BY DEF Refused, RuntimeInv, RequestInv, Asking, Attended, OfJob, Publishing
<1>5. FreshInv'
  BY DEF Refused, RuntimeInv, FreshInv, Attended, After, Publishing, InRefresh
<1>6. RevisionInv'
  BY DEF Refused, RuntimeInv, RevisionInv, Stopped, Attended, Publishing, IsNew, AnswerIsNew
<1>7. PauseInv'
  BY AnswerTypes DEF Refused, Refusal, RuntimeInv, RevisionInv, PauseInv, Stopped, Publishing, IsNew
<1> QED
  BY <1>1, <1>2, <1>3, <1>4, <1>5, <1>6, <1>7 DEF RuntimeInv, TypeOK

\* The answer to a refresh is applied, or the generation fails.
LEMMA RefreshedKeeps ==
  ASSUME RuntimeInv, Refreshed
  PROVE  RuntimeInv'
<1>1. /\ GateType' /\ CollectorType' /\ CallerType' /\ GateInv' /\ FreshInv' /\ ReplyInv'
  BY DEF Refreshed, Called, IsNew, Apply, Applied, RuntimeInv, TypeOK, GateType, CollectorType,
     CallerType, GateInv, InRefresh, FreshInv, Attended, After, Publishing, ReplyInv
<1>2. EngineType'
  <2>1. /\ store \in StoreType /\ publication \in Publication
        /\ answer \in Answers /\ answer.publication \in Publication
    BY AnswerKinds DEF RuntimeInv, TypeOK, EngineType
  <2>2. store' \in StoreType /\ published' \in StoreType /\ last' \in Nat
    BY <2>1, AppliedFacts DEF Refreshed, Apply, RuntimeInv, TypeOK, EngineType
  <2> QED
    BY <2>1, <2>2 DEF Refreshed, Called, RuntimeInv, TypeOK, EngineType, Answers
<1>3. JobInv'
  <2>1. answer.kind \in {"ok", "error"}
    BY AnswerKinds DEF Refreshed, Called, RuntimeInv, JobInv, Answers
  <2> QED
    BY <2>1 DEF Refreshed, Called, RuntimeInv, JobInv, NoJob
<1>4. RequestInv'
  BY DEF Refreshed, Called, IsNew, Apply, Applied, RuntimeInv, RequestInv, Asking, Attended, OfJob,
   Publishing
<1>5. RevisionInv'
  BY DEF Refreshed, Called, IsNew, Apply, Applied, RuntimeInv, RevisionInv, Stopped, Attended, Publishing,
   AnswerIsNew, JobInv, RequestInv, Asking, OfJob, NoJob
<1>6. ServedInv'
  BY DEF Refreshed, Called, IsNew, Apply, Applied, RuntimeInv, ServedInv, Stopped, InControl, Waking,
   InRefresh, FailureOverwritten
<1>7. PauseInv'
  <2>1. answer.kind \in {"ok", "error"}
    BY AnswerKinds DEF Refreshed, Called, RuntimeInv, JobInv, Answers
  <2>2. /\ store \in StoreType /\ answer.publication \in Publication /\ last \in Nat
        /\ publication.revision \in Nat /\ answer.publication.revision \in Nat
    BY AnswerKinds DEF RuntimeInv, TypeOK, EngineType
  <2>3. store'.paused = store.paused /\ last <= last'
    BY <2>2, AppliedFacts DEF Refreshed, Apply, IsNew
  <2>4. CASE answer.kind = "error"
    BY <2>4 DEF Refreshed, Called, RuntimeInv, PauseInv, Stopped, Publishing, IsNew
  <2>5. CASE answer.kind = "ok"
    <3>1. IsNew(answer.publication) /\ engine' = "complete" /\ last' = answer.publication.revision
      BY <2>5 DEF Refreshed, Called, Apply, RuntimeInv, RevisionInv, AnswerIsNew
    <3>2. IsNew(publication)' => IsNew(publication)
      BY <2>2, <2>3, <3>1 DEF Refreshed, Called, IsNew
    <3>3. answer.publication = publication => ~IsNew(publication)'
      BY <2>2, <3>1 DEF Refreshed, Called, IsNew
    <3> QED
      BY <2>3, <2>5, <3>1, <3>2, <3>3 DEF Refreshed, Called, RuntimeInv, PauseInv, Stopped, Publishing
  <2> QED
    BY <2>1, <2>4, <2>5
<1> QED
  BY <1>1, <1>2, <1>3, <1>4, <1>5, <1>6, <1>7 DEF RuntimeInv, TypeOK

\* The answer to a pause: what was published before it is applied first.
LEMMA PausedKeeps ==
  ASSUME RuntimeInv, Paused
  PROVE  RuntimeInv'
<1>1. /\ GateType' /\ CollectorType'
  BY DEF Paused, Called, IsNew, Apply, Applied, Answer, RuntimeInv, TypeOK, GateType, CollectorType
<1>2. EngineType'
  <2>1. /\ store \in StoreType /\ publication \in Publication
        /\ answer \in Answers /\ answer.publication \in Publication
    BY AnswerKinds DEF RuntimeInv, TypeOK, EngineType
  <2>2. Applied(store, publication) \in StoreType /\ publication.revision \in Nat
    BY <2>1, AppliedFacts
  <2>3. store' \in StoreType /\ published' \in StoreType /\ last' \in Nat
    <3>1. published \in StoreType /\ last \in Nat
      BY DEF RuntimeInv, TypeOK, EngineType
    <3>2. CASE answer.kind = "error"
      BY <2>1, <3>1, <3>2 DEF Paused
    <3>3. CASE answer.kind # "error" /\ IsNew(publication) /\ publication.event = "fatal"
      BY <2>2, <3>3 DEF Paused, Apply
    <3>4. CASE answer.kind # "error" /\ ~(IsNew(publication) /\ publication.event = "fatal")
      <4> DEFINE st == IF IsNew(publication) THEN Applied(store, publication) ELSE store
      <4>1. st \in StoreType
        BY <2>1, <2>2
      <4>2. /\ store' = [st EXCEPT !.paused = TRUE, !.state = "paused"] /\ published' = store'
            /\ last' = IF IsNew(publication) THEN publication.revision ELSE last
        BY <3>4 DEF Paused
      <4> HIDE DEF st
      <4> QED
        BY <2>2, <3>1, <4>1, <4>2, PauseFacts
    <3> QED
      BY <3>2, <3>3, <3>4
  <2>4. NoJob \in Jobs /\ NoAnswer \in Answers
    BY AnswerTypes DEF NoJob, Jobs
  <2> QED
    BY <2>3, <2>4 DEF Paused, Called, RuntimeInv, TypeOK, EngineType, Answers, Jobs
<1>3. CallerType'
  BY DEF Paused, Called, IsNew, Apply, Applied, Answer, RuntimeInv, TypeOK, CallerType
<1>4. GateInv'
  BY DEF Paused, Called, IsNew, Apply, Applied, Answer, RuntimeInv, GateInv, InRefresh, TypeOK, GateType,
   CallerType, CollectorType
<1>5. JobInv'
  BY DEF Paused, Called, IsNew, Apply, Applied, Answer, RuntimeInv, JobInv, NoJob
<1>6. RequestInv'
  BY DEF Paused, Called, IsNew, Apply, Applied, Answer, RuntimeInv, RequestInv, Asking, Attended, OfJob,
   Publishing
<1>7. FreshInv'
  BY DEF Paused, Called, IsNew, Apply, Applied, Answer, RuntimeInv, FreshInv, Attended, After, Publishing,
   InRefresh, TypeOK, CallerType, GateType, EngineType, CollectorType, NoJob
<1>8. RevisionInv'
  <2>1. ~Attended /\ ~Attended'
    BY DEF Paused, Called, RuntimeInv, RequestInv, Asking, Attended, Publishing
  <2>2. publication.revision \in Nat /\ answer.publication.revision \in Nat /\ last \in Nat
    BY AnswerKinds DEF RuntimeInv, TypeOK, EngineType
  <2>3. last' <= publication.revision
    BY <2>2 DEF Paused, Apply, RuntimeInv, RevisionInv, IsNew
  <2> QED
    BY <2>1, <2>2, <2>3, AnswerTypes DEF Paused, Called, RuntimeInv, RevisionInv, AnswerIsNew, Stopped
<1>9. ServedInv'
  BY AnswerJob, ServedFrame DEF Paused, Called, Answered, Stopped, InControl
<1>10. PauseInv'
  <2>1. /\ store \in StoreType /\ publication \in Publication
        /\ answer \in Answers /\ answer.publication \in Publication
    BY AnswerKinds DEF RuntimeInv, TypeOK, EngineType
  <2>2. answer.kind \in {"ok", "error"}
    BY AnswerKinds DEF Paused, Called, RuntimeInv, JobInv, Answers
  <2>3. engine' \in {"top", "terminate"} /\ job'.kind = "none"
    BY DEF Paused, NoJob
  <2>4. CASE answer.kind = "error"
    BY <2>3, <2>4 DEF Paused, Called, RuntimeInv, PauseInv, Stopped, Publishing, IsNew
  <2>5. CASE answer.kind = "ok"
    <3>1. failures = 0 => pausedThere
      BY <2>5 DEF Paused, Called, RuntimeInv, PauseInv
    <3>2. ~IsNew(publication)'
      <4>1. /\ last' = IF IsNew(publication) THEN publication.revision ELSE last
            /\ publication' = publication
        BY <2>5 DEF Paused, Called, Apply
      <4>2. publication.revision \in Nat /\ last \in Nat
        BY AnswerKinds DEF RuntimeInv, TypeOK, EngineType
      <4> QED
        BY <4>1, <4>2 DEF IsNew
    <3> QED
      BY <2>3, <3>1, <3>2 DEF Paused, Called, RuntimeInv, PauseInv, Stopped, Publishing
  <2> QED
    BY <2>2, <2>4, <2>5
<1>11. ReplyInv'
  BY AnswerJob DEF Paused, Called
<1> QED
  BY <1>1, <1>2, <1>3, <1>4, <1>5, <1>6, <1>7, <1>8, <1>9, <1>10, <1>11 DEF RuntimeInv, TypeOK

\* The answer to a resume is applied.
LEMMA ResumedKeeps ==
  ASSUME RuntimeInv, Resumed
  PROVE  RuntimeInv'
<1>1. /\ GateType' /\ CollectorType'
  BY DEF Resumed, Called, IsNew, Apply, Answer, Applied, RuntimeInv, TypeOK, GateType, CollectorType
<1>2. EngineType'
  <2>1. /\ store \in StoreType /\ publication \in Publication
        /\ answer \in Answers /\ answer.publication \in Publication
    BY AnswerKinds DEF RuntimeInv, TypeOK, EngineType
  <2>2. store' \in StoreType /\ published' \in StoreType /\ last' \in Nat
    BY <2>1, AppliedFacts DEF Resumed, Apply, RuntimeInv, TypeOK, EngineType
  <2>3. NoJob \in Jobs /\ NoAnswer \in Answers
    BY AnswerTypes DEF NoJob, Jobs
  <2> QED
    BY <2>2, <2>3 DEF Resumed, Called, RuntimeInv, TypeOK, EngineType, Answers, Jobs
<1>3. CallerType'
  BY DEF Resumed, Called, IsNew, Apply, Answer, Applied, RuntimeInv, TypeOK, CallerType
<1>4. GateInv'
  BY DEF Resumed, Called, IsNew, Apply, Answer, Applied, RuntimeInv, GateInv, InRefresh, TypeOK, GateType,
   CallerType, CollectorType
<1>5. JobInv'
  BY DEF Resumed, Called, IsNew, Apply, Answer, Applied, RuntimeInv, JobInv, NoJob
<1>6. RequestInv'
  BY DEF Resumed, Called, IsNew, Apply, Answer, Applied, RuntimeInv, RequestInv, Asking, Attended, OfJob,
   Publishing
<1>7. FreshInv'
  BY DEF Resumed, Called, IsNew, Apply, Answer, Applied, RuntimeInv, FreshInv, Attended, After,
   Publishing, InRefresh, TypeOK, CallerType, GateType, EngineType, CollectorType, NoJob
<1>8. RevisionInv'
  <2>1. ~Attended /\ ~Attended'
    BY DEF Resumed, Called, RuntimeInv, RequestInv, Asking, Attended, Publishing
  <2>2. publication.revision \in Nat /\ answer.publication.revision \in Nat /\ last \in Nat
    BY AnswerKinds DEF RuntimeInv, TypeOK, EngineType
  <2>3. last' <= publication.revision
    BY <2>2 DEF Resumed, Apply, RuntimeInv, RevisionInv, IsNew
  <2> QED
    BY <2>1, <2>2, <2>3, AnswerTypes DEF Resumed, Called, RuntimeInv, RevisionInv, AnswerIsNew, Stopped
<1>9. ServedInv'
  BY AnswerJob, ServedFrame DEF Resumed, Called, Answered, Stopped, InControl
<1>10. PauseInv'
  <2>1. store \in StoreType /\ answer.publication \in Publication
    BY AnswerKinds DEF RuntimeInv, TypeOK, EngineType
  <2>2. store'.paused = store.paused /\ engine' = "top" /\ job'.kind = "none"
    BY <2>1, AppliedFacts DEF Resumed, Apply, NoJob
  <2> QED
    BY <2>2 DEF Resumed, Called, RuntimeInv, PauseInv, Publishing
<1>11. ReplyInv'
  BY AnswerJob DEF Resumed, Called
<1> QED
  BY <1>1, <1>2, <1>3, <1>4, <1>5, <1>6, <1>7, <1>8, <1>9, <1>10, <1>11 DEF RuntimeInv, TypeOK

\* The answer to a new interval.
LEMMA IntervalSetKeeps ==
  ASSUME RuntimeInv, IntervalSet
  PROVE  RuntimeInv'
<1>1. /\ GateType' /\ CollectorType'
  BY DEF IntervalSet, Called, Answer, RuntimeInv, TypeOK, GateType, CollectorType
<1>2. EngineType'
  BY AnswerTypes DEF IntervalSet, Called, Answer, RuntimeInv, TypeOK, EngineType, NoJob, Jobs, Answers
<1>3. CallerType'
  BY DEF IntervalSet, Called, Answer, RuntimeInv, TypeOK, CallerType
<1>4. GateInv'
  BY DEF IntervalSet, Called, Answer, RuntimeInv, GateInv, InRefresh, TypeOK, GateType, CallerType,
   CollectorType
<1>5. JobInv'
  BY DEF IntervalSet, Called, Answer, RuntimeInv, JobInv, NoJob
<1>6. RequestInv'
  BY DEF IntervalSet, Called, Answer, RuntimeInv, RequestInv, Asking, Attended, OfJob, Publishing
<1>7. FreshInv'
  BY DEF IntervalSet, Called, Answer, RuntimeInv, FreshInv, Attended, After, Publishing, InRefresh,
   TypeOK, CallerType, GateType, EngineType, CollectorType, NoJob
<1>8. RevisionInv'
  BY RevisionFrame DEF IntervalSet, Called, Attended, Publishing, Stopped
<1>9. ServedInv'
  BY AnswerJob, ServedFrame DEF IntervalSet, Called, Answered, Stopped, InControl
<1>10. PauseInv'
  BY DEF IntervalSet, Called, Answer, RuntimeInv, PauseInv, Publishing, Stopped, IsNew, NoJob
<1>11. ReplyInv'
  BY AnswerJob DEF IntervalSet, Called
<1> QED
  BY <1>1, <1>2, <1>3, <1>4, <1>5, <1>6, <1>7, <1>8, <1>9, <1>10, <1>11 DEF RuntimeInv, TypeOK

\* The generation is completed with a collection that everyone it serves asked for before.
LEMMA CompleteKeeps ==
  ASSUME RuntimeInv, Complete
  PROVE  RuntimeInv'
<1>1. /\ CollectorType' /\ CallerType'
  BY DEF Complete, Larger, RuntimeInv, TypeOK, CollectorType, CallerType
<1>2. GateType'
  BY AnswerTypes, AnswerKinds DEF Complete, Larger, RuntimeInv, TypeOK, GateType, NoJob
<1>3. EngineType'
  BY AnswerTypes DEF Complete, RuntimeInv, TypeOK, EngineType, NoJob, Jobs, Answers
<1>4. GateInv'
  BY DEF Complete, Larger, RuntimeInv, GateInv, InRefresh, JobInv, NoJob
<1>5. JobInv'
  BY DEF Complete, RuntimeInv, JobInv, NoJob
<1>6. RequestInv'
  BY DEF Complete, Larger, RuntimeInv, RequestInv, Asking, Attended, OfJob, Publishing
<1>7. FreshInv'
  <2>1. job.kind = "Refresh" /\ answer.kind = "ok" /\ After(answer.publication.collection)
    BY DEF Complete, RuntimeInv, JobInv, FreshInv
  <2>2. completed \in Nat /\ job.gen \in Nat /\ completed < job.gen
    BY <2>1 DEF RuntimeInv, TypeOK, GateType, EngineType, JobInv
  <2>3. completed' = job.gen /\ measurement' = answer.publication.collection /\ job'.kind = "none"
    BY <2>2 DEF Complete, Larger, NoJob
  <2>4. answer.publication.collection \in Nat /\ \A c \in Callers : target[c] \in Nat /\ asked[c] \in Nat
    BY AnswerKinds DEF RuntimeInv, TypeOK, CallerType
  <2>5. \A c \in Callers : InRefresh(c) /\ completed' >= target[c] => measurement' > asked[c]
    BY <2>1, <2>2, <2>3, <2>4 DEF After
  <2> QED
    BY <2>3, <2>5 DEF Complete, FreshInv, InRefresh
<1>8. RevisionInv'
  BY RevisionFrame DEF Complete, Attended, Publishing, Stopped
<1>9. ServedInv'
  BY DEF Complete, Larger, RuntimeInv, ServedInv, Stopped, InControl, Waking, InRefresh,
   FailureOverwritten, TypeOK, CallerType, GateType, EngineType
<1>10. PauseInv'
  BY DEF Complete, RuntimeInv, PauseInv, Publishing, Stopped, IsNew, NoJob
<1>11. ReplyInv'
  BY DEF Complete, RuntimeInv, ReplyInv, NoJob
<1> QED
  BY <1>1, <1>2, <1>3, <1>4, <1>5, <1>6, <1>7, <1>8, <1>9, <1>10, <1>11 DEF RuntimeInv, TypeOK

\* The generation fails.
LEMMA FailJobKeeps ==
  ASSUME RuntimeInv, FailJob
  PROVE  RuntimeInv'
<1>1. /\ CollectorType' /\ CallerType'
  BY DEF FailJob, FailGeneration, Larger, RuntimeInv, TypeOK, CollectorType, CallerType
<1>2. GateType'
  <2>1. job.gen \in Nat /\ started \in Nat /\ Larger(started, job.gen) \in Nat
    BY DEF RuntimeInv, TypeOK, GateType, EngineType, Larger
  <2> QED
    BY <2>1 DEF FailJob, FailGeneration, RuntimeInv, TypeOK, GateType
<1>3. EngineType'
  BY AnswerTypes DEF FailJob, FailGeneration, RuntimeInv, TypeOK, EngineType, NoJob, Jobs, Answers
<1>4. GateInv'
  BY DEF FailJob, FailGeneration, Larger, RuntimeInv, GateInv, InRefresh, TypeOK, GateType, CallerType,
   CollectorType, JobInv
<1>5. JobInv'
  BY DEF FailJob, FailGeneration, RuntimeInv, JobInv, NoJob
<1>6. RequestInv'
  BY DEF FailJob, FailGeneration, Larger, RuntimeInv, RequestInv, Asking, Attended, OfJob, Publishing
<1>7. FreshInv'
  BY DEF FailJob, FailGeneration, RuntimeInv, FreshInv, Attended, After, Publishing, InRefresh, NoJob
<1>8. RevisionInv'
  BY RevisionFrame DEF FailJob, FailGeneration, Attended, Publishing, Stopped
<1>9. ServedInv'
  BY DEF FailJob, FailGeneration, Larger, RuntimeInv, ServedInv, Stopped, InControl, Waking, InRefresh,
   FailureOverwritten, TypeOK, CallerType, GateType, EngineType, GateInv, JobInv
<1>10. PauseInv'
  BY DEF FailJob, FailGeneration, RuntimeInv, PauseInv, Publishing, Stopped, IsNew, NoJob
<1>11. ReplyInv'
  BY DEF FailJob, FailGeneration, RuntimeInv, ReplyInv, NoJob
<1> QED
  BY <1>1, <1>2, <1>3, <1>4, <1>5, <1>6, <1>7, <1>8, <1>9, <1>10, <1>11 DEF RuntimeInv, TypeOK

\* The gate is closed for good.
LEMMA TerminateKeeps ==
  ASSUME RuntimeInv, Terminate
  PROVE  RuntimeInv'
<1>1. /\ CollectorType' /\ CallerType' /\ GateInv' /\ FreshInv' /\ ReplyInv'
  BY DEF Terminate, TerminateGate, RuntimeInv, TypeOK, CollectorType, CallerType, GateInv, InRefresh,
     FreshInv, Attended, After, Publishing, ReplyInv
<1>2. GateType'
  BY DEF Terminate, TerminateGate, RuntimeInv, TypeOK, GateType
<1>3. EngineType'
  BY DEF Terminate, TerminateGate, RuntimeInv, TypeOK, EngineType
<1>4. JobInv'
  BY DEF Terminate, TerminateGate, RuntimeInv, JobInv
<1>5. RequestInv'
  BY DEF Terminate, TerminateGate, RuntimeInv, RequestInv, Asking, Attended, OfJob, Publishing
<1>6. RevisionInv'
  BY DEF Terminate, TerminateGate, RuntimeInv, RevisionInv, Stopped, Attended, Publishing, IsNew,
   AnswerIsNew
<1>7. ServedInv'
  BY DEF Terminate, TerminateGate, RuntimeInv, ServedInv, Stopped, InControl, Waking, InRefresh,
   FailureOverwritten
<1>8. PauseInv'
  BY DEF Terminate, TerminateGate, RuntimeInv, PauseInv, Publishing, Stopped, IsNew
<1> QED
  BY <1>1, <1>2, <1>3, <1>4, <1>5, <1>6, <1>7, <1>8 DEF RuntimeInv, TypeOK

\* The engine shuts the collector down.
LEMMA CleanupKeeps ==
  ASSUME RuntimeInv, Cleanup
  PROVE  RuntimeInv'
<1>1. /\ GateType' /\ CallerType' /\ GateInv'
  BY DEF Cleanup, RuntimeInv, TypeOK, GateType, CallerType, GateInv, InRefresh
<1>2. EngineType'
  BY DEF Cleanup, RuntimeInv, TypeOK, EngineType
<1>3. CollectorType'
  <2>1. <<>> \in Seq(Request)
    OBVIOUS
  <2> QED
    BY <2>1 DEF Cleanup, RuntimeInv, TypeOK, CollectorType
<1>4. JobInv'
  BY DEF Cleanup, RuntimeInv, JobInv
<1>5. RequestInv'
  BY DEF Cleanup, RuntimeInv, RequestInv, Asking, Attended, OfJob, Publishing
<1>6. FreshInv'
  BY DEF Cleanup, RuntimeInv, FreshInv, Attended, After, Publishing, InRefresh
<1>7. RevisionInv'
  BY DEF Cleanup, RuntimeInv, RevisionInv, Stopped, Attended, Publishing, IsNew, AnswerIsNew
<1>8. ServedInv'
  BY DEF Cleanup, RuntimeInv, ServedInv, Stopped, InControl, Waking, InRefresh, FailureOverwritten
<1>9. PauseInv'
  BY DEF Cleanup, RuntimeInv, PauseInv, Publishing, Stopped, IsNew
<1>10. ReplyInv'
  BY DEF Cleanup, RuntimeInv, ReplyInv
<1> QED
  BY <1>1, <1>2, <1>3, <1>4, <1>5, <1>6, <1>7, <1>8, <1>9, <1>10 DEF RuntimeInv, TypeOK

\* What is left in the channel is answered with an error.
LEMMA FatalControlKeeps ==
  ASSUME RuntimeInv, FatalControl
  PROVE  RuntimeInv'
<1>1. /\ GateType' /\ CollectorType'
  BY DEF FatalControl, Answer, RuntimeInv, TypeOK, GateType, CollectorType
<1>2. EngineType'
  <2>1. CASE shutdown # "idle"
    BY <2>1 DEF FatalControl, RuntimeInv, TypeOK, EngineType
  <2>2. CASE shutdown = "idle"
    BY <2>2, ReceiveFacts DEF FatalControl, RuntimeInv, TypeOK, EngineType
  <2> QED
    BY <2>1, <2>2
<1>3. CallerType'
  BY DEF FatalControl, Answer, RuntimeInv, TypeOK, CallerType
<1>4. GateInv'
  BY DEF FatalControl, Answer, RuntimeInv, GateInv, InRefresh, TypeOK, GateType, CallerType, CollectorType
<1>5. JobInv'
  BY DEF FatalControl, Answer, RuntimeInv, JobInv
<1>6. RequestInv'
  BY DEF FatalControl, Answer, RuntimeInv, RequestInv, Asking, Attended, OfJob, Publishing
<1>7. FreshInv'
  BY DEF FatalControl, Answer, RuntimeInv, FreshInv, Attended, After, Publishing, InRefresh, TypeOK,
   CallerType, GateType, EngineType, CollectorType
<1>8. RevisionInv'
  BY DEF FatalControl, Answer, RuntimeInv, RevisionInv, Stopped, Attended, Publishing, IsNew, AnswerIsNew
<1>9. ServedInv'
  BY DEF FatalControl, Answer, RuntimeInv, ServedInv, Stopped, InControl, Waking, InRefresh,
   FailureOverwritten
<1>10. PauseInv'
  BY DEF FatalControl, Answer, RuntimeInv, PauseInv, Publishing, Stopped, IsNew
<1>11. ReplyInv'
  <2>1. CASE shutdown # "idle"
    BY <2>1 DEF FatalControl, RuntimeInv, JobInv, ReplyInv, NoJob
  <2>2. CASE shutdown = "idle"
    BY <2>2, AnswerHead DEF FatalControl, RuntimeInv, JobInv
  <2> QED
    BY <2>1, <2>2
<1> QED
  BY <1>1, <1>2, <1>3, <1>4, <1>5, <1>6, <1>7, <1>8, <1>9, <1>10, <1>11 DEF RuntimeInv, TypeOK

\* The engine panics: the reply in hand is dropped.
LEMMA PanicKeeps ==
  ASSUME RuntimeInv, Panic
  PROVE  RuntimeInv'
<1>1. /\ GateType' /\ CollectorType'
  BY DEF Panic, Answer, RuntimeInv, TypeOK, GateType, CollectorType
<1>2. EngineType'
  <2>1. published' \in StoreType
    BY PauseFacts DEF Panic, RuntimeInv, TypeOK, EngineType
  <2>2. NoJob \in Jobs /\ NoAnswer \in Answers
    BY AnswerTypes DEF NoJob, Jobs
  <2> QED
    BY <2>1, <2>2 DEF Panic, RuntimeInv, TypeOK, EngineType, Answers, Jobs
<1>3. CallerType'
  BY DEF Panic, Answer, RuntimeInv, TypeOK, CallerType
<1>4. GateInv'
  BY DEF Panic, Answer, RuntimeInv, GateInv, InRefresh, TypeOK, GateType, CallerType, CollectorType
<1>5. JobInv'
  BY DEF Panic, Answer, RuntimeInv, JobInv, NoJob
<1>6. RequestInv'
  BY DEF Panic, Answer, RuntimeInv, RequestInv, Asking, Attended, OfJob, Publishing
<1>7. FreshInv'
  BY DEF Panic, Answer, RuntimeInv, FreshInv, Attended, After, Publishing, InRefresh, TypeOK, CallerType,
   GateType, EngineType, CollectorType, NoJob
<1>8. RevisionInv'
  BY RevisionFrame DEF Panic, Attended, Publishing, Stopped
<1>9. ServedInv'
  BY DEF Panic, Answer, RuntimeInv, ServedInv, Stopped, InControl, Waking, InRefresh, FailureOverwritten
<1>10. PauseInv'
  BY DEF Panic, Answer, RuntimeInv, PauseInv, Publishing, Stopped, IsNew, NoJob
<1>11. ReplyInv'
  BY AnswerJob DEF Panic
<1> QED
  BY <1>1, <1>2, <1>3, <1>4, <1>5, <1>6, <1>7, <1>8, <1>9, <1>10, <1>11 DEF RuntimeInv, TypeOK

\* The steps of a shutdown.
LEMMA ShutdownKeeps ==
  ASSUME RuntimeInv, Shutdown
  PROVE  RuntimeInv'
<1>1. /\ CollectorType' /\ CallerType' /\ GateInv' /\ JobInv' /\ RequestInv' /\ FreshInv'
      /\ RevisionInv' /\ PauseInv'
  BY DEF Shutdown, TerminateGate, Accepts, Send, RuntimeInv, TypeOK, CollectorType, CallerType, GateInv,
     InRefresh, JobInv, RequestInv, Asking, Attended, OfJob, Publishing, FreshInv, After, RevisionInv,
     Stopped, IsNew, AnswerIsNew, PauseInv
<1>2. GateType'
  BY DEF Shutdown, TerminateGate, Accepts, Send, RuntimeInv, TypeOK, GateType
<1>3. EngineType'
  BY SendFacts DEF Shutdown, TerminateGate, RuntimeInv, TypeOK, EngineType, Kinds
<1>4. ServedInv'
  BY DEF Shutdown, TerminateGate, Accepts, Send, RuntimeInv, ServedInv, Stopped, InControl, Waking,
   InRefresh, FailureOverwritten
<1>5. ReplyInv'
  <2>1. CASE control' = control
    BY <2>1, ReplyFrame DEF Shutdown
  <2>2. CASE Send("Shutdown", Nobody)
    BY <2>2, SendReply DEF Shutdown, Kinds
  <2> QED
    BY <2>1, <2>2 DEF Shutdown
<1> QED
  BY <1>1, <1>2, <1>3, <1>4, <1>5 DEF RuntimeInv, TypeOK

\* The invariant holds when the engine is started.
LEMMA InitRuntimeInv ==
  ASSUME Init
  PROVE  RuntimeInv
<1>1. GateType /\ CallerType
  BY DEF Init, GateType, CallerType
<1>2. /\ NoJob \in Jobs /\ NoAnswer \in Answers /\ NoPublication \in Publication
      /\ NoAnswer.kind = "none" /\ NoAnswer.publication = NoPublication /\ NoPublication.revision = 0
  BY AnswerTypes DEF NoJob, Jobs
<1>3. /\ store \in StoreType /\ published \in StoreType
      /\ pausedThere \in BOOLEAN /\ (store.paused => pausedThere)
  <2>1. PICK p \in BOOLEAN :
          /\ store = [paused |-> p, state |-> IF p THEN "paused" ELSE "starting", samples |-> 0]
          /\ pausedThere = p
    BY DEF Init
  <2> QED
    BY <2>1 DEF Init, StoreType
<1>4. EngineType
  <2>1. control \in Seq(Message) /\ job \in Jobs /\ answer \in Answers
    BY <1>2 DEF Init
  <2> QED
    BY <1>3, <2>1 DEF Init, EngineType, Jobs, Answers
<1>5. CollectorType
  BY <1>2, <1>3 DEF Init, CollectorType
<1>6. GateInv /\ JobInv /\ ReplyInv
  BY <1>2 DEF Init, GateInv, JobInv, ReplyInv, InRefresh, NoJob
<1>7. RequestInv
  BY DEF Init, RequestInv, Attended, Publishing, Deadline
<1>8. FreshInv /\ ServedInv
  BY DEF Init, FreshInv, ServedInv, InRefresh, NoJob
<1>9. RevisionInv
  BY <1>2 DEF Init, RevisionInv, AnswerIsNew, Attended, Deadline
<1>10. PauseInv
  BY <1>2, <1>3 DEF Init, PauseInv, Publishing, IsNew, NoJob, NoPublication
<1> QED
  BY <1>1, <1>4, <1>5, <1>6, <1>7, <1>8, <1>9, <1>10 DEF RuntimeInv, TypeOK

\* Every step of a caller, the collector or the engine keeps the invariant.
LEMMA NextRuntimeInv ==
  ASSUME RuntimeInv, [Next]_vars
  PROVE  RuntimeInv'
<1>1. CASE UNCHANGED vars
  BY <1>1 DEF RuntimeInv, TypeOK, GateType, EngineType, CollectorType, CallerType, GateInv, InRefresh,
     JobInv, RequestInv, Asking, Attended, OfJob, Publishing, FreshInv, After, RevisionInv, Stopped,
     IsNew, AnswerIsNew, ServedInv, InControl, Waking, FailureOverwritten, PauseInv, ReplyInv
<1>2. ASSUME NEW c \in Callers,
             \/ Begin(c, "gate") \/ Begin(c, "control") \/ CallerStep(c)
             \/ WaitTimeout(c) \/ ReplyTimeout(c) \/ SpuriousWakeup(c)
             \/ \E kind \in Controls : SendControl(c, kind)
      PROVE  RuntimeInv'
  BY <1>2, BeginKeeps, RequestRefreshKeeps, SendRefreshKeeps, FailRefreshKeeps, WaitKeeps,
     WaitTimeoutKeeps, ReplyTimeoutKeeps, SpuriousWakeupKeeps, SendControlKeeps DEF CallerStep
<1>3. CASE Tick \/ CollectorStep \/ CallFails
  BY <1>3, TickKeeps, ServeKeeps, NotifySwapKeeps, NotifySendKeeps, NotifyClearKeeps, PublishKeeps,
     CallFailsKeeps DEF CollectorStep
<1>4. CASE EngineStep
  BY <1>4, TopKeeps, RecvTimeoutKeeps, RecvPublishedKeeps, ApplyLatestKeeps, RecvRefreshKeeps,
     RecvPauseKeeps, RecvResumeKeeps, RecvSetKeeps, RecvSetIntervalKeeps, RecvShutdownKeeps,
     RefusedKeeps, RefreshedKeeps, PausedKeeps, ResumedKeeps, IntervalSetKeeps, CompleteKeeps,
     FailJobKeeps, TerminateKeeps, CleanupKeeps, FatalControlKeeps DEF EngineStep
<1>5. CASE Panic \/ Shutdown
  BY <1>5, PanicKeeps, ShutdownKeeps
<1> QED
  BY <1>1, <1>2, <1>3, <1>4, <1>5 DEF Next

\* What is counted while the store is paused and stays so was asked for by a refresh: a
\* notification, the answer to a pause and the answer to a resume bring nothing.
LEMMA PausedStep ==
  ASSUME RuntimeInv, [Next]_vars, failures = 0, store.paused, store'.paused, store'.samples # store.samples
  PROVE  job.kind = "Refresh"
<1>1. store \in StoreType /\ publication \in Publication /\ answer.publication \in Publication
  BY AnswerKinds DEF RuntimeInv, TypeOK, EngineType
<1>2. CASE store' = store
  BY <1>2
<1>3. CASE ApplyLatest
  <2>1. IsNew(publication) /\ publication.event = "sample"
    BY <1>1, <1>3, AppliedFacts DEF ApplyLatest, Apply
  <2> QED
    BY <1>3, <2>1 DEF ApplyLatest, RuntimeInv, PauseInv, Stopped
<1>4. CASE Refreshed
  BY <1>4 DEF Refreshed, Called
<1>5. CASE Paused
  <2>1. IsNew(publication) => publication.event # "sample"
    BY <1>5 DEF Paused, Called, RuntimeInv, PauseInv, Stopped
  <2>2. IsNew(publication) => Applied(store, publication).samples = store.samples
    BY <1>1, <2>1, AppliedFacts
  <2>3. CASE answer.kind = "error"
    BY <1>5, <2>3 DEF Paused
  <2>4. CASE answer.kind # "error" /\ IsNew(publication) /\ publication.event = "fatal"
    BY <1>5, <2>2, <2>4 DEF Paused, Apply
  <2>5. CASE answer.kind # "error" /\ ~(IsNew(publication) /\ publication.event = "fatal")
    <3> DEFINE st == IF IsNew(publication) THEN Applied(store, publication) ELSE store
    <3>1. st \in StoreType /\ st.samples = store.samples
      BY <1>1, <2>2, AppliedFacts
    <3>2. store' = [st EXCEPT !.paused = TRUE, !.state = "paused"]
      BY <1>5, <2>5 DEF Paused
    <3> HIDE DEF st
    <3> QED
      BY <3>1, <3>2, PauseFacts
  <2> QED
    BY <2>3, <2>4, <2>5
<1>6. CASE Resumed
  BY <1>6 DEF Resumed, Called, RuntimeInv, PauseInv
<1>7. CASE RecvResume
  BY <1>1, <1>7, PauseFacts DEF RecvResume
<1>8. store' = store \/ ApplyLatest \/ Refreshed \/ Paused \/ Resumed \/ RecvResume
  <2>1. ASSUME NEW c \in Callers,
               \/ Begin(c, "gate") \/ Begin(c, "control") \/ CallerStep(c)
               \/ WaitTimeout(c) \/ ReplyTimeout(c) \/ SpuriousWakeup(c)
               \/ \E kind \in Controls : SendControl(c, kind)
        PROVE  store' = store
    BY <2>1 DEF CallerStep, Begin, RequestRefresh, SendRefresh, FailRefresh, Wait, WaitTimeout,
       ReplyTimeout, SpuriousWakeup, SendControl
  <2>2. CASE Tick \/ CollectorStep \/ CallFails
    BY <2>2 DEF CollectorStep, Tick, Serve, NotifySwap, NotifySend, NotifyClear, Publish, CallFails
  <2>3. CASE EngineStep \/ Panic \/ Shutdown \/ UNCHANGED vars
    BY <2>3 DEF EngineStep, Top, RecvTimeout, RecvPublished, RecvRefresh, RecvPause, RecvSet,
       RecvSetInterval, RecvShutdown, Refused, IntervalSet, Complete, FailJob, Terminate, Cleanup,
       FatalControl, Called, Panic, Shutdown
  <2> QED
    BY <2>1, <2>2, <2>3 DEF Next
<1> QED
  BY <1>2, <1>3, <1>4, <1>5, <1>6, <1>7, <1>8

\* The inductive invariant of the engine, its gate and the collector as it meets it.
THEOREM RuntimeInvariance == Spec => []RuntimeInv
<1>1. Init => RuntimeInv
  BY InitRuntimeInv
<1>2. RuntimeInv /\ [Next]_vars => RuntimeInv'
  BY NextRuntimeInv
<1> QED
  BY <1>1, <1>2, PTL DEF Spec

\* refresh_now_measured: a caller is handed only what was collected after it asked.
THEOREM RefreshTruth == Spec => []RefreshIsFresh
<1>1. RuntimeInv => RefreshIsFresh
  BY DEF RuntimeInv, FreshInv, InRefresh, RefreshIsFresh
<1> QED
  BY <1>1, RuntimeInvariance, PTL

\* A refresh or a resume that the collector answers never fails for want of a new result.
THEOREM AnswersAreNew == Spec => []AnswerIsNew
<1>1. RuntimeInv => AnswerIsNew
  BY DEF RuntimeInv, RevisionInv
<1> QED
  BY <1>1, RuntimeInvariance, PTL

\* wait_for_refresh_generation: whoever waits has an answer, a generation under way, or a
\* wake on its way, but for the failure that was overwritten.
THEOREM WaitersServed == Spec => []EveryWaiterIsServed
<1>1. ASSUME RuntimeInv PROVE EveryWaiterIsServed
  <2>1. requested \in Nat /\ started \in Nat /\ \A c \in Callers : target[c] \in Nat
    BY <1>1 DEF RuntimeInv, TypeOK, GateType, CallerType
  <2> SUFFICES ASSUME NEW c \in Callers, call[c] = "wait",
                      ~(\/ terminal \/ Stopped \/ shutdown = "flagged"
                        \/ completed >= target[c]
                        \/ failed # 0 /\ failed >= target[c]
                        \/ job.kind = "Refresh" /\ job.gen >= target[c]
                        \/ requested > started /\ (InControl("Refresh") \/ \E d \in Callers : Waking(d))
                        \/ \E d \in Callers : call[d] = "failing" /\ target[d] >= target[c]
                        \/ FailureOverwritten(c))
               PROVE  FALSE
    BY DEF EveryWaiterIsServed
  <2>2. ~(requested > started)
    BY <1>1 DEF RuntimeInv, ServedInv
  <2>3. target[c] <= requested
    BY <1>1 DEF RuntimeInv, GateInv, InRefresh
  <2>4. target[c] <= started
    BY <2>1, <2>2, <2>3
  <2> QED
    BY <1>1, <2>2, <2>4 DEF RuntimeInv, ServedInv, InRefresh
<1> QED
  BY <1>1, RuntimeInvariance, PTL

\* While the runtime is paused, and no call on the collector has failed, only a refresh
\* brings a new sample.
THEOREM PauseSafety == Spec => PausedHolds
<1>1. RuntimeInv /\ [Next]_vars =>
        [failures = 0 /\ store.paused /\ store'.paused /\ store'.samples # store.samples
           => job.kind = "Refresh"]_vars
  BY PausedStep
<1> QED
  BY <1>1, RuntimeInvariance, PTL DEF Spec, PausedHolds
=============================================================================
