----------------------- MODULE CollectorEngineProofs -----------------------
(***************************************************************************)
(* The collector engine's invariant, proved for any number of callers and  *)
(* any capacity of the control channel.                                    *)
(***************************************************************************)
EXTENDS CollectorEngine, TLAPS

Kinds == {"Refresh", "Pause", "Resume", "SetInterval", "Shutdown"}
CallStates == {"idle", "gate", "send", "failing", "wait", "finish", "control", "reply"}

\* A message has a kind and a receiver for its answer, or none.
LEMMA MessageFacts ==
  ASSUME NEW m \in Message PROVE m.from \in Callers \cup {Nobody} /\ m.kind \in Kinds
  BY DEF Message, Kinds

\* So has every message in the channel.
LEMMA ChannelFacts ==
  ASSUME NEW s \in Seq(Message), NEW i \in 1..Len(s)
  PROVE  s[i].from \in Callers \cup {Nobody}
<1>1. s[i] \in Message
  OBVIOUS
<1> QED BY <1>1, MessageFacts

\* What taking a message does to the channel.
LEMMA ReceiveFacts ==
  ASSUME TypeOK, control # <<>>, control' = Tail(control)
  PROVE  /\ control' \in Seq(Message) /\ Len(control) \in Nat /\ Len(control) > 0
         /\ Len(control') = Len(control) - 1
         /\ 1 \in 1..Len(control) /\ Head(control) = control[1] /\ control[1] \in Message
         /\ \A i \in 1..Len(control') : i + 1 \in 1..Len(control) /\ control'[i] = control[i + 1]
         /\ \A i \in 1..Len(control) : i # 1 => i - 1 \in 1..Len(control') /\ control'[i - 1] = control[i]
  BY DEF TypeOK

\* What sending one does.
LEMMA SendFacts ==
  ASSUME TypeOK, NEW kind \in Kinds, NEW f \in Callers \cup {Nobody}, Send(kind, f)
  PROVE  /\ control' \in Seq(Message) /\ Len(control) \in Nat
         /\ Len(control') = Len(control) + 1
         /\ \A i \in 1..Len(control) : i \in 1..Len(control') /\ control'[i] = control[i]
         /\ \A i \in 1..Len(control') : i # Len(control) + 1 => i \in 1..Len(control) /\ control'[i] = control[i]
         /\ Len(control) + 1 \in 1..Len(control')
         /\ control'[Len(control) + 1] = [kind |-> kind, from |-> f]
<1>1. [kind |-> kind, from |-> f] \in Message
  BY DEF Message, Kinds
<1>2. QED
  BY <1>1 DEF TypeOK, Send

\* A reply ends the call that waits for it and no other.
Answered == \A d \in Callers : call'[d] = call[d] \/ (call[d] = "reply" /\ call'[d] = "idle")

\* What a reply does to the calls.
LEMMA AnswerFacts ==
  ASSUME TypeOK, NEW f \in Callers \cup {Nobody}, f # Nobody => call[f] = "reply", Answer(f)
  PROVE  /\ call' \in [Callers -> CallStates]
         /\ Answered
         /\ \A d \in Callers : d # f => call'[d] = call[d]
<1>1. CASE f = Nobody
  BY <1>1, EngineAssumption DEF Answer, TypeOK, CallStates, Answered
<1>2. CASE f # Nobody
  BY <1>2 DEF Answer, Step, TypeOK, CallStates, Answered
<1> QED BY <1>1, <1>2

\* Taking a message leaves the wakes that were not taken.
LEMMA ReceiveWake ==
  ASSUME TypeOK, OneWakeAtATime, control # <<>>, control' = Tail(control), Answered
  PROVE  /\ OneWakeAtATime'
         /\ Head(control).kind # "Refresh" => (WakeOnTheWay' <=> WakeOnTheWay)
         /\ Head(control).kind = "Refresh" => WakeOnTheWay /\ ~WakeOnTheWay'
<1>1. \A d \in Callers : Waking(d)' <=> Waking(d)
  BY DEF Answered, Waking
<1>2. /\ \A i \in 1..Len(control') : i + 1 \in 1..Len(control) /\ (RefreshAt(i)' <=> RefreshAt(i + 1))
      /\ \A i \in 1..Len(control) : i # 1 => i - 1 \in 1..Len(control') /\ (RefreshAt(i - 1)' <=> RefreshAt(i))
      /\ 1 \in 1..Len(control)
      /\ Head(control).kind = "Refresh" <=> RefreshAt(1)
      /\ Len(control) \in Nat /\ Len(control') \in Nat
  BY ReceiveFacts DEF RefreshAt
<1> HIDE DEF RefreshAt, Waking
<1>3. OneWakeAtATime'
  <2>1. ASSUME NEW i \in 1..Len(control'), NEW j \in 1..Len(control'), RefreshAt(i)', RefreshAt(j)'
        PROVE  i = j
    BY <1>2, <2>1 DEF OneWakeAtATime
  <2>2. ASSUME NEW d \in Callers, NEW e \in Callers, Waking(d)', Waking(e)' PROVE d = e
    BY <1>1, <2>2 DEF OneWakeAtATime
  <2>3. ASSUME NEW d \in Callers, NEW i \in 1..Len(control'), Waking(d)', RefreshAt(i)' PROVE FALSE
    BY <1>1, <1>2, <2>3 DEF OneWakeAtATime
  <2> QED BY <2>1, <2>2, <2>3 DEF OneWakeAtATime
<1>4. ASSUME Head(control).kind # "Refresh" PROVE WakeOnTheWay' <=> WakeOnTheWay
  BY <1>1, <1>2, <1>4 DEF WakeOnTheWay
<1>5. ASSUME Head(control).kind = "Refresh" PROVE WakeOnTheWay /\ ~WakeOnTheWay'
  BY <1>1, <1>2, <1>5 DEF WakeOnTheWay, OneWakeAtATime
<1> QED BY <1>3, <1>4, <1>5

\* The replies still owed after the first message has been answered
LEMMA ReceiveReply ==
  ASSUME TypeOK, ReplyInv, control # <<>>, control' = Tail(control), Answer(Head(control).from), work' = work
  PROVE  ReplyInv' /\ Answered /\ call' \in [Callers -> CallStates]
<1>1. /\ Head(control).from \in Callers \cup {Nobody}
      /\ Head(control).from # Nobody => call[Head(control).from] = "reply"
  BY ReceiveFacts DEF ReplyInv, Message
<1>2. /\ call' \in [Callers -> CallStates] /\ Answered
      /\ \A d \in Callers : d # Head(control).from => call'[d] = call[d]
  BY <1>1, AnswerFacts
<1>3. \A i \in 1..Len(control') : control'[i].from \in Callers \cup {Nobody}
  BY ReceiveFacts, ChannelFacts
<1>4. work.from \in Callers \cup {Nobody}
  BY DEF TypeOK, Work, NoWork
<1>5. ReplyInv'
  <2>1. ASSUME NEW i \in 1..Len(control'), control'[i].from # Nobody
        PROVE  call'[control'[i].from] = "reply"
    BY <1>2, <1>3, <2>1, ReceiveFacts DEF ReplyInv
  <2>2. ASSUME NEW i \in 1..Len(control'), NEW j \in 1..Len(control'), control'[i].from # Nobody,
               control'[i].from = control'[j].from
        PROVE  i = j
    BY <2>2, ReceiveFacts DEF ReplyInv
  <2>3. ASSUME work.from # Nobody
        PROVE  call'[work.from] = "reply" /\ \A i \in 1..Len(control') : control'[i].from # work.from
    BY <1>2, <1>4, <2>3, ReceiveFacts DEF ReplyInv
  <2> QED BY <2>1, <2>2, <2>3 DEF ReplyInv
<1> QED BY <1>2, <1>5

\* A message that is not a wake changes no wake.
LEMMA SendWake ==
  ASSUME TypeOK, OneWakeAtATime, NEW kind \in Kinds, kind # "Refresh",
         NEW f \in Callers \cup {Nobody}, Send(kind, f), \A d \in Callers : Waking(d)' <=> Waking(d)
  PROVE  OneWakeAtATime' /\ (WakeOnTheWay' <=> WakeOnTheWay)
<1>a. /\ \A i \in 1..Len(control) : i \in 1..Len(control') /\ control'[i] = control[i]
      /\ \A i \in 1..Len(control') : i # Len(control) + 1 => i \in 1..Len(control) /\ control'[i] = control[i]
      /\ control'[Len(control) + 1] = [kind |-> kind, from |-> f]
  BY SendFacts, Zenon
<1>b. control'[Len(control) + 1].kind # "Refresh"
  BY <1>a
<1>1. /\ \A i \in 1..Len(control) : i \in 1..Len(control') /\ (RefreshAt(i)' <=> RefreshAt(i))
      /\ \A i \in 1..Len(control') : RefreshAt(i)' => i \in 1..Len(control) /\ RefreshAt(i)
  BY <1>a, <1>b DEF RefreshAt
<1> HIDE DEF RefreshAt, Waking
<1>2. OneWakeAtATime'
  BY <1>1 DEF OneWakeAtATime
<1>3. WakeOnTheWay' <=> WakeOnTheWay
  BY <1>1 DEF WakeOnTheWay
<1> QED BY <1>2, <1>3

\* Steps that touch no message and end no control call keep the replies in order.
LEMMA ReplyFrame ==
  ASSUME TypeOK, ReplyInv, control' = control, work' = work,
         \A d \in Callers : call[d] = "reply" => call'[d] = "reply"
  PROVE  ReplyInv'
<1>1. \A i \in 1..Len(control) : control[i].from \in Callers \cup {Nobody}
  BY ChannelFacts DEF TypeOK
<1>2. work.from \in Callers \cup {Nobody}
  BY DEF TypeOK, Work, NoWork
<1> QED BY <1>1, <1>2 DEF ReplyInv

\* A new message with its reply channel: nobody else awaits that reply.
LEMMA SendReply ==
  ASSUME TypeOK, ReplyInv, NEW kind \in Kinds, NEW f \in Callers \cup {Nobody}, Send(kind, f),
         work' = work, f # Nobody => call[f] # "reply" /\ call'[f] = "reply",
         \A d \in Callers : call[d] = "reply" => call'[d] = "reply"
  PROVE  ReplyInv'
<1>1. /\ \A i \in 1..Len(control) : i \in 1..Len(control') /\ control'[i] = control[i]
      /\ \A i \in 1..Len(control') : i # Len(control) + 1 => i \in 1..Len(control) /\ control'[i] = control[i]
      /\ control'[Len(control) + 1] = [kind |-> kind, from |-> f]
  BY SendFacts, Zenon
<1>2. control'[Len(control) + 1].from = f
  BY <1>1
<1>3. \A i \in 1..Len(control) : control[i].from \in Callers \cup {Nobody}
  BY ChannelFacts DEF TypeOK
<1>4. work.from \in Callers \cup {Nobody}
  BY DEF TypeOK, Work, NoWork
<1>5. \A i \in 1..Len(control') :
        \/ i = Len(control) + 1 /\ control'[i].from = f
        \/ i # Len(control) + 1 /\ i \in 1..Len(control) /\ control'[i].from = control[i].from
  BY <1>1, <1>2
<1>6. ASSUME NEW i \in 1..Len(control'), control'[i].from # Nobody
      PROVE  call'[control'[i].from] = "reply"
  BY <1>3, <1>5, <1>6 DEF ReplyInv
<1>7. ASSUME NEW i \in 1..Len(control'), NEW j \in 1..Len(control'), control'[i].from # Nobody,
             control'[i].from = control'[j].from
      PROVE  i = j
  BY <1>3, <1>5, <1>7 DEF ReplyInv
<1>8. ASSUME work.from # Nobody
      PROVE  call'[work.from] = "reply" /\ \A i \in 1..Len(control') : control'[i].from # work.from
  BY <1>4, <1>5, <1>8 DEF ReplyInv
<1> QED BY <1>6, <1>7, <1>8 DEF ReplyInv

\* Steps that only end control calls leave the callers at the gate as they are.
LEMMA WaiterFrame ==
  ASSUME TypeOK, WaiterInv, Answered, begun' \in Nat, begun' >= begun,
         UNCHANGED <<waiting, target, asked, requested, started, completed, publication>>
  PROVE  WaiterInv'
<1>1. \A d \in Callers : call'[d] \in {"send", "failing", "wait", "finish"}
                           <=> call[d] \in {"send", "failing", "wait", "finish"}
  BY DEF Answered
<1>2. waiting' = {d \in Callers : call'[d] \in {"send", "failing", "wait", "finish"}}
  BY <1>1, Zenon DEF WaiterInv
<1>3. waiting \subseteq Callers
  BY DEF WaiterInv
<1> QED BY <1>2, <1>3 DEF WaiterInv, TypeOK

\* A caller stays served when nothing it relies on is taken away.
LEMMA ServedFrame ==
  ASSUME EveryWaiterIsServed,
         \A d \in Callers : call'[d] = "wait" => call[d] = "wait",
         UNCHANGED <<completed, started, failed, target>>,
         terminal => terminal',
         shutdown = "flagged" => shutdown' = "flagged" \/ terminal',
         thread = "terminate" => thread' = "terminate" \/ terminal',
         Refreshing => (Refreshing' /\ work'.gen = work.gen) \/ thread' = "terminate",
         WakeOnTheWay => WakeOnTheWay'
  PROVE  EveryWaiterIsServed'
<1>1. SUFFICES ASSUME NEW d \in Callers, call'[d] = "wait"
               PROVE  \/ terminal' \/ shutdown' = "flagged" \/ thread' = "terminate"
                      \/ target[d] <= completed
                      \/ failed # 0 /\ failed >= target[d]
                      \/ Refreshing' /\ work'.gen = target[d]
                      \/ target[d] > started /\ WakeOnTheWay'
  BY DEF EveryWaiterIsServed
<1> QED BY <1>1 DEF EveryWaiterIsServed

-----------------------------------------------------------------------------
(* One lemma per step                                                       *)

\* A caller enters refresh_now.
LEMMA BeginRefreshStep ==
  ASSUME EngineInv, NEW c \in Callers, BeginRefresh(c)
  PROVE  EngineInv'
<1> USE EngineAssumption DEF EngineInv, vars, gateVars, threadVars, callVars, bounds, Step, Return, Leave, NotifyAll
<1>1. TypeOK'
  BY DEF BeginRefresh, TypeOK, Work, Message, NoWork, Cause, Event
<1>2. GenerationInv'
  BY DEF BeginRefresh, TypeOK, GenerationInv, Refreshing, NoWork, Work, Message
<1>3. WaiterInv'
  BY DEF BeginRefresh, TypeOK, GenerationInv, WaiterInv, Refreshing
<1>4. WakeInv'
  BY DEF BeginRefresh, TypeOK, GenerationInv, WakeInv, WakeOnTheWay, Waking, RefreshAt, OneWakeAtATime, Message
<1>5. ReplyInv'
  BY DEF BeginRefresh, TypeOK, ReplyInv, Message, Work, NoWork
<1>6. RefreshIsFresh'
  BY DEF BeginRefresh, TypeOK, RefreshIsFresh, WaiterInv
<1>7. ResultIsThere'
  BY DEF BeginRefresh, TypeOK, ResultIsThere, WaiterInv
<1>8. EveryWaiterIsServed'
  BY DEF BeginRefresh, TypeOK, EveryWaiterIsServed, WakeOnTheWay, Waking, RefreshAt, Refreshing, GenerationInv, WaiterInv, WakeInv, OneWakeAtATime, NoWork
<1>9. OneWakeAtATime'
  BY DEF BeginRefresh, TypeOK, OneWakeAtATime, WakeInv, WakeOnTheWay, Waking, RefreshAt, Message
<1> QED BY <1>1, <1>2, <1>3, <1>4, <1>5, <1>6, <1>7, <1>8, <1>9

\* A caller joins a generation under the lock: it is given one that has not
\* started, and a wake is on the way for it.
LEMMA RequestStep ==
  ASSUME EngineInv, NEW c \in Callers, Request(c)
  PROVE  EngineInv'
<1> USE EngineAssumption DEF EngineInv, vars, gateVars, threadVars, callVars, bounds, Step, Return, Leave, NotifyAll
<1>1. CASE terminal
  <2>1. /\ call' = [call EXCEPT ![c] = "idle"]
        /\ UNCHANGED <<gateVars, sleeping, control, shutdownStarted, threadVars, target, result, asked, got, shutdown, bounds>>
    BY <1>1 DEF Request
  <2>2. TypeOK'
    BY <2>1 DEF TypeOK
  <2>3. GenerationInv'
    BY <2>1 DEF GenerationInv, Refreshing
  <2>4. WaiterInv'
    BY <2>1 DEF WaiterInv, Request, TypeOK
  <2>5. ReplyInv'
    BY <2>1, ReplyFrame DEF Request, TypeOK
  <2>6. OneWakeAtATime' /\ WakeInv' /\ EveryWaiterIsServed'
    BY <1>1, <2>1 DEF OneWakeAtATime, WakeInv, EveryWaiterIsServed, WakeOnTheWay, Waking, RefreshAt, TypeOK
  <2>7. RefreshIsFresh' /\ ResultIsThere'
    BY <2>1 DEF RefreshIsFresh, ResultIsThere, TypeOK
  <2> QED BY <2>2, <2>3, <2>4, <2>5, <2>6, <2>7
<1>2. CASE ~terminal
  <2>1. /\ requested' = IF requested = started THEN requested + 1 ELSE requested
        /\ target' = [target EXCEPT ![c] = requested']
        /\ asked' = [asked EXCEPT ![c] = begun]
        /\ call' = [call EXCEPT ![c] = IF wake THEN "wait" ELSE "send"]
        /\ failed' = IF wake THEN failed ELSE 0
        /\ wake' = TRUE
        /\ waiting' = waiting \cup {c}
        /\ UNCHANGED <<started, completed, terminal, publication, sleeping, control, shutdownStarted,
                       threadVars, result, got, shutdown, bounds>>
        /\ call[c] = "gate"
    BY <1>2 DEF Request
  <2>2. requested' \in Nat /\ requested' = started + 1
    BY <2>1 DEF GenerationInv, TypeOK
  <2>3. TypeOK'
    <3>1. call' \in [Callers -> CallStates] /\ target' \in [Callers -> Nat] /\ asked' \in [Callers -> Nat]
      BY <2>1, <2>2 DEF TypeOK, CallStates
    <3>2. waiting' \subseteq Callers /\ failed' \in Nat /\ wake' \in BOOLEAN
      BY <2>1 DEF TypeOK
    <3> QED BY <2>1, <2>2, <3>1, <3>2 DEF TypeOK, CallStates
  <2>4. GenerationInv'
    BY <2>1, <2>2 DEF GenerationInv, Refreshing, TypeOK
  <2>5. WaiterInv'
    <3>1. waiting' = {d \in Callers : call'[d] \in {"send", "failing", "wait", "finish"}}
      BY <2>1 DEF WaiterInv, TypeOK
    <3>2. ASSUME NEW d \in waiting'
          PROVE  /\ target'[d] > 0 /\ target'[d] <= requested'
                 /\ asked'[d] <= begun
                 /\ target'[d] <= started => asked'[d] < begun
                 /\ publication.gen = 0 => target'[d] > completed
                 /\ target'[d] <= publication.gen => asked'[d] < publication.collection
      <4>1. CASE d = c
        BY <2>1, <2>2, <4>1 DEF WaiterInv, GenerationInv, TypeOK
      <4>2. CASE d # c
        BY <2>1, <2>2, <4>2 DEF WaiterInv, GenerationInv, TypeOK
      <4> QED BY <4>1, <4>2
    <3> QED BY <2>1, <3>1, <3>2 DEF WaiterInv
  <2>6. WakeOnTheWay' \/ thread = "done"
    <3>1. CASE wake
      <4>1. WakeOnTheWay \/ thread = "done"
        BY <1>2, <3>1 DEF WakeInv
      <4>2. \A d \in Callers : Waking(d) => Waking(d)'
        BY <2>1 DEF Waking, TypeOK
      <4> QED BY <2>1, <4>1, <4>2 DEF WakeOnTheWay, RefreshAt
    <3>2. CASE ~wake
      BY <2>1, <3>2 DEF WakeOnTheWay, Waking, TypeOK
    <3> QED BY <3>1, <3>2
  <2>7. WakeInv'
    BY <1>2, <2>1, <2>2, <2>6 DEF WakeInv, Waking, WakeOnTheWay, TypeOK, GenerationInv
  <2>8. OneWakeAtATime'
    BY <1>2, <2>1 DEF OneWakeAtATime, WakeInv, WakeOnTheWay, Waking, RefreshAt, TypeOK
  <2>9. EveryWaiterIsServed'
    <3>1. SUFFICES ASSUME NEW d \in Callers, call'[d] = "wait"
                   PROVE  \/ shutdown = "flagged" \/ thread = "terminate"
                          \/ target'[d] <= completed
                          \/ Refreshing' /\ work.gen = target'[d]
                          \/ target'[d] > started /\ WakeOnTheWay'
      BY <2>1 DEF EveryWaiterIsServed
    <3>2. d \in waiting /\ d # c => target'[d] \in Nat /\ target'[d] = target[d]
      BY <2>1 DEF TypeOK
    <3>3. d = c => target'[d] = started + 1
      BY <2>1, <2>2 DEF TypeOK
    <3>4. Refreshing' <=> Refreshing
      BY <2>1 DEF Refreshing
    <3>5. target'[d] \in Nat /\ (target'[d] > started => WakeOnTheWay' \/ shutdown = "flagged")
      BY <1>2, <2>1, <2>2, <2>6 DEF GenerationInv, TypeOK
    <3>6. target'[d] <= started => \/ shutdown = "flagged" \/ thread = "terminate"
                                   \/ target'[d] <= completed
                                   \/ Refreshing /\ work.gen = target'[d]
      BY <1>2, <3>5 DEF GenerationInv, TypeOK
    <3> QED BY <3>1, <3>4, <3>5, <3>6 DEF TypeOK
  <2>10. ReplyInv'
    BY <2>1, ReplyFrame DEF TypeOK
  <2>11. RefreshIsFresh' /\ ResultIsThere'
    BY <2>1 DEF RefreshIsFresh, ResultIsThere, TypeOK
  <2> QED BY <2>3, <2>4, <2>5, <2>7, <2>8, <2>9, <2>10, <2>11
<1> QED BY <1>1, <1>2

\* The wake goes into the channel, or its sender is left to fail the generation.
LEMMA SendRefreshStep ==
  ASSUME EngineInv, NEW c \in Callers, SendRefresh(c)
  PROVE  EngineInv'
<1> USE EngineAssumption DEF EngineInv, vars, gateVars, threadVars, callVars, bounds, Step, Return, Leave, NotifyAll
<1>1. TypeOK /\ call[c] = "send" /\ (\A d \in Callers : call[d] = "reply" => call'[d] = "reply")
  BY DEF SendRefresh, TypeOK
<1>2. CASE Accepts
  <2>1. /\ Send("Refresh", Nobody) /\ call' = [call EXCEPT ![c] = "wait"]
        /\ UNCHANGED <<gateVars, sleeping, shutdownStarted, threadVars, target, result, asked, got, shutdown, bounds>>
    BY <1>2 DEF SendRefresh
  <2>2. "Refresh" \in Kinds /\ Nobody \in Callers \cup {Nobody}
    BY DEF Kinds
  <2>3. /\ control' \in Seq(Message) /\ Len(control) \in Nat
        /\ \A i \in 1..Len(control) : i \in 1..Len(control') /\ control'[i] = control[i]
        /\ \A i \in 1..Len(control') : i # Len(control) + 1 => i \in 1..Len(control) /\ control'[i] = control[i]
        /\ Len(control) + 1 \in 1..Len(control')
        /\ control'[Len(control) + 1] = [kind |-> "Refresh", from |-> Nobody]
    BY <1>1, <2>1, <2>2, SendFacts, Zenon
  <2>4. control'[Len(control) + 1].kind = "Refresh"
    BY <2>3
  <2>5. \A d \in Callers : Waking(d)' <=> Waking(d) /\ d # c
    BY <2>1 DEF Waking, TypeOK
  <2>6. Waking(c)
    BY <1>1 DEF Waking
  <2>7. \A i \in 1..Len(control) : ~RefreshAt(i)
    BY <2>6 DEF OneWakeAtATime
  <2>8. \A i \in 1..Len(control') : RefreshAt(i)' <=> i = Len(control) + 1
    BY <2>3, <2>4, <2>7 DEF RefreshAt
  <2>9. TypeOK'
    BY <2>1, <2>3 DEF TypeOK
  <2>10. GenerationInv'
    BY <2>1, <2>3, <2>4 DEF GenerationInv, Refreshing
  <2>11. WaiterInv'
    BY <1>1, <2>1 DEF WaiterInv, TypeOK
  <2>12. OneWakeAtATime'
    BY <2>5, <2>6, <2>8 DEF OneWakeAtATime
  <2>13. WakeOnTheWay' /\ WakeOnTheWay
    BY <2>3, <2>6, <2>8 DEF WakeOnTheWay
  <2>14. WakeInv'
    BY <2>1, <2>5, <2>13 DEF WakeInv
  <2>15. ReplyInv'
    BY <1>1, <2>1, <2>2, SendReply
  <2>16. EveryWaiterIsServed'
    <3>1. target[c] > started
      BY <2>6, <2>13 DEF WakeInv, TypeOK
    <3> QED BY <2>1, <2>13, <3>1 DEF EveryWaiterIsServed, Refreshing, TypeOK
  <2>17. RefreshIsFresh' /\ ResultIsThere'
    BY <2>1 DEF RefreshIsFresh, ResultIsThere, TypeOK
  <2> QED BY <2>9, <2>10, <2>11, <2>12, <2>14, <2>15, <2>16, <2>17
<1>3. CASE ~Accepts
  <2>1. /\ call' = [call EXCEPT ![c] = "failing"]
        /\ UNCHANGED <<gateVars, sleeping, control, shutdownStarted, threadVars, target, result, asked, got, shutdown, bounds>>
    BY <1>3 DEF SendRefresh
  <2>2. \A d \in Callers : Waking(d)' <=> Waking(d)
    BY <1>1, <2>1 DEF Waking, TypeOK
  <2>3. WakeOnTheWay' <=> WakeOnTheWay
    BY <2>1, <2>2 DEF WakeOnTheWay, RefreshAt
  <2>4. TypeOK' /\ GenerationInv' /\ WaiterInv'
    BY <1>1, <2>1 DEF TypeOK, GenerationInv, Refreshing, WaiterInv
  <2>5. WakeInv' /\ OneWakeAtATime'
    BY <2>1, <2>2, <2>3 DEF WakeInv, OneWakeAtATime, RefreshAt
  <2>6. ReplyInv'
    BY <1>1, <2>1, ReplyFrame
  <2>7. EveryWaiterIsServed' /\ RefreshIsFresh' /\ ResultIsThere'
    BY <2>1, <2>3 DEF EveryWaiterIsServed, Refreshing, RefreshIsFresh, ResultIsThere, TypeOK
  <2> QED BY <2>4, <2>5, <2>6, <2>7
<1> QED BY <1>2, <1>3

\* The generation fails with its wake: all who joined it are answered.
LEMMA FailGenerationStep ==
  ASSUME EngineInv, NEW c \in Callers, FailGeneration(c)
  PROVE  EngineInv'
<1> USE EngineAssumption DEF EngineInv, vars, gateVars, threadVars, callVars, bounds, Step, Return, Leave, NotifyAll
<1>1. TypeOK'
  <2>1. call' \in [Callers -> CallStates]
    BY DEF FailGeneration, TypeOK, CallStates
  <2>2. result' \in [Callers -> {"none", "ok", "busy", "terminal", "failed", "unavailable", "timeout"}]
    BY DEF FailGeneration, TypeOK
  <2> QED BY <2>1, <2>2 DEF FailGeneration, TypeOK, CallStates
<1>2. GenerationInv'
  BY DEF FailGeneration, TypeOK, GenerationInv, Refreshing, NoWork, Work, Message
<1>3. WaiterInv'
  BY DEF FailGeneration, TypeOK, GenerationInv, WaiterInv, Refreshing
<1>4. WakeInv'
  BY DEF FailGeneration, TypeOK, GenerationInv, WakeInv, WakeOnTheWay, Waking, RefreshAt, OneWakeAtATime, Message
<1>5. ReplyInv'
  BY DEF FailGeneration, TypeOK, ReplyInv, Message, Work, NoWork
<1>6. RefreshIsFresh'
  BY DEF FailGeneration, TypeOK, RefreshIsFresh, WaiterInv
<1>7. ResultIsThere'
  BY DEF FailGeneration, TypeOK, ResultIsThere, WaiterInv
<1>8. EveryWaiterIsServed'
  BY DEF FailGeneration, TypeOK, EveryWaiterIsServed, WakeOnTheWay, Waking, RefreshAt, Refreshing, GenerationInv, WaiterInv, WakeInv, OneWakeAtATime, NoWork
<1>9. OneWakeAtATime'
  BY DEF FailGeneration, TypeOK, OneWakeAtATime, WakeInv, WakeOnTheWay, Waking, RefreshAt, Message
<1> QED BY <1>1, <1>2, <1>3, <1>4, <1>5, <1>6, <1>7, <1>8, <1>9

\* A caller looks at the gate: what it takes is newer than its request.
LEMMA WaitStep ==
  ASSUME EngineInv, NEW c \in Callers, Wait(c)
  PROVE  EngineInv'
<1> USE EngineAssumption DEF EngineInv, vars, gateVars, threadVars, callVars, bounds, Step, Return, Leave, NotifyAll
<1>1. TypeOK'
  <2>1. call' \in [Callers -> CallStates]
    BY DEF Wait, TypeOK, CallStates
  <2>2. result' \in [Callers -> {"none", "ok", "busy", "terminal", "failed", "unavailable", "timeout"}]
    BY DEF Wait, TypeOK
  <2>3. got' \in [Callers -> Nat] /\ sleeping' \subseteq Callers
    BY DEF Wait, TypeOK
  <2> QED BY <2>1, <2>2, <2>3 DEF Wait, TypeOK, CallStates
<1>2. ReplyInv'
  <2>1. \A d \in Callers : call[d] = "reply" => call'[d] = "reply"
    BY DEF Wait, TypeOK
  <2> QED BY <2>1, ReplyFrame DEF Wait
<1>3. GenerationInv'
  BY DEF Wait, TypeOK, GenerationInv, Refreshing, NoWork, Work, Message
<1>4. WaiterInv'
  BY DEF Wait, TypeOK, GenerationInv, WaiterInv, Refreshing
<1>5. WakeInv'
  BY DEF Wait, TypeOK, GenerationInv, WakeInv, WakeOnTheWay, Waking, RefreshAt, OneWakeAtATime, Message
<1>6. RefreshIsFresh'
  BY DEF Wait, TypeOK, RefreshIsFresh, WaiterInv
<1>7. ResultIsThere'
  BY DEF Wait, TypeOK, ResultIsThere, WaiterInv
<1>8. EveryWaiterIsServed'
  BY DEF Wait, TypeOK, EveryWaiterIsServed, WakeOnTheWay, Waking, RefreshAt, Refreshing, GenerationInv, WaiterInv, WakeInv, OneWakeAtATime, NoWork
<1>9. OneWakeAtATime'
  BY DEF Wait, TypeOK, OneWakeAtATime, WakeInv, WakeOnTheWay, Waking, RefreshAt, Message
<1> QED BY <1>1, <1>2, <1>3, <1>4, <1>5, <1>6, <1>7, <1>8, <1>9

\* A caller gives up.
LEMMA WaitTimeoutStep ==
  ASSUME EngineInv, NEW c \in Callers, WaitTimeout(c)
  PROVE  EngineInv'
<1> USE EngineAssumption DEF EngineInv, vars, gateVars, threadVars, callVars, bounds, Step, Return, Leave, NotifyAll
<1>1. TypeOK'
  BY DEF WaitTimeout, TypeOK, Work, Message, NoWork, Cause, Event
<1>2. GenerationInv'
  BY DEF WaitTimeout, TypeOK, GenerationInv, Refreshing, NoWork, Work, Message
<1>3. WaiterInv'
  BY DEF WaitTimeout, TypeOK, GenerationInv, WaiterInv, Refreshing
<1>4. WakeInv'
  BY DEF WaitTimeout, TypeOK, GenerationInv, WakeInv, WakeOnTheWay, Waking, RefreshAt, OneWakeAtATime, Message
<1>5. ReplyInv'
  BY DEF WaitTimeout, TypeOK, ReplyInv, Message, Work, NoWork
<1>6. RefreshIsFresh'
  BY DEF WaitTimeout, TypeOK, RefreshIsFresh, WaiterInv
<1>7. ResultIsThere'
  BY DEF WaitTimeout, TypeOK, ResultIsThere, WaiterInv
<1>8. EveryWaiterIsServed'
  BY DEF WaitTimeout, TypeOK, EveryWaiterIsServed, WakeOnTheWay, Waking, RefreshAt, Refreshing, GenerationInv, WaiterInv, WakeInv, OneWakeAtATime, NoWork
<1>9. OneWakeAtATime'
  BY DEF WaitTimeout, TypeOK, OneWakeAtATime, WakeInv, WakeOnTheWay, Waking, RefreshAt, Message
<1> QED BY <1>1, <1>2, <1>3, <1>4, <1>5, <1>6, <1>7, <1>8, <1>9

\* The last caller out clears the results, and nobody is left who needs them.
LEMMA FinishStep ==
  ASSUME EngineInv, NEW c \in Callers, Finish(c)
  PROVE  EngineInv'
<1> USE EngineAssumption DEF EngineInv, vars, gateVars, threadVars, callVars, bounds, Step, Return, Leave, NotifyAll
<1>1. TypeOK'
  BY DEF Finish, TypeOK, Work, Message, NoWork, Cause, Event
<1>2. GenerationInv'
  BY DEF Finish, TypeOK, GenerationInv, Refreshing, NoWork, Work, Message
<1>3. WaiterInv'
  BY DEF Finish, TypeOK, GenerationInv, WaiterInv, Refreshing
<1>4. WakeInv'
  BY DEF Finish, TypeOK, GenerationInv, WakeInv, WakeOnTheWay, Waking, RefreshAt, OneWakeAtATime, Message
<1>5. ReplyInv'
  BY DEF Finish, TypeOK, ReplyInv, Message, Work, NoWork
<1>6. RefreshIsFresh'
  BY DEF Finish, TypeOK, RefreshIsFresh, WaiterInv
<1>7. ResultIsThere'
  BY DEF Finish, TypeOK, ResultIsThere, WaiterInv
<1>8. EveryWaiterIsServed'
  BY DEF Finish, TypeOK, EveryWaiterIsServed, WakeOnTheWay, Waking, RefreshAt, Refreshing, GenerationInv, WaiterInv, WakeInv, OneWakeAtATime, NoWork
<1>9. OneWakeAtATime'
  BY DEF Finish, TypeOK, OneWakeAtATime, WakeInv, WakeOnTheWay, Waking, RefreshAt, Message
<1> QED BY <1>1, <1>2, <1>3, <1>4, <1>5, <1>6, <1>7, <1>8, <1>9

\* A caller enters pause, resume or set_interval.
LEMMA BeginControlStep ==
  ASSUME EngineInv, NEW c \in Callers, BeginControl(c)
  PROVE  EngineInv'
<1> USE EngineAssumption DEF EngineInv, vars, gateVars, threadVars, callVars, bounds, Step, Return, Leave, NotifyAll
<1>1. TypeOK'
  BY DEF BeginControl, TypeOK, Work, Message, NoWork, Cause, Event
<1>2. GenerationInv'
  BY DEF BeginControl, TypeOK, GenerationInv, Refreshing, NoWork, Work, Message
<1>3. WaiterInv'
  BY DEF BeginControl, TypeOK, GenerationInv, WaiterInv, Refreshing
<1>4. WakeInv'
  BY DEF BeginControl, TypeOK, GenerationInv, WakeInv, WakeOnTheWay, Waking, RefreshAt, OneWakeAtATime, Message
<1>5. ReplyInv'
  BY DEF BeginControl, TypeOK, ReplyInv, Message, Work, NoWork
<1>6. RefreshIsFresh'
  BY DEF BeginControl, TypeOK, RefreshIsFresh, WaiterInv
<1>7. ResultIsThere'
  BY DEF BeginControl, TypeOK, ResultIsThere, WaiterInv
<1>8. EveryWaiterIsServed'
  BY DEF BeginControl, TypeOK, EveryWaiterIsServed, WakeOnTheWay, Waking, RefreshAt, Refreshing, GenerationInv, WaiterInv, WakeInv, OneWakeAtATime, NoWork
<1>9. OneWakeAtATime'
  BY DEF BeginControl, TypeOK, OneWakeAtATime, WakeInv, WakeOnTheWay, Waking, RefreshAt, Message
<1> QED BY <1>1, <1>2, <1>3, <1>4, <1>5, <1>6, <1>7, <1>8, <1>9

\* Its message goes into the channel, or finds it full.
LEMMA SendControlStep ==
  ASSUME EngineInv, NEW c \in Callers, NEW kind \in Kinds, kind \notin {"Refresh", "Shutdown"}, SendControl(c, kind)
  PROVE  EngineInv'
<1> USE EngineAssumption DEF EngineInv, vars, gateVars, threadVars, callVars, bounds, Step, Return, Leave, NotifyAll
<1>1. TypeOK /\ call[c] = "control" /\ \A d \in Callers : call[d] = "reply" => call'[d] = "reply"
  BY DEF SendControl, TypeOK
<1>2. \A d \in Callers : Waking(d)' <=> Waking(d)
  BY DEF SendControl, Waking, TypeOK
<1>3. WaiterInv'
  BY <1>1 DEF SendControl, WaiterInv, TypeOK
<1>4. RefreshIsFresh' /\ ResultIsThere'
  BY DEF SendControl, RefreshIsFresh, ResultIsThere, TypeOK
<1>5. control' \in Seq(Message) /\ OneWakeAtATime' /\ (WakeOnTheWay' <=> WakeOnTheWay) /\ ReplyInv' /\ GenerationInv'
  <2>1. CASE Accepts
    <3>1. Send(kind, c) /\ call' = [call EXCEPT ![c] = "reply"] /\ work' = work
      BY <2>1 DEF SendControl
    <3>2. OneWakeAtATime' /\ (WakeOnTheWay' <=> WakeOnTheWay)
      BY <1>1, <1>2, <3>1, SendWake
    <3>3. ReplyInv'
      BY <1>1, <3>1, SendReply DEF TypeOK
    <3>4. /\ control' \in Seq(Message)
          /\ \A i \in 1..Len(control') : i # Len(control) + 1 => i \in 1..Len(control) /\ control'[i] = control[i]
          /\ control'[Len(control) + 1] = [kind |-> kind, from |-> c]
      BY <1>1, <3>1, SendFacts, Zenon
    <3>5. control'[Len(control) + 1].kind # "Shutdown"
      BY <3>4
    <3>6. GenerationInv'
      BY <3>4, <3>5 DEF GenerationInv, Refreshing, SendControl
    <3> QED BY <3>2, <3>3, <3>4, <3>6
  <2>2. CASE ~Accepts
    <3>1. control' = control /\ work' = work
      BY <2>2 DEF SendControl
    <3>2. control' \in Seq(Message) /\ GenerationInv'
      BY <3>1 DEF TypeOK, GenerationInv, Refreshing, SendControl
    <3> QED BY <1>1, <1>2, <3>1, <3>2, ReplyFrame DEF OneWakeAtATime, WakeOnTheWay, RefreshAt
  <2> QED BY <2>1, <2>2
<1>6. TypeOK'
  <2>1. call' \in [Callers -> CallStates]
    BY DEF SendControl, TypeOK, CallStates
  <2> QED BY <1>5, <2>1 DEF SendControl, TypeOK, CallStates
<1>7. WakeInv'
  BY <1>2, <1>5 DEF SendControl, WakeInv
<1>8. EveryWaiterIsServed'
  <2>1. \A d \in Callers : call'[d] = "wait" => call[d] = "wait"
    BY DEF SendControl, TypeOK
  <2> QED BY <1>5, <2>1, ServedFrame DEF SendControl, Refreshing
<1> QED BY <1>3, <1>4, <1>5, <1>6, <1>7, <1>8

\* It gives up; its message stays in the channel without a receiver.
LEMMA ReplyTimeoutStep ==
  ASSUME EngineInv, NEW c \in Callers, ReplyTimeout(c)
  PROVE  EngineInv'
<1> USE EngineAssumption DEF EngineInv, vars, gateVars, threadVars, callVars, bounds, Step, Return, Leave, NotifyAll
<1>1. /\ call[c] = "reply" /\ call' = [call EXCEPT ![c] = "idle"]
      /\ control' = [i \in 1..Len(control) |-> Deaf(control[i], c)]
      /\ work' = Deaf(work, c)
      /\ UNCHANGED <<gateVars, sleeping, shutdownStarted, thread, due, paused, published, begun,
                     target, result, asked, got, shutdown, bounds>>
  BY DEF ReplyTimeout
<1>2. \A i \in 1..Len(control) : /\ Deaf(control[i], c) \in Message
                                 /\ Deaf(control[i], c).kind = control[i].kind
                                 /\ Deaf(control[i], c).from = IF control[i].from = c THEN Nobody ELSE control[i].from
  <2>1. ASSUME NEW m \in Message
        PROVE  /\ Deaf(m, c) \in Message /\ Deaf(m, c).kind = m.kind
               /\ Deaf(m, c).from = IF m.from = c THEN Nobody ELSE m.from
    BY DEF Deaf, Message
  <2>2. \A i \in 1..Len(control) : control[i] \in Message
    BY DEF TypeOK
  <2> QED BY <2>1, <2>2
<1>3. /\ work' \in Work /\ work'.cause = work.cause /\ work'.gen = work.gen
      /\ work'.from = IF work.from = c THEN Nobody ELSE work.from
      /\ work # NoWork => work' # NoWork
  <2>1. CASE work = NoWork
    BY <1>1, <2>1 DEF Work, NoWork, Deaf
  <2>2. CASE work \in [cause : Cause, gen : Nat, from : Callers \cup {Nobody}]
    <3>1. /\ Deaf(work, c) \in [cause : Cause, gen : Nat, from : Callers \cup {Nobody}]
          /\ Deaf(work, c).cause = work.cause /\ Deaf(work, c).gen = work.gen
          /\ Deaf(work, c).from = IF work.from = c THEN Nobody ELSE work.from
      BY <2>2 DEF Deaf
    <3>2. work.cause # "none"
      BY <2>2 DEF Cause
    <3> QED BY <1>1, <3>1, <3>2 DEF Work, NoWork
  <2> QED BY <2>1, <2>2 DEF TypeOK, Work
<1>4. /\ control' \in Seq(Message) /\ Len(control') = Len(control)
      /\ \A i \in 1..Len(control) : /\ control'[i].kind = control[i].kind
                                    /\ control'[i].from = IF control[i].from = c THEN Nobody ELSE control[i].from
  BY <1>1, <1>2 DEF TypeOK
<1>5. Answered /\ (\A d \in Callers : d # c => call'[d] = call[d])
  BY <1>1 DEF Answered, TypeOK
<1>6. \A i \in 1..Len(control) : control[i].from \in Callers \cup {Nobody}
  BY ChannelFacts DEF TypeOK
<1>7. work.from \in Callers \cup {Nobody}
  BY DEF TypeOK, Work, NoWork
<1>8. TypeOK'
  BY <1>1, <1>3, <1>4 DEF TypeOK
<1>9. GenerationInv'
  BY <1>1, <1>3, <1>4 DEF GenerationInv, Refreshing
<1>10. WaiterInv'
  <2>1. begun' \in Nat /\ begun' >= begun
    BY <1>1 DEF TypeOK
  <2> QED BY <1>1, <1>5, <2>1, WaiterFrame
<1>11. ReplyInv'
  BY <1>3, <1>4, <1>5, <1>6, <1>7 DEF ReplyInv
<1>12. /\ \A i \in 1..Len(control) : RefreshAt(i)' <=> RefreshAt(i)
       /\ \A d \in Callers : Waking(d)' <=> Waking(d)
  BY <1>4, <1>5 DEF RefreshAt, Waking, Answered
<1>13. WakeOnTheWay' <=> WakeOnTheWay
  BY <1>4, <1>12 DEF WakeOnTheWay
<1>14. OneWakeAtATime' /\ WakeInv'
  BY <1>1, <1>4, <1>12, <1>13 DEF OneWakeAtATime, WakeInv
<1>15. EveryWaiterIsServed'
  BY <1>1, <1>3, <1>5, <1>13, ServedFrame DEF Answered, Refreshing
<1>16. RefreshIsFresh' /\ ResultIsThere'
  BY <1>1, <1>5 DEF RefreshIsFresh, ResultIsThere, Answered
<1> QED BY <1>8, <1>9, <1>10, <1>11, <1>14, <1>15, <1>16

\* A condition variable may wake for nothing.
LEMMA SpuriousWakeupStep ==
  ASSUME EngineInv, NEW c \in Callers, SpuriousWakeup(c)
  PROVE  EngineInv'
<1> USE EngineAssumption DEF EngineInv, vars, gateVars, threadVars, callVars, bounds, Step, Return, Leave, NotifyAll
<1>1. TypeOK'
  BY DEF SpuriousWakeup, TypeOK, Work
<1>2. GenerationInv' /\ WaiterInv' /\ WakeInv' /\ ReplyInv'
  BY DEF SpuriousWakeup, GenerationInv, Refreshing, WaiterInv, WakeInv, WakeOnTheWay, Waking, RefreshAt, ReplyInv, TypeOK
<1>3. RefreshIsFresh' /\ ResultIsThere' /\ EveryWaiterIsServed' /\ OneWakeAtATime'
  BY DEF SpuriousWakeup, RefreshIsFresh, ResultIsThere, EveryWaiterIsServed, Refreshing, OneWakeAtATime, WakeOnTheWay, Waking, RefreshAt, TypeOK
<1> QED BY <1>1, <1>2, <1>3

\* The deadline falls due.
LEMMA TickStep ==
  ASSUME EngineInv, Tick
  PROVE  EngineInv'
<1> USE EngineAssumption DEF EngineInv, vars, gateVars, threadVars, callVars, bounds, Step, Return, Leave, NotifyAll
<1>1. TypeOK'
  BY DEF Tick, TypeOK, Work
<1>2. GenerationInv' /\ WaiterInv' /\ WakeInv' /\ ReplyInv'
  BY DEF Tick, GenerationInv, Refreshing, WaiterInv, WakeInv, WakeOnTheWay, Waking, RefreshAt, ReplyInv, TypeOK
<1>3. RefreshIsFresh' /\ ResultIsThere' /\ EveryWaiterIsServed' /\ OneWakeAtATime'
  BY DEF Tick, RefreshIsFresh, ResultIsThere, EveryWaiterIsServed, Refreshing, OneWakeAtATime, WakeOnTheWay, Waking, RefreshAt, TypeOK
<1> QED BY <1>1, <1>2, <1>3

\* The top of the loop.
LEMMA TopStep ==
  ASSUME EngineInv, Top
  PROVE  EngineInv'
<1> USE EngineAssumption DEF EngineInv, vars, gateVars, threadVars, callVars, bounds, Step, Return, Leave, NotifyAll
<1>1. TypeOK'
  <2>1. thread = "top" /\ UNCHANGED <<gateVars, sleeping, control, shutdownStarted, callVars, shutdown, bounds>>
    BY DEF Top
  <2>2. /\ thread' \in {"top", "recv", "collecting", "exiting"}
        /\ published' \in Event /\ begun' \in Nat
    BY DEF Top, Publish, Collect, TypeOK, Event
  <2>4. due' \in BOOLEAN /\ paused' \in BOOLEAN
    BY Zenon DEF Top, Publish, Collect, TypeOK
  <2>3. work' \in Work
    <3>1. [cause |-> "deadline", gen |-> 0, from |-> Nobody] \in Work
      BY DEF Work, Cause
    <3> QED BY <3>1 DEF Top, Collect, TypeOK
  <2> QED BY <2>1, <2>2, <2>3, <2>4 DEF TypeOK
<1>2. GenerationInv'
  BY DEF Top, Publish, Collect, TypeOK, GenerationInv, Refreshing, NoWork, Work, Message
<1>3. WaiterInv'
  BY DEF Top, Publish, Collect, TypeOK, GenerationInv, WaiterInv, Refreshing
<1>4. WakeInv'
  BY DEF Top, Publish, Collect, TypeOK, GenerationInv, WakeInv, WakeOnTheWay, Waking, RefreshAt, OneWakeAtATime, Message
<1>5. ReplyInv'
  BY DEF Top, Publish, Collect, TypeOK, ReplyInv, Message, Work, NoWork
<1>6. RefreshIsFresh'
  BY DEF Top, Publish, Collect, TypeOK, RefreshIsFresh, WaiterInv
<1>7. ResultIsThere'
  BY DEF Top, Publish, Collect, TypeOK, ResultIsThere, WaiterInv
<1>8. EveryWaiterIsServed'
  BY DEF Top, Publish, Collect, TypeOK, EveryWaiterIsServed, WakeOnTheWay, Waking, RefreshAt, Refreshing, GenerationInv, WaiterInv, WakeInv, OneWakeAtATime, NoWork
<1>9. OneWakeAtATime'
  BY DEF Top, Publish, Collect, TypeOK, OneWakeAtATime, WakeInv, WakeOnTheWay, Waking, RefreshAt, Message
<1> QED BY <1>1, <1>2, <1>3, <1>4, <1>5, <1>6, <1>7, <1>8, <1>9

\* No message came before the deadline.
LEMMA RecvTimeoutStep ==
  ASSUME EngineInv, RecvTimeout
  PROVE  EngineInv'
<1> USE EngineAssumption DEF EngineInv, vars, gateVars, threadVars, callVars, bounds, Step, Return, Leave, NotifyAll
<1>1. TypeOK'
  BY DEF RecvTimeout, TypeOK, Work
<1>2. GenerationInv' /\ WaiterInv' /\ WakeInv' /\ ReplyInv'
  BY DEF RecvTimeout, GenerationInv, Refreshing, WaiterInv, WakeInv, WakeOnTheWay, Waking, RefreshAt, ReplyInv, TypeOK
<1>3. RefreshIsFresh' /\ ResultIsThere' /\ EveryWaiterIsServed' /\ OneWakeAtATime'
  BY DEF RecvTimeout, RefreshIsFresh, ResultIsThere, EveryWaiterIsServed, Refreshing, OneWakeAtATime, WakeOnTheWay, Waking, RefreshAt, TypeOK
<1> QED BY <1>1, <1>2, <1>3

\* The wake arrives: the one generation asked for and not started begins.
LEMMA RecvRefreshStep ==
  ASSUME EngineInv, RecvRefresh
  PROVE  EngineInv'
<1> USE EngineAssumption DEF EngineInv, vars, gateVars, threadVars, callVars, bounds, Step, Return, Leave, NotifyAll
<1>0. /\ TypeOK /\ control # <<>> /\ control' = Tail(control) /\ Head(control).kind = "Refresh" /\ thread = "recv"
      /\ UNCHANGED <<shutdownStarted, shutdown, bounds, requested, completed, waiting, failed, terminal,
                     publication, sleeping, callVars>>
      /\ wake' = FALSE /\ Answered
  BY DEF RecvRefresh, Receive, Answered
<1>1. OneWakeAtATime' /\ WakeOnTheWay /\ ~WakeOnTheWay'
  BY <1>0, ReceiveWake
<1>2. requested = started + 1
  BY <1>1 DEF WakeInv
<1>3. /\ started' = started + 1 /\ thread' = "collecting" /\ begun' = begun + 1
      /\ work' = [cause |-> "refresh", gen |-> started + 1, from |-> Nobody]
      /\ UNCHANGED <<due, paused, published>>
  BY <1>2 DEF RecvRefresh, Collect, TypeOK
<1>4. work'.cause = "refresh" /\ work'.gen = started + 1 /\ work'.from = Nobody /\ work' \in Work /\ work' # NoWork
  BY <1>3 DEF Work, Cause, NoWork, TypeOK
<1>5. TypeOK'
  <2>1. control' \in Seq(Message)
    BY <1>0, ReceiveFacts
  <2>2. started' \in Nat /\ begun' \in Nat
    BY <1>3 DEF TypeOK
  <2>3. wake' \in BOOLEAN
    BY <1>0, Zenon
  <2> QED BY <1>0, <1>3, <1>4, <2>1, <2>2, <2>3 DEF TypeOK
<1>6. completed = started
  BY <1>0 DEF GenerationInv, Refreshing
<1>7. GenerationInv'
  BY <1>0, <1>2, <1>3, <1>4, <1>6, ReceiveFacts DEF GenerationInv, Refreshing, TypeOK
<1>8. WaiterInv'
  BY <1>0, <1>3 DEF WaiterInv, TypeOK
<1>9. WakeInv'
  <2>1. \A d \in Callers : ~Waking(d)
    <3>1. RefreshAt(1) /\ 1 \in 1..Len(control)
      BY <1>0, ReceiveFacts DEF RefreshAt
    <3> QED BY <3>1 DEF OneWakeAtATime
  <2> QED BY <1>0, <1>1, <2>1 DEF WakeInv, Waking
<1>10. ReplyInv'
  <2>1. \A i \in 1..Len(control') : i + 1 \in 1..Len(control) /\ control'[i] = control[i + 1]
    BY <1>0, ReceiveFacts
  <2>2. \A i, j \in 1..Len(control') : i + 1 = j + 1 => i = j
    OBVIOUS
  <2> QED BY <1>0, <1>4, <2>1, <2>2 DEF ReplyInv
<1>11. RefreshIsFresh' /\ ResultIsThere'
  BY <1>0 DEF RefreshIsFresh, ResultIsThere
<1>12. EveryWaiterIsServed'
  <2>1. \A d \in Callers : call[d] = "wait" => target[d] \in Nat /\ target[d] <= started + 1
    BY <1>2 DEF WaiterInv, TypeOK
  <2>2. Refreshing'
    BY <1>3, <1>4 DEF Refreshing
  <2> QED BY <1>0, <1>3, <1>4, <1>6, <2>1, <2>2 DEF EveryWaiterIsServed, TypeOK
<1> QED BY <1>1, <1>5, <1>7, <1>8, <1>9, <1>10, <1>11, <1>12

\* The thread pauses.
LEMMA RecvPauseStep ==
  ASSUME EngineInv, RecvPause
  PROVE  EngineInv'
<1> USE EngineAssumption DEF EngineInv, vars, gateVars, threadVars, callVars, bounds, Step, Return, Leave, NotifyAll
<1>0. TypeOK /\ control # <<>> /\ control' = Tail(control) /\ Answer(Head(control).from) /\ work' = work
  BY DEF RecvPause, Receive
<1>1. ReplyInv' /\ Answered /\ call' \in [Callers -> CallStates]
  BY <1>0, ReceiveReply
<1>2. OneWakeAtATime' /\ (WakeOnTheWay' <=> WakeOnTheWay)
  BY <1>0, <1>1, ReceiveWake DEF RecvPause, Receive
<1>3. control' \in Seq(Message)
  BY <1>0, ReceiveFacts
<1>4. TypeOK'
  BY <1>1, <1>3 DEF TypeOK, RecvPause, Receive, CallStates
<1>5. GenerationInv'
  BY <1>0, ReceiveFacts DEF GenerationInv, Refreshing, RecvPause, Receive
<1>6. WaiterInv'
  <2>1. begun' \in Nat /\ begun' >= begun
    BY DEF TypeOK, RecvPause, Receive
  <2> QED BY <1>1, <2>1, WaiterFrame DEF RecvPause, Receive
<1>7. WakeInv'
  <2>1. \A d \in Callers : Waking(d)' <=> Waking(d)
    BY <1>1 DEF Answered, Waking
  <2> QED BY <1>2, <2>1 DEF WakeInv, RecvPause, Receive
<1>8. RefreshIsFresh' /\ ResultIsThere'
  BY <1>1 DEF RefreshIsFresh, ResultIsThere, Answered, RecvPause, Receive
<1>9. EveryWaiterIsServed'
  BY <1>1, <1>2, ServedFrame DEF Answered, Refreshing, RecvPause, Receive
<1> QED BY <1>1, <1>2, <1>4, <1>5, <1>6, <1>7, <1>8, <1>9

\* The thread takes a new interval.
LEMMA RecvSetIntervalStep ==
  ASSUME EngineInv, RecvSetInterval
  PROVE  EngineInv'
<1> USE EngineAssumption DEF EngineInv, vars, gateVars, threadVars, callVars, bounds, Step, Return, Leave, NotifyAll
<1>0. TypeOK /\ control # <<>> /\ control' = Tail(control) /\ Answer(Head(control).from) /\ work' = work
  BY DEF RecvSetInterval, Receive
<1>1. ReplyInv' /\ Answered /\ call' \in [Callers -> CallStates]
  BY <1>0, ReceiveReply
<1>2. OneWakeAtATime' /\ (WakeOnTheWay' <=> WakeOnTheWay)
  BY <1>0, <1>1, ReceiveWake DEF RecvSetInterval, Receive
<1>3. control' \in Seq(Message)
  BY <1>0, ReceiveFacts
<1>4. TypeOK'
  BY <1>1, <1>3 DEF TypeOK, RecvSetInterval, Receive, CallStates
<1>5. GenerationInv'
  BY <1>0, ReceiveFacts DEF GenerationInv, Refreshing, RecvSetInterval, Receive
<1>6. WaiterInv'
  <2>1. begun' \in Nat /\ begun' >= begun
    BY DEF TypeOK, RecvSetInterval, Receive
  <2> QED BY <1>1, <2>1, WaiterFrame DEF RecvSetInterval, Receive
<1>7. WakeInv'
  <2>1. \A d \in Callers : Waking(d)' <=> Waking(d)
    BY <1>1 DEF Answered, Waking
  <2> QED BY <1>2, <2>1 DEF WakeInv, RecvSetInterval, Receive
<1>8. RefreshIsFresh' /\ ResultIsThere'
  BY <1>1 DEF RefreshIsFresh, ResultIsThere, Answered, RecvSetInterval, Receive
<1>9. EveryWaiterIsServed'
  BY <1>1, <1>2, ServedFrame DEF Answered, Refreshing, RecvSetInterval, Receive
<1> QED BY <1>1, <1>2, <1>4, <1>5, <1>6, <1>7, <1>8, <1>9

\* The thread resumes, and collects.
LEMMA RecvResumeStep ==
  ASSUME EngineInv, RecvResume
  PROVE  EngineInv'
<1> USE EngineAssumption DEF EngineInv, vars, gateVars, threadVars, callVars, bounds, Step, Return, Leave, NotifyAll
<1>0. /\ TypeOK /\ control # <<>> /\ control' = Tail(control) /\ Head(control).kind # "Refresh" /\ thread = "recv"
      /\ thread' = "collecting" /\ begun' = begun + 1 /\ paused' = FALSE /\ due' = TRUE
      /\ work' = [cause |-> "resume", gen |-> 0, from |-> Head(control).from]
      /\ UNCHANGED <<shutdownStarted, shutdown, bounds, gateVars, sleeping, published, callVars>>
      /\ Answered
  BY DEF RecvResume, Receive, Answered
<1>1. Head(control) = control[1] /\ control[1].from \in Callers \cup {Nobody} /\ 1 \in 1..Len(control)
  BY <1>0, ReceiveFacts, ChannelFacts DEF TypeOK
<1>2. work'.cause = "resume" /\ work'.from = control[1].from /\ work' \in Work /\ work' # NoWork
  BY <1>0, <1>1 DEF Work, Cause, NoWork
<1>3. OneWakeAtATime' /\ (WakeOnTheWay' <=> WakeOnTheWay)
  BY <1>0, ReceiveWake
<1>4. TypeOK'
  <2>1. control' \in Seq(Message)
    BY <1>0, ReceiveFacts
  <2>2. begun' \in Nat
    BY <1>0 DEF TypeOK
  <2>3. paused' \in BOOLEAN /\ due' \in BOOLEAN
    BY <1>0, Zenon
  <2> QED BY <1>0, <1>2, <2>1, <2>2, <2>3 DEF TypeOK
<1>5. ~Refreshing /\ ~Refreshing'
  BY <1>0, <1>2 DEF Refreshing
<1>6. GenerationInv'
  BY <1>0, <1>2, <1>5, ReceiveFacts DEF GenerationInv
<1>7. WaiterInv'
  <2>1. begun' \in Nat /\ begun' >= begun
    BY <1>0 DEF TypeOK
  <2> QED BY <1>0, <2>1, WaiterFrame
<1>8. WakeInv'
  BY <1>0, <1>3 DEF WakeInv, Waking
<1>9. ReplyInv'
  <2>1. \A i \in 1..Len(control') : i + 1 \in 1..Len(control) /\ i + 1 # 1 /\ control'[i] = control[i + 1]
    BY <1>0, ReceiveFacts
  <2> QED BY <1>0, <1>1, <1>2, <2>1 DEF ReplyInv
<1>10. RefreshIsFresh' /\ ResultIsThere'
  BY <1>0 DEF RefreshIsFresh, ResultIsThere
<1>11. EveryWaiterIsServed'
  BY <1>0, <1>3, <1>5, ServedFrame
<1> QED BY <1>3, <1>4, <1>6, <1>7, <1>8, <1>9, <1>10, <1>11

\* The Shutdown message arrives.
LEMMA RecvShutdownStep ==
  ASSUME EngineInv, RecvShutdown
  PROVE  EngineInv'
<1> USE EngineAssumption DEF EngineInv, vars, gateVars, threadVars, callVars, bounds, Step, Return, Leave, NotifyAll
<1>0. /\ TypeOK /\ control # <<>> /\ control' = Tail(control) /\ Head(control).kind = "Shutdown" /\ thread = "recv"
      /\ thread' = "exiting"
      /\ UNCHANGED <<shutdownStarted, shutdown, bounds, gateVars, sleeping, work, due, paused, published, begun, callVars>>
      /\ Answered
  BY DEF RecvShutdown, Receive, Answered
<1>1. terminal
  BY <1>0, ReceiveFacts DEF GenerationInv
<1>2. OneWakeAtATime' /\ (WakeOnTheWay' <=> WakeOnTheWay)
  BY <1>0, ReceiveWake
<1>3. TypeOK'
  BY <1>0, ReceiveFacts DEF TypeOK
<1>4. GenerationInv'
  BY <1>0, <1>1, ReceiveFacts DEF GenerationInv, Refreshing
<1>5. WaiterInv'
  BY <1>0 DEF WaiterInv
<1>6. WakeInv'
  BY <1>0, <1>2 DEF WakeInv, Waking
<1>7. ReplyInv'
  <2>1. \A i \in 1..Len(control') : i + 1 \in 1..Len(control) /\ control'[i] = control[i + 1]
    BY <1>0, ReceiveFacts
  <2> QED BY <1>0, <2>1 DEF ReplyInv
<1>8. RefreshIsFresh' /\ ResultIsThere' /\ EveryWaiterIsServed'
  BY <1>0, <1>1 DEF RefreshIsFresh, ResultIsThere, EveryWaiterIsServed
<1> QED BY <1>2, <1>3, <1>4, <1>5, <1>6, <1>7, <1>8

\* A collection ends and is published.
LEMMA CollectedStep ==
  ASSUME EngineInv, NEW event \in {"sample", "unavailable", "fatal"}, Collected(event)
  PROVE  EngineInv'
<1> USE EngineAssumption DEF EngineInv, vars, gateVars, threadVars, callVars, bounds, Step, Return, Leave, NotifyAll
<1>0. /\ thread = "collecting" /\ work # NoWork /\ work.cause \in Cause
      /\ thread' \in {"reply", "terminate", "top", "complete"}
      /\ thread' = "complete" => work.cause = "refresh"
      /\ thread' = "reply" => work.cause = "resume"
      /\ work.cause = "refresh" => thread' \in {"complete", "terminate"}
      /\ work' = IF thread' = "top" THEN NoWork ELSE work
      /\ published' = event
      /\ due' = (IF work.cause = "refresh" THEN due ELSE FALSE)
      /\ UNCHANGED <<gateVars, sleeping, control, shutdownStarted, paused, begun, callVars, shutdown, bounds>>
  <2>1. thread = "collecting" /\ work # NoWork /\ work.cause \in Cause
    BY DEF Collected, GenerationInv, TypeOK, Work
  <2> QED BY <2>1 DEF Collected, Publish, Cause
<1>1. TypeOK'
  BY <1>0 DEF TypeOK, Work, Event
<1>2. Refreshing' \/ thread' = "terminate" <=> Refreshing \/ thread' = "terminate"
  BY <1>0 DEF Refreshing, NoWork
<1>3. GenerationInv'
  BY <1>0, <1>2 DEF GenerationInv, Refreshing, NoWork, TypeOK
<1>4. WaiterInv' /\ RefreshIsFresh' /\ ResultIsThere' /\ OneWakeAtATime'
  BY <1>0 DEF WaiterInv, RefreshIsFresh, ResultIsThere, OneWakeAtATime, RefreshAt, Waking
<1>5. WakeOnTheWay' <=> WakeOnTheWay
  BY <1>0 DEF WakeOnTheWay, RefreshAt, Waking
<1>6. WakeInv'
  BY <1>0, <1>5 DEF WakeInv, Waking
<1>7. ReplyInv'
  BY <1>0 DEF ReplyInv, NoWork
<1>8. EveryWaiterIsServed'
  BY <1>0, <1>2, <1>5, ServedFrame DEF Refreshing
<1> QED BY <1>1, <1>3, <1>4, <1>6, <1>7, <1>8

\* A collection panics.
LEMMA PanickedStep ==
  ASSUME EngineInv, Panicked
  PROVE  EngineInv'
<1> USE EngineAssumption DEF EngineInv, vars, gateVars, threadVars, callVars, bounds, Step, Return, Leave, NotifyAll
<1>0. /\ TypeOK /\ thread = "collecting" /\ Answer(work.from) /\ work' = NoWork /\ thread' \in {"terminate", "top"}
      /\ UNCHANGED <<gateVars, sleeping, control, shutdownStarted, due, paused, begun, target, result, asked, got, shutdown, bounds>>
      /\ published' \in Event
  BY DEF Panicked, Publish, TypeOK, Event
<1>1. work.from \in Callers \cup {Nobody} /\ (work.from # Nobody => call[work.from] = "reply")
  BY DEF TypeOK, Work, NoWork, ReplyInv
<1>2. /\ call' \in [Callers -> CallStates] /\ Answered
      /\ \A d \in Callers : d # work.from => call'[d] = call[d]
  BY <1>0, <1>1, AnswerFacts
<1>3. Refreshing => thread' = "terminate"
  BY <1>0 DEF Refreshing, GenerationInv, Panicked
<1>4. ~Refreshing'
  BY <1>0 DEF Refreshing
<1>5. TypeOK'
  BY <1>0, <1>2 DEF TypeOK, Work, CallStates
<1>6. GenerationInv'
  BY <1>0, <1>3, <1>4 DEF GenerationInv
<1>7. WaiterInv'
  <2>1. begun' \in Nat /\ begun' >= begun
    BY <1>0 DEF TypeOK
  <2> QED BY <1>0, <1>2, <2>1, WaiterFrame
<1>8. \A d \in Callers : Waking(d)' <=> Waking(d)
  BY <1>2 DEF Waking, Answered
<1>9. WakeOnTheWay' <=> WakeOnTheWay
  BY <1>0, <1>8 DEF WakeOnTheWay, RefreshAt
<1>10. OneWakeAtATime' /\ WakeInv'
  BY <1>0, <1>8, <1>9 DEF OneWakeAtATime, WakeInv, RefreshAt
<1>11. ReplyInv'
  <2>1. \A i \in 1..Len(control) : control[i].from \in Callers \cup {Nobody}
    BY ChannelFacts DEF TypeOK
  <2> QED BY <1>0, <1>2, <2>1 DEF ReplyInv, NoWork
<1>12. RefreshIsFresh' /\ ResultIsThere'
  BY <1>0, <1>2 DEF RefreshIsFresh, ResultIsThere, Answered
<1>13. EveryWaiterIsServed'
  BY <1>0, <1>2, <1>3, <1>9, ServedFrame DEF Answered
<1> QED BY <1>5, <1>6, <1>7, <1>10, <1>11, <1>12, <1>13

\* A generation completes: its waiters are served.
LEMMA CompleteStep ==
  ASSUME EngineInv, Complete
  PROVE  EngineInv'
<1> USE EngineAssumption DEF EngineInv, vars, gateVars, threadVars, callVars, bounds, Step, Return, Leave, NotifyAll
<1>1. TypeOK'
  BY DEF Complete, TypeOK, Work, Message, NoWork, Cause, Event
<1>2. GenerationInv'
  BY DEF Complete, TypeOK, GenerationInv, Refreshing, NoWork, Work, Message
<1>3. WaiterInv'
  BY DEF Complete, TypeOK, GenerationInv, WaiterInv, Refreshing
<1>4. WakeInv'
  BY DEF Complete, TypeOK, GenerationInv, WakeInv, WakeOnTheWay, Waking, RefreshAt, OneWakeAtATime, Message
<1>5. ReplyInv'
  BY DEF Complete, TypeOK, ReplyInv, Message, Work, NoWork
<1>6. RefreshIsFresh'
  BY DEF Complete, TypeOK, RefreshIsFresh, WaiterInv
<1>7. ResultIsThere'
  BY DEF Complete, TypeOK, ResultIsThere, WaiterInv
<1>8. OneWakeAtATime'
  BY DEF Complete, TypeOK, OneWakeAtATime, WakeInv, WakeOnTheWay, Waking, RefreshAt, Message
<1>9. EveryWaiterIsServed'
  <2>1. completed' = started /\ started \in Nat /\ completed \in Nat /\ completed <= started
    BY DEF Complete, GenerationInv, Refreshing, TypeOK
  <2>2. WakeOnTheWay' <=> WakeOnTheWay
    BY DEF Complete, WakeOnTheWay, Waking, RefreshAt
  <2>3. SUFFICES ASSUME NEW d \in Callers, call[d] = "wait"
                 PROVE  \/ terminal \/ shutdown = "flagged" \/ thread = "terminate"
                        \/ target[d] <= started
                        \/ failed # 0 /\ failed >= target[d]
                        \/ target[d] > started /\ WakeOnTheWay
    BY <2>1, <2>2 DEF EveryWaiterIsServed, Complete
  <2>4. target[d] \in Nat
    BY DEF TypeOK
  <2> QED BY <2>1, <2>3, <2>4 DEF EveryWaiterIsServed, Complete, GenerationInv
<1> QED BY <1>1, <1>2, <1>3, <1>4, <1>5, <1>6, <1>7, <1>8, <1>9

\* The resume is answered.
LEMMA ReplyResumeStep ==
  ASSUME EngineInv, ReplyResume
  PROVE  EngineInv'
<1> USE EngineAssumption DEF EngineInv, vars, gateVars, threadVars, callVars, bounds, Step, Return, Leave, NotifyAll
<1>0. /\ TypeOK /\ thread = "reply" /\ Answer(work.from) /\ work' = NoWork /\ thread' \in {"terminate", "top"}
      /\ UNCHANGED <<gateVars, sleeping, control, shutdownStarted, due, paused, begun, target, result, asked, got, shutdown, bounds>>
      /\ published' \in Event
  BY DEF ReplyResume, Publish, TypeOK, Event
<1>1. work.from \in Callers \cup {Nobody} /\ (work.from # Nobody => call[work.from] = "reply")
  BY DEF TypeOK, Work, NoWork, ReplyInv
<1>2. /\ call' \in [Callers -> CallStates] /\ Answered
      /\ \A d \in Callers : d # work.from => call'[d] = call[d]
  BY <1>0, <1>1, AnswerFacts
<1>3. Refreshing => thread' = "terminate"
  BY <1>0 DEF Refreshing, GenerationInv, ReplyResume
<1>4. ~Refreshing'
  BY <1>0 DEF Refreshing
<1>5. TypeOK'
  BY <1>0, <1>2 DEF TypeOK, Work, CallStates
<1>6. GenerationInv'
  BY <1>0, <1>3, <1>4 DEF GenerationInv
<1>7. WaiterInv'
  <2>1. begun' \in Nat /\ begun' >= begun
    BY <1>0 DEF TypeOK
  <2> QED BY <1>0, <1>2, <2>1, WaiterFrame
<1>8. \A d \in Callers : Waking(d)' <=> Waking(d)
  BY <1>2 DEF Waking, Answered
<1>9. WakeOnTheWay' <=> WakeOnTheWay
  BY <1>0, <1>8 DEF WakeOnTheWay, RefreshAt
<1>10. OneWakeAtATime' /\ WakeInv'
  BY <1>0, <1>8, <1>9 DEF OneWakeAtATime, WakeInv, RefreshAt
<1>11. ReplyInv'
  <2>1. \A i \in 1..Len(control) : control[i].from \in Callers \cup {Nobody}
    BY ChannelFacts DEF TypeOK
  <2> QED BY <1>0, <1>2, <2>1 DEF ReplyInv, NoWork
<1>12. RefreshIsFresh' /\ ResultIsThere'
  BY <1>0, <1>2 DEF RefreshIsFresh, ResultIsThere, Answered
<1>13. EveryWaiterIsServed'
  BY <1>0, <1>2, <1>3, <1>9, ServedFrame DEF Answered
<1> QED BY <1>5, <1>6, <1>7, <1>10, <1>11, <1>12, <1>13

\* The gate closes after a fatal collection.
LEMMA TerminateStep ==
  ASSUME EngineInv, Terminate
  PROVE  EngineInv'
<1> USE EngineAssumption DEF EngineInv, vars, gateVars, threadVars, callVars, bounds, Step, Return, Leave, NotifyAll
<1>1. TypeOK'
  BY DEF Terminate, TerminateGate, TypeOK, Work, Message, NoWork, Cause, Event
<1>2. GenerationInv'
  BY DEF Terminate, TerminateGate, TypeOK, GenerationInv, Refreshing, NoWork, Work, Message
<1>3. WaiterInv'
  BY DEF Terminate, TerminateGate, TypeOK, GenerationInv, WaiterInv, Refreshing
<1>4. WakeInv'
  BY DEF Terminate, TerminateGate, TypeOK, GenerationInv, WakeInv, WakeOnTheWay, Waking, RefreshAt, OneWakeAtATime, Message
<1>5. ReplyInv'
  BY DEF Terminate, TerminateGate, TypeOK, ReplyInv, Message, Work, NoWork
<1>6. RefreshIsFresh'
  BY DEF Terminate, TerminateGate, TypeOK, RefreshIsFresh, WaiterInv
<1>7. ResultIsThere'
  BY DEF Terminate, TerminateGate, TypeOK, ResultIsThere, WaiterInv
<1>8. EveryWaiterIsServed'
  BY DEF Terminate, TerminateGate, TypeOK, EveryWaiterIsServed, WakeOnTheWay, Waking, RefreshAt, Refreshing, GenerationInv, WaiterInv, WakeInv, OneWakeAtATime, NoWork
<1>9. OneWakeAtATime'
  BY DEF Terminate, TerminateGate, TypeOK, OneWakeAtATime, WakeInv, WakeOnTheWay, Waking, RefreshAt, Message
<1> QED BY <1>1, <1>2, <1>3, <1>4, <1>5, <1>6, <1>7, <1>8, <1>9

\* The loop that is left after one.
LEMMA FatalControlStep ==
  ASSUME EngineInv, FatalControl
  PROVE  EngineInv'
<1> USE EngineAssumption DEF EngineInv, vars, gateVars, threadVars, callVars, bounds, Step, Return, Leave, NotifyAll
<1>0. TypeOK /\ thread = "fatal" /\ terminal /\ thread' \in {"fatal", "exiting"}
      /\ UNCHANGED <<gateVars, sleeping, shutdownStarted, work, due, paused, published, begun, target, result, asked, got, shutdown, bounds>>
  BY DEF FatalControl, GenerationInv
<1>1. /\ call' \in [Callers -> CallStates] /\ Answered /\ control' \in Seq(Message)
      /\ ReplyInv' /\ OneWakeAtATime' /\ (WakeOnTheWay' => WakeOnTheWay)
      /\ \A i \in 1..Len(control') : control'[i].kind = "Shutdown" => terminal
  <2>1. CASE shutdownStarted
    <3>1. UNCHANGED <<control, call>>
      BY <2>1 DEF FatalControl
    <3>2. call \in [Callers -> CallStates] /\ control \in Seq(Message)
      BY DEF TypeOK, CallStates
    <3>3. Answered /\ ReplyInv' /\ OneWakeAtATime' /\ (WakeOnTheWay' => WakeOnTheWay)
      BY <1>0, <3>1 DEF Answered, ReplyInv, OneWakeAtATime, WakeOnTheWay, Waking, RefreshAt
    <3> QED BY <1>0, <3>1, <3>2, <3>3
  <2>2. CASE ~shutdownStarted
    <3>1. control # <<>> /\ control' = Tail(control) /\ Answer(Head(control).from) /\ work' = work
      BY <2>2 DEF FatalControl
    <3>2. ReplyInv' /\ Answered /\ call' \in [Callers -> CallStates]
      BY <1>0, <3>1, ReceiveReply
    <3>3. OneWakeAtATime' /\ (WakeOnTheWay' => WakeOnTheWay)
      BY <1>0, <3>1, <3>2, ReceiveWake
    <3> QED BY <1>0, <3>1, <3>2, <3>3, ReceiveFacts
  <2> QED BY <2>1, <2>2
<1>2. TypeOK'
  BY <1>0, <1>1 DEF TypeOK, CallStates
<1>3. GenerationInv'
  BY <1>0, <1>1 DEF GenerationInv, Refreshing
<1>4. WaiterInv'
  <2>1. begun' \in Nat /\ begun' >= begun
    BY <1>0 DEF TypeOK
  <2> QED BY <1>0, <1>1, <2>1, WaiterFrame
<1>5. WakeInv'
  BY <1>0, <1>1 DEF WakeInv, Waking, Answered
<1>6. RefreshIsFresh' /\ ResultIsThere' /\ EveryWaiterIsServed'
  BY <1>0, <1>1 DEF RefreshIsFresh, ResultIsThere, EveryWaiterIsServed, Answered
<1> QED BY <1>1, <1>2, <1>3, <1>4, <1>5, <1>6

\* The thread ends and the channel with it.
LEMMA ExitStep ==
  ASSUME EngineInv, Exit
  PROVE  EngineInv'
<1> USE EngineAssumption DEF EngineInv, vars, gateVars, threadVars, callVars, bounds, Step, Return, Leave, NotifyAll
<1>1. TypeOK'
  BY DEF Exit, TypeOK, Work, Message, NoWork, Cause, Event
<1>2. GenerationInv'
  BY DEF Exit, TypeOK, GenerationInv, Refreshing, NoWork, Work, Message
<1>3. WaiterInv'
  BY DEF Exit, TypeOK, GenerationInv, WaiterInv, Refreshing
<1>4. WakeInv'
  BY DEF Exit, TypeOK, GenerationInv, WakeInv, WakeOnTheWay, Waking, RefreshAt, OneWakeAtATime, Message
<1>5. ReplyInv'
  BY DEF Exit, TypeOK, ReplyInv, Message, Work, NoWork
<1>6. RefreshIsFresh'
  BY DEF Exit, TypeOK, RefreshIsFresh, WaiterInv
<1>7. ResultIsThere'
  BY DEF Exit, TypeOK, ResultIsThere, WaiterInv
<1>8. EveryWaiterIsServed'
  BY DEF Exit, TypeOK, EveryWaiterIsServed, WakeOnTheWay, Waking, RefreshAt, Refreshing, GenerationInv, WaiterInv, WakeInv, OneWakeAtATime, NoWork
<1>9. OneWakeAtATime'
  BY DEF Exit, TypeOK, OneWakeAtATime, WakeInv, WakeOnTheWay, Waking, RefreshAt, Message
<1> QED BY <1>1, <1>2, <1>3, <1>4, <1>5, <1>6, <1>7, <1>8, <1>9

\* shutdown sets its flag.
LEMMA BeginShutdownStep ==
  ASSUME EngineInv, BeginShutdown
  PROVE  EngineInv'
<1> USE EngineAssumption DEF EngineInv, vars, gateVars, threadVars, callVars, bounds, Step, Return, Leave, NotifyAll
<1>1. TypeOK'
  BY DEF BeginShutdown, TypeOK, Work
<1>2. GenerationInv' /\ WaiterInv' /\ WakeInv' /\ ReplyInv'
  BY DEF BeginShutdown, GenerationInv, Refreshing, WaiterInv, WakeInv, WakeOnTheWay, Waking, RefreshAt, ReplyInv, TypeOK
<1>3. RefreshIsFresh' /\ ResultIsThere' /\ EveryWaiterIsServed' /\ OneWakeAtATime'
  BY DEF BeginShutdown, RefreshIsFresh, ResultIsThere, EveryWaiterIsServed, Refreshing, OneWakeAtATime, WakeOnTheWay, Waking, RefreshAt, TypeOK
<1> QED BY <1>1, <1>2, <1>3

\* shutdown closes the gate.
LEMMA ShutdownGateStep ==
  ASSUME EngineInv, ShutdownGate
  PROVE  EngineInv'
<1> USE EngineAssumption DEF EngineInv, vars, gateVars, threadVars, callVars, bounds, Step, Return, Leave, NotifyAll
<1>1. TypeOK'
  <2>1. shutdown' = "terminated" /\ terminal' = TRUE /\ wake' = FALSE /\ sleeping' = {}
    BY DEF ShutdownGate, TerminateGate
  <2> QED BY <2>1 DEF ShutdownGate, TypeOK
<1>2. GenerationInv'
  BY DEF ShutdownGate, TerminateGate, TypeOK, GenerationInv, Refreshing, NoWork, Work, Message
<1>3. WaiterInv'
  BY DEF ShutdownGate, TerminateGate, TypeOK, GenerationInv, WaiterInv, Refreshing
<1>4. WakeInv'
  BY DEF ShutdownGate, TerminateGate, TypeOK, GenerationInv, WakeInv, WakeOnTheWay, Waking, RefreshAt, OneWakeAtATime, Message
<1>5. ReplyInv'
  BY DEF ShutdownGate, TerminateGate, TypeOK, ReplyInv, Message, Work, NoWork
<1>6. RefreshIsFresh'
  BY DEF ShutdownGate, TerminateGate, TypeOK, RefreshIsFresh, WaiterInv
<1>7. ResultIsThere'
  BY DEF ShutdownGate, TerminateGate, TypeOK, ResultIsThere, WaiterInv
<1>8. EveryWaiterIsServed'
  BY DEF ShutdownGate, TerminateGate, TypeOK, EveryWaiterIsServed, WakeOnTheWay, Waking, RefreshAt, Refreshing, GenerationInv, WaiterInv, WakeInv, OneWakeAtATime, NoWork
<1>9. OneWakeAtATime'
  BY DEF ShutdownGate, TerminateGate, TypeOK, OneWakeAtATime, WakeInv, WakeOnTheWay, Waking, RefreshAt, Message
<1> QED BY <1>1, <1>2, <1>3, <1>4, <1>5, <1>6, <1>7, <1>8, <1>9

\* shutdown sends its message, if there is room.
LEMMA ShutdownSendStep ==
  ASSUME EngineInv, ShutdownSend
  PROVE  EngineInv'
<1> USE EngineAssumption DEF EngineInv, vars, gateVars, threadVars, callVars, bounds, Step, Return, Leave, NotifyAll
<1>0. /\ TypeOK /\ terminal /\ shutdown = "terminated" /\ shutdown' = "awaiting" /\ Answered
      /\ UNCHANGED <<gateVars, sleeping, shutdownStarted, threadVars, callVars, bounds>>
  BY DEF ShutdownSend, GenerationInv, Answered
<1>1. control' \in Seq(Message) /\ OneWakeAtATime' /\ (WakeOnTheWay' <=> WakeOnTheWay) /\ ReplyInv'
  <2>1. CASE Accepts
    <3>1. Send("Shutdown", Nobody) /\ work' = work /\ (\A d \in Callers : Waking(d)' <=> Waking(d))
      BY <2>1 DEF ShutdownSend, Waking
    <3>2. "Shutdown" \in Kinds /\ "Shutdown" # "Refresh" /\ Nobody \in Callers \cup {Nobody}
      BY DEF Kinds
    <3>3. OneWakeAtATime' /\ (WakeOnTheWay' <=> WakeOnTheWay)
      BY <1>0, <3>1, <3>2, SendWake
    <3>4. ReplyInv'
      BY <1>0, <3>1, <3>2, SendReply
    <3>5. control' \in Seq(Message)
      BY <1>0, <3>1, <3>2, SendFacts
    <3> QED BY <3>3, <3>4, <3>5
  <2>2. CASE ~Accepts
    <3>1. control' = control
      BY <2>2 DEF ShutdownSend
    <3> QED BY <1>0, <3>1 DEF TypeOK, OneWakeAtATime, WakeOnTheWay, Waking, RefreshAt, ReplyInv
  <2> QED BY <2>1, <2>2
<1>2. TypeOK'
  BY <1>0, <1>1 DEF TypeOK
<1>3. GenerationInv'
  BY <1>0 DEF GenerationInv, Refreshing
<1>4. WaiterInv' /\ RefreshIsFresh' /\ ResultIsThere' /\ EveryWaiterIsServed'
  BY <1>0 DEF WaiterInv, RefreshIsFresh, ResultIsThere, EveryWaiterIsServed
<1>5. WakeInv'
  BY <1>0, <1>1 DEF WakeInv, Waking
<1> QED BY <1>1, <1>2, <1>3, <1>4, <1>5

\* shutdown sees the thread end.
LEMMA ShutdownEndsStep ==
  ASSUME EngineInv, ShutdownEnds
  PROVE  EngineInv'
<1> USE EngineAssumption DEF EngineInv, vars, gateVars, threadVars, callVars, bounds, Step, Return, Leave, NotifyAll
<1>1. TypeOK'
  BY DEF ShutdownEnds, TypeOK, Work
<1>2. GenerationInv' /\ WaiterInv' /\ WakeInv' /\ ReplyInv'
  BY DEF ShutdownEnds, GenerationInv, Refreshing, WaiterInv, WakeInv, WakeOnTheWay, Waking, RefreshAt, ReplyInv, TypeOK
<1>3. RefreshIsFresh' /\ ResultIsThere' /\ EveryWaiterIsServed' /\ OneWakeAtATime'
  BY DEF ShutdownEnds, RefreshIsFresh, ResultIsThere, EveryWaiterIsServed, Refreshing, OneWakeAtATime, WakeOnTheWay, Waking, RefreshAt, TypeOK
<1> QED BY <1>1, <1>2, <1>3

\* shutdown gives up, or tries again.
LEMMA ShutdownTimeoutStep ==
  ASSUME EngineInv, ShutdownTimeout
  PROVE  EngineInv'
<1> USE EngineAssumption DEF EngineInv, vars, gateVars, threadVars, callVars, bounds, Step, Return, Leave, NotifyAll
<1>1. TypeOK'
  BY DEF ShutdownTimeout, TypeOK, Work
<1>2. GenerationInv' /\ WaiterInv' /\ WakeInv' /\ ReplyInv'
  BY DEF ShutdownTimeout, GenerationInv, Refreshing, WaiterInv, WakeInv, WakeOnTheWay, Waking, RefreshAt, ReplyInv, TypeOK
<1>3. RefreshIsFresh' /\ ResultIsThere' /\ EveryWaiterIsServed' /\ OneWakeAtATime'
  BY DEF ShutdownTimeout, RefreshIsFresh, ResultIsThere, EveryWaiterIsServed, Refreshing, OneWakeAtATime, WakeOnTheWay, Waking, RefreshAt, TypeOK
<1> QED BY <1>1, <1>2, <1>3

-----------------------------------------------------------------------------
\* The engine starts in the invariant.
LEMMA InitInv == Init => EngineInv
<1> SUFFICES ASSUME Init PROVE EngineInv
  OBVIOUS
<1> USE EngineAssumption DEF Init
<1>1. TypeOK
  <2>1. due \in BOOLEAN /\ paused \in BOOLEAN /\ wake \in BOOLEAN /\ terminal \in BOOLEAN /\ shutdownStarted \in BOOLEAN
    BY Zenon
  <2>2. call \in [Callers -> CallStates]
    BY DEF CallStates
  <2>3. control \in Seq(Message) /\ work \in Work /\ published \in Event
    BY DEF Work, Event
  <2> HIDE DEF Init
  <2>4. /\ requested = 0 /\ started = 0 /\ completed = 0 /\ failed = 0 /\ begun = 0 /\ calls = 0 /\ ticks = 0
        /\ waiting = {} /\ sleeping = {} /\ publication = [gen |-> 0, collection |-> 0]
        /\ thread = "top" /\ shutdown = "idle"
        /\ target = [c \in Callers |-> 0] /\ asked = [c \in Callers |-> 0] /\ got = [c \in Callers |-> 0]
        /\ result = [c \in Callers |-> "none"]
    BY DEF Init
  <2> QED BY <2>1, <2>2, <2>3, <2>4 DEF TypeOK, CallStates
<1>2. GenerationInv /\ WaiterInv /\ WakeInv /\ ReplyInv
  BY DEF GenerationInv, Refreshing, WaiterInv, WakeInv, WakeOnTheWay, Waking, RefreshAt, ReplyInv, NoWork
<1>3. RefreshIsFresh /\ ResultIsThere /\ EveryWaiterIsServed /\ OneWakeAtATime
  BY DEF RefreshIsFresh, ResultIsThere, EveryWaiterIsServed, OneWakeAtATime, Waking, RefreshAt
<1> QED BY <1>1, <1>2, <1>3 DEF EngineInv

\* Whatever the callers, the collector thread and shutdown do, and in whatever
\* order, the engine's invariant holds: for any number of callers, any
\* capacity of the control channel and any number of calls.
THEOREM EngineInvariance == Spec => []EngineInv
<1>1. EngineInv /\ [Next]_vars => EngineInv'
  <2> SUFFICES ASSUME EngineInv, [Next]_vars PROVE EngineInv'
    OBVIOUS
  <2>1. CASE UNCHANGED vars
    <3>1. UNCHANGED <<requested, started, completed, waiting, wake, failed, terminal, publication,
                      sleeping, control, shutdownStarted, thread, work, due, paused, published, begun,
                      call, target, result, asked, got, shutdown, calls, ticks>>
      BY <2>1 DEF vars, gateVars, threadVars, callVars, bounds
    <3> QED BY <3>1 DEF EngineInv, TypeOK, GenerationInv, Refreshing, WaiterInv, WakeInv, WakeOnTheWay,
               Waking, RefreshAt, ReplyInv, RefreshIsFresh, ResultIsThere, EveryWaiterIsServed, OneWakeAtATime
  <2>2. ASSUME NEW c \in Callers,
               \/ BeginRefresh(c) \/ CallerStep(c) \/ WaitTimeout(c)
               \/ BeginControl(c) \/ ReplyTimeout(c) \/ SpuriousWakeup(c)
        PROVE  EngineInv'
    BY <2>2, BeginRefreshStep, RequestStep, SendRefreshStep, FailGenerationStep, WaitStep, FinishStep,
       WaitTimeoutStep, BeginControlStep, ReplyTimeoutStep, SpuriousWakeupStep DEF CallerStep
  <2>3. ASSUME NEW c \in Callers, NEW kind \in {"Pause", "Resume", "SetInterval"}, SendControl(c, kind)
        PROVE  EngineInv'
    <3>1. kind \in Kinds /\ kind \notin {"Refresh", "Shutdown"}
      BY DEF Kinds
    <3> QED BY <2>3, <3>1, SendControlStep
  <2>4. CASE ThreadStep
    BY <2>4, TopStep, RecvTimeoutStep, RecvRefreshStep, RecvPauseStep, RecvSetIntervalStep, RecvResumeStep,
       RecvShutdownStep, CollectedStep, PanickedStep, CompleteStep, ReplyResumeStep, TerminateStep,
       FatalControlStep, ExitStep DEF ThreadStep
  <2>5. CASE Tick
    BY <2>5, TickStep
  <2>6. CASE BeginShutdown \/ ShutdownGate \/ ShutdownSend \/ ShutdownEnds \/ ShutdownTimeout
    BY <2>6, BeginShutdownStep, ShutdownGateStep, ShutdownSendStep, ShutdownEndsStep, ShutdownTimeoutStep
  <2> QED BY <2>1, <2>2, <2>3, <2>4, <2>5, <2>6 DEF Next
<1> QED BY <1>1, InitInv, PTL DEF Spec

\* What a refresh returns was collected after it was asked for.
THEOREM RefreshTruth == Spec => []RefreshIsFresh
<1>1. EngineInv => RefreshIsFresh
  BY DEF EngineInv
<1> QED BY <1>1, EngineInvariance, PTL

\* The shared result is there for everyone who joined the collection, the last
\* to read it included.
THEOREM ResultsAreThere == Spec => []ResultIsThere
<1>1. EngineInv => ResultIsThere
  BY DEF EngineInv
<1> QED BY <1>1, EngineInvariance, PTL

\* No caller waits for a generation that nobody will complete or fail.
THEOREM WaitersServed == Spec => []EveryWaiterIsServed
<1>1. EngineInv => EveryWaiterIsServed
  BY DEF EngineInv
<1> QED BY <1>1, EngineInvariance, PTL

\* Callers never crowd the control channel with wakes.
THEOREM SharedWake == Spec => []OneWakeAtATime
<1>1. EngineInv => OneWakeAtATime
  BY DEF EngineInv
<1> QED BY <1>1, EngineInvariance, PTL
=============================================================================
