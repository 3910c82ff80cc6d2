----------------------- MODULE CollectorSessionProofs -----------------------
(***************************************************************************)
(* SessionInv is inductive, for any limits session_lease.rs may be given   *)
(* and any number of clients, restarts and publications: an answer is      *)
(* never mistaken for another, a limit is never met unawares, and what a   *)
(* failed session was told is not used again.                              *)
(***************************************************************************)
EXTENDS CollectorSession, TLAPS

-----------------------------------------------------------------------------
(* The inductive invariant                                                  *)

Quiet(c) == c.request = NoRequest /\ c.reply = NoReply
Ours == 1 .. MaxInstances

\* A new connection is being made or negotiated.
Connecting == pc \in {"open", "verify", "hello"}

\* Where the collecting thread is tells what it has.
PlaceInv ==
  /\ pc \in {"verify", "hello"} <=> new.state # "none"
  /\ pc = "idle" => purpose = "none"
  /\ Connecting => purpose # "none"
  /\ pc \in {"ask", "await"} => HasSession
  /\ Connecting /\ purpose = "connect" => ~HasSession
  /\ purpose \in {"renew", "retry"} => HasSession
  /\ pc \notin {"hello", "await"} => waited = 0

\* A connection that is not closed is one of the process that runs; a request
\* is on a connection that is not closed and has no answer, a limit closes.
ConnectionInv(c) ==
  /\ c.state = "none" => c = NoConnection
  /\ c.state # "none" => c.instance \in Ours /\ c.instance <= service.instance
  /\ c.state \in {"waiting", "served"} => service.up /\ c.instance = service.instance
  /\ c.request # NoRequest => c.state # "closed" /\ c.reply = NoReply
  /\ c.limit => c.state = "closed"

\* The connection that is negotiated: at most one request, never limited.
NewInv ==
  /\ listener = "ours" <=> new.state = "waiting"
  /\ ~new.limit
  /\ pc = "verify" => Quiet(new)
  /\ pc = "verify" \/ new.request # NoRequest => new.requests = 0
  /\ new.request # NoRequest => new.request = [id |-> 1, after |-> 0]
  /\ new.reply # NoReply =>
       /\ new.reply = [id |-> 1, kind |-> "negotiated", instance |-> new.instance, seq |-> 0]
       /\ new.requests = 1 /\ new.idle = 0 /\ new.state \in {"served", "closed"}

\* Nothing is on its way on the session's connection.
Between == pc \in {"idle", "ask"} \/ (Connecting /\ purpose = "renew")

\* The session and its connection count the same requests.
CountInv ==
  /\ session.instance = 0 => session = NoSession
  /\ ~HasSession => cur = NoConnection
  /\ HasSession =>
       /\ cur.state \in {"served", "closed"} /\ cur.instance = session.instance
       /\ session.nextId = session.requests + 1
       /\ session.requests >= cur.requests /\ session.requests <= cur.requests + 1
       /\ cur.requests >= 1
       /\ cur.request # NoRequest => session.requests = cur.requests + 1
       /\ Between => Quiet(cur) /\ session.requests = cur.requests
  /\ pc = "await" =>
       /\ cur.request # NoRequest =>
            cur.request = [id |-> session.nextId - 1, after |-> session.last]
       /\ cur.reply # NoReply => session.requests = cur.requests
       /\ session.requests >= 2

\* A sample is newer than what was asked after, and not older than any other
\* the desktop has had of its process.
FreshSample(reply) ==
  /\ reply.seq > 0 /\ reply.seq >= asked /\ reply.seq >= seen[reply.instance]
  /\ reply.instance = service.instance => reply.seq <= service.revision

\* The answer that is in the pipe is the one to the request that was made.
AnswerInv ==
  /\ pc = "await" /\ Served(cur) => asked <= service.revision
  /\ pc = "await" /\ cur.reply # NoReply =>
       /\ cur.reply.id = session.nextId - 1 /\ cur.reply.instance = session.instance
       /\ cur.reply.kind \in {"snapshot", "unchanged", "notReady", "invalid", "fatal"}
       /\ cur.reply.kind = "snapshot" => cur.reply.seq > session.last /\ FreshSample(cur.reply)
       /\ cur.reply.kind = "unchanged" => cur.reply.seq = session.last /\ FreshSample(cur.reply)

\* What the desktop remembers of the samples it returned
SampleInv ==
  /\ service.up => service.instance > 0
  /\ service.event = "none" <=> service.revision = 0
  /\ \A i \in Ours : seen[i] > 0 => i <= approval.instance
  /\ \A i \in Ours : i = service.instance => seen[i] <= service.revision
  /\ \A i \in Ours : lost[i] <= seen[i]
  /\ session.instance <= service.instance
  /\ session.instance = service.instance => session.last <= service.revision
  /\ approval.instance <= service.instance
  /\ HasSession => approval.instance <= session.instance
  /\ new.state # "none" => approval.instance <= new.instance
  /\ \A i \in Ours : i = approval.instance => approval.seq = seen[i]
  /\ approval.context => approval.instance \in Ours
  /\ \A i \in Ours : approval.context /\ i = approval.instance => approval.seq > lost[i]
  /\ FromService(delivered) => HasSession /\ delivered.instance = session.instance

\* Idle time and requests stay below the server's limits until it is time to renew.
LeaseInv ==
  /\ pc = "await" /\ cur.reply # NoReply => cur.idle = 0 /\ ~cur.limit
  /\ pc = "idle" /\ session.idle < RenewIdle => cur.idle <= session.idle /\ ~cur.limit
  /\ pc = "ask" /\ purpose \in {"none", "connect"} =>
       cur.idle < RenewIdle /\ ~cur.limit /\ cur.requests < RenewAfter
  /\ pc = "await" /\ purpose \in {"none", "connect"} =>
       /\ cur.idle < RenewIdle + waited /\ ~cur.limit
       /\ cur.request # NoRequest => cur.requests < RenewAfter

\* No more threads than MAX_CLIENTS
ThreadInv == Workers <= MaxClients

SessionInv ==
  /\ TypeOK /\ PlaceInv /\ ConnectionInv(cur) /\ ConnectionInv(new) /\ NewInv /\ CountInv
  /\ AnswerInv /\ SampleInv /\ LeaseInv /\ ThreadInv
  /\ RevokedStaysRevoked

-----------------------------------------------------------------------------
(* Three of the steps are parts of an action.                               *)

Verifies ==
  /\ pc = "verify" /\ service.up /\ service.instance = new.instance
  /\ new' = IF new.state = "closed" THEN new ELSE [new EXCEPT !.request = [id |-> 1, after |-> 0]]
  /\ pc' = "hello"
  /\ UNCHANGED <<serverVars, cur, purpose, waited, clientVars, faults>>

Negotiates ==
  /\ pc = "hello" /\ new.reply # NoReply /\ SameService
  /\ session' = Renewed
  /\ cur' = [new EXCEPT !.reply = NoReply] /\ new' = NoConnection
  /\ LetGo({"cur"})
  /\ pc' = "ask" /\ waited' = 0
  /\ UNCHANGED <<service, others, purpose, approval, status, retryDue, delivered, asked, seen, lost,
                 faults>>

Takes ==
  /\ pc = "await" /\ cur.reply # NoReply /\ Accepted(cur.reply)
  /\ approval' \in Approvals(cur.reply)
  /\ delivered' = [from |-> "service", instance |-> cur.reply.instance, seq |-> cur.reply.seq,
                   context |-> approval'.context]
  /\ seen' = [seen EXCEPT ![cur.reply.instance] = cur.reply.seq]
  /\ session' = [session EXCEPT !.last = cur.reply.seq, !.idle = 0]
  /\ cur' = [cur EXCEPT !.reply = NoReply] /\ status' = "Active"
  /\ pc' = "idle" /\ purpose' = "none" /\ waited' = 0 /\ asked' = 0
  /\ UNCHANGED <<serverVars, new, retryDue, lost, faults>>

-----------------------------------------------------------------------------
(* What the operations do                                                   *)

\* The fields of a connection
LEMMA ConnectionFields ==
  ASSUME NEW c \in Connection
  PROVE  /\ c.instance \in Nat /\ c.instance <= MaxInstances
         /\ c.state \in {"none", "waiting", "served", "closed"} /\ c.limit \in BOOLEAN
         /\ c.requests \in Nat /\ c.requests <= MaxRequests
         /\ c.idle \in Nat /\ c.idle <= IdleTimeout
         /\ c.request \in Request /\ c.reply \in Reply
         /\ c.reply.id \in Nat /\ c.reply.seq \in Nat /\ c.reply.instance \in Nat
BY LimitsAssumption, SessionBoundsAssumption
   DEF Connection, Request, Reply, Instance, Revision, RequestId

\* The numbers in the other records
LEMMA Fields ==
  ASSUME TypeOK
  PROVE  /\ service.instance \in Nat /\ service.instance <= MaxInstances
         /\ service.revision \in Nat /\ service.revision <= MaxRevision
         /\ session.instance \in Nat /\ session.nextId \in Nat /\ session.requests \in Nat
         /\ session.idle \in Nat /\ session.idle <= RenewIdle
         /\ session.last \in Nat /\ session.last \in Revision
         /\ approval.instance \in Nat /\ approval.seq \in Nat /\ approval.context \in BOOLEAN
         /\ others \in Nat /\ leaving \in Nat
         /\ waited \in Nat /\ waited <= OperationTimeout /\ asked \in Nat
         /\ \A i \in Ours : seen[i] \in Nat /\ lost[i] \in Nat /\ i \in Nat
<1>1. /\ service \in Service /\ session \in Session /\ approval \in Approval
      /\ others \in 0 .. MaxClients /\ leaving \in 0 .. MaxClients
      /\ waited \in 0 .. OperationTimeout /\ asked \in Revision
      /\ seen \in [Ours -> Revision] /\ lost \in [Ours -> Revision]
  BY DEF TypeOK, Ours
<1>2. Ours \subseteq Nat /\ Revision \subseteq Nat /\ Instance \subseteq Nat /\ RequestId \subseteq Nat
  BY LimitsAssumption, SessionBoundsAssumption DEF Ours, Revision, Instance, RequestId
<1>3. /\ service.instance \in Nat /\ service.instance <= MaxInstances
      /\ service.revision \in Nat /\ service.revision <= MaxRevision
  BY <1>1, LimitsAssumption, SessionBoundsAssumption DEF Service, Instance, Revision
<1>4. /\ session.instance \in Nat /\ session.nextId \in Nat /\ session.requests \in Nat
      /\ session.idle \in Nat /\ session.idle <= RenewIdle
      /\ session.last \in Nat /\ session.last \in Revision
  <2>1. /\ session.instance \in Instance /\ session.nextId \in RequestId
        /\ session.requests \in 0 .. MaxRequests + 2 /\ session.idle \in 0 .. RenewIdle
        /\ session.last \in Revision
    BY <1>1 DEF Session
  <2>2. session.requests \in Nat /\ session.idle \in Nat /\ session.idle <= RenewIdle
    BY <2>1, LimitsAssumption
  <2> QED
    BY <1>2, <2>1, <2>2
<1>5. approval.instance \in Nat /\ approval.seq \in Nat /\ approval.context \in BOOLEAN
  BY <1>1, <1>2 DEF Approval
<1>6. /\ others \in Nat /\ leaving \in Nat
      /\ waited \in Nat /\ waited <= OperationTimeout /\ asked \in Nat
  BY <1>1, <1>2, LimitsAssumption
<1> QED
  BY <1>1, <1>2, <1>3, <1>4, <1>5, <1>6

\* A fault is counted.
LEMMA FaultIsCounted ==
  ASSUME TypeOK, Fault \/ UNCHANGED faults
  PROVE  faults' \in 0 .. MaxFaults
BY SessionBoundsAssumption DEF TypeOK, Fault

\* There is a session exactly if it knows the process it is with.
LEMMA SessionHasInstance ==
  ASSUME CountInv
  PROVE  HasSession <=> session.instance # 0
BY DEF CountInv, HasSession, NoSession

\* A thread counts for one.
LEMMA ThreadCounts ==
  ASSUME ThreadInv
  PROVE  /\ \A b \in BOOLEAN : One(b) \in Nat /\ One(b) <= 1
         /\ One(TRUE) = 1 /\ One(FALSE) = 0
         /\ others + leaving + One(Served(cur)) + One(Served(new)) <= MaxClients
BY DEF One, ThreadInv, Workers

\* No connection, no session and nothing to say are what their types allow.
LEMMA NothingIsTyped ==
  /\ NoRequest \in Request /\ NoReply \in Reply /\ NoConnection \in Connection
  /\ NoSession \in Session /\ NoApproval \in Approval /\ NoSample \in Sample
<1>1. NoRequest \in Request /\ NoReply \in Reply
  BY LimitsAssumption, SessionBoundsAssumption
     DEF NoRequest, NoReply, Request, Reply, Instance, Revision, RequestId
<1>2. NoConnection \in Connection
  BY <1>1, LimitsAssumption, SessionBoundsAssumption DEF NoConnection, Connection, Instance
<1>3. NoSession \in Session /\ NoApproval \in Approval /\ NoSample \in Sample
  BY LimitsAssumption, SessionBoundsAssumption
     DEF NoSession, NoApproval, NoSample, Session, Approval, Sample, Instance, Revision, RequestId
<1> QED
  BY <1>1, <1>2, <1>3

\* A process that ends closes its connections; an answer may be lost with it.
LEMMA BrokenFacts ==
  ASSUME NEW c \in Connection, NEW d \in Broken(c)
  PROVE  /\ d \in Connection
         /\ c.state = "none" => d = c
         /\ c.state # "none" => d.state = "closed" /\ d.request = NoRequest
         /\ d.reply \in {c.reply, NoReply} /\ (c.state = "none" => d.reply = c.reply)
         /\ d.instance = c.instance /\ d.requests = c.requests /\ d.idle = c.idle
         /\ d.limit = c.limit
<1>1. CASE c.state = "none"
  BY <1>1 DEF Broken
<1>2. CASE c.state # "none"
  <2>1. PICK r \in {c.reply, NoReply} :
          d = [c EXCEPT !.state = "closed", !.request = NoRequest, !.reply = r]
    BY <1>2 DEF Broken
  <2>2. r \in Reply
    BY NothingIsTyped, ConnectionFields
  <2> QED
    BY <1>2, <2>1, <2>2, NothingIsTyped DEF Connection
<1> QED
  BY <1>1, <1>2

\* Time makes a served connection older and changes nothing else.
LEMMA AgedFacts ==
  ASSUME NEW c \in Connection
  PROVE  /\ Aged(c) \in Connection
         /\ Aged(c).state = c.state /\ Aged(c).instance = c.instance
         /\ Aged(c).requests = c.requests /\ Aged(c).limit = c.limit
         /\ Aged(c).request = c.request /\ Aged(c).reply = c.reply
         /\ Aged(c).idle \in Nat /\ Aged(c).idle <= c.idle + 1
         /\ ~Served(c) => Aged(c) = c
BY ConnectionFields, LimitsAssumption DEF Aged, Smaller, Served, Connection

\* An answer is one of the running process, about the publication there is now.
LEMMA AnswersFacts ==
  ASSUME TypeOK, NEW after \in Revision, NEW id \in RequestId,
         service.event = "none" <=> service.revision = 0
  PROVE  LET a == Answers(after, id)
         IN /\ a \in Reply /\ a.id = id /\ a.instance = service.instance
            /\ a.kind \in {"snapshot", "unchanged", "ahead", "notReady", "invalid", "fatal"}
            /\ a.kind = "ahead" => after > service.revision
            /\ a.kind = "snapshot" => a.seq = service.revision /\ a.seq > after
            /\ a.kind = "unchanged" => a.seq = service.revision /\ a.seq = after /\ a.seq > 0
<1>1. /\ service.instance \in Instance /\ service.revision \in Revision
      /\ service.event \in {"none", "sample", "invalid", "unavailable", "fatal"}
      /\ service.revision \in Nat /\ after \in Nat /\ 0 \in Revision
  BY SessionBoundsAssumption DEF TypeOK, Service, Revision
<1>2. CASE service.revision = 0 \/ service.event = "unavailable"
  BY <1>1, <1>2 DEF Answers, Reply
<1>3. CASE service.revision # 0 /\ service.event \in {"invalid", "fatal"}
  BY <1>1, <1>3 DEF Answers, Reply
<1>4. CASE service.revision # 0 /\ service.event = "sample"
  <2>1. CASE after > service.revision
    BY <1>1, <1>4, <2>1 DEF Answers, Reply
  <2>2. CASE after = service.revision
    BY <1>1, <1>4, <2>2 DEF Answers, Reply
  <2>3. CASE after < service.revision
    BY <1>1, <1>4, <2>3 DEF Answers, Reply
  <2> QED
    BY <1>1, <2>1, <2>2, <2>3
<1> QED
  BY <1>1, <1>2, <1>3, <1>4

\* serve_client either meets the limit, or counts the request and answers it.
ReplyTo(c) == IF c.request.id = 1 THEN Negotiated(1) ELSE Answers(c.request.after, c.request.id)

LEMMA HandledFacts ==
  ASSUME TypeOK, NEW c \in Connection, CanHandle(c), NEW d \in Handled(c),
         service.event = "none" <=> service.revision = 0
  PROVE  /\ d \in Connection /\ d.instance = c.instance /\ d.request = NoRequest
         /\ d.state \in {"served", "closed"}
         /\ \/ /\ c.requests >= MaxRequests
               /\ d.state = "closed" /\ d.limit /\ d.requests = c.requests
               /\ d.idle = c.idle /\ d.reply = c.reply
            \/ /\ c.requests < MaxRequests
               /\ d.requests = c.requests + 1 /\ d.idle = 0 /\ d.limit = c.limit
               /\ d.reply = ReplyTo(c) \/ (d.reply = c.reply /\ d.state = "closed")
<1>1. c.request.id \in RequestId /\ c.request.after \in Revision
  BY ConnectionFields DEF Request
<1>2. ReplyTo(c) \in Reply
  <2>1. CASE c.request.id = 1
    BY <2>1, LimitsAssumption, SessionBoundsAssumption
       DEF ReplyTo, Negotiated, Reply, TypeOK, Service, RequestId, Revision
  <2>2. CASE c.request.id # 1
    BY <1>1, <2>2, AnswersFacts DEF ReplyTo
  <2> QED
    BY <2>1, <2>2
<1>3. CASE c.requests >= MaxRequests
  <2>1. d = [c EXCEPT !.request = NoRequest, !.state = "closed", !.limit = TRUE]
    BY <1>3 DEF Handled
  <2> QED
    BY <1>3, <2>1, NothingIsTyped DEF Connection
<1>4. CASE ~(c.requests >= MaxRequests)
  <2> DEFINE taken == [c EXCEPT !.request = NoRequest, !.idle = 0, !.requests = c.requests + 1]
  <2>1. \/ d = [taken EXCEPT !.state = "closed", !.reply = ReplyTo(c)]
        \/ d = [taken EXCEPT !.state = "closed"]
        \/ d = [taken EXCEPT !.reply = ReplyTo(c)]
    BY <1>4 DEF Handled, ReplyTo
  <2>2. c.requests \in Nat /\ MaxRequests \in Nat /\ IdleTimeout \in Nat
        /\ c.requests + 1 \in 0 .. MaxRequests /\ 0 \in 0 .. IdleTimeout
    BY <1>4, ConnectionFields, LimitsAssumption
  <2>3. taken \in Connection /\ taken.instance = c.instance /\ taken.request = NoRequest
        /\ taken.state = c.state /\ taken.requests = c.requests + 1 /\ taken.idle = 0
        /\ taken.limit = c.limit /\ taken.reply = c.reply
    BY <2>2, NothingIsTyped DEF Connection
  <2>4. c.state = "served"
    BY DEF CanHandle, Served
  <2> HIDE DEF taken
  <2>5. CASE d = [taken EXCEPT !.state = "closed", !.reply = ReplyTo(c)]
    <3>1. d \in Connection
      BY <1>2, <2>3, <2>5 DEF Connection
    <3>2. /\ d.instance = taken.instance /\ d.request = taken.request /\ d.state = "closed"
          /\ d.requests = taken.requests /\ d.idle = taken.idle /\ d.limit = taken.limit
          /\ d.reply = ReplyTo(c)
      BY <2>3, <2>5 DEF Connection
    <3> QED
      BY <1>4, <2>2, <2>3, <3>1, <3>2
  <2>6. CASE d = [taken EXCEPT !.state = "closed"]
    BY <1>2, <1>4, <2>2, <2>3, <2>4, <2>6 DEF Connection
  <2>7. CASE d = [taken EXCEPT !.reply = ReplyTo(c)]
    BY <1>2, <1>4, <2>2, <2>3, <2>4, <2>7 DEF Connection
  <2> QED
    BY <2>1, <2>5, <2>6, <2>7
<1> QED
  BY <1>3, <1>4

-----------------------------------------------------------------------------
(* Steps                                                                    *)

\* A new process finds no connection open.
LEMMA ServiceStartsStep ==
  ASSUME SessionInv, ServiceStarts
  PROVE  SessionInv'
<1>0. TypeOK /\ PlaceInv /\ ConnectionInv(cur) /\ ConnectionInv(new) /\ NewInv /\ CountInv
      /\ AnswerInv /\ SampleInv /\ LeaseInv /\ ThreadInv /\ RevokedStaysRevoked
  BY DEF SessionInv
<1>a. /\ service' \in Service /\ service'.instance = service.instance + 1
      /\ service'.revision = 0 /\ service'.event = "none" /\ service'.up /\ listener' = "free"
  BY <1>0, SessionBoundsAssumption DEF ServiceStarts, TypeOK, Service, Instance, Revision
<1>b. /\ UNCHANGED <<others, leaving, cur, new, pc, purpose, waited, faults>>
      /\ UNCHANGED <<session, approval, status, retryDue, delivered, asked, seen, lost>>
  BY DEF ServiceStarts, clientVars
<1>c. cur.state \notin {"waiting", "served"} /\ new.state \notin {"waiting", "served"}
  BY <1>0 DEF ServiceStarts, ConnectionInv
<1>d. cur.instance \in Nat /\ new.instance \in Nat
  BY <1>0, ConnectionFields DEF TypeOK
<1>1. TypeOK'
  BY <1>0, <1>a, <1>b, <1>c, <1>d, Fields DEF TypeOK
<1>2. PlaceInv'
  BY <1>0, <1>a, <1>b, <1>c, <1>d, Fields DEF PlaceInv, Connecting, HasSession
<1>3. ConnectionInv(cur)'
  BY <1>0, <1>a, <1>b, <1>c, <1>d, Fields DEF ConnectionInv, Ours
<1>4. ConnectionInv(new)'
  BY <1>0, <1>a, <1>b, <1>c, <1>d, Fields DEF ConnectionInv, Ours
<1>5. NewInv'
  BY <1>0, <1>a, <1>b, <1>c, <1>d, Fields DEF NewInv, Quiet
<1>6. CountInv'
  BY <1>0, <1>a, <1>b, <1>c, <1>d, Fields DEF CountInv, Between, Connecting, HasSession, Quiet
<1>7. AnswerInv'
  BY <1>0, <1>a, <1>b, <1>c, <1>d, Fields DEF AnswerInv, FreshSample, Served, SampleInv
<1>8. SampleInv'
  BY <1>0, <1>a, <1>b, <1>c, <1>d, Fields DEF SampleInv, HasSession, FromService, Ours
<1>9. LeaseInv'
  BY <1>0, <1>a, <1>b, <1>c, <1>d, Fields DEF LeaseInv
<1>10. ThreadInv'
  BY <1>0, <1>a, <1>b, <1>c, <1>d, Fields DEF ThreadInv, Workers, One, Served
<1>11. RevokedStaysRevoked'
  BY <1>0, <1>a, <1>b, <1>c, <1>d, Fields DEF RevokedStaysRevoked, FromService
<1> QED
  BY <1>1, <1>2, <1>3, <1>4, <1>5, <1>6, <1>7, <1>8, <1>9, <1>10, <1>11 DEF SessionInv

\* The end of the process closes every connection.
LEMMA ServiceStopsStep ==
  ASSUME SessionInv, ServiceStops
  PROVE  SessionInv'
<1>0. TypeOK /\ PlaceInv /\ ConnectionInv(cur) /\ ConnectionInv(new) /\ NewInv /\ CountInv
      /\ AnswerInv /\ SampleInv /\ LeaseInv /\ ThreadInv /\ RevokedStaysRevoked
  BY DEF SessionInv
<1>a. /\ service' \in Service /\ ~service'.up
      /\ service'.instance = service.instance /\ service'.revision = service.revision
      /\ service'.event = service.event
      /\ others' = 0 /\ leaving' = 0 /\ listener' = "abandoned"
  BY <1>0 DEF ServiceStops, TypeOK, Service
<1>f. faults' \in 0 .. MaxFaults
  BY <1>0, FaultIsCounted DEF ServiceStops
<1>b. UNCHANGED <<pc, purpose, waited, session, approval, status, retryDue, delivered, asked, seen, lost>>
  BY DEF ServiceStops, clientVars
<1>c. /\ cur' \in Connection
      /\ cur.state = "none" => cur' = cur
      /\ cur.state # "none" => cur'.state = "closed" /\ cur'.request = NoRequest
      /\ cur'.reply \in {cur.reply, NoReply}
      /\ cur'.instance = cur.instance /\ cur'.requests = cur.requests /\ cur'.idle = cur.idle
      /\ cur'.limit = cur.limit
  BY <1>0, BrokenFacts DEF ServiceStops, TypeOK
<1>d. /\ new' \in Connection
      /\ new.state = "none" => new' = new
      /\ new.state # "none" => new'.state = "closed" /\ new'.request = NoRequest
      /\ new'.reply \in {new.reply, NoReply}
      /\ new'.instance = new.instance /\ new'.requests = new.requests /\ new'.idle = new.idle
      /\ new'.limit = new.limit
  BY <1>0, BrokenFacts DEF ServiceStops, TypeOK
<1>e. ~Served(cur)' /\ ~Served(new)' /\ new'.state # "waiting"
  BY <1>c, <1>d DEF Served
<1>1. TypeOK'
  BY <1>0, <1>a, <1>b, <1>c, <1>d, <1>e, <1>f, LimitsAssumption, SessionBoundsAssumption, Fields
      DEF TypeOK
<1>2. PlaceInv'
  BY <1>0, <1>a, <1>b, <1>c, <1>d, <1>e, Fields DEF PlaceInv, Connecting, HasSession
<1>3. ConnectionInv(cur)'
  BY <1>0, <1>a, <1>b, <1>c, <1>d, <1>e, ConnectionFields, Fields DEF ConnectionInv, Ours,
      NoConnection
<1>4. ConnectionInv(new)'
  BY <1>0, <1>a, <1>b, <1>c, <1>d, <1>e, ConnectionFields, Fields DEF ConnectionInv, Ours,
      NoConnection
<1>5. NewInv'
  BY <1>0, <1>a, <1>b, <1>c, <1>d, <1>e, Fields DEF NewInv, Quiet, ConnectionInv, NoConnection
<1>6. CountInv'
  BY <1>0, <1>a, <1>b, <1>c, <1>d, <1>e, Fields DEF CountInv, Between, Connecting, HasSession,
      Quiet, NoConnection
<1>7. AnswerInv'
  BY <1>0, <1>a, <1>b, <1>c, <1>e, Fields DEF AnswerInv, FreshSample
<1>8. SampleInv'
  BY <1>0, <1>a, <1>b, <1>c, <1>d, <1>e, Fields DEF SampleInv, HasSession, FromService, Ours
<1>9. LeaseInv'
  BY <1>0, <1>a, <1>b, <1>c, <1>d, <1>e, Fields DEF LeaseInv
<1>10. ThreadInv'
  BY <1>a, <1>e, LimitsAssumption DEF ThreadInv, Workers, One
<1>11. RevokedStaysRevoked'
  BY <1>0, <1>a, <1>b, <1>c, <1>d, <1>e, Fields DEF RevokedStaysRevoked, FromService
<1> QED
  BY <1>1, <1>2, <1>3, <1>4, <1>5, <1>6, <1>7, <1>8, <1>9, <1>10, <1>11 DEF SessionInv

\* A publication is newer than every sample returned.
LEMMA PublishStep ==
  ASSUME SessionInv, NEW event \in {"sample", "invalid", "unavailable", "fatal"}, Publish(event)
  PROVE  SessionInv'
<1>0. TypeOK /\ PlaceInv /\ ConnectionInv(cur) /\ ConnectionInv(new) /\ NewInv /\ CountInv
      /\ AnswerInv /\ SampleInv /\ LeaseInv /\ ThreadInv /\ RevokedStaysRevoked
  BY DEF SessionInv
<1>a. /\ service' \in Service /\ service'.instance = service.instance /\ service'.up = service.up
      /\ service'.revision = service.revision + 1 /\ service'.event = event
  <2>1. service \in Service /\ service.revision + 1 \in Revision
    <3>1. service.revision < MaxRevision
      BY DEF Publish
    <3>2. service \in Service
      BY <1>0 DEF TypeOK
    <3> QED
      BY <1>0, <3>1, <3>2, Fields, SessionBoundsAssumption DEF Revision
  <2>2. service' = [service EXCEPT !.revision = service.revision + 1, !.event = event]
    BY DEF Publish
  <2> QED
    BY <2>1, <2>2 DEF Service
<1>c. faults' \in 0 .. MaxFaults
  BY <1>0, FaultIsCounted DEF Publish
<1>b. /\ UNCHANGED <<others, leaving, listener, cur, new, pc, purpose, waited>>
      /\ UNCHANGED <<session, approval, status, retryDue, delivered, asked, seen, lost>>
  BY DEF Publish, clientVars
<1>1. TypeOK'
  BY <1>0, <1>a, <1>b, <1>c, Fields DEF TypeOK
<1>2. PlaceInv'
  BY <1>0, <1>a, <1>b, Fields DEF PlaceInv, Connecting, HasSession
<1>3. ConnectionInv(cur)'
  BY <1>0, <1>a, <1>b, Fields DEF ConnectionInv, Ours
<1>4. ConnectionInv(new)'
  BY <1>0, <1>a, <1>b, Fields DEF ConnectionInv, Ours
<1>5. NewInv'
  BY <1>0, <1>a, <1>b, Fields DEF NewInv, Quiet
<1>6. CountInv'
  BY <1>0, <1>a, <1>b, Fields DEF CountInv, Between, Connecting, HasSession, Quiet
<1>7. AnswerInv'
  BY <1>0, <1>a, <1>b, ConnectionFields, Fields DEF AnswerInv, FreshSample, Served, TypeOK
<1>8. SampleInv'
  BY <1>0, <1>a, <1>b, Fields DEF SampleInv, HasSession, FromService, Ours
<1>9. LeaseInv'
  BY <1>0, <1>a, <1>b, Fields DEF LeaseInv
<1>10. ThreadInv'
  BY <1>0, <1>a, <1>b, Fields DEF ThreadInv, Workers, One, Served
<1>11. RevokedStaysRevoked'
  BY <1>0, <1>a, <1>b, Fields DEF RevokedStaysRevoked, FromService
<1> QED
  BY <1>1, <1>2, <1>3, <1>4, <1>5, <1>6, <1>7, <1>8, <1>9, <1>10, <1>11 DEF SessionInv

\* A connection gets a thread while there is one.
LEMMA ListenStep ==
  ASSUME SessionInv, Listen
  PROVE  SessionInv'
<1>0. TypeOK /\ PlaceInv /\ ConnectionInv(cur) /\ ConnectionInv(new) /\ NewInv /\ CountInv
      /\ AnswerInv /\ SampleInv /\ LeaseInv /\ ThreadInv /\ RevokedStaysRevoked
  BY DEF SessionInv
<1>a. /\ Workers < MaxClients /\ listener' = "free"
      /\ others' = others + One(listener = "other")
      /\ UNCHANGED <<service, leaving, cur, pc, purpose, waited, faults>>
      /\ UNCHANGED <<session, approval, status, retryDue, delivered, asked, seen, lost>>
  BY DEF Listen, clientVars
<1>b. /\ new' \in Connection /\ new'.instance = new.instance /\ new'.requests = new.requests
      /\ new'.idle = new.idle /\ new'.limit = new.limit
      /\ new'.request = new.request /\ new'.reply = new.reply
      /\ listener = "ours" => new.state = "waiting" /\ new'.state = "served"
      /\ listener # "ours" => new' = new /\ new.state # "waiting"
  BY <1>0 DEF Listen, NewInv, TypeOK, Connection
<1>c. others + leaving + One(Served(cur)) + One(Served(new)) < MaxClients
  BY <1>a DEF Workers
<1>d. Workers' <= MaxClients
  <2>1. Workers' = others' + leaving + One(Served(cur)) + One(Served(new)')
    BY <1>a DEF Workers, Served
  <2>2. others' + One(Served(new)') <= others + One(Served(new)) + 1
    BY <1>0, <1>a, <1>b, Fields DEF Served, One
  <2>3. /\ One(Served(cur)) \in Nat /\ One(Served(new)) \in Nat /\ One(Served(new)') \in Nat
        /\ others' \in Nat
    BY <1>0, <1>a, Fields DEF One
  <2> QED
    BY <1>0, <1>c, <2>1, <2>2, <2>3, Fields, LimitsAssumption
<1>e. others' \in 0 .. MaxClients
  <2>1. One(listener = "other") \in Nat /\ One(listener = "other") <= 1
    BY DEF One
  <2>2. One(Served(cur)) \in Nat /\ One(Served(new)) \in Nat
    BY DEF One
  <2> QED
    BY <1>0, <1>a, <1>c, <2>1, <2>2, Fields, LimitsAssumption
<1>1. TypeOK'
  BY <1>0, <1>a, <1>b, <1>e, Fields DEF TypeOK
<1>2. PlaceInv'
  BY <1>0, <1>a, <1>b, <1>e, Fields DEF PlaceInv, Connecting, HasSession
<1>3. ConnectionInv(cur)'
  BY <1>0, <1>a, <1>b, <1>e, Fields DEF ConnectionInv, Ours
<1>4. ConnectionInv(new)'
  BY <1>0, <1>a, <1>b, <1>e, Fields DEF ConnectionInv, Ours, NewInv, NoConnection
<1>5. NewInv'
  BY <1>0, <1>a, <1>b, <1>e, Fields DEF NewInv, Quiet
<1>6. CountInv'
  BY <1>0, <1>a, <1>b, <1>e, Fields DEF CountInv, Between, Connecting, HasSession, Quiet
<1>7. AnswerInv'
  BY <1>0, <1>a, <1>b, <1>e, Fields DEF AnswerInv, FreshSample, Served
<1>8. SampleInv'
  BY <1>0, <1>a, <1>b, <1>e, Fields DEF SampleInv, HasSession, FromService, Ours
<1>9. LeaseInv'
  BY <1>0, <1>a, <1>b, <1>e, Fields DEF LeaseInv
<1>10. ThreadInv'
  BY <1>d DEF ThreadInv
<1>11. RevokedStaysRevoked'
  BY <1>0, <1>a, <1>b, <1>e, Fields DEF RevokedStaysRevoked, FromService
<1> QED
  BY <1>1, <1>2, <1>3, <1>4, <1>5, <1>6, <1>7, <1>8, <1>9, <1>10, <1>11 DEF SessionInv

\* A thread ends.
LEMMA ReapStep ==
  ASSUME SessionInv, Reap
  PROVE  SessionInv'
<1>0. TypeOK /\ PlaceInv /\ ConnectionInv(cur) /\ ConnectionInv(new) /\ NewInv /\ CountInv
      /\ AnswerInv /\ SampleInv /\ LeaseInv /\ ThreadInv /\ RevokedStaysRevoked
  BY DEF SessionInv
<1>1. TypeOK'
  BY <1>0, LimitsAssumption, SessionBoundsAssumption DEF TypeOK, Reap, serverVars, clientVars
<1>2. PlaceInv'
  BY <1>0 DEF PlaceInv, Connecting, HasSession, Reap, serverVars, clientVars
<1>3. ConnectionInv(cur)'
  BY <1>0 DEF ConnectionInv, Ours, Reap, serverVars, clientVars
<1>4. ConnectionInv(new)'
  BY <1>0 DEF ConnectionInv, Ours, Reap, serverVars, clientVars
<1>5. NewInv'
  BY <1>0 DEF NewInv, Quiet, Reap, serverVars, clientVars
<1>6. CountInv'
  BY <1>0 DEF CountInv, Between, Connecting, HasSession, Quiet, Reap, serverVars, clientVars
<1>7. AnswerInv'
  BY <1>0 DEF AnswerInv, FreshSample, Served, Reap, serverVars, clientVars
<1>8. SampleInv'
  BY <1>0 DEF SampleInv, HasSession, FromService, Ours, Reap, serverVars, clientVars
<1>9. LeaseInv'
  BY <1>0 DEF LeaseInv, Reap, serverVars, clientVars
<1>10. ThreadInv'
  BY <1>0, LimitsAssumption, SessionBoundsAssumption DEF ThreadInv, Workers, One, Served, Reap,
      serverVars, clientVars, NoConnection, NoSession, NoRequest, NoReply, NoSample, NoApproval,
      TypeOK, Service, Request, Reply, Connection, Session, Approval, Sample, Instance,
      Revision, RequestId
<1>11. RevokedStaysRevoked'
  BY <1>0 DEF RevokedStaysRevoked, FromService, Reap, serverVars, clientVars
<1> QED
  BY <1>1, <1>2, <1>3, <1>4, <1>5, <1>6, <1>7, <1>8, <1>9, <1>10, <1>11 DEF SessionInv

\* Another desktop takes the listening pipe.
LEMMA OtherConnectsStep ==
  ASSUME SessionInv, OtherConnects
  PROVE  SessionInv'
<1>0. TypeOK /\ PlaceInv /\ ConnectionInv(cur) /\ ConnectionInv(new) /\ NewInv /\ CountInv
      /\ AnswerInv /\ SampleInv /\ LeaseInv /\ ThreadInv /\ RevokedStaysRevoked
  BY DEF SessionInv
<1>1. TypeOK'
  BY <1>0, LimitsAssumption, SessionBoundsAssumption DEF TypeOK, OtherConnects, Fault,
      serverVars, clientVars
<1>2. PlaceInv'
  BY <1>0 DEF PlaceInv, Connecting, HasSession, OtherConnects, Fault, serverVars, clientVars
<1>3. ConnectionInv(cur)'
  BY <1>0 DEF ConnectionInv, Ours, OtherConnects, Fault, serverVars, clientVars
<1>4. ConnectionInv(new)'
  BY <1>0 DEF ConnectionInv, Ours, OtherConnects, Fault, serverVars, clientVars
<1>5. NewInv'
  BY <1>0 DEF NewInv, Quiet, OtherConnects, Fault, serverVars, clientVars
<1>6. CountInv'
  BY <1>0 DEF CountInv, Between, Connecting, HasSession, Quiet, OtherConnects, Fault,
      serverVars, clientVars
<1>7. AnswerInv'
  BY <1>0 DEF AnswerInv, FreshSample, Served, OtherConnects, Fault, serverVars, clientVars
<1>8. SampleInv'
  BY <1>0 DEF SampleInv, HasSession, FromService, Ours, OtherConnects, Fault, serverVars,
      clientVars
<1>9. LeaseInv'
  BY <1>0 DEF LeaseInv, OtherConnects, Fault, serverVars, clientVars
<1>10. ThreadInv'
  BY <1>0 DEF ThreadInv, Workers, One, Served, OtherConnects, Fault, serverVars, clientVars
<1>11. RevokedStaysRevoked'
  BY <1>0 DEF RevokedStaysRevoked, FromService, OtherConnects, Fault, serverVars, clientVars
<1> QED
  BY <1>1, <1>2, <1>3, <1>4, <1>5, <1>6, <1>7, <1>8, <1>9, <1>10, <1>11 DEF SessionInv

\* Another desktop leaves.
LEMMA OtherLeavesStep ==
  ASSUME SessionInv, OtherLeaves
  PROVE  SessionInv'
<1>0. TypeOK /\ PlaceInv /\ ConnectionInv(cur) /\ ConnectionInv(new) /\ NewInv /\ CountInv
      /\ AnswerInv /\ SampleInv /\ LeaseInv /\ ThreadInv /\ RevokedStaysRevoked
  BY DEF SessionInv
<1>1. TypeOK'
  BY <1>0, LimitsAssumption, SessionBoundsAssumption DEF TypeOK, OtherLeaves, serverVars,
      clientVars
<1>2. PlaceInv'
  BY <1>0 DEF PlaceInv, Connecting, HasSession, OtherLeaves, serverVars, clientVars
<1>3. ConnectionInv(cur)'
  BY <1>0 DEF ConnectionInv, Ours, OtherLeaves, serverVars, clientVars
<1>4. ConnectionInv(new)'
  BY <1>0 DEF ConnectionInv, Ours, OtherLeaves, serverVars, clientVars
<1>5. NewInv'
  BY <1>0 DEF NewInv, Quiet, OtherLeaves, serverVars, clientVars
<1>6. CountInv'
  BY <1>0 DEF CountInv, Between, Connecting, HasSession, Quiet, OtherLeaves, serverVars,
      clientVars
<1>7. AnswerInv'
  BY <1>0 DEF AnswerInv, FreshSample, Served, OtherLeaves, serverVars, clientVars
<1>8. SampleInv'
  BY <1>0 DEF SampleInv, HasSession, FromService, Ours, OtherLeaves, serverVars, clientVars
<1>9. LeaseInv'
  BY <1>0 DEF LeaseInv, OtherLeaves, serverVars, clientVars
<1>10. ThreadInv'
  BY <1>0, LimitsAssumption, SessionBoundsAssumption DEF ThreadInv, Workers, One, Served,
      OtherLeaves, serverVars, clientVars, NoConnection, NoSession, NoRequest, NoReply,
      NoSample, NoApproval, TypeOK, Service, Request, Reply, Connection, Session, Approval,
      Sample, Instance, Revision, RequestId
<1>11. RevokedStaysRevoked'
  BY <1>0 DEF RevokedStaysRevoked, FromService, OtherLeaves, serverVars, clientVars
<1> QED
  BY <1>1, <1>2, <1>3, <1>4, <1>5, <1>6, <1>7, <1>8, <1>9, <1>10, <1>11 DEF SessionInv

\* The answer on the session's connection is to the request made on it.
LEMMA ServeCurrentStep ==
  ASSUME SessionInv, ServeCurrent
  PROVE  SessionInv'
<1>0. TypeOK /\ PlaceInv /\ ConnectionInv(cur) /\ ConnectionInv(new) /\ NewInv /\ CountInv
      /\ AnswerInv /\ SampleInv /\ LeaseInv /\ ThreadInv /\ RevokedStaysRevoked
  BY DEF SessionInv
<1>a. CanHandle(cur) /\ cur' \in Handled(cur) /\ Served(cur) /\ cur.request # NoRequest
  BY DEF ServeCurrent, CanHandle
<1>b. /\ UNCHANGED <<service, others, leaving, listener, new, pc, purpose, waited, faults>>
      /\ UNCHANGED <<session, approval, status, retryDue, delivered, asked, seen, lost>>
  BY DEF ServeCurrent, serverVars, clientVars
<1>c. /\ cur' \in Connection /\ cur'.instance = cur.instance /\ cur'.request = NoRequest
      /\ cur'.state \in {"served", "closed"}
      /\ \/ /\ cur.requests >= MaxRequests
            /\ cur'.state = "closed" /\ cur'.limit /\ cur'.requests = cur.requests
            /\ cur'.idle = cur.idle /\ cur'.reply = cur.reply
         \/ /\ cur.requests < MaxRequests
            /\ cur'.requests = cur.requests + 1 /\ cur'.idle = 0 /\ cur'.limit = cur.limit
            /\ cur'.reply = ReplyTo(cur) \/ (cur'.reply = cur.reply /\ cur'.state = "closed")
  BY <1>0, <1>a, HandledFacts DEF TypeOK, SampleInv
<1>d. /\ cur.state = "served" /\ cur.reply = NoReply /\ cur.instance = service.instance
      /\ cur.instance \in Ours
  BY <1>0, <1>a DEF ConnectionInv, Served
<1>e. ~Between /\ HasSession /\ session.instance = cur.instance
  <2>1. HasSession
    BY <1>0, <1>a DEF CountInv, NoConnection, Served
  <2> QED
    BY <1>0, <1>a, <2>1 DEF CountInv, Quiet
<1>f. ASSUME pc = "await"
      PROVE  LET a == ReplyTo(cur)
             IN /\ a.id = session.nextId - 1 /\ a.instance = session.instance
                /\ a.kind \in {"snapshot", "unchanged", "notReady", "invalid", "fatal"}
                /\ a.kind = "snapshot" => a.seq = service.revision /\ a.seq > session.last
                /\ a.kind = "unchanged" =>
                     a.seq = service.revision /\ a.seq = session.last /\ a.seq > 0
  <2>1. /\ cur.request = [id |-> session.nextId - 1, after |-> session.last]
        /\ session.nextId = session.requests + 1 /\ session.requests >= 2
    BY <1>0, <1>a, <1>e, <1>f DEF CountInv
  <2>2. session.nextId - 1 \in RequestId /\ session.nextId - 1 # 1
    <3>1. session.nextId \in RequestId
      BY <1>0 DEF TypeOK, Session
    <3> QED
      BY <1>0, <2>1, <3>1, Fields, LimitsAssumption DEF RequestId
  <2>3. ReplyTo(cur) = Answers(session.last, session.nextId - 1)
    BY <2>1, <2>2 DEF ReplyTo
  <2>4. session.last <= service.revision
    BY <1>0, <1>d, <1>e DEF SampleInv
  <2>5. service.event = "none" <=> service.revision = 0
    BY <1>0 DEF SampleInv
  <2> DEFINE a == Answers(session.last, session.nextId - 1)
  <2>6. /\ a.id = session.nextId - 1 /\ a.instance = service.instance
        /\ a.kind \in {"snapshot", "unchanged", "ahead", "notReady", "invalid", "fatal"}
        /\ a.kind = "ahead" => session.last > service.revision
        /\ a.kind = "snapshot" => a.seq = service.revision /\ a.seq > session.last
        /\ a.kind = "unchanged" => a.seq = service.revision /\ a.seq = session.last /\ a.seq > 0
    BY <1>0, <2>2, <2>5, AnswersFacts, Fields
  <2>7. a.kind # "ahead"
    BY <1>0, <2>4, <2>6, Fields
  <2> QED
    BY <1>d, <1>e, <2>3, <2>6, <2>7
<1>g. seen[cur.instance] <= service.revision
  BY <1>0, <1>d DEF SampleInv
<1>1. TypeOK'
  BY <1>0, <1>b, <1>c, <1>d, <1>e, Fields DEF TypeOK
<1>2. PlaceInv'
  BY <1>0, <1>b, <1>c, <1>d, <1>e, Fields DEF PlaceInv, Connecting, HasSession
<1>3. ConnectionInv(cur)'
  BY <1>0, <1>b, <1>c, <1>d, <1>e, Fields DEF ConnectionInv, Ours, Served
<1>4. ConnectionInv(new)'
  BY <1>0, <1>b, <1>c, <1>d, <1>e, Fields DEF ConnectionInv, Ours
<1>5. NewInv'
  BY <1>0, <1>b, <1>c, <1>d, <1>e, Fields DEF NewInv, Quiet
<1>6. CountInv'
  <2>1. /\ session.requests = cur.requests + 1
        /\ session.nextId = session.requests + 1 /\ cur.requests >= 1
        /\ pc = "await" => session.requests >= 2 
    BY <1>0, <1>a, <1>e DEF CountInv
  <2>2. cur.requests \in Nat /\ cur'.requests \in {cur.requests, cur.requests + 1}
    BY <1>0, <1>c, ConnectionFields DEF TypeOK
  <2>3. /\ cur'.instance = cur.instance /\ cur'.request = NoRequest
        /\ cur'.state \in {"served", "closed"}
        /\ cur'.reply # NoReply => cur'.requests = cur.requests + 1
    BY <1>c, <1>d
  <2>4. ~Between'
    BY <1>b, <1>e DEF Between, Connecting
  <2> QED
    BY <1>0, <1>b, <1>e, <2>1, <2>2, <2>3, <2>4, Fields DEF CountInv, HasSession
<1>7. AnswerInv'
  <2>1. pc = "await" => asked <= service.revision
    BY <1>0, <1>a DEF AnswerInv
  <2>2. cur'.reply # NoReply => cur'.reply = ReplyTo(cur)
    BY <1>c, <1>d
  <2> QED
    BY <1>0, <1>b, <1>d, <1>e, <1>f, <1>g, <2>1, <2>2, Fields DEF AnswerInv, FreshSample
<1>8. SampleInv'
  BY <1>0, <1>b, <1>c, <1>d, <1>e, Fields DEF SampleInv, HasSession, FromService, Ours
<1>9. LeaseInv'
  <2>1. pc \notin {"idle", "ask"}
    BY <1>e DEF Between
  <2>2. cur.requests \in Nat /\ cur'.idle \in {0, cur.idle} /\ cur.idle \in Nat
    BY <1>0, <1>c, ConnectionFields DEF TypeOK
  <2>3. cur'.reply # NoReply => cur'.idle = 0 /\ ~cur'.limit
    BY <1>0, <1>c, <1>d DEF ConnectionInv
  <2> QED
    BY <1>0, <1>a, <1>b, <1>c, <1>d, <2>1, <2>2, <2>3, Fields, LimitsAssumption DEF LeaseInv
<1>10. ThreadInv'
  <2>1. Workers' = others + leaving + One(Served(cur)') + One(Served(new))
    BY <1>b DEF Workers, Served
  <2>2. /\ One(Served(cur)') \in Nat /\ One(Served(cur)') <= One(Served(cur))
        /\ One(Served(cur)) = 1 /\ One(Served(new)) \in Nat
    BY <1>d DEF One, Served
  <2> QED
    BY <1>0, <2>1, <2>2, Fields, ThreadCounts, LimitsAssumption DEF ThreadInv
<1>11. RevokedStaysRevoked'
  BY <1>0, <1>b, <1>c, <1>d, <1>e, Fields DEF RevokedStaysRevoked, FromService
<1> QED
  BY <1>1, <1>2, <1>3, <1>4, <1>5, <1>6, <1>7, <1>8, <1>9, <1>10, <1>11 DEF SessionInv

\* The answer on a new connection is to its negotiation.
LEMMA ServeNewStep ==
  ASSUME SessionInv, ServeNew
  PROVE  SessionInv'
<1>0. TypeOK /\ PlaceInv /\ ConnectionInv(cur) /\ ConnectionInv(new) /\ NewInv /\ CountInv
      /\ AnswerInv /\ SampleInv /\ LeaseInv /\ ThreadInv /\ RevokedStaysRevoked
  BY DEF SessionInv
<1>a. CanHandle(new) /\ new' \in Handled(new) /\ Served(new) /\ new.request # NoRequest
  BY DEF ServeNew, CanHandle
<1>b. /\ UNCHANGED <<service, others, leaving, listener, cur, pc, purpose, waited, faults>>
      /\ UNCHANGED <<session, approval, status, retryDue, delivered, asked, seen, lost>>
  BY DEF ServeNew, serverVars, clientVars
<1>c. /\ new.state = "served" /\ new.reply = NoReply /\ new.instance = service.instance
      /\ new.requests = 0 /\ new.request = [id |-> 1, after |-> 0]
  BY <1>0, <1>a DEF ConnectionInv, Served, NewInv
<1>d. ReplyTo(new) = [id |-> 1, kind |-> "negotiated", instance |-> new.instance, seq |-> 0]
  BY <1>c DEF ReplyTo, Negotiated
<1>e. /\ new' \in Connection /\ new'.instance = new.instance /\ new'.request = NoRequest
      /\ new'.state \in {"served", "closed"}
      /\ new'.requests = 1 /\ new'.idle = 0 /\ new'.limit = new.limit
      /\ \/ new'.reply = [id |-> 1, kind |-> "negotiated", instance |-> new.instance, seq |-> 0]
         \/ new'.reply = NoReply /\ new'.state = "closed"
  <2>1. new \in Connection /\ (service.event = "none" <=> service.revision = 0)
    BY <1>0 DEF TypeOK, SampleInv
  <2>2. new.requests < MaxRequests
    BY <1>c, LimitsAssumption
  <2> QED
    BY <1>0, <1>a, <1>c, <1>d, <2>1, <2>2, HandledFacts, LimitsAssumption
<1>1. TypeOK'
  BY <1>0, <1>b, <1>c, <1>e, Fields DEF TypeOK
<1>2. PlaceInv'
  BY <1>0, <1>b, <1>c, <1>e, Fields DEF PlaceInv, Connecting, HasSession
<1>3. ConnectionInv(cur)'
  BY <1>0, <1>b, <1>c, <1>e, Fields DEF ConnectionInv, Ours
<1>4. ConnectionInv(new)'
  BY <1>0, <1>b, <1>c, <1>e, Fields DEF ConnectionInv, Ours
<1>5. NewInv'
  <2>1. pc # "verify"
    BY <1>0, <1>a DEF NewInv, Quiet
  <2> QED
    BY <1>0, <1>b, <1>c, <1>e, <2>1 DEF NewInv
<1>6. CountInv'
  BY <1>0, <1>b, <1>c, <1>e, Fields DEF CountInv, Between, Connecting, HasSession, Quiet
<1>7. AnswerInv'
  BY <1>0, <1>b, <1>c, <1>e, Fields DEF AnswerInv, FreshSample, Served
<1>8. SampleInv'
  BY <1>0, <1>b, <1>c, <1>e, Fields DEF SampleInv, HasSession, FromService, Ours
<1>9. LeaseInv'
  BY <1>0, <1>b, <1>c, <1>e, Fields DEF LeaseInv
<1>10. ThreadInv'
  <2>1. Workers' = others + leaving + One(Served(cur)) + One(Served(new)')
    BY <1>b DEF Workers, Served
  <2>2. /\ One(Served(new)') \in Nat /\ One(Served(new)') <= One(Served(new))
        /\ One(Served(new)) = 1 /\ One(Served(cur)) \in Nat
    BY <1>c DEF One, Served
  <2> QED
    BY <1>0, <2>1, <2>2, Fields, ThreadCounts, LimitsAssumption DEF ThreadInv
<1>11. RevokedStaysRevoked'
  BY <1>0, <1>b, <1>c, <1>e, Fields DEF RevokedStaysRevoked, FromService
<1> QED
  BY <1>1, <1>2, <1>3, <1>4, <1>5, <1>6, <1>7, <1>8, <1>9, <1>10, <1>11 DEF SessionInv

\* The server closes an idle connection only when its renewal was due.
LEMMA CloseIdleStep ==
  ASSUME SessionInv, CloseIdle
  PROVE  SessionInv'
<1>0. TypeOK /\ PlaceInv /\ ConnectionInv(cur) /\ ConnectionInv(new) /\ NewInv /\ CountInv
      /\ AnswerInv /\ SampleInv /\ LeaseInv /\ ThreadInv /\ RevokedStaysRevoked
  BY DEF SessionInv
<1>a. /\ cur.state = "served" /\ cur.idle >= IdleTimeout
      /\ cur' \in Connection /\ cur'.instance = cur.instance /\ cur'.state = "closed" /\ cur'.limit
      /\ cur'.requests = cur.requests /\ cur'.idle = cur.idle
      /\ cur'.request = NoRequest /\ cur'.reply = cur.reply
  BY <1>0, NothingIsTyped DEF CloseIdle, Served, TypeOK, Connection
<1>b. /\ UNCHANGED <<service, others, leaving, listener, new, pc, purpose, waited, faults>>
      /\ UNCHANGED <<session, approval, status, retryDue, delivered, asked, seen, lost>>
  BY DEF CloseIdle, serverVars, clientVars
<1>1. TypeOK'
  BY <1>0, <1>a, <1>b, Fields DEF TypeOK
<1>2. PlaceInv'
  BY <1>0, <1>a, <1>b, Fields DEF PlaceInv, Connecting, HasSession
<1>3. ConnectionInv(cur)'
  BY <1>0, <1>a, <1>b, Fields DEF ConnectionInv, Ours
<1>4. ConnectionInv(new)'
  BY <1>0, <1>a, <1>b, Fields DEF ConnectionInv, Ours
<1>5. NewInv'
  BY <1>0, <1>a, <1>b, Fields DEF NewInv, Quiet
<1>6. CountInv'
  BY <1>0, <1>a, <1>b, Fields DEF CountInv, Between, Connecting, HasSession, Quiet, NoConnection
<1>7. AnswerInv'
  BY <1>0, <1>a, <1>b, Fields DEF AnswerInv, FreshSample, Served
<1>8. SampleInv'
  BY <1>0, <1>a, <1>b, Fields DEF SampleInv, HasSession, FromService, Ours
<1>9. LeaseInv'
  BY <1>0, <1>a, <1>b, LimitsAssumption, ConnectionFields, Fields DEF LeaseInv, TypeOK
<1>10. ThreadInv'
  <2>1. Workers' = others + leaving + One(Served(cur)') + One(Served(new))
    BY <1>b DEF Workers, Served
  <2>2. One(Served(cur)') = 0 /\ One(Served(cur)) = 1 /\ One(Served(new)) \in Nat
    BY <1>a DEF One, Served
  <2> QED
    BY <1>0, <2>1, <2>2, Fields, ThreadCounts, LimitsAssumption DEF ThreadInv
<1>11. RevokedStaysRevoked'
  BY <1>0, <1>a, <1>b, Fields DEF RevokedStaysRevoked, FromService
<1> QED
  BY <1>1, <1>2, <1>3, <1>4, <1>5, <1>6, <1>7, <1>8, <1>9, <1>10, <1>11 DEF SessionInv

\* The server closes a connection whose client is slow to verify it.
LEMMA CloseUnauthenticatedStep ==
  ASSUME SessionInv, CloseUnauthenticated
  PROVE  SessionInv'
<1>0. TypeOK /\ PlaceInv /\ ConnectionInv(cur) /\ ConnectionInv(new) /\ NewInv /\ CountInv
      /\ AnswerInv /\ SampleInv /\ LeaseInv /\ ThreadInv /\ RevokedStaysRevoked
  BY DEF SessionInv
<1>a. /\ pc = "verify" /\ new.state = "served"
      /\ new' \in Connection /\ new'.instance = new.instance /\ new'.state = "closed"
      /\ new'.limit = new.limit /\ new'.requests = new.requests /\ new'.idle = new.idle
      /\ new'.request = new.request /\ new'.reply = new.reply
  BY <1>0 DEF CloseUnauthenticated, Served, TypeOK, Connection
<1>c. faults' \in 0 .. MaxFaults
  BY <1>0, FaultIsCounted DEF CloseUnauthenticated
<1>b. /\ UNCHANGED <<service, others, leaving, listener, cur, pc, purpose, waited>>
      /\ UNCHANGED <<session, approval, status, retryDue, delivered, asked, seen, lost>>
  BY DEF CloseUnauthenticated, serverVars, clientVars
<1>1. TypeOK'
  BY <1>0, <1>a, <1>b, <1>c, Fields DEF TypeOK
<1>2. PlaceInv'
  BY <1>0, <1>a, <1>b, Fields DEF PlaceInv, Connecting, HasSession
<1>3. ConnectionInv(cur)'
  BY <1>0, <1>a, <1>b, Fields DEF ConnectionInv, Ours
<1>4. ConnectionInv(new)'
  BY <1>0, <1>a, <1>b, Fields DEF ConnectionInv, Ours, NewInv, Quiet
<1>5. NewInv'
  BY <1>0, <1>a, <1>b, Fields DEF NewInv, Quiet
<1>6. CountInv'
  BY <1>0, <1>a, <1>b, Fields DEF CountInv, Between, Connecting, HasSession, Quiet
<1>7. AnswerInv'
  BY <1>0, <1>a, <1>b, Fields DEF AnswerInv, FreshSample, Served
<1>8. SampleInv'
  BY <1>0, <1>a, <1>b, Fields DEF SampleInv, HasSession, FromService, Ours
<1>9. LeaseInv'
  BY <1>0, <1>a, <1>b, Fields DEF LeaseInv
<1>10. ThreadInv'
  <2>1. Workers' = others + leaving + One(Served(cur)) + One(Served(new)')
    BY <1>b DEF Workers, Served
  <2>2. One(Served(new)') = 0 /\ One(Served(new)) = 1 /\ One(Served(cur)) \in Nat
    BY <1>a DEF One, Served
  <2> QED
    BY <1>0, <2>1, <2>2, Fields, ThreadCounts, LimitsAssumption DEF ThreadInv
<1>11. RevokedStaysRevoked'
  BY <1>0, <1>a, <1>b, Fields DEF RevokedStaysRevoked, FromService
<1> QED
  BY <1>1, <1>2, <1>3, <1>4, <1>5, <1>6, <1>7, <1>8, <1>9, <1>10, <1>11 DEF SessionInv

\* Time passes for both ends alike.
LEMMA TickStep ==
  ASSUME SessionInv, Tick
  PROVE  SessionInv'
<1>0. TypeOK /\ PlaceInv /\ ConnectionInv(cur) /\ ConnectionInv(new) /\ NewInv /\ CountInv
      /\ AnswerInv /\ SampleInv /\ LeaseInv /\ ThreadInv /\ RevokedStaysRevoked
  BY DEF SessionInv
<1>a. /\ cur' \in Connection /\ cur'.state = cur.state /\ cur'.instance = cur.instance
      /\ cur'.requests = cur.requests /\ cur'.limit = cur.limit
      /\ cur'.request = cur.request /\ cur'.reply = cur.reply
      /\ cur'.idle \in Nat /\ cur'.idle <= cur.idle + 1
      /\ ~Served(cur) => cur' = cur
  BY <1>0, AgedFacts DEF Tick, TypeOK
<1>b. /\ new' \in Connection /\ new'.state = new.state /\ new'.instance = new.instance
      /\ new'.requests = new.requests /\ new'.limit = new.limit
      /\ new'.request = new.request /\ new'.reply = new.reply
      /\ ~Served(new) => new' = new
  BY <1>0, AgedFacts DEF Tick, TypeOK
<1>c. /\ UNCHANGED <<service, others, leaving, listener, pc, purpose>>
      /\ UNCHANGED <<approval, status, retryDue, delivered, asked, seen, lost>>
  BY DEF Tick, serverVars
<1>d. faults' \in 0 .. MaxFaults
  BY <1>0, FaultIsCounted DEF Tick
<1>e. HasSession <=> session.instance # 0
  BY <1>0, SessionHasInstance
<1>f. /\ session' \in Session /\ session'.instance = session.instance
      /\ session'.nextId = session.nextId /\ session'.requests = session.requests
      /\ session'.last = session.last
      /\ ~HasSession => session' = session
      /\ HasSession => session'.idle \in {session.idle + 1, RenewIdle}
      /\ HasSession' <=> HasSession
  <2>1. CASE ~HasSession
    BY <1>0, <2>1 DEF Tick, TypeOK, HasSession
  <2>2. CASE HasSession
    <3>1. session' = [session EXCEPT !.idle = Smaller(session.idle + 1, RenewIdle)]
      BY <2>2 DEF Tick
    <3>2. /\ Smaller(session.idle + 1, RenewIdle) \in 0 .. RenewIdle
          /\ Smaller(session.idle + 1, RenewIdle) \in {session.idle + 1, RenewIdle}
      BY <1>0, Fields, LimitsAssumption DEF Smaller
    <3>3. /\ session' \in Session /\ session'.instance = session.instance
          /\ session'.nextId = session.nextId /\ session'.requests = session.requests
          /\ session'.last = session.last
          /\ session'.idle \in {session.idle + 1, RenewIdle}
      BY <1>0, <3>1, <3>2 DEF TypeOK, Session
    <3>4. session' # NoSession
      BY <1>e, <2>2, <3>3 DEF NoSession
    <3> QED
      BY <2>2, <3>3, <3>4 DEF HasSession
  <2> QED
    BY <2>1, <2>2
<1>g. /\ ~Waiting => waited' = waited /\ pc = "idle"
      /\ Waiting => waited' = waited + 1 /\ waited < OperationTimeout
  BY DEF Tick, Waiting
<1>h. waited' \in 0 .. OperationTimeout
  BY <1>0, <1>g, Fields, LimitsAssumption
<1>i. /\ Waiting => pc \in {"hello", "await"}
      /\ pc = "await" => Waiting /\ cur.reply = NoReply
      /\ pc = "hello" => Waiting /\ new.reply = NoReply
  BY <1>g DEF Waiting, Reading
<1>j. new.reply = NoReply
  <2>1. pc \in {"idle", "await", "hello"}
    BY <1>g, <1>i
  <2>2. CASE pc = "hello"
    BY <1>i, <2>2
  <2>3. CASE pc # "hello"
    BY <1>0, <2>1, <2>3 DEF PlaceInv, ConnectionInv, NoConnection
  <2> QED
    BY <2>2, <2>3
<1>k. Served(cur)' = Served(cur) /\ Served(new)' = Served(new)
  BY <1>a, <1>b DEF Served
<1>l. cur.idle \in Nat
  BY <1>0, ConnectionFields DEF TypeOK
<1>1. TypeOK'
  BY <1>0, <1>a, <1>b, <1>c, <1>f, <1>d, <1>h, Fields DEF TypeOK
<1>2. PlaceInv'
  BY <1>0, <1>b, <1>c, <1>f, <1>g, <1>i DEF PlaceInv, Connecting
<1>3. ConnectionInv(cur)'
  BY <1>0, <1>a, <1>c DEF ConnectionInv, NoConnection, Served
<1>4. ConnectionInv(new)'
  BY <1>0, <1>b, <1>c DEF ConnectionInv, NoConnection, Served
<1>5. NewInv'
  BY <1>0, <1>b, <1>c, <1>j DEF NewInv, Quiet
<1>6. CountInv'
  <2>1. ~HasSession => cur' = cur
    BY <1>0, <1>a DEF CountInv, NoConnection, Served
  <2>2. Between' <=> Between
    BY <1>c DEF Between, Connecting
  <2>3. Quiet(cur)' <=> Quiet(cur)
    BY <1>a DEF Quiet
  <2>4. session'.instance = 0 => session' = NoSession
    BY <1>e, <1>f DEF HasSession
  <2> QED
    BY <1>0, <1>a, <1>c, <1>f, <2>1, <2>2, <2>3, <2>4 DEF CountInv
<1>7. AnswerInv'
  BY <1>0, <1>a, <1>c, <1>f, <1>k DEF AnswerInv, FreshSample
<1>8. SampleInv'
  BY <1>0, <1>b, <1>c, <1>f DEF SampleInv, FromService
<1>9. LeaseInv'
  <2>1. ASSUME pc = "idle", session'.idle < RenewIdle
        PROVE  cur'.idle <= session'.idle /\ ~cur'.limit
    <3>1. CASE HasSession
      <4>1. session'.idle = session.idle + 1 /\ session.idle < RenewIdle
        BY <1>0, <1>f, <2>1, <3>1, Fields, LimitsAssumption
      <4> QED
        BY <1>0, <1>a, <1>l, <2>1, <4>1, Fields DEF LeaseInv
    <3>2. CASE ~HasSession
      <4>1. cur = NoConnection /\ session = NoSession
        BY <1>0, <3>2 DEF CountInv, HasSession
      <4> QED
        BY <1>a, <1>f, <3>2, <4>1 DEF NoConnection, NoSession, Served
    <3> QED
      BY <3>1, <3>2
  <2>2. pc # "ask"
    BY <1>g, <1>i
  <2>3. ASSUME pc = "await", purpose \in {"none", "connect"}
        PROVE  /\ cur'.idle < RenewIdle + waited' /\ ~cur'.limit
               /\ cur'.request # NoRequest => cur'.requests < RenewAfter
    BY <1>0, <1>a, <1>g, <1>i, <1>l, <2>3, Fields, LimitsAssumption DEF LeaseInv
  <2> QED
    BY <1>a, <1>c, <1>i, <2>1, <2>2, <2>3 DEF LeaseInv
<1>10. ThreadInv'
  BY <1>0, <1>c, <1>k DEF ThreadInv, Workers
<1>11. RevokedStaysRevoked'
  BY <1>0, <1>a, <1>b, <1>c, <1>f, Fields DEF RevokedStaysRevoked, FromService
<1> QED
  BY <1>1, <1>2, <1>3, <1>4, <1>5, <1>6, <1>7, <1>8, <1>9, <1>10, <1>11 DEF SessionInv

\* The retry delay passes.
LEMMA RetryComesDueStep ==
  ASSUME SessionInv, RetryComesDue
  PROVE  SessionInv'
<1>0. TypeOK /\ PlaceInv /\ ConnectionInv(cur) /\ ConnectionInv(new) /\ NewInv /\ CountInv
      /\ AnswerInv /\ SampleInv /\ LeaseInv /\ ThreadInv /\ RevokedStaysRevoked
  BY DEF SessionInv
<1>1. TypeOK'
  BY <1>0, LimitsAssumption, SessionBoundsAssumption DEF TypeOK, RetryComesDue, serverVars,
      clientVars
<1>2. PlaceInv'
  BY <1>0 DEF PlaceInv, Connecting, HasSession, RetryComesDue, serverVars, clientVars
<1>3. ConnectionInv(cur)'
  BY <1>0 DEF ConnectionInv, Ours, RetryComesDue, serverVars, clientVars
<1>4. ConnectionInv(new)'
  BY <1>0 DEF ConnectionInv, Ours, RetryComesDue, serverVars, clientVars
<1>5. NewInv'
  BY <1>0 DEF NewInv, Quiet, RetryComesDue, serverVars, clientVars
<1>6. CountInv'
  BY <1>0 DEF CountInv, Between, Connecting, HasSession, Quiet, RetryComesDue, serverVars,
      clientVars
<1>7. AnswerInv'
  BY <1>0 DEF AnswerInv, FreshSample, Served, RetryComesDue, serverVars, clientVars
<1>8. SampleInv'
  BY <1>0 DEF SampleInv, HasSession, FromService, Ours, RetryComesDue, serverVars, clientVars
<1>9. LeaseInv'
  BY <1>0 DEF LeaseInv, RetryComesDue, serverVars, clientVars
<1>10. ThreadInv'
  BY <1>0 DEF ThreadInv, Workers, One, Served, RetryComesDue, serverVars, clientVars
<1>11. RevokedStaysRevoked'
  BY <1>0 DEF RevokedStaysRevoked, FromService, RetryComesDue, serverVars, clientVars
<1> QED
  BY <1>1, <1>2, <1>3, <1>4, <1>5, <1>6, <1>7, <1>8, <1>9, <1>10, <1>11 DEF SessionInv

\* A session that ends leaves nothing behind that a later one would use.
LEMMA EndsStep ==
  ASSUME SessionInv, NEW kind \in {"Stopped", "Restarted", "NotReady", "Failed",
      "Incompatible"}, Ends(kind), faults' \in 0 .. MaxFaults
  PROVE  SessionInv'
<1>0. TypeOK /\ PlaceInv /\ ConnectionInv(cur) /\ ConnectionInv(new) /\ NewInv /\ CountInv
      /\ AnswerInv /\ SampleInv /\ LeaseInv /\ ThreadInv /\ RevokedStaysRevoked
  BY DEF SessionInv
<1>a. /\ session' = NoSession /\ cur' = NoConnection /\ new' = NoConnection
      /\ retryDue' = FALSE /\ pc' = "idle" /\ purpose' = "none" /\ waited' = 0 /\ asked' = 0
      /\ UNCHANGED <<service, others, seen>> /\ lost' = seen
  BY DEF Ends
<1>b. /\ leaving' = leaving + One(Served(cur)) + One(Served(new))
      /\ listener' = IF new.state = "waiting" THEN "abandoned" ELSE listener
  <2>1. "cur" \in {"cur", "new"} /\ "new" \in {"cur", "new"}
    OBVIOUS
  <2> QED
    BY <1>0, <2>1, Fields DEF Ends, LetGo, One
<1>c. /\ approval' \in Approval /\ approval'.instance = approval.instance
      /\ approval'.seq = approval.seq /\ ~approval'.context
  <2>1. approval \in Approval /\ 0 \in Instance
    BY <1>0, SessionBoundsAssumption DEF TypeOK, Instance
  <2>2. approval' = [approval EXCEPT !.peer = 0, !.context = FALSE]
    BY DEF Ends, Revoked
  <2> QED
    BY <2>1, <2>2 DEF Approval
<1>d. delivered' \in Sample /\ ~FromService(delivered')
  BY NothingIsTyped DEF Ends, Fallback, FromService, NoSample, Sample
<1>e. status' \in {"Stopped", "Recovering", "Connecting", "Failed", "Incompatible"}
  BY DEF Ends, StatusOf
<1>f. Workers' <= MaxClients /\ leaving' \in 0 .. MaxClients
  <2>1. Workers' = others + leaving'
    BY <1>0, <1>a, <1>b, Fields DEF Workers, Served, One, NoConnection
  <2>2. /\ One(Served(cur)) \in Nat /\ One(Served(new)) \in Nat
        /\ others + leaving + One(Served(cur)) + One(Served(new)) <= MaxClients
    BY <1>0 DEF One, ThreadInv, Workers
  <2> QED
    BY <1>0, <1>b, <2>1, <2>2, Fields, LimitsAssumption
<1>g. ~HasSession'
  BY <1>a DEF HasSession
<1>1. TypeOK'
  <2>1. listener' \in {"free", "ours", "other", "abandoned"}
    BY <1>0, <1>b DEF TypeOK
  <2>2. 0 \in Revision /\ 0 \in 0 .. OperationTimeout
    BY LimitsAssumption, SessionBoundsAssumption DEF Revision
  <2> QED
    BY <1>0, <1>a, <1>c, <1>d, <1>e, <1>f, <2>1, <2>2, NothingIsTyped DEF TypeOK
<1>2. PlaceInv'
  BY <1>0, <1>a, <1>g, Fields DEF PlaceInv, Connecting, HasSession, NoConnection
<1>3. ConnectionInv(cur)'
  BY <1>0, <1>a, <1>g, Fields DEF ConnectionInv, Ours, NoConnection
<1>4. ConnectionInv(new)'
  BY <1>0, <1>a, <1>g, Fields DEF ConnectionInv, Ours, NoConnection
<1>5. NewInv'
  BY <1>0, <1>a, <1>g, <1>b, Fields DEF NewInv, Quiet, NoConnection
<1>6. CountInv'
  BY <1>0, <1>a, <1>g, Fields DEF CountInv, Between, Connecting, HasSession, Quiet, NoSession,
      NoConnection
<1>7. AnswerInv'
  BY <1>a DEF AnswerInv
<1>8. SampleInv'
  BY <1>0, <1>a, <1>g, <1>c, <1>d, Fields DEF SampleInv, HasSession, FromService, Ours,
      NoSession, NoConnection
<1>9. LeaseInv'
  BY <1>a DEF LeaseInv, NoConnection, NoSession
<1>10. ThreadInv'
  BY <1>f DEF ThreadInv
<1>11. RevokedStaysRevoked'
  BY <1>d DEF RevokedStaysRevoked, FromService
<1> QED
  BY <1>1, <1>2, <1>3, <1>4, <1>5, <1>6, <1>7, <1>8, <1>9, <1>10, <1>11 DEF SessionInv

\* A renewal that fails leaves the old connection as it was.
LEMMA KeepsAskingStep ==
  ASSUME SessionInv, KeepsAsking, Connecting, purpose = "renew", faults' \in 0 .. MaxFaults
  PROVE  SessionInv'
<1>0. TypeOK /\ PlaceInv /\ ConnectionInv(cur) /\ ConnectionInv(new) /\ NewInv /\ CountInv
      /\ AnswerInv /\ SampleInv /\ LeaseInv /\ ThreadInv /\ RevokedStaysRevoked
  BY DEF SessionInv
<1>a. /\ new' = NoConnection /\ pc' = "ask" /\ waited' = 0
      /\ UNCHANGED <<service, others, cur, purpose>>
      /\ UNCHANGED <<session, approval, status, retryDue, delivered, asked, seen, lost>>
  BY DEF KeepsAsking, clientVars
<1>b. /\ leaving' = leaving + One(Served(new))
      /\ listener' = IF new.state = "waiting" THEN "abandoned" ELSE listener
  <2>1. "cur" \notin {"new"}
    OBVIOUS
  <2> QED
    BY <1>0, <2>1, Fields DEF KeepsAsking, LetGo, One
<1>c. Workers' <= MaxClients /\ leaving' \in 0 .. MaxClients
  <2>1. Workers' = others + leaving' + One(Served(cur))
    BY <1>0, <1>a, <1>b, Fields DEF Workers, Served, One, NoConnection
  <2>2. /\ One(Served(cur)) \in Nat /\ One(Served(new)) \in Nat
        /\ others + leaving + One(Served(cur)) + One(Served(new)) <= MaxClients
    BY <1>0 DEF One, ThreadInv, Workers
  <2> QED
    BY <1>0, <1>b, <2>1, <2>2, Fields, LimitsAssumption
<1>1. TypeOK'
  <2>1. listener' \in {"free", "ours", "other", "abandoned"}
    BY <1>0, <1>b DEF TypeOK
  <2> QED
    BY <1>0, <1>a, <1>c, <2>1, NothingIsTyped, LimitsAssumption DEF TypeOK
<1>2. PlaceInv'
  BY <1>0, <1>a, Fields DEF PlaceInv, Connecting, HasSession, NoConnection
<1>3. ConnectionInv(cur)'
  BY <1>0, <1>a, Fields DEF ConnectionInv, Ours
<1>4. ConnectionInv(new)'
  BY <1>0, <1>a, Fields DEF ConnectionInv, Ours, NoConnection
<1>5. NewInv'
  BY <1>0, <1>a, <1>b, Fields DEF NewInv, Quiet, NoConnection
<1>6. CountInv'
  BY <1>0, <1>a, Fields DEF CountInv, Between, Connecting, HasSession, Quiet
<1>7. AnswerInv'
  BY <1>a DEF AnswerInv
<1>8. SampleInv'
  BY <1>0, <1>a, Fields DEF SampleInv, HasSession, FromService, Ours, NoConnection
<1>9. LeaseInv'
  BY <1>0, <1>a, Fields DEF LeaseInv
<1>10. ThreadInv'
  BY <1>c DEF ThreadInv
<1>11. RevokedStaysRevoked'
  BY <1>0, <1>a, Fields DEF RevokedStaysRevoked, FromService
<1> QED
  BY <1>1, <1>2, <1>3, <1>4, <1>5, <1>6, <1>7, <1>8, <1>9, <1>10, <1>11 DEF SessionInv

\* A retry keeps the session until it has a new connection.
LEMMA RetriesStep ==
  ASSUME SessionInv, Retries, pc = "await", purpose \notin {"renew", "retry"}, UNCHANGED faults
  PROVE  SessionInv'
<1>0. TypeOK /\ PlaceInv /\ ConnectionInv(cur) /\ ConnectionInv(new) /\ NewInv /\ CountInv
      /\ AnswerInv /\ SampleInv /\ LeaseInv /\ ThreadInv /\ RevokedStaysRevoked
  BY DEF SessionInv
<1>1. TypeOK'
  BY <1>0, LimitsAssumption, SessionBoundsAssumption DEF TypeOK, Retries, serverVars, clientVars
<1>2. PlaceInv'
  BY <1>0 DEF PlaceInv, Connecting, HasSession, Retries, serverVars, clientVars
<1>3. ConnectionInv(cur)'
  BY <1>0 DEF ConnectionInv, Ours, Retries, serverVars, clientVars
<1>4. ConnectionInv(new)'
  BY <1>0 DEF ConnectionInv, Ours, Retries, serverVars, clientVars
<1>5. NewInv'
  BY <1>0 DEF NewInv, Quiet, Retries, serverVars, clientVars
<1>6. CountInv'
  BY <1>0 DEF CountInv, Between, Connecting, HasSession, Quiet, Retries, serverVars, clientVars
<1>7. AnswerInv'
  BY <1>0 DEF AnswerInv, FreshSample, Served, Retries, serverVars, clientVars
<1>8. SampleInv'
  BY <1>0 DEF SampleInv, HasSession, FromService, Ours, Retries, serverVars, clientVars
<1>9. LeaseInv'
  BY <1>0 DEF LeaseInv, Retries, serverVars, clientVars
<1>10. ThreadInv'
  BY <1>0 DEF ThreadInv, Workers, One, Served, Retries, serverVars, clientVars
<1>11. RevokedStaysRevoked'
  BY <1>0 DEF RevokedStaysRevoked, FromService, Retries, serverVars, clientVars
<1> QED
  BY <1>1, <1>2, <1>3, <1>4, <1>5, <1>6, <1>7, <1>8, <1>9, <1>10, <1>11 DEF SessionInv

\* A collection without a session.
LEMMA CollectAloneStep ==
  ASSUME SessionInv, CollectAlone
  PROVE  SessionInv'
<1>0. TypeOK /\ PlaceInv /\ ConnectionInv(cur) /\ ConnectionInv(new) /\ NewInv /\ CountInv
      /\ AnswerInv /\ SampleInv /\ LeaseInv /\ ThreadInv /\ RevokedStaysRevoked
  BY DEF SessionInv
<1>a. /\ pc = "idle" /\ ~HasSession /\ session = NoSession
      /\ UNCHANGED <<service, others, leaving, listener, cur, new, waited, faults>>
      /\ UNCHANGED <<session, approval, status, retryDue, asked, seen, lost>>
      /\ \/ pc' = "open" /\ purpose' = "connect" /\ delivered' = delivered
         \/ pc' = pc /\ purpose' = purpose /\ delivered' \in Fallback
  BY DEF CollectAlone, serverVars, clientVars, HasSession
<1>b. delivered' \in Fallback => delivered' \in Sample /\ ~FromService(delivered')
  BY NothingIsTyped DEF Fallback, FromService, NoSample, Sample
<1>c. delivered' \in Sample /\ (FromService(delivered') => FromService(delivered))
  BY <1>0, <1>a, <1>b DEF TypeOK
<1>d. ~FromService(delivered')
  BY <1>0, <1>a, <1>c DEF SampleInv
<1>e. cur = NoConnection /\ waited = 0 /\ new.state = "none" /\ ~HasSession'
  BY <1>0, <1>a DEF CountInv, PlaceInv, HasSession
<1>1. TypeOK'
  BY <1>0, <1>a, <1>c, <1>e, Fields DEF TypeOK
<1>2. PlaceInv'
  BY <1>0, <1>a, <1>e DEF PlaceInv, Connecting
<1>3. ConnectionInv(cur)'
  BY <1>0, <1>a, <1>c, <1>e, Fields DEF ConnectionInv, Ours
<1>4. ConnectionInv(new)'
  BY <1>0, <1>a, <1>c, <1>e, Fields DEF ConnectionInv, Ours
<1>5. NewInv'
  BY <1>0, <1>a, <1>c, <1>e, Fields DEF NewInv, Quiet
<1>6. CountInv'
  BY <1>0, <1>a, <1>e DEF CountInv
<1>7. AnswerInv'
  BY <1>a DEF AnswerInv
<1>8. SampleInv'
  BY <1>0, <1>a, <1>d, <1>e DEF SampleInv
<1>9. LeaseInv'
  BY <1>0, <1>a DEF LeaseInv
<1>10. ThreadInv'
  BY <1>0, <1>a, <1>c, <1>e, Fields DEF ThreadInv, Workers, One, Served
<1>11. RevokedStaysRevoked'
  BY <1>d DEF RevokedStaysRevoked, FromService
<1> QED
  BY <1>1, <1>2, <1>3, <1>4, <1>5, <1>6, <1>7, <1>8, <1>9, <1>10, <1>11 DEF SessionInv

\* A collection with one.
LEMMA CollectStep ==
  ASSUME SessionInv, Collect
  PROVE  SessionInv'
<1>0. TypeOK /\ PlaceInv /\ ConnectionInv(cur) /\ ConnectionInv(new) /\ NewInv /\ CountInv
      /\ AnswerInv /\ SampleInv /\ LeaseInv /\ ThreadInv /\ RevokedStaysRevoked
  BY DEF SessionInv
<1>a. /\ pc = "idle" /\ HasSession
      /\ \/ RenewalDue /\ pc' = "open" /\ purpose' = "renew"
         \/ ~RenewalDue /\ pc' = "ask" /\ purpose' = "none"
      /\ UNCHANGED <<service, others, leaving, listener, cur, new, waited, faults>>
      /\ UNCHANGED <<session, approval, status, retryDue, delivered, asked, seen, lost>>
  BY DEF Collect, serverVars, clientVars
<1>1. TypeOK'
  BY <1>0, <1>a, Fields DEF TypeOK
<1>2. PlaceInv'
  BY <1>0, <1>a, Fields DEF PlaceInv, Connecting, HasSession
<1>3. ConnectionInv(cur)'
  BY <1>0, <1>a, Fields DEF ConnectionInv, Ours
<1>4. ConnectionInv(new)'
  BY <1>0, <1>a, Fields DEF ConnectionInv, Ours
<1>5. NewInv'
  BY <1>0, <1>a, Fields DEF NewInv, Quiet
<1>6. CountInv'
  BY <1>0, <1>a, Fields DEF CountInv, Between, Connecting, HasSession, Quiet
<1>7. AnswerInv'
  BY <1>a DEF AnswerInv
<1>8. SampleInv'
  BY <1>0, <1>a, Fields DEF SampleInv, HasSession, FromService, Ours
<1>9. LeaseInv'
  <2>1. pc' = "ask" => session.idle < RenewIdle /\ session.requests < RenewAfter
    BY <1>0, <1>a, Fields, LimitsAssumption DEF RenewalDue
  <2>2. session.requests = cur.requests /\ waited = 0
    BY <1>0, <1>a DEF CountInv, Between, PlaceInv
  <2>3. cur.idle \in Nat
    BY <1>0, ConnectionFields DEF TypeOK
  <2> QED
    BY <1>0, <1>a, <2>1, <2>2, <2>3, Fields, LimitsAssumption DEF LeaseInv
<1>10. ThreadInv'
  BY <1>0, <1>a, Fields DEF ThreadInv, Workers, One, Served
<1>11. RevokedStaysRevoked'
  BY <1>0, <1>a, Fields DEF RevokedStaysRevoked, FromService
<1> QED
  BY <1>1, <1>2, <1>3, <1>4, <1>5, <1>6, <1>7, <1>8, <1>9, <1>10, <1>11 DEF SessionInv

\* The pipe that is opened is one of the running process.
LEMMA OpenStep ==
  ASSUME SessionInv, Open
  PROVE  SessionInv'
<1>0. TypeOK /\ PlaceInv /\ ConnectionInv(cur) /\ ConnectionInv(new) /\ NewInv /\ CountInv
      /\ AnswerInv /\ SampleInv /\ LeaseInv /\ ThreadInv /\ RevokedStaysRevoked
  BY DEF SessionInv
<1>a. /\ pc = "open" /\ service.up /\ listener' = "ours" /\ pc' = "verify"
      /\ new' = [NoConnection EXCEPT !.instance = service.instance, !.state = "waiting"]
      /\ UNCHANGED <<service, others, leaving, cur, purpose, waited, faults>>
      /\ UNCHANGED <<session, approval, status, retryDue, delivered, asked, seen, lost>>
  BY DEF Open, clientVars
<1>b. service.instance \in Instance
  BY <1>0 DEF TypeOK, Service
<1>c. /\ new' \in Connection /\ new'.instance = service.instance /\ new'.state = "waiting"
      /\ ~new'.limit /\ new'.requests = 0 /\ new'.request = NoRequest /\ new'.reply = NoReply
  <2>1. NoConnection \in Connection
    BY NothingIsTyped
  <2> QED
    BY <1>a, <1>b, <2>1 DEF Connection, NoConnection
<1>d. service.instance \in Ours
  BY <1>0, <1>a, Fields, SessionBoundsAssumption DEF SampleInv, Ours
<1>e. new.state = "none"
  BY <1>0, <1>a DEF PlaceInv
<1>f. ~Served(new) /\ ~Served(new)'
  BY <1>c, <1>e DEF Served
<1>1. TypeOK'
  BY <1>0, <1>a, <1>c DEF TypeOK
<1>2. PlaceInv'
  BY <1>0, <1>a, <1>c DEF PlaceInv, Connecting, HasSession
<1>3. ConnectionInv(cur)'
  BY <1>0, <1>a DEF ConnectionInv
<1>4. ConnectionInv(new)'
  BY <1>0, <1>a, <1>c, <1>d, Fields DEF ConnectionInv
<1>5. NewInv'
  BY <1>a, <1>c DEF NewInv, Quiet
<1>6. CountInv'
  BY <1>0, <1>a DEF CountInv, Between, Connecting, HasSession, Quiet
<1>7. AnswerInv'
  BY <1>a DEF AnswerInv
<1>8. SampleInv'
  BY <1>0, <1>a, <1>c DEF SampleInv, HasSession, FromService
<1>9. LeaseInv'
  BY <1>a DEF LeaseInv
<1>10. ThreadInv'
  BY <1>0, <1>a, <1>f, Fields DEF ThreadInv, Workers, One, Served
<1>11. RevokedStaysRevoked'
  BY <1>0, <1>a, <1>c, <1>d, <1>e, Fields DEF RevokedStaysRevoked, FromService
<1> QED
  BY <1>1, <1>2, <1>3, <1>4, <1>5, <1>6, <1>7, <1>8, <1>9, <1>10, <1>11 DEF SessionInv

\* The negotiation is requested.
LEMMA VerifiesStep ==
  ASSUME SessionInv, Verifies
  PROVE  SessionInv'
<1>0. TypeOK /\ PlaceInv /\ ConnectionInv(cur) /\ ConnectionInv(new) /\ NewInv /\ CountInv
      /\ AnswerInv /\ SampleInv /\ LeaseInv /\ ThreadInv /\ RevokedStaysRevoked
  BY DEF SessionInv
<1>a. /\ pc = "verify" /\ pc' = "hello"
      /\ UNCHANGED <<service, others, leaving, listener, cur, purpose, waited, faults>>
      /\ UNCHANGED <<session, approval, status, retryDue, delivered, asked, seen, lost>>
  BY DEF Verifies, serverVars, clientVars
<1>b. /\ new' \in Connection /\ new'.instance = new.instance /\ new'.state = new.state
      /\ new'.limit = new.limit /\ new'.requests = new.requests /\ new'.reply = new.reply
      /\ new'.idle = new.idle
      /\ \/ new.state = "closed" /\ new'.request = new.request
         \/ new.state # "closed" /\ new'.request = [id |-> 1, after |-> 0]
  <2>1. new \in Connection /\ [id |-> 1, after |-> 0] \in Request
    BY <1>0, LimitsAssumption, SessionBoundsAssumption DEF TypeOK, Request, RequestId, Revision
  <2> QED
    BY <2>1 DEF Verifies, Connection
<1>c. /\ new.request = NoRequest /\ new.reply = NoReply /\ new.requests = 0
      /\ new.state # "none"
  BY <1>0, <1>a DEF NewInv, Quiet, PlaceInv
<1>1. TypeOK'
  BY <1>0, <1>a, <1>b, <1>c, Fields DEF TypeOK
<1>2. PlaceInv'
  BY <1>0, <1>a, <1>b, <1>c, Fields DEF PlaceInv, Connecting, HasSession
<1>3. ConnectionInv(cur)'
  BY <1>0, <1>a, <1>b, <1>c, Fields DEF ConnectionInv, Ours
<1>4. ConnectionInv(new)'
  BY <1>0, <1>a, <1>b, <1>c, Fields DEF ConnectionInv, Ours
<1>5. NewInv'
  BY <1>0, <1>a, <1>b, <1>c DEF NewInv, NoRequest
<1>6. CountInv'
  BY <1>0, <1>a, <1>b, <1>c, Fields DEF CountInv, Between, Connecting, HasSession, Quiet
<1>7. AnswerInv'
  BY <1>a DEF AnswerInv
<1>8. SampleInv'
  BY <1>0, <1>a, <1>b, <1>c, Fields DEF SampleInv, HasSession, FromService, Ours
<1>9. LeaseInv'
  BY <1>a DEF LeaseInv
<1>10. ThreadInv'
  BY <1>0, <1>a, <1>b DEF ThreadInv, Workers, Served
<1>11. RevokedStaysRevoked'
  BY <1>0, <1>a, <1>b, <1>c, Fields DEF RevokedStaysRevoked, FromService
<1> QED
  BY <1>1, <1>2, <1>3, <1>4, <1>5, <1>6, <1>7, <1>8, <1>9, <1>10, <1>11 DEF SessionInv

\* A negotiated connection replaces the old one of the same process.
LEMMA NegotiatesStep ==
  ASSUME SessionInv, Negotiates
  PROVE  SessionInv'
<1>0. TypeOK /\ PlaceInv /\ ConnectionInv(cur) /\ ConnectionInv(new) /\ NewInv /\ CountInv
      /\ AnswerInv /\ SampleInv /\ LeaseInv /\ ThreadInv /\ RevokedStaysRevoked
  BY DEF SessionInv
<1>a. /\ pc = "hello" /\ new' = NoConnection /\ pc' = "ask" /\ waited' = 0
      /\ purpose = "connect" \/ new.reply.instance = session.instance
      /\ UNCHANGED <<service, others, purpose, faults>>
      /\ UNCHANGED <<approval, status, retryDue, delivered, asked, seen, lost>>
  BY DEF Negotiates, SameService
<1>b. /\ new.reply = [id |-> 1, kind |-> "negotiated", instance |-> new.instance, seq |-> 0]
      /\ new.requests = 1 /\ new.idle = 0 /\ new.state \in {"served", "closed"} /\ ~new.limit
      /\ new.request = NoRequest
  BY <1>0 DEF Negotiates, NewInv, ConnectionInv
<1>c. new.instance \in Ours /\ new.instance <= service.instance
  BY <1>0, <1>b DEF ConnectionInv
<1>d. /\ session' = [instance |-> new.instance, nextId |-> 2, requests |-> 1, idle |-> 0,
                     last |-> session.last]
      /\ HasSession'
  <2>1. new.reply.instance = new.instance
    BY <1>b
  <2>2. session' = [instance |-> new.instance, nextId |-> 2, requests |-> 1, idle |-> 0,
                    last |-> session.last]
    BY <2>1 DEF Negotiates, Renewed
  <2> QED
    BY <2>2 DEF HasSession, NoSession
<1>e. session' \in Session
  <2>1. new.instance \in Instance /\ session.last \in Revision
    BY <1>0, Fields DEF TypeOK, Connection
  <2>2. 2 \in RequestId /\ 1 \in 0 .. MaxRequests + 2 /\ 0 \in 0 .. RenewIdle
    BY LimitsAssumption DEF RequestId
  <2> QED
    BY <1>d, <2>1, <2>2 DEF Session
<1>f. /\ session'.instance = new.instance /\ session'.nextId = 2 /\ session'.requests = 1
      /\ session'.idle = 0 /\ session'.last = session.last
  BY <1>d
<1>g. /\ cur' \in Connection /\ cur'.instance = new.instance /\ cur'.state = new.state
      /\ ~cur'.limit /\ cur'.requests = 1 /\ cur'.idle = 0
      /\ cur'.request = NoRequest /\ cur'.reply = NoReply
  <2>1. cur' = [new EXCEPT !.reply = NoReply] /\ new \in Connection
    BY <1>0 DEF Negotiates, TypeOK
  <2> QED
    BY <1>b, <2>1, NothingIsTyped DEF Connection
<1>h. \/ purpose = "connect" /\ ~HasSession /\ session.last = 0
      \/ purpose # "connect" /\ HasSession /\ session.instance = new.instance
  <2>1. CASE purpose = "connect"
    BY <1>0, <1>a, <2>1 DEF PlaceInv, Connecting, HasSession, NoSession
  <2>2. CASE purpose # "connect"
    BY <1>0, <1>a, <1>b, <2>2 DEF PlaceInv, Connecting, TypeOK
  <2> QED
    BY <2>1, <2>2
<1>i. leaving' = leaving + One(Served(cur)) /\ listener' = listener
  <2>1. "cur" \in {"cur"} /\ "new" \notin {"cur"}
    OBVIOUS
  <2> QED
    BY <1>0, <2>1, Fields DEF Negotiates, LetGo, One
<1>j. Workers' <= MaxClients /\ leaving' \in 0 .. MaxClients
  <2>1. Workers' = others + leaving' + One(Served(new))
    <3>1. One(Served(cur)') = One(Served(new)) /\ One(Served(new)') = 0
      BY <1>a, <1>g DEF One, Served, NoConnection
    <3>2. One(Served(new)) \in Nat /\ leaving' \in Nat
      BY <1>0, <1>i, Fields DEF One
    <3> QED
      BY <1>0, <1>a, <3>1, <3>2, Fields DEF Workers
  <2>2. /\ One(Served(cur)) \in Nat /\ One(Served(new)) \in Nat
        /\ others + leaving + One(Served(cur)) + One(Served(new)) <= MaxClients
    BY <1>0 DEF One, ThreadInv, Workers
  <2> QED
    BY <1>0, <1>i, <2>1, <2>2, Fields, LimitsAssumption
<1>1. TypeOK'
  <2>1. 0 \in 0 .. OperationTimeout
    BY LimitsAssumption
  <2> QED
    BY <1>0, <1>a, <1>e, <1>g, <1>i, <1>j, <2>1, NothingIsTyped DEF TypeOK
<1>2. PlaceInv'
  BY <1>0, <1>a, <1>d DEF PlaceInv, Connecting, NoConnection
<1>3. ConnectionInv(cur)'
  BY <1>0, <1>a, <1>b, <1>c, <1>g DEF ConnectionInv
<1>4. ConnectionInv(new)'
  BY <1>a DEF ConnectionInv, NoConnection
<1>5. NewInv'
  BY <1>0, <1>a, <1>b, <1>i DEF NewInv, NoConnection
<1>6. CountInv'
  BY <1>a, <1>b, <1>c, <1>d, <1>f, <1>g, SessionBoundsAssumption DEF CountInv, Between, Quiet, Ours
<1>7. AnswerInv'
  BY <1>a DEF AnswerInv
<1>8. SampleInv'
  <2>1. new.state # "none" /\ new'.state = "none"
    BY <1>a, <1>b DEF NoConnection
  <2>2. session'.instance = service.instance => session'.last <= service.revision
    BY <1>0, <1>f, <1>h, Fields DEF SampleInv
  <2>3. FromService(delivered) => delivered.instance = session'.instance
    BY <1>0, <1>f, <1>h DEF SampleInv
  <2> QED
    BY <1>0, <1>a, <1>c, <1>d, <1>f, <2>1, <2>2, <2>3 DEF SampleInv, FromService
<1>9. LeaseInv'
  BY <1>a, <1>g, LimitsAssumption DEF LeaseInv
<1>10. ThreadInv'
  BY <1>j DEF ThreadInv
<1>11. RevokedStaysRevoked'
  BY <1>0, <1>a DEF RevokedStaysRevoked, FromService
<1> QED
  BY <1>1, <1>2, <1>3, <1>4, <1>5, <1>6, <1>7, <1>8, <1>9, <1>10, <1>11 DEF SessionInv

\* The request has a number of its own.
LEMMA AskStep ==
  ASSUME SessionInv, Ask
  PROVE  SessionInv'
<1>0. TypeOK /\ PlaceInv /\ ConnectionInv(cur) /\ ConnectionInv(new) /\ NewInv /\ CountInv
      /\ AnswerInv /\ SampleInv /\ LeaseInv /\ ThreadInv /\ RevokedStaysRevoked
  BY DEF SessionInv
<1>a. /\ pc = "ask" /\ pc' = "await" /\ asked' = service.revision
      /\ session' = [session EXCEPT !.nextId = session.nextId + 1, !.requests = session.requests + 1]
      /\ UNCHANGED <<service, others, leaving, listener, new, purpose, waited, faults>>
      /\ UNCHANGED <<approval, status, retryDue, delivered, seen, lost>>
  BY DEF Ask, serverVars
<1>b. /\ HasSession /\ session.instance # 0 /\ session.nextId = session.requests + 1
      /\ session.requests = cur.requests /\ cur.requests >= 1 /\ Quiet(cur)
      /\ cur.state \in {"served", "closed"} /\ cur.instance = session.instance /\ waited = 0
  BY <1>0, <1>a, SessionHasInstance DEF PlaceInv, CountInv, Between
<1>c. cur.requests \in Nat /\ cur.requests <= MaxRequests /\ cur.idle \in Nat
  BY <1>0, ConnectionFields DEF TypeOK
<1>d. /\ session' \in Session /\ session'.instance = session.instance
      /\ session'.nextId = session.nextId + 1 /\ session'.requests = session.requests + 1
      /\ session'.idle = session.idle /\ session'.last = session.last
  <2>1. session.nextId + 1 \in RequestId /\ session.requests + 1 \in 0 .. MaxRequests + 2
    BY <1>0, <1>b, <1>c, Fields, LimitsAssumption DEF RequestId
  <2>2. session \in Session
    BY <1>0 DEF TypeOK
  <2> QED
    BY <1>a, <2>1, <2>2 DEF Session
<1>e. HasSession'
  BY <1>b, <1>d DEF HasSession, NoSession
<1>f. /\ cur' \in Connection /\ cur'.instance = cur.instance /\ cur'.state = cur.state
      /\ cur'.limit = cur.limit /\ cur'.requests = cur.requests /\ cur'.idle = cur.idle
      /\ cur'.reply = NoReply
      /\ cur'.request # NoRequest =>
           cur.state = "served" /\ cur'.request = [id |-> session.nextId, after |-> session.last]
  <2>1. [id |-> session.nextId, after |-> session.last] \in Request
    BY <1>0, Fields DEF TypeOK, Session, Request
  <2>2. cur \in Connection /\ cur.request = NoRequest /\ cur.reply = NoReply
    BY <1>0, <1>b DEF TypeOK, Quiet
  <2>3. CASE cur.state = "closed"
    BY <2>2, <2>3 DEF Ask
  <2>4. CASE cur.state = "served"
    BY <2>1, <2>2, <2>4 DEF Ask, Connection
  <2> QED
    BY <1>b, <2>3, <2>4
<1>g. Served(cur)' <=> Served(cur)
  BY <1>f DEF Served
<1>1. TypeOK'
  <2>1. asked' \in Revision
    BY <1>0, <1>a DEF TypeOK, Service
  <2> QED
    BY <1>0, <1>a, <1>d, <1>f, <2>1 DEF TypeOK
<1>2. PlaceInv'
  BY <1>0, <1>a, <1>e DEF PlaceInv, Connecting
<1>3. ConnectionInv(cur)'
  BY <1>0, <1>a, <1>b, <1>f DEF ConnectionInv
<1>4. ConnectionInv(new)'
  BY <1>0, <1>a DEF ConnectionInv
<1>5. NewInv'
  BY <1>0, <1>a DEF NewInv
<1>6. CountInv'
  <2>1. ~Between'
    BY <1>a DEF Between, Connecting
  <2>2. session'.nextId - 1 = session.nextId
    BY <1>0, <1>d, Fields
  <2> QED
    BY <1>0, <1>a, <1>b, <1>c, <1>d, <1>e, <1>f, <2>1, <2>2, Fields DEF CountInv
<1>7. AnswerInv'
  BY <1>0, <1>a, <1>f, Fields DEF AnswerInv
<1>8. SampleInv'
  BY <1>0, <1>a, <1>b, <1>d, <1>e DEF SampleInv, FromService
<1>9. LeaseInv'
  BY <1>0, <1>a, <1>b, <1>c, <1>f, LimitsAssumption DEF LeaseInv
<1>10. ThreadInv'
  BY <1>0, <1>a, <1>g DEF ThreadInv, Workers, One
<1>11. RevokedStaysRevoked'
  BY <1>0, <1>a DEF RevokedStaysRevoked, FromService
<1> QED
  BY <1>1, <1>2, <1>3, <1>4, <1>5, <1>6, <1>7, <1>8, <1>9, <1>10, <1>11 DEF SessionInv

\* An accepted answer is the newest sample of its process.
LEMMA TakesStep ==
  ASSUME SessionInv, Takes
  PROVE  SessionInv'
<1>0. TypeOK /\ PlaceInv /\ ConnectionInv(cur) /\ ConnectionInv(new) /\ NewInv /\ CountInv
      /\ AnswerInv /\ SampleInv /\ LeaseInv /\ ThreadInv /\ RevokedStaysRevoked
  BY DEF SessionInv
<1>a. /\ pc = "await" /\ pc' = "idle" /\ purpose' = "none" /\ waited' = 0 /\ asked' = 0
      /\ status' = "Active" /\ cur.reply # NoReply
      /\ seen' = [seen EXCEPT ![cur.reply.instance] = cur.reply.seq]
      /\ UNCHANGED <<service, others, leaving, listener, new, retryDue, lost, faults>>
  BY DEF Takes, serverVars
<1>b. /\ cur.reply.instance = session.instance /\ FreshSample(cur.reply)
      /\ cur.reply.kind = "snapshot" \/ cur.reply.kind = "unchanged"
  BY <1>0, <1>a DEF Takes, Accepted, AnswerInv
<1>c. HasSession /\ session.instance \in Ours /\ session.instance <= service.instance
      /\ cur.instance = session.instance /\ cur.state \in {"served", "closed"}
  <2>1. HasSession
    BY <1>0, <1>a DEF PlaceInv
  <2> QED
    BY <1>0, <2>1 DEF CountInv, ConnectionInv
<1>d. cur.reply.seq \in Revision /\ cur.reply.seq \in Nat
  BY <1>0, ConnectionFields DEF TypeOK, Connection, Reply
<1>e. cur.request = NoRequest /\ session.requests = cur.requests /\ cur.idle = 0 /\ ~cur.limit
  BY <1>0, <1>a DEF ConnectionInv, CountInv, LeaseInv
<1>f. /\ session' \in Session /\ session'.instance = session.instance
      /\ session'.nextId = session.nextId /\ session'.requests = session.requests
      /\ session'.idle = 0 /\ session'.last = cur.reply.seq
  <2>1. session' = [session EXCEPT !.last = cur.reply.seq, !.idle = 0] /\ session \in Session
    BY <1>0 DEF Takes, TypeOK
  <2>2. 0 \in 0 .. RenewIdle
    BY LimitsAssumption
  <2> QED
    BY <1>d, <2>1, <2>2 DEF Session
<1>g. HasSession'
  BY <1>0, <1>c, <1>f, SessionHasInstance DEF HasSession, NoSession
<1>h. /\ cur' \in Connection /\ cur'.instance = cur.instance /\ cur'.state = cur.state
      /\ cur'.limit = cur.limit /\ cur'.requests = cur.requests /\ cur'.idle = cur.idle
      /\ cur'.request = cur.request /\ cur'.reply = NoReply
  <2>1. cur' = [cur EXCEPT !.reply = NoReply] /\ cur \in Connection
    BY <1>0 DEF Takes, TypeOK
  <2> QED
    BY <2>1, NothingIsTyped DEF Connection
<1>i. /\ approval' \in Approval /\ approval'.instance = session.instance
      /\ approval'.seq = cur.reply.seq
      /\ approval'.context => cur.reply.seq > lost[session.instance]
  <2>1. approval \in Approval /\ session.instance \in Instance /\ 0 \in Instance
    BY <1>0, SessionBoundsAssumption DEF TypeOK, Session, Instance
  <2>2. CASE approval.instance = session.instance /\ approval.seq = cur.reply.seq
    <3>1. approval' = approval \/ approval' = [approval EXCEPT !.peer = 0, !.context = FALSE]
      BY <1>b, <2>2 DEF Takes, Approvals, Revoked
    <3>2. /\ approval' \in Approval /\ approval'.instance = approval.instance
          /\ approval'.seq = approval.seq /\ (approval'.context => approval.context)
      BY <2>1, <3>1 DEF Approval
    <3> QED
      BY <1>0, <1>c, <2>2, <3>2 DEF SampleInv
  <2>3. CASE ~(approval.instance = session.instance /\ approval.seq = cur.reply.seq)
    <3>1. PICK c \in BOOLEAN :
            approval' = [instance |-> session.instance, seq |-> cur.reply.seq,
                         peer |-> session.instance, context |-> c]
      BY <1>b, <2>3 DEF Takes, Approvals
    <3>2. cur.reply.seq > lost[session.instance]
      <4>1. /\ cur.reply.seq > 0 /\ cur.reply.seq >= seen[session.instance]
            /\ seen[session.instance] >= lost[session.instance]
        BY <1>0, <1>b, <1>c DEF FreshSample, SampleInv
      <4>2. cur.reply.seq # seen[session.instance]
        <5>1. SUFFICES ASSUME cur.reply.seq = seen[session.instance]
                       PROVE  FALSE
          OBVIOUS
        <5>2. session.instance <= approval.instance /\ approval.instance <= session.instance
          BY <1>0, <1>c, <4>1, <5>1 DEF SampleInv
        <5>3. approval.instance = session.instance
          BY <1>0, <5>2, Fields
        <5> QED
          BY <1>0, <1>c, <2>3, <5>1, <5>3 DEF SampleInv
      <4> QED
        BY <1>0, <1>c, <1>d, <4>1, <4>2, Fields
    <3> QED
      BY <1>d, <2>1, <3>1, <3>2 DEF Approval
  <2> QED
    BY <2>2, <2>3
<1>j. /\ delivered' \in Sample /\ delivered'.instance = session.instance
      /\ delivered'.seq = cur.reply.seq /\ delivered'.context = approval'.context
  <2>1. /\ delivered' = [from |-> "service", instance |-> session.instance, seq |-> cur.reply.seq,
                         context |-> approval'.context]
        /\ session.instance \in Instance /\ approval'.context \in BOOLEAN
    BY <1>0, <1>b, <1>i DEF Takes, TypeOK, Session, Approval
  <2> QED
    BY <1>d, <2>1 DEF Sample
<1>k. /\ seen' \in [1 .. MaxInstances -> Revision]
      /\ seen'[session.instance] = cur.reply.seq
      /\ \A i \in Ours : i # session.instance => seen'[i] = seen[i]
  BY <1>0, <1>a, <1>b, <1>c, <1>d DEF TypeOK, Ours
<1>l. /\ cur.reply.seq > 0 /\ cur.reply.seq >= seen[session.instance]
      /\ session.instance = service.instance => cur.reply.seq <= service.revision
  BY <1>b DEF FreshSample
<1>1. TypeOK'
  <2>1. 0 \in Revision /\ 0 \in 0 .. OperationTimeout
    BY LimitsAssumption, SessionBoundsAssumption DEF Revision
  <2> QED
    BY <1>0, <1>a, <1>f, <1>h, <1>i, <1>j, <1>k, <2>1 DEF TypeOK
<1>2. PlaceInv'
  BY <1>0, <1>a DEF PlaceInv, Connecting
<1>3. ConnectionInv(cur)'
  BY <1>0, <1>a, <1>c, <1>h DEF ConnectionInv
<1>4. ConnectionInv(new)'
  BY <1>0, <1>a DEF ConnectionInv
<1>5. NewInv'
  BY <1>0, <1>a DEF NewInv
<1>6. CountInv'
  BY <1>0, <1>a, <1>c, <1>e, <1>f, <1>g, <1>h, SessionHasInstance DEF CountInv, Quiet
<1>7. AnswerInv'
  BY <1>a DEF AnswerInv
<1>8. SampleInv'
  <2>1. \A i \in Ours : seen'[i] > 0 => i <= approval'.instance
    <3> SUFFICES ASSUME NEW i \in Ours, seen'[i] > 0
                 PROVE  i <= session.instance
      BY <1>i
    <3>1. CASE i = session.instance
      BY <1>0, <3>1, Fields
    <3>2. CASE i # session.instance
      <4>1. seen[i] > 0
        BY <1>k, <3>2
      <4>2. i <= approval.instance /\ approval.instance <= session.instance
        BY <1>0, <1>c, <4>1 DEF SampleInv
      <4> QED
        BY <1>0, <4>2, Fields
    <3> QED
      BY <3>1, <3>2
  <2>2. \A i \in Ours : i = service.instance => seen'[i] <= service.revision
    BY <1>0, <1>k, <1>l DEF SampleInv
  <2>3. \A i \in Ours : lost[i] <= seen'[i]
    <3> SUFFICES ASSUME NEW i \in Ours
                 PROVE  lost[i] <= seen'[i]
      OBVIOUS
    <3>1. lost[i] <= seen[i] /\ lost[i] \in Nat /\ seen[i] \in Nat
      BY <1>0, Fields DEF SampleInv
    <3>2. seen[i] <= seen'[i] /\ seen'[i] \in Nat
      BY <1>c, <1>d, <1>k, <1>l, <3>1
    <3> QED
      BY <3>1, <3>2
  <2>4. new.state # "none" => approval'.instance <= new.instance
    BY <1>0, <1>a DEF PlaceInv
  <2>5. FromService(delivered') => HasSession' /\ delivered'.instance = session'.instance
    BY <1>f, <1>g, <1>j
  <2>6. approval'.instance <= session'.instance
    BY <1>0, <1>f, <1>i, Fields
  <2> QED
    BY <1>0, <1>a, <1>c, <1>f, <1>i, <1>k, <1>l, <2>1, <2>2, <2>3, <2>4, <2>5, <2>6
       DEF SampleInv, FromService
<1>9. LeaseInv'
  BY <1>0, <1>a, <1>e, <1>f, <1>h DEF LeaseInv
<1>10. ThreadInv'
  BY <1>0, <1>a, <1>h DEF ThreadInv, Workers, Served
<1>11. RevokedStaysRevoked'
  BY <1>0, <1>a, <1>c, <1>d, <1>i, <1>j, Fields DEF RevokedStaysRevoked, FromService
<1> QED
  BY <1>1, <1>2, <1>3, <1>4, <1>5, <1>6, <1>7, <1>8, <1>9, <1>10, <1>11 DEF SessionInv

-----------------------------------------------------------------------------
(* The invariant                                                            *)

\* The service has answered the request that its sample is not valid.
ToldInvalid ==
  /\ pc = "await" /\ cur.reply.kind = "invalid"
  /\ cur.reply.id = session.nextId - 1 /\ cur.reply.instance = session.instance

\* A refused answer is one of a service that has failed, has nothing yet, or has
\* a sample that is not valid.
LEMMA RefusedAnswer ==
  ASSUME SessionInv, pc = "await", cur.reply # NoReply, ~Accepted(cur.reply)
  PROVE  \/ KindOf(cur.reply) \in {"NotReady", "Failed"}
         \/ KindOf(cur.reply) = "Incompatible" /\ ToldInvalid
<1>1. /\ cur.reply.id = session.nextId - 1 /\ cur.reply.instance = session.instance
      /\ cur.reply.kind \in {"snapshot", "unchanged", "notReady", "invalid", "fatal"}
      /\ cur.reply.kind = "snapshot" => cur.reply.seq > session.last
      /\ cur.reply.kind = "unchanged" => cur.reply.seq = session.last
  BY DEF SessionInv, AnswerInv
<1>2. cur.reply.kind \in {"notReady", "invalid", "fatal"}
  BY <1>1 DEF Accepted
<1> QED
  BY <1>1, <1>2 DEF KindOf, ToldInvalid

\* A failure to connect ends the session, or a renewal that may be tried again.
LEMMA FailureToConnect ==
  ASSUME NEW kind, ConnectFails(kind), Connecting
  PROVE  Ends(kind) \/ (KeepsAsking /\ Connecting /\ purpose = "renew")
BY DEF ConnectFails

\* A failure to get an answer ends the session or is retried.
LEMMA FailureToAnswer ==
  ASSUME NEW kind, AskFails(kind)
  PROVE  Ends(kind) \/ (Retries /\ purpose \notin {"renew", "retry"})
BY DEF AskFails

SomeEnd ==
  \E kind \in {"Stopped", "Restarted", "NotReady", "Failed", "Incompatible"} :
    Ends(kind) /\ faults' \in 0 .. MaxFaults /\ (kind = "Incompatible" => ToldInvalid)
GivesUpRenewal ==
  KeepsAsking /\ Connecting /\ purpose = "renew" /\ faults' \in 0 .. MaxFaults
TriesAgain == Retries /\ pc = "await" /\ purpose \notin {"renew", "retry"} /\ UNCHANGED faults

Quietly ==
  \/ Listen \/ Reap \/ ServeCurrent \/ ServeNew \/ CloseIdle \/ Tick \/ RetryComesDue
  \/ ServiceStarts \/ ServiceStops \/ CloseUnauthenticated \/ OtherConnects \/ OtherLeaves
  \/ \E event \in {"sample", "invalid", "unavailable", "fatal"} : Publish(event)
  \/ Collect \/ Open \/ Verifies \/ Negotiates \/ Ask \/ GivesUpRenewal \/ TriesAgain

\* What a step is: one that returns nothing, a collection without a session,
\* the end of a session, or an answer that is taken.
LEMMA StepKinds ==
  ASSUME SessionInv, Next
  PROVE  Quietly \/ CollectAlone \/ SomeEnd \/ Takes
<1>0. TypeOK
  BY DEF SessionInv
<1>1. ASSUME NEW kind \in {"Stopped", "Restarted", "Failed"}, ConnectFails(kind), Connecting,
             faults' \in 0 .. MaxFaults
      PROVE  SomeEnd \/ GivesUpRenewal
  BY <1>1, FailureToConnect DEF SomeEnd, GivesUpRenewal
<1>2. ASSUME NEW kind \in {"NotReady", "Failed", "Incompatible"}, AskFails(kind), pc = "await",
             UNCHANGED faults, kind = "Incompatible" => ToldInvalid
      PROVE  SomeEnd \/ TriesAgain
  BY <1>0, <1>2, FaultIsCounted, FailureToAnswer DEF SomeEnd, TriesAgain
<1>3. CASE OpenFails
  <2>1. faults' \in 0 .. MaxFaults
    BY <1>0, <1>3, FaultIsCounted DEF OpenFails
  <2> QED
    BY <1>1, <1>3, <2>1 DEF OpenFails, Connecting, Quietly
<1>4. CASE Verify
  <2>1. faults' \in 0 .. MaxFaults /\ pc = "verify"
    BY <1>0, <1>4, FaultIsCounted DEF Verify
  <2>2. Verifies \/ ConnectFails("Stopped") \/ ConnectFails("Restarted")
    BY <1>4 DEF Verify, Verifies, serverVars, clientVars
  <2> QED
    BY <1>1, <2>1, <2>2 DEF Connecting, Quietly
<1>5. CASE Hello
  <2>1. faults' \in 0 .. MaxFaults /\ pc = "hello"
    BY <1>0, <1>5, FaultIsCounted DEF Hello
  <2>2. Negotiates \/ ConnectFails("Restarted")
    BY <1>5 DEF Hello, Negotiates
  <2> QED
    BY <1>1, <2>1, <2>2 DEF Connecting, Quietly
<1>6. CASE HelloFails
  <2>1. faults' \in 0 .. MaxFaults
    BY <1>0, <1>6, FaultIsCounted DEF HelloFails
  <2> QED
    BY <1>1, <1>6, <2>1 DEF HelloFails, Connecting, Quietly
<1>7. CASE AskIsLost
  BY <1>2, <1>7 DEF AskIsLost, Quietly
<1>8. CASE Answered
  <2>1. CASE Accepted(cur.reply)
    BY <1>8, <2>1 DEF Answered, Takes, serverVars
  <2>2. CASE ~Accepted(cur.reply)
    <3>1. pc = "await" /\ cur.reply # NoReply /\ AskFails(KindOf(cur.reply)) /\ UNCHANGED faults
      BY <1>8, <2>2 DEF Answered
    <3>2. \/ KindOf(cur.reply) \in {"NotReady", "Failed"}
          \/ KindOf(cur.reply) = "Incompatible" /\ ToldInvalid
      BY <2>2, <3>1, RefusedAnswer
    <3> QED
      BY <1>2, <3>1, <3>2 DEF Quietly
  <2> QED
    BY <2>1, <2>2
<1>9. CASE CollectAlone \/ Collect \/ Open \/ Ask \/ Threads \/ Tick \/ RetryComesDue
           \/ ServiceStarts \/ ServiceStops \/ CloseUnauthenticated \/ OtherConnects \/ OtherLeaves
           \/ \E event \in {"sample", "invalid", "unavailable", "fatal"} : Publish(event)
  BY <1>9 DEF Threads, Quietly
<1> QED
  BY <1>3, <1>4, <1>5, <1>6, <1>7, <1>8, <1>9 DEF Next, Desktop

\* The initial states satisfy the invariant.
LEMMA InitSession == Init => SessionInv
<1> SUFFICES ASSUME Init
             PROVE  SessionInv
  OBVIOUS
<1>1. TypeOK
  <2>1. service \in Service
    BY SessionBoundsAssumption DEF Init, Service, Instance, Revision
  <2>2. seen \in [1 .. MaxInstances -> Revision] /\ lost \in [1 .. MaxInstances -> Revision]
        /\ asked \in Revision
    BY SessionBoundsAssumption DEF Init, Revision
  <2> QED
    BY <2>1, <2>2, NothingIsTyped, LimitsAssumption, SessionBoundsAssumption DEF Init, TypeOK
<1>2. PlaceInv /\ ConnectionInv(cur) /\ ConnectionInv(new) /\ NewInv /\ AnswerInv
  BY DEF Init, PlaceInv, ConnectionInv, NewInv, AnswerInv, Connecting, HasSession, NoConnection
<1>3. CountInv /\ LeaseInv
  BY DEF Init, CountInv, LeaseInv, HasSession, NoSession, NoConnection
<1>4. SampleInv /\ RevokedStaysRevoked
  BY SessionBoundsAssumption
     DEF Init, SampleInv, RevokedStaysRevoked, HasSession, FromService, NoSession,
         NoConnection, NoApproval, NoSample, Ours
<1>5. ThreadInv
  BY LimitsAssumption DEF Init, ThreadInv, Workers, Served, One, NoConnection
<1> QED
  BY <1>1, <1>2, <1>3, <1>4, <1>5 DEF SessionInv

\* Every step of the desktop, the service, its other clients and time preserves it.
LEMMA NextSession == SessionInv /\ [Next]_vars => SessionInv'
<1> SUFFICES ASSUME SessionInv, [Next]_vars
             PROVE  SessionInv'
  OBVIOUS
<1>1. CASE Quietly
  <2>1. CASE Listen \/ Reap \/ ServeCurrent \/ ServeNew \/ CloseIdle \/ Tick \/ RetryComesDue
    BY <2>1, ListenStep, ReapStep, ServeCurrentStep, ServeNewStep, CloseIdleStep, TickStep,
       RetryComesDueStep
  <2>2. CASE ServiceStarts \/ ServiceStops \/ CloseUnauthenticated \/ OtherConnects \/ OtherLeaves
    BY <2>2, ServiceStartsStep, ServiceStopsStep, CloseUnauthenticatedStep, OtherConnectsStep,
       OtherLeavesStep
  <2>3. CASE \E event \in {"sample", "invalid", "unavailable", "fatal"} : Publish(event)
    BY <2>3, PublishStep
  <2>4. CASE Collect \/ Open \/ Verifies \/ Negotiates \/ Ask
    BY <2>4, CollectStep, OpenStep, VerifiesStep, NegotiatesStep, AskStep
  <2>5. CASE GivesUpRenewal
    BY <2>5, KeepsAskingStep DEF GivesUpRenewal
  <2>6. CASE TriesAgain
    BY <2>6, RetriesStep DEF TriesAgain
  <2> QED
    BY <1>1, <2>1, <2>2, <2>3, <2>4, <2>5, <2>6 DEF Quietly
<1>2. CASE CollectAlone
  BY <1>2, CollectAloneStep
<1>3. CASE SomeEnd
  BY <1>3, EndsStep DEF SomeEnd
<1>4. CASE Takes
  BY <1>4, TakesStep
<1>5. CASE UNCHANGED vars
  <2>1. /\ UNCHANGED <<service, others, leaving, listener, cur, new, pc, purpose, waited, faults>>
        /\ UNCHANGED <<session, approval, status, retryDue, delivered, asked, seen, lost>>
    BY <1>5 DEF vars, serverVars, clientVars
  <2> QED
    BY <2>1 DEF SessionInv, TypeOK, PlaceInv, Connecting, HasSession, ConnectionInv, NewInv, Quiet,
                CountInv, Between, AnswerInv, FreshSample, SampleInv, LeaseInv, ThreadInv, Workers,
                Served, One, RevokedStaysRevoked, FromService
<1> QED
  BY <1>1, <1>2, <1>3, <1>4, <1>5, StepKinds

\* The inductive invariant of desktop, connections and service holds in every
\* reachable state, among it that the service never runs more threads than it may.
THEOREM SessionInvariance == Spec => []SessionInv
<1> QED
  BY InitSession, NextSession, PTL DEF Spec

-----------------------------------------------------------------------------
(* The properties                                                           *)

\* The server's limits are met only behind an attempt to renew, for any limits
\* that leave the headroom session_lease.rs claims.
THEOREM LimitsForeseen == Spec => []LimitsAreForeseen
<1>1. SessionInv => LimitsAreForeseen
  BY DEF SessionInv, LeaseInv, TypeOK, LimitsAreForeseen
<1> QED
  BY <1>1, SessionInvariance, PTL

\* A context that was revoked is not given for the same sample again.
THEOREM RevocationIsFinal == Spec => []RevokedStaysRevoked
<1>1. SessionInv => RevokedStaysRevoked
  BY DEF SessionInv
<1> QED
  BY <1>1, SessionInvariance, PTL

\* A step that returns nothing leaves what was returned alone.
LEMMA QuietSteps ==
  ASSUME Quietly
  PROVE  delivered' = delivered /\ ~(pc = "await" /\ pc' = "idle")
BY DEF Quietly, Listen, Reap, ServeCurrent, ServeNew, CloseIdle, Tick, RetryComesDue, ServiceStarts,
       ServiceStops, CloseUnauthenticated, OtherConnects, OtherLeaves, Publish, Collect, Open,
       Verifies, Negotiates, Ask, GivesUpRenewal, KeepsAsking, TriesAgain, Retries, clientVars

\* A fallback is not a sample of the service.
LEMMA FallbackSteps ==
  ASSUME CollectAlone \/ SomeEnd
  PROVE  \/ delivered' = delivered /\ pc = "idle"
         \/ ~FromService(delivered')
<1>1. \A d \in Fallback : ~FromService(d)
  BY DEF Fallback, FromService, NoSample
<1> QED
  BY <1>1 DEF CollectAlone, SomeEnd, Ends, clientVars

\* What is taken is the newest of its process, and of the session's process.
LEMMA TakenSample ==
  ASSUME SessionInv, Takes
  PROVE  /\ delivered'.instance = session.instance /\ delivered'.seq >= asked
         /\ delivered'.seq >= seen[session.instance]
         /\ \A i \in Ours : seen[i] > 0 => i <= session.instance
<1>1. TypeOK /\ PlaceInv /\ AnswerInv /\ SampleInv
  BY DEF SessionInv
<1>2. /\ pc = "await" /\ cur.reply # NoReply
      /\ delivered'.instance = cur.reply.instance /\ delivered'.seq = cur.reply.seq
      /\ cur.reply.kind = "snapshot" \/ cur.reply.kind = "unchanged"
  BY DEF Takes, Accepted
<1>3. cur.reply.instance = session.instance /\ FreshSample(cur.reply)
  BY <1>1, <1>2 DEF AnswerInv
<1>4. HasSession /\ approval.instance <= session.instance
  BY <1>1, <1>2 DEF PlaceInv, SampleInv
<1>5. \A i \in Ours : seen[i] > 0 => i <= session.instance
  BY <1>1, <1>4, Fields DEF SampleInv
<1> QED
  BY <1>2, <1>3, <1>5 DEF FreshSample

\* collect never returns a sample that is older than what the service had when
\* it was asked, than one returned before, or of a process that was succeeded.
THEOREM CurrentSamples == Spec => SamplesAreCurrent
<1>1. ASSUME SessionInv, [Next]_vars
      PROVE  [ pc = "await" /\ pc' = "idle" /\ FromService(delivered') =>
                 /\ delivered'.seq >= asked
                 /\ delivered'.seq >= seen[delivered'.instance]
                 /\ \A i \in 1 .. MaxInstances : seen[i] > 0 => i <= delivered'.instance ]_vars
  <2>1. SUFFICES ASSUME Next, pc = "await", pc' = "idle", FromService(delivered')
                 PROVE  /\ delivered'.seq >= asked
                        /\ delivered'.seq >= seen[delivered'.instance]
                        /\ \A i \in 1 .. MaxInstances : seen[i] > 0 => i <= delivered'.instance
    BY <1>1
  <2>2. Takes
    BY <1>1, <2>1, StepKinds, QuietSteps, FallbackSteps
  <2> QED
    BY <1>1, <2>2, TakenSample DEF Ours
<1> QED
  BY <1>1, SessionInvariance, PTL DEF Spec, SamplesAreCurrent

\* Behind a restart of the service the desktop falls back before it takes
\* samples of the new process.
THEOREM NoticedRestarts == Spec => RestartsAreNoticed
<1>1. ASSUME SessionInv, [Next]_vars
      PROVE  [ FromService(delivered) /\ FromService(delivered') =>
                 delivered'.instance = delivered.instance ]_vars
  <2>1. SUFFICES ASSUME Next, FromService(delivered), FromService(delivered')
                 PROVE  delivered'.instance = delivered.instance
    BY <1>1
  <2>2. CASE Takes
    <3>1. delivered.instance = session.instance
      BY <1>1, <2>1 DEF SessionInv, SampleInv
    <3> QED
      BY <1>1, <2>2, <3>1, TakenSample
  <2>3. CASE ~Takes
    BY <1>1, <2>1, <2>3, StepKinds, QuietSteps, FallbackSteps
  <2> QED
    BY <2>2, <2>3
<1> QED
  BY <1>1, SessionInvariance, PTL DEF Spec, RestartsAreNoticed

\* Only an end for incompatibility makes the status Incompatible.
LEMMA IncompatibleEnds ==
  ASSUME NEW kind \in {"Stopped", "Restarted", "NotReady", "Failed", "Incompatible"}, Ends(kind),
         status' = "Incompatible"
  PROVE  kind = "Incompatible"
BY DEF Ends, StatusOf

\* The service is taken for incompatible only where it has answered the request
\* at hand that its sample is not valid (response_outcome, latest_sample_once).
THEOREM AnswersAreUnderstood == Spec => OnlyInvalidIsIncompatible
<1>1. ASSUME SessionInv, [Next]_vars
      PROVE  [ pc # "idle" /\ pc' = "idle" /\ status' = "Incompatible" =>
                 /\ pc = "await" /\ cur.reply.kind = "invalid"
                 /\ cur.reply.id = session.nextId - 1
                 /\ cur.reply.instance = session.instance ]_vars
  <2>1. SUFFICES ASSUME Next, pc # "idle", pc' = "idle", status' = "Incompatible"
                 PROVE  ToldInvalid
    BY <1>1 DEF ToldInvalid
  <2>2. ~Quietly
    BY <2>1 DEF Quietly, Listen, Reap, ServeCurrent, ServeNew, CloseIdle, Tick, RetryComesDue,
                ServiceStarts, ServiceStops, CloseUnauthenticated, OtherConnects, OtherLeaves,
                Publish, Collect, Open, Verifies, Negotiates, Ask, GivesUpRenewal, KeepsAsking,
                TriesAgain, Retries, clientVars
  <2>3. ~CollectAlone /\ ~Takes
    BY <2>1 DEF CollectAlone, Takes
  <2>4. SomeEnd
    BY <1>1, <2>1, <2>2, <2>3, StepKinds
  <2> QED
    BY <2>1, <2>4, IncompatibleEnds DEF SomeEnd
<1> QED
  BY <1>1, SessionInvariance, PTL DEF Spec, OnlyInvalidIsIncompatible
=============================================================================
