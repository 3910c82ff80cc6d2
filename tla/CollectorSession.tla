-------------------------- MODULE CollectorSession --------------------------
(***************************************************************************)
(* One desktop and the Windows collector service it takes its samples      *)
(* from: DesktopCollector and ServiceClientSession (client.rs) over the    *)
(* pipe of windows_client.rs, against the listener and the per-connection  *)
(* threads of windows_transport.rs, which answer from the service's latest *)
(* publication (host.rs).  Other desktops are a number of busy threads.    *)
(*                                                                         *)
(* Writing a request, its handling and reading the answer are steps of     *)
(* their own: a service may die, run out of patience or publish in         *)
(* between, and an answer may come after its reader has given up.  Desktop *)
(* and service are of the same release and trust each other (the checks of *)
(* authorization.rs and transport_policy.rs succeed).                      *)
(***************************************************************************)
EXTENDS Naturals

CONSTANTS MaxClients,        \* MAX_CLIENTS
          MaxRequests,       \* SESSION_MAX_REQUESTS
          RenewAfter,        \* SESSION_RENEW_AFTER_REQUESTS
          IdleTimeout,       \* SESSION_IDLE_TIMEOUT, in ticks
          RenewIdle,         \* SESSION_RENEW_IDLE_AFTER, in ticks
          OperationTimeout,  \* OPERATION_TIMEOUT, in ticks
          MaxInstances, MaxRevision, MaxFaults   \* bounds of the model

\* session_lease.rs leaves headroom for one late answer and one slow renewal.
ASSUME LimitsAssumption ==
  /\ MaxClients \in Nat \ {0} /\ MaxRequests \in Nat /\ RenewAfter \in 2 .. MaxRequests - 1
  /\ RenewIdle \in Nat \ {0} /\ OperationTimeout \in Nat \ {0}
  /\ IdleTimeout \in Nat /\ RenewIdle + 2 * OperationTimeout <= IdleTimeout
ASSUME SessionBoundsAssumption ==
  MaxInstances \in Nat \ {0} /\ MaxRevision \in Nat /\ MaxFaults \in Nat

VARIABLES service,       \* its instance, whether it runs, its latest publication
          others,        \* threads that serve other desktops
          leaving,       \* threads whose client has gone, until they notice
          listener,      \* the listening pipe: free, ours, other, abandoned
          cur,           \* the session's connection, both ends
          new,           \* the connection that is being negotiated
          pc, purpose,   \* where the collecting thread is, and what it connects for
          session,       \* ServiceClientSession
          approval,      \* SampleBoundWorkloadApproval
          status,        \* last_status.state
          retryDue,      \* retry_at has passed
          delivered,     \* what collect last returned
          waited,        \* ticks the current operation has taken
          asked,         \* history: the publication there was when the request was made
          seen,          \* history: per instance, the newest sample returned
          lost,          \* history: per instance, the newest sample returned before a failure
          faults         \* what MaxFaults bounds

serverVars == <<service, others, leaving, listener>>
clientVars == <<session, approval, status, retryDue, delivered, asked, seen, lost>>
vars == <<serverVars, cur, new, pc, purpose, waited, clientVars, faults>>

NoRequest == [id |-> 0, after |-> 0]
NoReply == [id |-> 0, kind |-> "none", instance |-> 0, seq |-> 0]

\* limit: closed because it was idle too long or had too many requests
NoConnection ==
  [instance |-> 0, state |-> "none", limit |-> FALSE, requests |-> 0, idle |-> 0,
   request |-> NoRequest, reply |-> NoReply]

NoSession == [instance |-> 0, nextId |-> 0, requests |-> 0, idle |-> 0, last |-> 0]
NoSample == [from |-> "none", instance |-> 0, seq |-> 0, context |-> FALSE]
NoApproval == [instance |-> 0, seq |-> 0, peer |-> 0, context |-> FALSE]

Instance == 0 .. MaxInstances
Revision == 0 .. MaxRevision
RequestId == 0 .. MaxRequests + 2

Service == [instance : Instance, up : BOOLEAN, revision : Revision,
            event : {"none", "sample", "invalid", "unavailable", "fatal"}]

Request == [id : RequestId, after : Revision]

Reply == [id : RequestId, kind : {"none", "negotiated", "snapshot", "unchanged", "ahead",
                                  "notReady", "invalid", "fatal"},
          instance : Instance, seq : Revision]

Connection ==
  [instance : Instance, state : {"none", "waiting", "served", "closed"}, limit : BOOLEAN,
   requests : 0 .. MaxRequests, idle : 0 .. IdleTimeout, request : Request, reply : Reply]

Session == [instance : Instance, nextId : RequestId, requests : 0 .. MaxRequests + 2,
            idle : 0 .. RenewIdle, last : Revision]

Approval == [instance : Instance, seq : Revision, peer : Instance, context : BOOLEAN]

Sample == [from : {"none", "local", "failed", "service"}, instance : Instance, seq : Revision,
           context : BOOLEAN]

TypeOK ==
  /\ service \in Service
  /\ others \in 0 .. MaxClients /\ leaving \in 0 .. MaxClients
  /\ listener \in {"free", "ours", "other", "abandoned"}
  /\ cur \in Connection /\ new \in Connection
  /\ pc \in {"idle", "open", "verify", "hello", "ask", "await"}
  /\ purpose \in {"none", "connect", "renew", "retry"}
  /\ session \in Session /\ approval \in Approval /\ delivered \in Sample
  /\ status \in {"none", "Active", "Stopped", "Recovering", "Connecting", "Incompatible",
                 "Failed"}
  /\ retryDue \in BOOLEAN
  /\ waited \in 0 .. OperationTimeout
  /\ asked \in Revision
  /\ seen \in [1 .. MaxInstances -> Revision] /\ lost \in [1 .. MaxInstances -> Revision]
  /\ faults \in 0 .. MaxFaults

Init ==
  /\ service = [instance |-> 0, up |-> FALSE, revision |-> 0, event |-> "none"]
  /\ others = 0 /\ leaving = 0 /\ listener = "free"
  /\ cur = NoConnection /\ new = NoConnection
  /\ pc = "idle" /\ purpose = "none"
  /\ session = NoSession /\ approval = NoApproval /\ status = "none" /\ retryDue = TRUE
  /\ delivered = NoSample /\ waited = 0 /\ asked = 0
  /\ seen = [i \in 1 .. MaxInstances |-> 0] /\ lost = seen /\ faults = 0

HasSession == session # NoSession
Fault == faults < MaxFaults /\ faults' = faults + 1

-----------------------------------------------------------------------------
(* The service                                                              *)

\* A new process has a new instance id, and binds its pipe before it reports
\* that it runs.
ServiceStarts ==
  /\ ~service.up /\ service.instance < MaxInstances
  /\ service' = [instance |-> service.instance + 1, up |-> TRUE, revision |-> 0, event |-> "none"]
  /\ listener' = "free"
  /\ UNCHANGED <<others, leaving, cur, new, pc, purpose, waited, clientVars, faults>>

\* A process that ends may leave its last answer in the pipe, or take it along.
Broken(c) ==
  IF c.state = "none" THEN {c}
  ELSE {[c EXCEPT !.state = "closed", !.request = NoRequest, !.reply = r] : r \in {c.reply, NoReply}}

\* Stopped, killed, or ended by the failure run_pipe_server finds in the
\* latest publication
ServiceStops ==
  /\ service.up
  /\ IF service.event = "fatal" THEN UNCHANGED faults ELSE Fault
  /\ service' = [service EXCEPT !.up = FALSE]
  /\ cur' \in Broken(cur) /\ new' \in Broken(new)
  /\ others' = 0 /\ leaving' = 0 /\ listener' = "abandoned"
  /\ UNCHANGED <<pc, purpose, waited, clientVars>>

\* The service's collector engine publishes.  A sample that the contract does
\* not allow (too many processes, a count or value that is wrong) is invalid
\* to refresh_state; a paused heartbeat is answered like an unavailable
\* collector, and nothing follows a fatal error.
Publish(event) ==
  /\ service.up /\ service.event # "fatal" /\ service.revision < MaxRevision
  /\ service' = [service EXCEPT !.revision = @ + 1, !.event = event]
  /\ IF event = "sample" THEN UNCHANGED faults ELSE Fault
  /\ UNCHANGED <<others, leaving, listener, cur, new, pc, purpose, waited, clientVars>>

Served(c) == c.state = "served"
One(b) == IF b THEN 1 ELSE 0
Workers == others + leaving + One(Served(cur)) + One(Served(new))

\* run_pipe_server: a connected pipe gets a thread and a successor, one that
\* was left gets a successor; while every thread is busy it is let wait.
Listen ==
  /\ service.up /\ Workers < MaxClients /\ listener # "free"
  /\ listener' = "free"
  /\ new' = IF listener = "ours" THEN [new EXCEPT !.state = "served"] ELSE new
  /\ others' = others + One(listener = "other")
  /\ UNCHANGED <<service, leaving, cur, pc, purpose, waited, clientVars, faults>>

\* reap_workers: a thread finds its client gone.
Reap ==
  /\ leaving > 0
  /\ leaving' = leaving - 1
  /\ UNCHANGED <<service, others, listener, cur, new, pc, purpose, waited, clientVars, faults>>

OtherConnects ==
  /\ service.up /\ listener = "free"
  /\ listener' = "other"
  /\ Fault
  /\ UNCHANGED <<service, others, leaving, cur, new, pc, purpose, waited, clientVars>>

OtherLeaves ==
  /\ others > 0
  /\ others' = others - 1
  /\ UNCHANGED <<service, leaving, listener, cur, new, pc, purpose, waited, clientVars, faults>>

AnswersFirst(after, id) ==
  [id |-> id, instance |-> service.instance, seq |-> One(service.revision > after),
   kind |-> IF service.revision = 0 \/ after > 0 THEN "notReady" ELSE "snapshot"]

\* CollectorSnapshotSource::latest, of the publication there is now
Answers(after, id) ==
  LET answer(kind) == [id |-> id, kind |-> kind, instance |-> service.instance,
                       seq |-> IF kind \in {"snapshot", "unchanged"} THEN service.revision ELSE 0]
  IN CASE service.revision = 0 \/ service.event = "unavailable" -> answer("notReady")
       [] service.event = "invalid" -> answer("invalid")
       [] service.event = "fatal" -> answer("fatal")
       [] service.event = "sample" /\ after > service.revision -> answer("ahead")
       [] service.event = "sample" /\ after = service.revision -> answer("unchanged")
       [] service.event = "sample" /\ after < service.revision -> answer("snapshot")

Negotiated(id) == [id |-> id, kind |-> "negotiated", instance |-> service.instance, seq |-> 0]
IsFailure(reply) == reply.kind \in {"notReady", "invalid", "fatal", "ahead"}

\* serve_client takes a request of connection c: too many end it without an
\* answer; a failure is the last answer, and closing the pipe behind it may
\* take it away from the client.
Handled(c) ==
  LET reply == IF c.request.id = 1 THEN Negotiated(1) ELSE Answers(c.request.after, c.request.id)
      taken == [c EXCEPT !.request = NoRequest, !.idle = 0, !.requests = c.requests + 1]
  IN IF c.requests >= MaxRequests
     THEN {[c EXCEPT !.request = NoRequest, !.state = "closed", !.limit = TRUE]}
     ELSE IF IsFailure(reply)
     THEN {[taken EXCEPT !.state = "closed", !.reply = reply], [taken EXCEPT !.state = "closed"]}
     ELSE {[taken EXCEPT !.reply = reply]}

CanHandle(c) == Served(c) /\ c.request # NoRequest /\ c.idle < IdleTimeout

ServeCurrent ==
  /\ CanHandle(cur) /\ cur' \in Handled(cur)
  /\ UNCHANGED <<serverVars, new, pc, purpose, waited, clientVars, faults>>

ServeNew ==
  /\ CanHandle(new) /\ new' \in Handled(new)
  /\ UNCHANGED <<serverVars, cur, pc, purpose, waited, clientVars, faults>>

CloseIdle ==
  /\ Served(cur) /\ cur.idle >= IdleTimeout
  /\ cur' = [cur EXCEPT !.state = "closed", !.limit = TRUE, !.request = NoRequest]
  /\ UNCHANGED <<serverVars, new, pc, purpose, waited, clientVars, faults>>

\* CLIENT_AUTH_TIMEOUT: the desktop was slow to verify its peer.
CloseUnauthenticated ==
  /\ pc = "verify" /\ Served(new)
  /\ new' = [new EXCEPT !.state = "closed"]
  /\ Fault
  /\ UNCHANGED <<serverVars, cur, pc, purpose, waited, clientVars>>

-----------------------------------------------------------------------------
(* Time                                                                     *)

Smaller(a, b) == IF a < b THEN a ELSE b
Aged(c) == IF Served(c) THEN [c EXCEPT !.idle = Smaller(@ + 1, IdleTimeout)] ELSE c
Reading == IF pc = "await" THEN cur ELSE new
Waiting == pc \in {"hello", "await"} /\ Reading.state # "closed" /\ Reading.reply = NoReply

\* Every thread serves another client, and none of them is about to end.
FullHouse == Workers >= MaxClients /\ leaving = 0

\* Time passes between collections, and in an operation until its deadline; an
\* operation takes that long only if the house is full, or the service stalls.
Tick ==
  /\ pc = "idle" \/ (Waiting /\ waited < OperationTimeout)
  /\ waited' = IF Waiting THEN waited + 1 ELSE waited
  /\ IF Waiting /\ ~(FullHouse /\ Reading.state = "waiting") THEN Fault ELSE UNCHANGED faults
  /\ cur' = Aged(cur) /\ new' = Aged(new)
  /\ session' = IF HasSession THEN [session EXCEPT !.idle = Smaller(@ + 1, RenewIdle)] ELSE session
  /\ UNCHANGED <<serverVars, pc, purpose, approval, status, retryDue, delivered, asked, seen, lost>>

RetryComesDue ==
  /\ pc = "idle" /\ ~retryDue
  /\ retryDue' = TRUE
  /\ UNCHANGED <<serverVars, cur, new, pc, purpose, waited, session, approval, status, delivered,
                 asked, seen, lost, faults>>

-----------------------------------------------------------------------------
(* The desktop: connecting                                                  *)

Fallback == {[NoSample EXCEPT !.from = "local"], [NoSample EXCEPT !.from = "failed"]}

\* The client closes its ends: a thread will notice, a listener is left behind.
LetGo(cs) ==
  /\ leaving' = leaving + One("cur" \in cs /\ Served(cur)) + One("new" \in cs /\ Served(new))
  /\ listener' = IF "new" \in cs /\ new.state = "waiting" THEN "abandoned" ELSE listener

\* status_from_failure
StatusOf(kind) ==
  CASE kind = "Stopped" -> "Stopped"
    [] kind = "Restarted" -> "Recovering"
    [] kind = "NotReady" -> "Connecting"
    [] kind = "Incompatible" -> "Incompatible"
    [] kind = "Failed" -> IF status = "Active" THEN "Recovering" ELSE "Failed"

RevokedAltogether == NoApproval

\* The approval is forgotten, not the sample it was for.
Revoked == [approval EXCEPT !.peer = 0, !.context = FALSE]

\* The session is dropped, note_failure, and the standard collector is asked.
Ends(kind) ==
  /\ session' = NoSession /\ cur' = NoConnection /\ new' = NoConnection /\ LetGo({"cur", "new"})
  /\ approval' = Revoked /\ status' = StatusOf(kind) /\ retryDue' = FALSE
  /\ delivered' \in Fallback /\ lost' = seen
  /\ pc' = "idle" /\ purpose' = "none" /\ waited' = 0 /\ asked' = 0
  /\ UNCHANGED <<service, others, seen>>

\* renew_connection gives its new connection up and the session its old one a try.
KeepsAsking ==
  /\ new' = NoConnection /\ LetGo({"new"})
  /\ pc' = "ask" /\ waited' = 0
  /\ UNCHANGED <<service, others, cur, purpose, clientVars>>

Final == {"Restarted", "Incompatible", "Unauthorized"}

\* Connecting or negotiating has failed.
ConnectFails(kind) ==
  IF purpose = "renew" /\ kind \notin Final THEN KeepsAsking ELSE Ends(kind)

RenewalDueAtTheLimit == session.idle >= RenewIdle \/ session.requests >= MaxRequests + 1

\* should_renew_session
RenewalDue == session.idle >= RenewIdle \/ session.requests >= RenewAfter

CollectAloneGivingUp ==
  /\ pc = "idle" /\ ~HasSession
  /\ \/ /\ retryDue /\ status # "Failed"
        /\ pc' = "open" /\ purpose' = "connect"
        /\ UNCHANGED <<clientVars>>
     \/ /\ ~retryDue \/ status = "Failed"
        /\ delivered' \in Fallback
        /\ UNCHANGED <<pc, purpose, session, approval, status, retryDue, asked, seen, lost>>
  /\ UNCHANGED <<serverVars, cur, new, waited, faults>>

\* DesktopCollector::collect without a session
CollectAlone ==
  /\ pc = "idle" /\ ~HasSession
  /\ \/ /\ retryDue
        /\ pc' = "open" /\ purpose' = "connect"
        /\ UNCHANGED <<clientVars>>
     \/ /\ ~retryDue
        /\ delivered' \in Fallback
        /\ UNCHANGED <<pc, purpose, session, approval, status, retryDue, asked, seen, lost>>
  /\ UNCHANGED <<serverVars, cur, new, waited, faults>>

\* ... and with one
Collect ==
  /\ pc = "idle" /\ HasSession
  /\ pc' = IF RenewalDue THEN "open" ELSE "ask"
  /\ purpose' = IF RenewalDue THEN "renew" ELSE "none"
  /\ UNCHANGED <<serverVars, cur, new, waited, clientVars, faults>>

\* WaitNamedPipeW and CreateFileW: they fail if the listener stays busy.
Open ==
  /\ pc = "open" /\ service.up /\ listener = "free"
  /\ new' = [NoConnection EXCEPT !.instance = service.instance, !.state = "waiting"]
  /\ listener' = "ours" /\ pc' = "verify"
  /\ UNCHANGED <<service, others, leaving, cur, purpose, waited, clientVars, faults>>

OpenFails ==
  /\ pc = "open"
  /\ \/ ~service.up /\ ConnectFails("Stopped") /\ UNCHANGED faults
     \/ /\ service.up /\ listener # "free" /\ ConnectFails("Failed")
        /\ IF FullHouse THEN UNCHANGED faults ELSE Fault

\* verify_service_peer: does the connected process still run as the service?
Verify ==
  /\ pc = "verify"
  /\ \/ /\ service.up /\ service.instance = new.instance
        /\ new' = IF new.state = "closed" THEN new ELSE [new EXCEPT !.request = [id |-> 1, after |-> 0]]
        /\ pc' = "hello"
        /\ UNCHANGED <<serverVars, cur, purpose, waited, clientVars>>
     \/ ~service.up /\ ConnectFails("Stopped")
     \/ service.up /\ service.instance # new.instance /\ ConnectFails("Restarted")
  /\ UNCHANGED faults

RenewsAnyInstance == TRUE

\* renew_connection takes only the instance it already knows.
SameService == purpose = "connect" \/ new.reply.instance = session.instance

\* The session after a negotiation; a new one has no last sample.
Renewed ==
  [instance |-> new.reply.instance, nextId |-> 2, requests |-> 1, idle |-> 0, last |-> session.last]

\* ServiceClientSession::connect and the end of renew_connection
Hello ==
  /\ pc = "hello" /\ new.reply # NoReply
  /\ \/ /\ SameService
        /\ session' = Renewed
        /\ cur' = [new EXCEPT !.reply = NoReply] /\ new' = NoConnection
        /\ LetGo({"cur"})
        /\ pc' = "ask" /\ waited' = 0
        /\ UNCHANGED <<service, others, purpose, approval, status, retryDue, delivered, asked, seen,
                       lost>>
     \/ ~SameService /\ ConnectFails("Restarted")
  /\ UNCHANGED faults

TimedOut(c) == c.reply = NoReply /\ (c.state = "closed" \/ waited >= OperationTimeout)

HelloFails == pc = "hello" /\ TimedOut(new) /\ ConnectFails("Failed") /\ UNCHANGED faults

-----------------------------------------------------------------------------
(* The desktop: asking                                                      *)

RetriesOnTheSamePipe ==
  /\ pc' = "ask" /\ purpose' = "retry" /\ waited' = 0
  /\ UNCHANGED <<serverVars, cur, new, clientVars>>

\* A first Failed answer is retried on a new connection.
Retries ==
  /\ pc' = "open" /\ purpose' = "retry" /\ waited' = 0
  /\ UNCHANGED <<serverVars, cur, new, clientVars>>

AskFails(kind) ==
  IF kind = "Failed" /\ purpose \notin {"renew", "retry"} THEN Retries ELSE Ends(kind)

\* latest_sample_once writes its request.
Ask ==
  /\ pc = "ask"
  /\ session' = [session EXCEPT !.nextId = @ + 1, !.requests = @ + 1]
  /\ cur' = IF cur.state = "closed" THEN cur
            ELSE [cur EXCEPT !.request = [id |-> session.nextId, after |-> session.last]]
  /\ asked' = service.revision /\ pc' = "await"
  /\ UNCHANGED <<serverVars, new, purpose, waited, approval, status, retryDue, delivered, seen, lost,
                 faults>>

AskIsLost == pc = "await" /\ TimedOut(cur) /\ AskFails("Failed") /\ UNCHANGED faults

\* latest_sample_once on the answer
Accepted(reply) ==
  /\ reply.id = session.nextId - 1 /\ reply.instance = session.instance
  /\ \/ reply.kind = "snapshot" /\ reply.seq > session.last
     \/ reply.kind = "unchanged" /\ reply.seq = session.last

\* response_outcome: Malformed, Oversized and StaleSequence are Incompatible,
\* and so is an answer the sequence checks refuse.
KindOf(reply) ==
  IF reply.id # session.nextId - 1 THEN "Incompatible"
  ELSE CASE reply.kind = "notReady" -> "NotReady"
         [] reply.kind = "fatal" -> "Failed"
         [] OTHER -> "Incompatible"

\* context_for: the sample a context was given for keeps it while its peer
\* stays; a new sample's processes are probed.
Approvals(sample) ==
  IF approval.instance = sample.instance /\ approval.seq = sample.seq
  THEN {IF approval.peer = session.instance THEN approval ELSE Revoked}
  ELSE {[instance |-> sample.instance, seq |-> sample.seq, peer |-> session.instance,
         context |-> c] : c \in BOOLEAN}

Answered ==
  /\ pc = "await" /\ cur.reply # NoReply
  /\ \/ /\ Accepted(cur.reply)
        /\ approval' \in Approvals(cur.reply)
        /\ delivered' = [from |-> "service", instance |-> cur.reply.instance, seq |-> cur.reply.seq,
                         context |-> approval'.context]
        /\ seen' = [seen EXCEPT ![cur.reply.instance] = cur.reply.seq]
        /\ session' = [session EXCEPT !.last = cur.reply.seq, !.idle = 0]
        /\ cur' = [cur EXCEPT !.reply = NoReply] /\ status' = "Active"
        /\ pc' = "idle" /\ purpose' = "none" /\ waited' = 0 /\ asked' = 0
        /\ UNCHANGED <<serverVars, new, retryDue, lost>>
     \/ ~Accepted(cur.reply) /\ AskFails(KindOf(cur.reply))
  /\ UNCHANGED faults

-----------------------------------------------------------------------------
Desktop ==
  \/ CollectAlone \/ Collect \/ Open \/ OpenFails \/ Verify \/ Hello \/ HelloFails
  \/ Ask \/ AskIsLost \/ Answered

Threads == Listen \/ Reap \/ ServeCurrent \/ ServeNew \/ CloseIdle

Next ==
  \/ Desktop \/ Threads \/ Tick \/ RetryComesDue
  \/ ServiceStarts \/ ServiceStops \/ CloseUnauthenticated \/ OtherConnects \/ OtherLeaves
  \/ \E event \in {"sample", "invalid", "unavailable", "fatal"} : Publish(event)

\* The collecting thread keeps collecting, its retry delay passes, and the
\* service's threads poll their pipes.  Nobody need leave, publish or restart.
Fairness ==
  /\ WF_vars(Desktop) /\ WF_vars(RetryComesDue)
  /\ WF_vars(Listen) /\ WF_vars(Reap) /\ WF_vars(ServeCurrent) /\ WF_vars(ServeNew)

Spec == Init /\ [][Next]_vars /\ Fairness

-----------------------------------------------------------------------------
(* Properties                                                               *)

FromService(d) == d.from = "service"

\* collect returns what the service knew when it was asked, or newer: never an
\* answer that was late, a sample older than one it returned before, or one of
\* a service process that has had a successor (latest_sample_once).
SamplesAreCurrent ==
  [][ pc = "await" /\ pc' = "idle" /\ FromService(delivered') =>
        /\ delivered'.seq >= asked
        /\ delivered'.seq >= seen[delivered'.instance]
        /\ \A i \in 1 .. MaxInstances : seen[i] > 0 => i <= delivered'.instance ]_vars

\* Two samples in a row from the service are of one process: behind a restart
\* the desktop first falls back, so that nothing is compared across it
\* (renew_connection's Restarted).
RestartsAreNoticed ==
  [][ FromService(delivered) /\ FromService(delivered') => delivered'.instance = delivered.instance ]_vars

\* A desktop takes a service of its own release for incompatible only when that
\* service has answered this very request that its sample is not valid: late,
\* lost and repeated answers, renewals and restarts are never taken for a
\* protocol violation (response_outcome, the checks of latest_sample_once).
OnlyInvalidIsIncompatible ==
  [][ pc # "idle" /\ pc' = "idle" /\ status' = "Incompatible" =>
        /\ pc = "await" /\ cur.reply.kind = "invalid"
        /\ cur.reply.id = session.nextId - 1 /\ cur.reply.instance = session.instance ]_vars

\* A session does not run into the server's limits before it has tried to
\* renew its connection (session_lease.rs against serve_client).
LimitsAreForeseen == pc = "await" /\ cur.limit => purpose \in {"renew", "retry"}

\* The context a sample had is not given again once the session that gave it
\* has failed (SampleBoundWorkloadApproval::revoke).
RevokedStaysRevoked ==
  FromService(delivered) /\ delivered.seq <= lost[delivered.instance] => ~delivered.context

\* Once the service stays up with samples to give and the others have left,
\* the desktop ends its fallback for good (retry_at, renewal and retry).
ServiceIsUsed ==
  <>[](service.up /\ service.event = "sample" /\ others = 0 /\ listener # "other")
    => <>[](FromService(delivered))
=============================================================================
