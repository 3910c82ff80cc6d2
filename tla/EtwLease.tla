------------------------------ MODULE EtwLease ------------------------------
(***************************************************************************)
(* The machine-wide ETW session of the collector service and the lease     *)
(* file that says whose it is.  A session outlives the process that        *)
(* started it, so the service writes its intent before it starts one,      *)
(* records that it runs, marks it stopping before it ends it, and removes  *)
(* the record once the session is proved gone.  A service that finds a     *)
(* record of an earlier one decides from the lease, the session and the    *)
(* recorded controller whether it may discard, reclaim, or must hold off.  *)
(*                                                                         *)
(* A process runs the service once.  It may crash at every step, any call  *)
(* it makes may fail, the machine may restart (and bring back a lease      *)
(* whose removal had not reached the disk), the installed program may be   *)
(* replaced, and other programs may hold or end a session of that name.    *)
(***************************************************************************)
EXTENDS Naturals

CONSTANTS Procs,            \* processes, each a process id with its creation time
          Boots,            \* boot identifiers
          Generations,      \* digests of the service program
          Identities,       \* session identities: name, provider, flags, configuration
          SessionOf,        \* the identity a program of a generation configures
          ForeignIdentity,  \* that of a session another program started
          InitialLeases,    \* what may be in the lease file at first
          External,         \* do other programs touch a session of this name?
          MaxDisturbances,  \* bound on failures, crashes, stops and outsiders' acts
          Absent, Unavailable, Corrupt, Untrusted, NoProc, Reused

VARIABLES lease,         \* the lease file
          survivors,     \* what it may hold after a power loss
          session,       \* the ETW session of the service's name
          boot,          \* the current boot
          installed,     \* the generation of the installed program
          marker,        \* holder of the service lifecycle lock
          owner,         \* holder of the ETW owner lock
          pc,            \* where each process is in run_service_body
          snap,          \* its latest snapshot of the lease
          seen,          \* its latest observation of the session
          monitor,       \* its monitor: none, open, or settled clean or failed
          disturbances   \* how many disturbances have happened

vars == <<lease, survivors, session, boot, installed, marker, owner,
          pc, snap, seen, monitor, disturbances>>

Phases == {"Intent", "Active", "Stopping"}

Lease == [phase : Phases, generation : Generations, boot : Boots,
          controller : Procs, session : Identities]

\* Corrupt stands for every lease that is refused whoever asks: too large, not
\* parsed, of another schema or installation, or malformed.
Damaged == {Corrupt, Untrusted}
Leases == Lease \cup {Absent} \cup Damaged
Trusted(l) == l \notin {Absent} \cup Damaged

Session == [identity : Identities, by : Procs \cup {NoProc}]

\* The places of run_service_body; those of OwnerPlaces lie between the
\* acquisition of the owner lock and its release.
RecoveryPlaces == {"observe", "querySession", "decide", "reclaim", "stopExact", "requery",
                   "recheck", "discard", "removeStale"}
StartPlaces == {"intent", "startTrace", "openTrace", "active", "abort", "drop",
                "cleanup", "removeOwn"}
ServicePlaces == {"serving", "dropEngine", "markStopping", "markDropped", "join",
                  "joinUnmarked", "proveAbsence"}
OwnerPlaces == RecoveryPlaces \cup StartPlaces \cup ServicePlaces
Places == OwnerPlaces \cup {"dead", "acquire", "leaving", "lingering"}

ASSUME ConstantsAssumption ==
  /\ SessionOf \in [Generations -> Identities]
  /\ ForeignIdentity \in Identities
  /\ \A g \in Generations : SessionOf[g] # ForeignIdentity
  /\ InitialLeases \subseteq {Absent} \cup Damaged
  /\ External \in BOOLEAN
  /\ MaxDisturbances \in Nat
  /\ NoProc \notin Procs
  /\ {Absent, Unavailable} \cap Identities = {}
  /\ {Absent, Unavailable, Reused} \cap Procs = {}
  /\ Absent # Unavailable
  /\ Absent \notin Damaged
  /\ Lease \cap ({Absent} \cup Damaged) = {}
  /\ Absent \notin Session

TypeOK ==
  /\ lease \in Leases
  /\ survivors \subseteq Leases
  /\ session \in Session \cup {Absent}
  /\ boot \in Boots
  /\ installed \in Generations
  /\ marker \in Procs \cup {NoProc}
  /\ owner \in Procs \cup {NoProc}
  /\ pc \in [Procs -> Places]
  /\ snap \in [Procs -> Leases]
  /\ seen \in [Procs -> Identities \cup {Absent, Unavailable}]
  /\ monitor \in [Procs -> {"none", "open", "clean", "failed"}]
  /\ disturbances \in Nat

Init ==
  /\ lease \in InitialLeases
  /\ survivors = {lease}
  /\ session = Absent
  /\ boot \in Boots
  /\ installed \in Generations
  /\ marker = NoProc
  /\ owner = NoProc
  /\ pc = [p \in Procs |-> "dead"]
  /\ snap = [p \in Procs |-> Absent]
  /\ seen = [p \in Procs |-> Absent]
  /\ monitor = [p \in Procs |-> "none"]
  /\ disturbances = 0

-----------------------------------------------------------------------------
Alive(p) == pc[p] # "dead"

Goto(p, place) == pc' = [pc EXCEPT ![p] = place]

\* A failing call, a crash, a stop request or an outsider's act uses one of the
\* disturbances of the run.
Disturb == /\ disturbances < MaxDisturbances
           /\ disturbances' = disturbances + 1

Call(ok) == IF ok THEN UNCHANGED disturbances ELSE Disturb

\* What a query of the session of the configured name tells.
SessionSeen == IF session = Absent THEN Absent ELSE session.identity

\* StopTrace: the handle names the session that p started, or one that is gone.
AfterStopTrace(p) == IF session # Absent /\ session.by = p THEN Absent ELSE session

-----------------------------------------------------------------------------
\* EtwLeaseStore.  The lease p writes for itself.
OwnLease(p, phase) ==
  [phase |-> phase, generation |-> installed, boot |-> boot,
   controller |-> p, session |-> SessionOf[installed]]

\* verify_replacement_prior and verify_snapshot
Replaceable(p, l) ==
  /\ snap[p] \notin Damaged
  /\ Trusted(snap[p]) => /\ snap[p].generation = l.generation
                         /\ snap[p].boot = l.boot
                         /\ snap[p].session = l.session
  /\ snap[p] = lease

\* replace, then observe: the write may fail, or succeed and the observation
\* fail.  On Windows the move is written through.
ReplaceOutcomes == {"done", "failed", "unobserved"}
Written(p, l, r) == Replaceable(p, l) /\ r # "failed"
Replaced(p, l, r) == Replaceable(p, l) /\ r = "done"
Replace(p, l, r) ==
  /\ Call(r = "done")
  /\ lease' = IF Written(p, l, r) THEN l ELSE lease
  /\ survivors' = IF Written(p, l, r) THEN {l} ELSE survivors
  /\ snap' = IF Replaced(p, l, r) THEN [snap EXCEPT ![p] = l] ELSE snap

\* remove_after_proven_absence: refuses a damaged lease and one that changed.
\* The removal is not written through, a power loss may undo it.
Removed(p, r) == snap[p] \notin Damaged /\ snap[p] = lease /\ r # "failed"
Remove(p, r) ==
  /\ Call(r = "done")
  /\ lease' = IF Removed(p, r) THEN Absent ELSE lease
  /\ survivors' = IF Removed(p, r) THEN survivors \cup {Absent} ELSE survivors

-----------------------------------------------------------------------------
\* decide_etw_recovery, as the two decisions that let the start go on with a
\* lease in the file; every other lease, session or controller holds it off.
Matches(generation, l) ==
  /\ Trusted(l)
  /\ l.generation = generation
  /\ l.session = SessionOf[installed]

ControllerGoneWithItsIdentifier(l, c) == c = Absent
ControllerGone(l, c) == c \notin {Unavailable, l.controller}

DiscardsStale(generation, l, s, c) ==
  /\ Matches(generation, l)
  /\ s = Absent
  /\ l.boot = boot => ControllerGone(l, c)

ReclaimsUnproven(generation, l, s, c) ==
  Matches(generation, l) /\ s = l.session /\ l.boot = boot /\ c # l.controller
ReclaimsExact(generation, l, s, c) ==
  Matches(generation, l) /\ s = l.session /\ l.boot = boot /\ ControllerGone(l, c)

\* stale_prior_generation_can_be_discarded
DiscardsAnyPhase(l, s, c) ==
  Trusted(l) /\ DiscardsStale(l.generation, l, s, c)
DiscardsPriorGeneration(l, s, c) ==
  /\ Trusted(l)
  /\ l.generation # installed
  /\ l.phase = "Stopping"
  /\ DiscardsStale(l.generation, l, s, c)

\* observe_controller: a process that lives is seen as itself; of one that is
\* gone the identifier is free or names a younger process; or nothing is told.
ControllerKnown(l) == Trusted(l) /\ l.boot = boot
ControllerSeen(l) ==
  IF ControllerKnown(l)
    THEN {Unavailable} \cup (IF Alive(l.controller) THEN {l.controller} ELSE {Absent, Reused})
    ELSE {Unavailable}

\* controller_with_exclusive_owner
Corroborated(s, c) == IF s = Absent /\ c = Unavailable THEN Absent ELSE c

-----------------------------------------------------------------------------
\* service_main: the lifecycle lock is free.  The new process is none that the
\* lease, its earlier contents or the session still name.
Remembered == {l.controller : l \in {m \in survivors \cup {lease} : Trusted(m)}}
              \cup (IF session = Absent THEN {} ELSE {session.by})

StartService(p) ==
  /\ marker = NoProc
  /\ ~Alive(p)
  /\ p \notin Remembered
  /\ marker' = p
  /\ Goto(p, "acquire")
  /\ UNCHANGED <<lease, survivors, session, boot, installed, owner, snap, seen,
                 monitor, disturbances>>

\* WindowsEtwOwnerGuard::try_acquire
AcquireOwner(p, ok) ==
  /\ pc[p] = "acquire"
  /\ Call(ok)
  /\ IF ok /\ owner = NoProc
       THEN owner' = p /\ Goto(p, "observe")
       ELSE owner' = owner /\ Goto(p, "leaving")
  /\ UNCHANGED <<lease, survivors, session, boot, installed, marker, snap, seen, monitor>>

ObserveLease(p, ok) ==
  /\ pc[p] = "observe"
  /\ Call(ok)
  /\ IF ok
       THEN snap' = [snap EXCEPT ![p] = lease] /\ Goto(p, "querySession")
       ELSE snap' = snap /\ Goto(p, "leaving")
  /\ UNCHANGED <<lease, survivors, session, boot, installed, marker, owner, seen, monitor>>

QuerySession(p, ok) ==
  /\ pc[p] \in {"querySession", "requery"}
  /\ Call(ok)
  /\ seen' = [seen EXCEPT ![p] = IF ok THEN SessionSeen ELSE Unavailable]
  /\ Goto(p, IF pc[p] = "querySession" THEN "decide" ELSE "recheck")
  /\ UNCHANGED <<lease, survivors, session, boot, installed, marker, owner, snap, monitor>>

\* The controller is observed only for a trusted lease of this boot.
DecideRecovery(p, c) ==
  /\ pc[p] = "decide"
  /\ Call(~ControllerKnown(snap[p]) \/ c # Unavailable)
  /\ LET l == snap[p]
         s == seen[p]
         d == Corroborated(s, c)
     IN  Goto(p, IF \/ DiscardsPriorGeneration(l, s, d)
                    \/ DiscardsStale(installed, l, s, d)     THEN "discard"
                 ELSE IF l = Absent /\ s = Absent            THEN "intent"
                 ELSE IF ReclaimsExact(installed, l, s, d)   THEN "reclaim"
                 ELSE "leaving")
  /\ UNCHANGED <<lease, survivors, session, boot, installed, marker, owner,
                 snap, seen, monitor>>

\* The recovered lease keeps its controller and is marked stopping.
MarkReclaimed(p, r) ==
  /\ pc[p] = "reclaim"
  /\ LET l == [snap[p] EXCEPT !.phase = "Stopping"]
     IN  /\ Replace(p, l, r)
         /\ Goto(p, IF Replaced(p, l, r) THEN "stopExact" ELSE "leaving")
  /\ UNCHANGED <<session, boot, installed, marker, owner, seen, monitor>>

\* stop_session_if_exact: the session is queried again and stopped through the
\* handle the query returned.  The handle names that session and no later one, so
\* an outsider who ends it in between leaves the stop nothing to do.
StopByName(p, ok) ==
  /\ pc[p] = "stopExact"
  /\ Call(ok)
  /\ IF ok
       THEN session' = Absent /\ Goto(p, "requery")
       ELSE UNCHANGED session /\ Goto(p, "leaving")
  /\ UNCHANGED <<lease, survivors, boot, installed, marker, owner, snap, seen, monitor>>
StopExact(p, ok) ==
  /\ pc[p] = "stopExact"
  /\ Call(ok)
  /\ IF ok /\ SessionSeen = snap[p].session
       THEN session' = Absent /\ Goto(p, "requery")
       ELSE UNCHANGED session /\ Goto(p, "leaving")
  /\ UNCHANGED <<lease, survivors, boot, installed, marker, owner, snap, seen, monitor>>

\* After the stop an unknown controller is not corroborated.
Recheck(p, c) ==
  /\ pc[p] = "recheck"
  /\ Call(~ControllerKnown(snap[p]) \/ c # Unavailable)
  /\ Goto(p, IF DiscardsStale(installed, snap[p], seen[p], c) THEN "discard" ELSE "leaving")
  /\ UNCHANGED <<lease, survivors, session, boot, installed, marker, owner,
                 snap, seen, monitor>>

\* remove_stale_lease, remove_exact_lease_if_session_absent and
\* remove_after_absence first ask for the session once more.
ConfirmUnasked(p, ok) ==
  /\ pc[p] \in {"discard", "cleanup", "proveAbsence"}
  /\ Call(ok)
  /\ Goto(p, IF \/ ~ok
                \/ pc[p] = "proveAbsence" /\ monitor[p] # "clean" THEN "leaving"
             ELSE IF pc[p] = "discard" THEN "removeStale"
             ELSE "removeOwn")
  /\ UNCHANGED <<lease, survivors, session, boot, installed, marker, owner,
                 snap, seen, monitor>>
ConfirmAbsence(p, ok) ==
  /\ pc[p] \in {"discard", "cleanup", "proveAbsence"}
  /\ Call(ok)
  /\ Goto(p, IF \/ ~ok \/ session # Absent
                \/ pc[p] = "proveAbsence" /\ monitor[p] # "clean" THEN "leaving"
             ELSE IF pc[p] = "discard" THEN "removeStale"
             ELSE "removeOwn")
  /\ UNCHANGED <<lease, survivors, session, boot, installed, marker, owner,
                 snap, seen, monitor>>

RemoveStale(p, r) ==
  /\ pc[p] = "removeStale"
  /\ Remove(p, r)
  /\ IF Removed(p, r) /\ r = "done"
       THEN snap' = [snap EXCEPT ![p] = Absent] /\ Goto(p, "intent")
       ELSE snap' = snap /\ Goto(p, "leaving")
  /\ UNCHANGED <<session, boot, installed, marker, owner, seen, monitor>>

RemoveOwn(p, r) ==
  /\ pc[p] = "removeOwn"
  /\ r # "unobserved"
  /\ Remove(p, r)
  /\ Goto(p, "leaving")
  /\ UNCHANGED <<session, boot, installed, marker, owner, snap, seen, monitor>>

-----------------------------------------------------------------------------
\* ServiceEtwLifecycle::start, once recovery has let it go on
WriteIntent(p, r) ==
  /\ pc[p] = "intent"
  /\ Replace(p, OwnLease(p, "Intent"), r)
  /\ Goto(p, IF Replaced(p, OwnLease(p, "Intent"), r) THEN "startTrace" ELSE "leaving")
  /\ UNCHANGED <<session, boot, installed, marker, owner, seen, monitor>>

\* StartTraceW: a session of that name is an error, never one to adopt.
StartTrace(p, ok) ==
  /\ pc[p] = "startTrace"
  /\ Call(ok)
  /\ IF ok /\ session = Absent
       THEN /\ session' = [identity |-> SessionOf[installed], by |-> p]
            /\ Goto(p, "openTrace")
       ELSE UNCHANGED session /\ Goto(p, "cleanup")
  /\ UNCHANGED <<lease, survivors, boot, installed, marker, owner, snap, seen, monitor>>

\* open_trace and the consumer thread; a failure stops the session and ignores
\* whether that worked.
OpenOutcomes == {"ok", "stopped", "unstopped"}
OpenTrace(p, o) ==
  /\ pc[p] = "openTrace"
  /\ Call(o = "ok")
  /\ session' = IF o = "stopped" THEN AfterStopTrace(p) ELSE session
  /\ monitor' = IF o = "ok" THEN [monitor EXCEPT ![p] = "open"] ELSE monitor
  /\ Goto(p, IF o = "ok" THEN "active" ELSE "cleanup")
  /\ UNCHANGED <<lease, survivors, boot, installed, marker, owner, snap, seen>>

\* The lease is active.  A failed write ends the monitor and cleans up; a failed
\* observation drops the monitor and leaves the active lease.
WriteActive(p, r) ==
  /\ pc[p] = "active"
  /\ Replace(p, OwnLease(p, "Active"), r)
  /\ Goto(p, IF Replaced(p, OwnLease(p, "Active"), r) THEN "serving"
             ELSE IF Written(p, OwnLease(p, "Active"), r) THEN "drop"
             ELSE "abort")
  /\ UNCHANGED <<session, boot, installed, marker, owner, seen, monitor>>

\* NetworkAttributionMonitor::shutdown, called by start, by a drop, or by the
\* collector thread once the engine is told to shut down, which may be after
\* the service gave up waiting for it.  The first result is the settlement.
MonitorPlaces == {"abort", "drop", "dropEngine", "join", "joinUnmarked", "leaving", "lingering"}
ShutdownMonitor(p, stopped, joined) ==
  /\ pc[p] \in MonitorPlaces
  /\ monitor[p] = "open"
  /\ Call(stopped /\ joined)
  /\ session' = IF stopped THEN AfterStopTrace(p) ELSE session
  /\ monitor' = [monitor EXCEPT ![p] = IF stopped /\ joined THEN "clean" ELSE "failed"]
  /\ Goto(p, CASE pc[p] = "abort"      -> IF stopped /\ joined THEN "cleanup" ELSE "leaving"
               [] pc[p] = "drop"       -> "leaving"
               [] pc[p] = "dropEngine" -> "markDropped"
               [] OTHER                -> pc[p])
  /\ UNCHANGED <<lease, survivors, boot, installed, marker, owner, snap, seen>>

-----------------------------------------------------------------------------
\* run_service_body after start.  The collector engine may fail to start, which
\* drops the monitor; or the service ends: a stop request, a failed first
\* refresh, or a transport that failed.
EngineStartFails(p) ==
  /\ pc[p] = "serving"
  /\ Disturb
  /\ Goto(p, "dropEngine")
  /\ UNCHANGED <<lease, survivors, session, boot, installed, marker, owner, snap, seen, monitor>>

StopService(p) ==
  /\ pc[p] = "serving"
  /\ Disturb
  /\ Goto(p, "markStopping")
  /\ UNCHANGED <<lease, survivors, session, boot, installed, marker, owner, snap, seen, monitor>>

\* mark_stopping, from shutdown_engine and from finish_after_monitor_drop
MarkStopping(p, r) ==
  /\ pc[p] \in {"markStopping", "markDropped"}
  /\ LET l == OwnLease(p, "Stopping")
     IN  /\ Replace(p, l, r)
         /\ Goto(p, IF pc[p] = "markStopping"
                      THEN IF Replaced(p, l, r) THEN "join" ELSE "joinUnmarked"
                      ELSE IF Replaced(p, l, r) THEN "proveAbsence" ELSE "leaving")
  /\ UNCHANGED <<session, boot, installed, marker, owner, seen, monitor>>

\* engine.shutdown returns what the monitor's shutdown returned, or times out,
\* even when the monitor has ended and only its result is still to come.
JoinEngine(p) ==
  /\ pc[p] \in {"join", "joinUnmarked"}
  /\ monitor[p] # "open"
  /\ Goto(p, IF pc[p] = "join" /\ monitor[p] = "clean" THEN "proveAbsence" ELSE "leaving")
  /\ UNCHANGED <<lease, survivors, session, boot, installed, marker, owner,
                 snap, seen, monitor, disturbances>>

JoinTimesOut(p) ==
  /\ pc[p] \in {"join", "joinUnmarked"}
  /\ Disturb
  /\ Goto(p, "leaving")
  /\ UNCHANGED <<lease, survivors, session, boot, installed, marker, owner, snap, seen, monitor>>

\* run_service_body returns: the engine, then the owner lock, then the lifecycle
\* lock are dropped.  The process and its collector thread may live on.
Release(p) ==
  /\ owner' = IF owner = p THEN NoProc ELSE owner
  /\ marker' = IF marker = p THEN NoProc ELSE marker
  /\ snap' = [snap EXCEPT ![p] = Absent]
  /\ seen' = [seen EXCEPT ![p] = Absent]

Leave(p) ==
  /\ pc[p] = "leaving"
  /\ Release(p)
  /\ monitor' = [monitor EXCEPT ![p] = IF @ = "open" THEN @ ELSE "none"]
  /\ Goto(p, "lingering")
  /\ UNCHANGED <<lease, survivors, session, boot, installed, disturbances>>

Exit(p) ==
  /\ pc[p] = "lingering"
  /\ monitor' = [monitor EXCEPT ![p] = "none"]
  /\ Goto(p, "dead")
  /\ UNCHANGED <<lease, survivors, session, boot, installed, marker, owner, snap,
                 seen, disturbances>>

-----------------------------------------------------------------------------
\* The environment.  A crash releases the locks and leaves the session.
Crash(p) ==
  /\ Alive(p)
  /\ Disturb
  /\ Release(p)
  /\ monitor' = [monitor EXCEPT ![p] = "none"]
  /\ Goto(p, "dead")
  /\ UNCHANGED <<lease, survivors, session, boot, installed>>

\* A restart of the machine ends every process and every session.
Reboot(b) ==
  /\ b \notin {boot} \cup {l.boot : l \in {m \in survivors \cup {lease} : Trusted(m)}}
  /\ Disturb
  /\ boot' = b
  /\ lease' \in survivors
  /\ survivors' = {lease'}
  /\ session' = Absent
  /\ marker' = NoProc
  /\ owner' = NoProc
  /\ pc' = [p \in Procs |-> "dead"]
  /\ snap' = [p \in Procs |-> Absent]
  /\ seen' = [p \in Procs |-> Absent]
  /\ monitor' = [p \in Procs |-> "none"]
  /\ UNCHANGED installed

\* The installer replaces the program while no service holds the lifecycle lock.
Upgrade(g) ==
  /\ marker = NoProc
  /\ g # installed
  /\ installed' = g
  /\ UNCHANGED <<lease, survivors, session, boot, marker, owner, pc, snap, seen,
                 monitor, disturbances>>

\* Another program starts a session of that name, or ends the one there is.
ExternalStart ==
  /\ External
  /\ session = Absent
  /\ Disturb
  /\ session' = [identity |-> ForeignIdentity, by |-> NoProc]
  /\ UNCHANGED <<lease, survivors, boot, installed, marker, owner, pc, snap, seen, monitor>>

ExternalStop ==
  /\ External
  /\ session # Absent
  /\ Disturb
  /\ session' = Absent
  /\ UNCHANGED <<lease, survivors, boot, installed, marker, owner, pc, snap, seen, monitor>>

-----------------------------------------------------------------------------
Recovering(p) ==
  \/ \E ok \in BOOLEAN : \/ AcquireOwner(p, ok) \/ ObserveLease(p, ok) \/ QuerySession(p, ok)
                         \/ StopExact(p, ok) \/ ConfirmAbsence(p, ok)
  \/ \E c \in ControllerSeen(snap[p]) : DecideRecovery(p, c) \/ Recheck(p, c)
  \/ \E r \in ReplaceOutcomes : MarkReclaimed(p, r) \/ RemoveStale(p, r) \/ RemoveOwn(p, r)

Starting(p) ==
  \/ \E r \in ReplaceOutcomes : WriteIntent(p, r) \/ WriteActive(p, r)
  \/ \E ok \in BOOLEAN : StartTrace(p, ok)
  \/ \E o \in OpenOutcomes : OpenTrace(p, o)

Ending(p) ==
  \/ \E r \in ReplaceOutcomes : MarkStopping(p, r)
  \/ \E stopped, joined \in BOOLEAN : ShutdownMonitor(p, stopped, joined)
  \/ JoinEngine(p)
  \/ JoinTimesOut(p)
  \/ Leave(p)
  \/ Exit(p)

Running(p) == Recovering(p) \/ Starting(p) \/ Ending(p)

Process(p) == StartService(p) \/ Running(p) \/ EngineStartFails(p) \/ StopService(p) \/ Crash(p)

Environment == \/ \E b \in Boots : Reboot(b)
               \/ \E g \in Generations : Upgrade(g)
               \/ ExternalStart
               \/ ExternalStop

Next == (\E p \in Procs : Process(p)) \/ Environment

Spec == Init /\ [][Next]_vars

\* A process that has been started runs on; nothing else is sure to happen.
FairSpec == Spec /\ \A p \in Procs : WF_vars(Running(p))

-----------------------------------------------------------------------------
(***************************************************************************)
(* Properties                                                              *)
(***************************************************************************)

\* Whatever crashed, failed or was installed in between: as long as a session
\* that a service process started exists, the lease file names that process, its
\* boot and the session's identity, so that a later service can reclaim it.
SessionIsLeased ==
  session # Absent /\ session.by \in Procs =>
    /\ Trusted(lease)
    /\ lease.controller = session.by
    /\ lease.session = session.identity
    /\ lease.boot = boot

\* The inductive invariant, in parts.  The locks are held where the code relies on
\* them.
LocksAreHeld(p) ==
  /\ pc[p] \in OwnerPlaces => owner = p
  /\ pc[p] \in OwnerPlaces \cup {"acquire", "leaving"} => marker = p

\* The snapshot of the lease is what the file holds, except before the first
\* observation and after one that failed.
SnapshotPlaces == OwnerPlaces \ {"observe", "drop", "joinUnmarked"}
SnapshotIsCurrent(p) == pc[p] \in SnapshotPlaces => snap[p] = lease

\* What the lease says at each place of a start, a service and its end.
IntentPlaces == {"startTrace", "openTrace", "active", "abort", "cleanup"}
ActivePlaces == {"drop", "serving", "dropEngine", "markStopping", "markDropped"}
LeaseIsOwn(p) ==
  /\ pc[p] = "intent" => lease = Absent
  /\ pc[p] \in IntentPlaces => lease = OwnLease(p, "Intent")
  /\ pc[p] \in ActivePlaces => lease = OwnLease(p, "Active")
  /\ pc[p] \in {"join", "proveAbsence"} => lease = OwnLease(p, "Stopping")
  /\ pc[p] = "joinUnmarked" => lease \in {OwnLease(p, "Active"), OwnLease(p, "Stopping")}
  /\ pc[p] = "removeOwn" => lease \in {OwnLease(p, "Intent"), OwnLease(p, "Stopping")}

\* What it says while recovery reclaims a session or discards a lease.
ReclaimPlaces == {"reclaim", "stopExact", "requery", "recheck"}
LeaseIsRecovered(p) ==
  /\ pc[p] \in ReclaimPlaces => /\ Matches(installed, lease)
                                /\ lease.boot = boot
                                /\ ~Alive(lease.controller)
  /\ pc[p] \in {"discard", "removeStale"} =>
       Trusted(lease) /\ (lease.generation = installed \/ lease.phase = "Stopping")

\* A lease is removed with no session of the service left.
SessionIsGone(p) ==
  pc[p] \in {"removeStale", "removeOwn"} /\ session # Absent => session.by = NoProc

ForeignIsForeign == session # Absent /\ session.by = NoProc => session.identity = ForeignIdentity

\* What a lease, a session and the locks have to do with each other at every
\* place of every process: each record is written before the thing it records.
PlaceInv(p) ==
  /\ SnapshotIsCurrent(p)
  /\ LeaseIsOwn(p)
  /\ LeaseIsRecovered(p)
  /\ SessionIsGone(p)

EtwInv ==
  /\ TypeOK
  /\ \A p \in Procs : LocksAreHeld(p) /\ PlaceInv(p)
  /\ ForeignIsForeign
  /\ SessionIsLeased

\* A session is ended by the process that started it while that process lives;
\* recovery ends only the session of a dead process.
LiveSessionIsSpared ==
  [][\A p \in Procs : session # Absent /\ session.by = p /\ Alive(p) /\ session' # session =>
       \/ \E o \in OpenOutcomes : OpenTrace(p, o)
       \/ \E stopped, joined \in BOOLEAN : ShutdownMonitor(p, stopped, joined)
       \/ ExternalStop
       \/ \E b \in Boots : Reboot(b)]_vars

\* The session of another program is ended by others or by a restart only.
ForeignSessionIsSpared ==
  [][session # Absent /\ session.by = NoProc /\ session' # session =>
       ExternalStop \/ \E b \in Boots : Reboot(b)]_vars

\* A damaged lease, and an intent or active lease of another generation, stay in
\* the file as they are until the machine restarts.
RefusedLeaseIsKept ==
  [][\/ lease \in Damaged
     \/ Trusted(lease) /\ lease.generation # installed /\ lease.phase # "Stopping"
     => lease' = lease \/ \E b \in Boots : Reboot(b)]_vars

\* The states a start copes with by itself: no foreign session, and a lease that
\* is this generation's, or a stopping one of another whose session is gone.
Recoverable ==
  /\ lease \notin Damaged
  /\ session # Absent => session.by \in Procs
  /\ Trusted(lease) => /\ lease.session = SessionOf[installed]
                       /\ \/ lease.generation = installed
                          \/ lease.phase = "Stopping" /\ session = Absent

\* Once nothing more goes wrong and no other process of the service is left, a
\* start from a recoverable state serves, whatever was left behind.
RecoversAtOnce ==
  \A p \in Procs :
    (/\ pc[p] = "acquire"
     /\ disturbances = MaxDisturbances
     /\ \A q \in Procs \ {p} : ~Alive(q)
     /\ Recoverable) ~> pc[p] = "serving"
=============================================================================
