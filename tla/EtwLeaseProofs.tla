--------------------------- MODULE EtwLeaseProofs ---------------------------
(***************************************************************************)
(* For any number of processes, boots and generations and any disturbance: *)
(* EtwInv is inductive, a session of the service is always leased, and     *)
(* recovery spares live and foreign sessions and the leases it refuses.    *)
(***************************************************************************)
EXTENDS EtwLease, TLAPS

-----------------------------------------------------------------------------
\* A record the service writes is a trusted lease that names its process.
LEMMA OwnLeaseLemma ==
  ASSUME TypeOK, NEW p \in Procs, NEW phase \in Phases
  PROVE  /\ OwnLease(p, phase) \in Lease
         /\ Trusted(OwnLease(p, phase))
         /\ OwnLease(p, phase).phase = phase
         /\ OwnLease(p, phase).generation = installed
         /\ OwnLease(p, phase).boot = boot
         /\ OwnLease(p, phase).controller = p
         /\ OwnLease(p, phase).session = SessionOf[installed]
BY ConstantsAssumption DEF OwnLease, Lease, Trusted, TypeOK

\* A trusted lease is a lease record.
LEMMA TrustedLemma == \A l \in Leases : Trusted(l) <=> l \in Lease
BY ConstantsAssumption DEF Leases, Trusted

\* A counted call keeps the type of the counter.
LEMMA CallLemma == ASSUME TypeOK, NEW ok \in BOOLEAN, Call(ok) PROVE disturbances' \in Nat
BY ConstantsAssumption DEF TypeOK, Call, Disturb

\* While a process is between the acquisition and the release of the owner lock,
\* no other is.
LEMMA OneOwner ==
  ASSUME EtwInv, NEW p \in Procs, pc[p] \in OwnerPlaces
  PROVE  \A q \in Procs \ {p} : pc[q] \notin OwnerPlaces \cup {"acquire", "leaving"}
BY DEF EtwInv, LocksAreHeld

\* The initial states satisfy the inductive invariant.
LEMMA InitEtwInv == Init => EtwInv
<1> SUFFICES ASSUME Init PROVE EtwInv
    OBVIOUS
<1>1. TypeOK
    BY ConstantsAssumption DEF Init, TypeOK, Leases, Places, OwnerPlaces
<1>2. ASSUME NEW p \in Procs PROVE LocksAreHeld(p) /\ PlaceInv(p)
    BY DEF Init, LocksAreHeld, PlaceInv, SnapshotIsCurrent, LeaseIsOwn, LeaseIsRecovered,
           SessionIsGone, OwnerPlaces, RecoveryPlaces, StartPlaces, ServicePlaces,
           SnapshotPlaces, IntentPlaces, ActivePlaces, ReclaimPlaces
<1>3. ForeignIsForeign /\ SessionIsLeased
    BY DEF Init, ForeignIsForeign, SessionIsLeased
<1>4. QED
    BY <1>1, <1>2, <1>3 DEF EtwInv

-----------------------------------------------------------------------------
\* A step of the owner: what has to be shown is the invariant at its new place,
\* and of the session.
LEMMA OwnerStep ==
  ASSUME EtwInv, TypeOK', NEW p \in Procs, pc[p] \in OwnerPlaces,
         \E x \in OwnerPlaces \cup {"leaving"} : Goto(p, x),
         boot' = boot, installed' = installed, marker' = marker, owner' = owner,
         PlaceInv(p)', ForeignIsForeign', SessionIsLeased'
  PROVE  EtwInv'
<1> PICK x \in OwnerPlaces \cup {"leaving"} : Goto(p, x)
    OBVIOUS
<1>1. ASSUME NEW q \in Procs PROVE LocksAreHeld(q)'
  <2>1. CASE q = p
      BY <2>1 DEF EtwInv, LocksAreHeld, Goto, TypeOK
  <2>2. CASE q # p
      BY <2>2, <1>1 DEF EtwInv, LocksAreHeld, Goto, TypeOK
  <2>3. QED
      BY <2>1, <2>2
<1>2. ASSUME NEW q \in Procs PROVE PlaceInv(q)'
  <2>1. CASE q = p
      BY <2>1
  <2>2. CASE q # p
    <3>1. pc'[q] \notin OwnerPlaces
        BY OneOwner, <2>2, <1>2 DEF Goto, EtwInv, TypeOK
    <3>2. QED
        BY <3>1 DEF PlaceInv, SnapshotIsCurrent, LeaseIsOwn, LeaseIsRecovered, SessionIsGone,
                    OwnerPlaces, RecoveryPlaces, StartPlaces, ServicePlaces,
                    SnapshotPlaces, IntentPlaces, ActivePlaces, ReclaimPlaces
  <2>3. QED
      BY <2>1, <2>2
<1>3. QED
    BY <1>1, <1>2 DEF EtwInv

\* A step of a process that is or comes to be outside the owner's places, and of
\* the session at most its end.
LEMMA OtherStep ==
  ASSUME EtwInv, TypeOK', NEW q \in Procs, NEW x \in {"dead", "leaving", "lingering", "acquire"},
         Goto(q, x),
         x = "dead" \/ pc[q] # "dead",
         x \in {"acquire", "leaving"} => marker' = q,
         lease' = lease, session' \in {session, Absent}, boot' = boot, installed' = installed,
         \A p \in Procs \ {q} : /\ snap'[p] = snap[p]
                                /\ owner = p => owner' = p
                                /\ marker = p => marker' = p
  PROVE  EtwInv'
<1> USE DEF Goto
<1>1. pc'[q] = x /\ \A p \in Procs \ {q} : pc'[p] = pc[p]
    BY DEF EtwInv, TypeOK
<1>2. x \notin OwnerPlaces
    BY DEF OwnerPlaces, RecoveryPlaces, StartPlaces, ServicePlaces
<1>3. ASSUME NEW p \in Procs PROVE LocksAreHeld(p)'
  <2>1. CASE p = q
      BY <2>1, <1>1, <1>2 DEF LocksAreHeld
  <2>2. CASE p # q
      BY <2>2, <1>1, <1>3 DEF EtwInv, LocksAreHeld
  <2>3. QED
      BY <2>1, <2>2
<1>4. ASSUME NEW p \in Procs PROVE PlaceInv(p)'
  <2>1. CASE p = q
      BY <2>1, <1>1, <1>2
         DEF PlaceInv, SnapshotIsCurrent, LeaseIsOwn, LeaseIsRecovered, SessionIsGone,
             OwnerPlaces, RecoveryPlaces, StartPlaces, ServicePlaces,
             SnapshotPlaces, IntentPlaces, ActivePlaces, ReclaimPlaces
  <2>2. CASE p # q
    <3>1. PlaceInv(p) /\ pc'[p] = pc[p] /\ snap'[p] = snap[p]
        BY <2>2, <1>1, <1>4 DEF EtwInv
    <3>2. SnapshotIsCurrent(p)' /\ LeaseIsOwn(p)'
        BY <3>1 DEF PlaceInv, SnapshotIsCurrent, LeaseIsOwn, OwnLease
    <3>3. Trusted(lease) /\ ~Alive(lease.controller) => ~Alive(lease.controller)'
      <4>1. Trusted(lease) => lease.controller \in Procs
          BY TrustedLemma DEF EtwInv, TypeOK, Lease
      <4>2. QED
          BY <4>1, <1>1 DEF Alive
    <3>4. LeaseIsRecovered(p)'
        BY <3>1, <3>3 DEF PlaceInv, LeaseIsRecovered, Matches, Trusted
    <3>5. SessionIsGone(p)'
        BY <3>1 DEF PlaceInv, SessionIsGone
    <3>6. QED
        BY <3>2, <3>4, <3>5 DEF PlaceInv
  <2>3. QED
      BY <2>1, <2>2
<1>5. ForeignIsForeign' /\ SessionIsLeased'
    BY DEF EtwInv, ForeignIsForeign, SessionIsLeased, Trusted
<1>6. QED
    BY <1>3, <1>4, <1>5 DEF EtwInv

-----------------------------------------------------------------------------
(***************************************************************************)
(* The steps of recovery                                                   *)
(***************************************************************************)

\* The acquisition of the owner lock.
LEMMA AcquireOwnerStep ==
  ASSUME EtwInv, NEW p \in Procs, NEW ok \in BOOLEAN, AcquireOwner(p, ok)
  PROVE  EtwInv'
<1> USE DEF AcquireOwner, Goto
<1>1. TypeOK'
    BY CallLemma DEF EtwInv, TypeOK, Places, OwnerPlaces, RecoveryPlaces
<1>2. marker = p
    BY DEF EtwInv, LocksAreHeld
<1>3. CASE ok /\ owner = NoProc
  <2>1. /\ owner' = p
        /\ pc' = [pc EXCEPT ![p] = "observe"]
        /\ UNCHANGED <<lease, session, boot, installed, marker, snap>>
      BY <1>3
  <2>2. \A q \in Procs \ {p} : pc[q] \notin OwnerPlaces \cup {"acquire", "leaving"}
      BY <1>2 DEF EtwInv, LocksAreHeld
  <2>3. ASSUME NEW q \in Procs PROVE LocksAreHeld(q)' /\ PlaceInv(q)'
    <3>1. \/ q = p /\ pc'[q] = "observe"
          \/ q # p /\ pc'[q] \notin OwnerPlaces \cup {"acquire", "leaving"}
        BY <2>1, <2>2, <2>3 DEF EtwInv, TypeOK
    <3>2. QED
        BY <3>1, <2>1, <1>2
           DEF LocksAreHeld, PlaceInv, SnapshotIsCurrent, LeaseIsOwn, LeaseIsRecovered,
               SessionIsGone, OwnerPlaces, RecoveryPlaces, StartPlaces, ServicePlaces,
               SnapshotPlaces, IntentPlaces, ActivePlaces, ReclaimPlaces
  <2>4. ForeignIsForeign' /\ SessionIsLeased'
      BY <2>1 DEF EtwInv, ForeignIsForeign, SessionIsLeased, Trusted
  <2>5. QED
      BY <1>1, <2>3, <2>4 DEF EtwInv
<1>4. CASE ~(ok /\ owner = NoProc)
    BY <1>1, <1>2, <1>4, OtherStep
<1>5. QED
    BY <1>3, <1>4

\* A step of the owner that leaves the lease, the session and the snapshots.
LEMMA LocalStep ==
  ASSUME EtwInv, TypeOK', NEW p \in Procs, pc[p] \in OwnerPlaces,
         \E x \in OwnerPlaces \cup {"leaving"} : Goto(p, x),
         UNCHANGED <<lease, session, boot, installed, marker, owner>>,
         PlaceInv(p)'
  PROVE  EtwInv'
<1>1. ForeignIsForeign' /\ SessionIsLeased'
    BY DEF EtwInv, ForeignIsForeign, SessionIsLeased, Trusted
<1>2. QED
    BY <1>1, OwnerStep

\* A return on an error keeps the invariant at its place, which is no owner's.
LEMMA LeavingLemma ==
  ASSUME NEW p \in Procs, pc'[p] = "leaving" PROVE PlaceInv(p)'
BY DEF PlaceInv, SnapshotIsCurrent, LeaseIsOwn, LeaseIsRecovered, SessionIsGone,
       OwnerPlaces, RecoveryPlaces, StartPlaces, ServicePlaces,
       SnapshotPlaces, IntentPlaces, ActivePlaces, ReclaimPlaces

\* The first observation of the lease.
LEMMA ObserveLeaseStep ==
  ASSUME EtwInv, NEW p \in Procs, NEW ok \in BOOLEAN, ObserveLease(p, ok)
  PROVE  EtwInv'
<1> USE DEF ObserveLease, Goto
<1>1. TypeOK'
    BY CallLemma DEF EtwInv, TypeOK, Places, OwnerPlaces, RecoveryPlaces
<1>2. PlaceInv(p)'
  <2>1. pc'[p] = "leaving" \/ (pc'[p] = "querySession" /\ snap'[p] = lease')
      BY DEF EtwInv, TypeOK
  <2>2. QED
      BY <2>1, LeavingLemma
         DEF PlaceInv, SnapshotIsCurrent, LeaseIsOwn, LeaseIsRecovered, SessionIsGone,
             IntentPlaces, ActivePlaces, ReclaimPlaces
<1>3. QED
    BY <1>1, <1>2, LocalStep DEF OwnerPlaces, RecoveryPlaces

\* The two queries of the session.
LEMMA QuerySessionStep ==
  ASSUME EtwInv, NEW p \in Procs, NEW ok \in BOOLEAN, QuerySession(p, ok)
  PROVE  EtwInv'
<1> USE DEF QuerySession, Goto
<1>1. TypeOK'
  <2>1. SessionSeen \in Identities \cup {Absent}
      BY DEF EtwInv, TypeOK, SessionSeen, Session
  <2>2. QED
      BY <2>1, CallLemma DEF EtwInv, TypeOK, Places, OwnerPlaces, RecoveryPlaces
<1>2. PlaceInv(p)'
  <2>1. /\ \/ pc[p] = "querySession" /\ pc'[p] = "decide"
           \/ pc[p] = "requery" /\ pc'[p] = "recheck"
        /\ PlaceInv(p)
        /\ pc[p] = "requery" => Alive(lease.controller)' = Alive(lease.controller)
    <3>1. lease.controller # p \/ pc[p] # "requery"
        BY DEF EtwInv, PlaceInv, LeaseIsRecovered, ReclaimPlaces, Alive
    <3>2. QED
        BY <3>1 DEF EtwInv, TypeOK, Alive
  <2>2. QED
      BY <2>1
         DEF PlaceInv, SnapshotIsCurrent, LeaseIsOwn, LeaseIsRecovered, SessionIsGone, Matches,
             Trusted, SnapshotPlaces, OwnerPlaces, RecoveryPlaces,
             IntentPlaces, ActivePlaces, ReclaimPlaces
<1>3. QED
    BY <1>1, <1>2, LocalStep DEF OwnerPlaces, RecoveryPlaces

\* The controller of a lease at a place of recovery that holds it dead stays dead
\* when the owner moves.
LEMMA StaysDead ==
  ASSUME EtwInv, NEW p \in Procs, pc[p] # "dead", Trusted(lease), ~Alive(lease.controller),
         \E x \in Places : Goto(p, x), lease'.controller = lease.controller
  PROVE  ~Alive(lease.controller)'
<1>1. lease.controller \in Procs
    BY TrustedLemma DEF EtwInv, TypeOK, Lease
<1>2. QED
    BY <1>1 DEF EtwInv, TypeOK, Alive, Goto

\* The decision of recovery.
LEMMA DecideRecoveryStep ==
  ASSUME EtwInv, NEW p \in Procs, NEW c \in ControllerSeen(snap[p]), DecideRecovery(p, c)
  PROVE  EtwInv'
<1> DEFINE l == snap[p]
           s == seen[p]
           d == Corroborated(s, c)
           old == DiscardsPriorGeneration(l, s, d) \/ DiscardsStale(installed, l, s, d)
           fresh == l = Absent /\ s = Absent
           exact == ReclaimsExact(installed, l, s, d)
<1>1. /\ pc[p] = "decide"
      /\ pc' = [pc EXCEPT ![p] = IF old THEN "discard" ELSE IF fresh THEN "intent"
                                 ELSE IF exact THEN "reclaim" ELSE "leaving"]
      /\ Call(~ControllerKnown(snap[p]) \/ c # Unavailable)
      /\ UNCHANGED <<lease, survivors, session, boot, installed, marker, owner, snap, seen, monitor>>
    BY DEF DecideRecovery, Goto
<1>2. l = lease
    BY <1>1 DEF EtwInv, PlaceInv, SnapshotIsCurrent, SnapshotPlaces, OwnerPlaces, RecoveryPlaces
<1>3. old => Trusted(l) /\ (l.generation = installed \/ l.phase = "Stopping")
    BY DEF DiscardsPriorGeneration, DiscardsStale, Matches
<1>4. exact => Matches(installed, l) /\ l.boot = boot /\ ~Alive(l.controller)
  <2> SUFFICES ASSUME exact PROVE Matches(installed, l) /\ l.boot = boot /\ ~Alive(l.controller)
      OBVIOUS
  <2>1. Matches(installed, l) /\ l.boot = boot /\ s = l.session /\ ControllerGone(l, d)
      BY DEF ReclaimsExact
  <2>2. l \in Lease
      BY <2>1, TrustedLemma DEF EtwInv, TypeOK, Matches
  <2>3. s # Absent
      BY <2>1, <2>2, ConstantsAssumption DEF Lease
  <2>4. c \notin {Unavailable, l.controller}
      BY <2>1, <2>3 DEF ControllerGone, Corroborated
  <2>5. ControllerKnown(l)
      BY <2>1 DEF ControllerKnown, Matches
  <2>6. QED
      BY <2>1, <2>4, <2>5 DEF ControllerSeen
<1> HIDE DEF old, fresh, exact
<1>5. TypeOK'
  <2>1. disturbances' \in Nat
      BY <1>1, CallLemma DEF EtwInv
  <2>2. QED
      BY <1>1, <2>1 DEF EtwInv, TypeOK, Places, OwnerPlaces, RecoveryPlaces, StartPlaces
<1>6. PlaceInv(p)'
  <2>1. CASE old
    <3>1. pc'[p] = "discard"
        BY <1>1, <2>1 DEF EtwInv, TypeOK
    <3>2. QED
        BY <3>1, <1>1, <1>2, <1>3, <2>1
           DEF PlaceInv, SnapshotIsCurrent, LeaseIsOwn, LeaseIsRecovered, SessionIsGone, Trusted,
               IntentPlaces, ActivePlaces, ReclaimPlaces
  <2>2. CASE ~old /\ fresh
    <3>1. pc'[p] = "intent"
        BY <1>1, <2>2 DEF EtwInv, TypeOK
    <3>2. QED
        BY <3>1, <1>1, <1>2, <2>2
           DEF PlaceInv, SnapshotIsCurrent, LeaseIsOwn, LeaseIsRecovered, SessionIsGone,
               IntentPlaces, ActivePlaces, ReclaimPlaces, fresh
  <2>3. CASE ~old /\ ~fresh /\ exact
    <3>1. pc'[p] = "reclaim"
        BY <1>1, <2>3 DEF EtwInv, TypeOK
    <3>2. Matches(installed, lease)' /\ lease'.boot = boot'
        BY <1>1, <1>2, <1>4, <2>3 DEF Matches, Trusted
    <3>3. ~Alive(lease.controller)'
      <4>1. Trusted(lease) /\ ~Alive(lease.controller)
          BY <1>2, <1>4, <2>3 DEF Matches
      <4>2. \E x \in Places : Goto(p, x)
          BY <1>1, <2>3 DEF Goto, Places, OwnerPlaces, RecoveryPlaces
      <4>3. QED
          BY <1>1, <4>1, <4>2, StaysDead
    <3>4. QED
        BY <3>1, <3>2, <3>3, <1>1, <1>2
           DEF PlaceInv, SnapshotIsCurrent, LeaseIsOwn, LeaseIsRecovered, SessionIsGone,
               IntentPlaces, ActivePlaces
  <2>4. CASE ~old /\ ~fresh /\ ~exact
      BY <1>1, <2>4, LeavingLemma DEF EtwInv, TypeOK
  <2>5. QED
      BY <2>1, <2>2, <2>3, <2>4
<1>7. \E x \in OwnerPlaces \cup {"leaving"} : Goto(p, x)
    BY <1>1 DEF Goto, OwnerPlaces, RecoveryPlaces, StartPlaces
<1>8. QED
    BY <1>1, <1>5, <1>6, <1>7, LocalStep DEF OwnerPlaces, RecoveryPlaces

\* Marking the lease to be reclaimed.
LEMMA MarkReclaimedStep ==
  ASSUME EtwInv, NEW p \in Procs, NEW r \in ReplaceOutcomes, MarkReclaimed(p, r)
  PROVE  EtwInv'
<1> DEFINE l == [snap[p] EXCEPT !.phase = "Stopping"]
<1>1. /\ pc[p] = "reclaim"
      /\ Replace(p, l, r)
      /\ Goto(p, IF Replaced(p, l, r) THEN "stopExact" ELSE "leaving")
      /\ UNCHANGED <<session, boot, installed, marker, owner, seen, monitor>>
    BY DEF MarkReclaimed
<1>2. /\ snap[p] = lease
      /\ Matches(installed, lease)
      /\ lease.boot = boot
      /\ ~Alive(lease.controller)
      /\ lease \in Lease
    BY <1>1, TrustedLemma
       DEF EtwInv, TypeOK, PlaceInv, SnapshotIsCurrent, LeaseIsRecovered, ReclaimPlaces, Matches,
           SnapshotPlaces, OwnerPlaces, RecoveryPlaces
<1>3. /\ l \in Lease
      /\ l.generation = lease.generation /\ l.boot = lease.boot
      /\ l.controller = lease.controller /\ l.session = lease.session
      /\ Trusted(l)
  <2>1. l \in Lease
      BY <1>2 DEF Lease, Phases
  <2>2. /\ l.generation = lease.generation /\ l.boot = lease.boot
        /\ l.controller = lease.controller /\ l.session = lease.session
      BY <1>2 DEF Lease
  <2>3. QED
      BY <2>1, <2>2, TrustedLemma DEF Leases
<1> HIDE DEF l
<1>4. lease' \in {lease, l} /\ survivors' \subseteq survivors \cup {l}
    BY <1>1 DEF Replace
<1>5. snap' = IF Replaced(p, l, r) THEN [snap EXCEPT ![p] = l] ELSE snap
    BY <1>1 DEF Replace
<1>6. Replaced(p, l, r) => lease' = l
    BY <1>1 DEF Replace, Replaced, Written
<1>7. TypeOK'
  <2>1. disturbances' \in Nat
      BY <1>1, CallLemma DEF Replace, EtwInv
  <2>2. QED
      BY <1>1, <1>3, <1>4, <1>5, <2>1
         DEF EtwInv, TypeOK, Goto, Leases, Places, OwnerPlaces, RecoveryPlaces
<1>8. PlaceInv(p)'
  <2>1. CASE Replaced(p, l, r)
    <3>1. pc'[p] = "stopExact" /\ snap'[p] = l /\ lease' = l
        BY <1>1, <1>5, <1>6, <2>1 DEF Goto, EtwInv, TypeOK
    <3>2. Matches(installed, lease)' /\ lease'.boot = boot'
        BY <3>1, <1>1, <1>2, <1>3 DEF Matches, Trusted
    <3>3. ~Alive(lease.controller)'
      <4>1. \E x \in Places : Goto(p, x)
          BY <1>1 DEF Places, OwnerPlaces, RecoveryPlaces
      <4>2. QED
          BY <1>1, <1>2, <1>3, <3>1, <4>1, StaysDead DEF Matches
    <3>4. QED
        BY <3>1, <3>2, <3>3
           DEF PlaceInv, SnapshotIsCurrent, LeaseIsOwn, LeaseIsRecovered, SessionIsGone,
               IntentPlaces, ActivePlaces
  <2>2. CASE ~Replaced(p, l, r)
      BY <1>1, <2>2, LeavingLemma DEF Goto, EtwInv, TypeOK
  <2>3. QED
      BY <2>1, <2>2
<1>9. ForeignIsForeign' /\ SessionIsLeased'
    BY <1>1, <1>2, <1>3, <1>4 DEF EtwInv, ForeignIsForeign, SessionIsLeased, Trusted
<1>10. \E x \in OwnerPlaces \cup {"leaving"} : Goto(p, x)
    BY <1>1 DEF OwnerPlaces, RecoveryPlaces
<1>11. QED
    BY <1>1, <1>7, <1>8, <1>9, <1>10, OwnerStep DEF OwnerPlaces, RecoveryPlaces

\* The end of the session reclaimed.
LEMMA StopExactStep ==
  ASSUME EtwInv, NEW p \in Procs, NEW ok \in BOOLEAN, StopExact(p, ok)
  PROVE  EtwInv'
<1>1. /\ pc[p] = "stopExact"
      /\ session' \in {session, Absent}
      /\ Goto(p, "requery") \/ Goto(p, "leaving")
      /\ UNCHANGED <<lease, survivors, boot, installed, marker, owner, snap, seen, monitor>>
      /\ Call(ok)
    BY DEF StopExact
<1>2. TypeOK'
    BY <1>1, CallLemma DEF EtwInv, TypeOK, Goto, Places, OwnerPlaces, RecoveryPlaces
<1>3. \E x \in OwnerPlaces \cup {"leaving"} : Goto(p, x)
    BY <1>1 DEF OwnerPlaces, RecoveryPlaces
<1>4. PlaceInv(p)'
  <2>1. CASE Goto(p, "leaving")
      BY <2>1, LeavingLemma DEF Goto, EtwInv, TypeOK
  <2>2. CASE Goto(p, "requery")
    <3>1. pc'[p] = "requery"
        BY <2>2 DEF Goto, EtwInv, TypeOK
    <3>2. /\ snap[p] = lease /\ Matches(installed, lease)
          /\ lease.boot = boot /\ ~Alive(lease.controller)
        BY <1>1 DEF EtwInv, PlaceInv, SnapshotIsCurrent, LeaseIsRecovered, ReclaimPlaces,
                    SnapshotPlaces, OwnerPlaces, RecoveryPlaces
    <3>3. ~Alive(lease.controller)'
      <4>1. \E x \in Places : Goto(p, x)
          BY <1>3 DEF Places
      <4>2. QED
          BY <1>1, <3>2, <4>1, StaysDead DEF Matches
    <3>4. Matches(installed, lease)' /\ lease'.boot = boot'
        BY <1>1, <3>2 DEF Matches, Trusted
    <3>5. QED
        BY <3>1, <3>2, <3>3, <3>4, <1>1
           DEF PlaceInv, SnapshotIsCurrent, LeaseIsOwn, LeaseIsRecovered, SessionIsGone,
               IntentPlaces, ActivePlaces
  <2>3. QED
      BY <1>1, <2>1, <2>2
<1>5. ForeignIsForeign' /\ SessionIsLeased'
    BY <1>1 DEF EtwInv, ForeignIsForeign, SessionIsLeased, Trusted
<1>6. QED
    BY <1>1, <1>2, <1>3, <1>4, <1>5, OwnerStep DEF OwnerPlaces, RecoveryPlaces

\* The decision after the stop.
LEMMA RecheckStep ==
  ASSUME EtwInv, NEW p \in Procs, NEW c \in ControllerSeen(snap[p]), Recheck(p, c)
  PROVE  EtwInv'
<1> DEFINE stale == DiscardsStale(installed, snap[p], seen[p], c)
<1>1. /\ pc[p] = "recheck"
      /\ Goto(p, IF stale THEN "discard" ELSE "leaving")
      /\ Call(~ControllerKnown(snap[p]) \/ c # Unavailable)
      /\ UNCHANGED <<lease, survivors, session, boot, installed, marker, owner, snap, seen, monitor>>
    BY DEF Recheck
<1> HIDE DEF stale
<1>2. TypeOK'
  <2>1. disturbances' \in Nat
      BY <1>1, CallLemma DEF EtwInv
  <2>2. QED
      BY <1>1, <2>1 DEF EtwInv, TypeOK, Goto, Places, OwnerPlaces, RecoveryPlaces
<1>3. snap[p] = lease /\ Trusted(lease) /\ lease.generation = installed
    BY <1>1 DEF EtwInv, PlaceInv, SnapshotIsCurrent, LeaseIsRecovered, ReclaimPlaces, Matches,
                SnapshotPlaces, OwnerPlaces, RecoveryPlaces
<1>4. pc'[p] \in {"discard", "leaving"}
    BY <1>1 DEF Goto, EtwInv, TypeOK
<1>5. PlaceInv(p)'
    BY <1>1, <1>3, <1>4, LeavingLemma
       DEF PlaceInv, SnapshotIsCurrent, LeaseIsOwn, LeaseIsRecovered, SessionIsGone, Trusted,
           IntentPlaces, ActivePlaces, ReclaimPlaces
<1>6. QED
    BY <1>1, <1>2, <1>5, LocalStep DEF OwnerPlaces, RecoveryPlaces

\* The last look at the session before a removal.
LEMMA ConfirmAbsenceStep ==
  ASSUME EtwInv, NEW p \in Procs, NEW ok \in BOOLEAN, ConfirmAbsence(p, ok)
  PROVE  EtwInv'
<1>1. /\ pc[p] \in {"discard", "cleanup", "proveAbsence"}
      /\ \/ pc' = [pc EXCEPT ![p] = "leaving"]
         \/ /\ session = Absent /\ pc[p] = "discard"
            /\ pc' = [pc EXCEPT ![p] = "removeStale"]
         \/ /\ session = Absent /\ pc[p] \in {"cleanup", "proveAbsence"}
            /\ pc' = [pc EXCEPT ![p] = "removeOwn"]
      /\ Call(ok)
      /\ UNCHANGED <<lease, survivors, session, boot, installed, marker, owner, snap, seen, monitor>>
    BY DEF ConfirmAbsence, Goto
<1>2. TypeOK'
    BY <1>1, CallLemma DEF EtwInv, TypeOK, Places, OwnerPlaces, RecoveryPlaces, StartPlaces
<1>3. PlaceInv(p) /\ snap[p] = lease
    BY <1>1 DEF EtwInv, PlaceInv, SnapshotIsCurrent, SnapshotPlaces, OwnerPlaces, RecoveryPlaces,
                StartPlaces, ServicePlaces
<1>4. PlaceInv(p)'
  <2>1. CASE pc' = [pc EXCEPT ![p] = "leaving"]
      BY <2>1, LeavingLemma DEF EtwInv, TypeOK
  <2>2. CASE session = Absent /\ pc[p] = "discard" /\ pc' = [pc EXCEPT ![p] = "removeStale"]
    <3>1. pc'[p] = "removeStale"
        BY <2>2 DEF EtwInv, TypeOK
    <3>2. QED
        BY <3>1, <2>2, <1>1, <1>3
           DEF PlaceInv, SnapshotIsCurrent, LeaseIsOwn, LeaseIsRecovered, SessionIsGone, Trusted,
               IntentPlaces, ActivePlaces, ReclaimPlaces
  <2>3. CASE /\ session = Absent /\ pc[p] \in {"cleanup", "proveAbsence"}
             /\ pc' = [pc EXCEPT ![p] = "removeOwn"]
    <3>1. pc'[p] = "removeOwn"
        BY <2>3 DEF EtwInv, TypeOK
    <3>2. QED
        BY <3>1, <2>3, <1>1, <1>3
           DEF PlaceInv, SnapshotIsCurrent, LeaseIsOwn, LeaseIsRecovered, SessionIsGone,
               OwnLease, IntentPlaces, ActivePlaces, ReclaimPlaces
  <2>4. QED
      BY <1>1, <2>1, <2>2, <2>3
<1>5. \E x \in OwnerPlaces \cup {"leaving"} : Goto(p, x)
    BY <1>1 DEF Goto, OwnerPlaces, RecoveryPlaces, StartPlaces
<1>6. QED
    BY <1>1, <1>2, <1>4, <1>5, LocalStep
       DEF OwnerPlaces, RecoveryPlaces, StartPlaces, ServicePlaces

\* A removal, of a stale lease or of the process's own: no session of the service
\* is left without a lease.
LEMMA RemoveStep ==
  ASSUME EtwInv, NEW p \in Procs, NEW r \in ReplaceOutcomes,
         RemoveStale(p, r) \/ RemoveOwn(p, r)
  PROVE  EtwInv'
<1>1. /\ pc[p] \in {"removeStale", "removeOwn"}
      /\ Remove(p, r)
      /\ \/ snap' = snap /\ Goto(p, "leaving")
         \/ snap' = [snap EXCEPT ![p] = Absent] /\ Goto(p, "intent") /\ Removed(p, r)
      /\ UNCHANGED <<session, boot, installed, marker, owner, seen, monitor>>
    BY DEF RemoveStale, RemoveOwn
<1>2. lease' \in {lease, Absent} /\ survivors' \subseteq survivors \cup {Absent} /\ Call(r = "done")
    BY <1>1 DEF Remove
<1>3. Removed(p, r) => lease' = Absent
    BY <1>1 DEF Remove
<1>4. TypeOK'
  <2>1. disturbances' \in Nat
      BY <1>2, CallLemma DEF EtwInv
  <2>2. QED
      BY <1>1, <1>2, <2>1 DEF EtwInv, TypeOK, Goto, Leases, Places, OwnerPlaces, StartPlaces
<1>5. session = Absent \/ session.by = NoProc
    BY <1>1 DEF EtwInv, PlaceInv, SessionIsGone
<1>6. ForeignIsForeign' /\ SessionIsLeased'
    BY <1>1, <1>5, ConstantsAssumption DEF EtwInv, ForeignIsForeign, SessionIsLeased
<1>7. PlaceInv(p)'
  <2>1. CASE Goto(p, "leaving")
      BY <2>1, LeavingLemma DEF Goto, EtwInv, TypeOK
  <2>2. CASE snap' = [snap EXCEPT ![p] = Absent] /\ Goto(p, "intent") /\ Removed(p, r)
    <3>1. pc'[p] = "intent" /\ snap'[p] = Absent /\ lease' = Absent
        BY <2>2, <1>3 DEF Goto, EtwInv, TypeOK
    <3>2. QED
        BY <3>1 DEF PlaceInv, SnapshotIsCurrent, LeaseIsOwn, LeaseIsRecovered, SessionIsGone,
                    IntentPlaces, ActivePlaces, ReclaimPlaces
  <2>3. QED
      BY <1>1, <2>1, <2>2
<1>8. \E x \in OwnerPlaces \cup {"leaving"} : Goto(p, x)
    BY <1>1 DEF OwnerPlaces, StartPlaces
<1>9. QED
    BY <1>1, <1>4, <1>6, <1>7, <1>8, OwnerStep DEF OwnerPlaces, RecoveryPlaces, StartPlaces

-----------------------------------------------------------------------------
(***************************************************************************)
(* The steps of a start, of a service and of its end                       *)
(***************************************************************************)

\* What a write of the process's own lease changes.
LEMMA ReplaceLemma ==
  ASSUME EtwInv, NEW p \in Procs, NEW r \in ReplaceOutcomes, NEW phase \in Phases,
         Replace(p, OwnLease(p, phase), r)
  PROVE  /\ lease' \in {lease, OwnLease(p, phase)} /\ lease' \in Leases
         /\ survivors' \subseteq Leases
         /\ snap' \in [Procs -> Leases]
         /\ disturbances' \in Nat
         /\ Replaced(p, OwnLease(p, phase), r) =>
              lease' = OwnLease(p, phase) /\ snap'[p] = OwnLease(p, phase)
         /\ Written(p, OwnLease(p, phase), r) => lease' = OwnLease(p, phase)
         /\ ~Written(p, OwnLease(p, phase), r) => lease' = lease /\ snap' = snap
<1> DEFINE l == OwnLease(p, phase)
<1>1. l \in Leases
    BY OwnLeaseLemma DEF EtwInv, Leases
<1>2. disturbances' \in Nat
    BY CallLemma DEF Replace, EtwInv
<1> HIDE DEF l
<1>3. /\ lease' = IF Written(p, l, r) THEN l ELSE lease
      /\ survivors' = IF Written(p, l, r) THEN {l} ELSE survivors
      /\ snap' = IF Replaced(p, l, r) THEN [snap EXCEPT ![p] = l] ELSE snap
    BY DEF Replace, l
<1>4. Replaced(p, l, r) => Written(p, l, r)
    BY DEF Replaced, Written
<1>5. QED
    BY <1>1, <1>2, <1>3, <1>4 DEF EtwInv, TypeOK, l

\* The intent is recorded with no lease in the file.
LEMMA WriteIntentStep ==
  ASSUME EtwInv, NEW p \in Procs, NEW r \in ReplaceOutcomes, WriteIntent(p, r)
  PROVE  EtwInv'
<1> DEFINE l == OwnLease(p, "Intent")
<1>1. /\ pc[p] = "intent"
      /\ Replace(p, l, r)
      /\ Goto(p, IF Replaced(p, l, r) THEN "startTrace" ELSE "leaving")
      /\ UNCHANGED <<session, boot, installed, marker, owner, seen, monitor>>
    BY DEF WriteIntent
<1>2. "Intent" \in Phases
    BY DEF Phases
<1>3. TypeOK'
    BY <1>1, <1>2, ReplaceLemma DEF EtwInv, TypeOK, Goto, Places, OwnerPlaces, StartPlaces
<1>4. ~Trusted(lease)
    BY <1>1 DEF EtwInv, PlaceInv, LeaseIsOwn, Trusted
<1>5. ForeignIsForeign' /\ SessionIsLeased'
    BY <1>1, <1>4 DEF EtwInv, ForeignIsForeign, SessionIsLeased
<1>6. PlaceInv(p)'
  <2>1. CASE Replaced(p, l, r)
    <3>1. pc'[p] = "startTrace" /\ lease' = l /\ snap'[p] = l
        BY <1>1, <1>2, <2>1, ReplaceLemma DEF Goto, EtwInv, TypeOK
    <3>2. QED
        BY <3>1, <1>1 DEF PlaceInv, SnapshotIsCurrent, LeaseIsOwn, LeaseIsRecovered, SessionIsGone,
                          OwnLease, IntentPlaces, ActivePlaces, ReclaimPlaces
  <2>2. CASE ~Replaced(p, l, r)
      BY <1>1, <2>2, LeavingLemma DEF Goto, EtwInv, TypeOK
  <2>3. QED
      BY <2>1, <2>2
<1>7. \E x \in OwnerPlaces \cup {"leaving"} : Goto(p, x)
    BY <1>1 DEF OwnerPlaces, StartPlaces
<1>8. QED
    BY <1>1, <1>3, <1>5, <1>6, <1>7, OwnerStep DEF OwnerPlaces, StartPlaces

\* The session starts with the intent on file.
LEMMA StartTraceStep ==
  ASSUME EtwInv, NEW p \in Procs, NEW ok \in BOOLEAN, StartTrace(p, ok)
  PROVE  EtwInv'
<1>1. /\ pc[p] = "startTrace"
      /\ \/ session' = session /\ Goto(p, "cleanup")
         \/ session' = [identity |-> SessionOf[installed], by |-> p] /\ Goto(p, "openTrace")
      /\ UNCHANGED <<lease, survivors, boot, installed, marker, owner, snap, seen, monitor>>
      /\ Call(ok)
    BY DEF StartTrace
<1>2. snap[p] = lease /\ lease = OwnLease(p, "Intent")
    BY <1>1 DEF EtwInv, PlaceInv, SnapshotIsCurrent, LeaseIsOwn, IntentPlaces,
                SnapshotPlaces, OwnerPlaces, StartPlaces
<1>3. TypeOK'
  <2>1. session' \in Session \cup {Absent}
      BY <1>1, ConstantsAssumption DEF EtwInv, TypeOK, Session
  <2>2. QED
      BY <1>1, <2>1, CallLemma DEF EtwInv, TypeOK, Goto, Places, OwnerPlaces, StartPlaces
<1>4. PlaceInv(p)'
  <2>1. pc'[p] \in {"cleanup", "openTrace"}
      BY <1>1 DEF Goto, EtwInv, TypeOK
  <2>2. QED
      BY <2>1, <1>1, <1>2
         DEF PlaceInv, SnapshotIsCurrent, LeaseIsOwn, LeaseIsRecovered, SessionIsGone,
             OwnLease, ActivePlaces, ReclaimPlaces
<1>5. ForeignIsForeign' /\ SessionIsLeased'
  <2>1. CASE session' = session
      BY <2>1, <1>1 DEF EtwInv, ForeignIsForeign, SessionIsLeased, Trusted
  <2>2. CASE session' = [identity |-> SessionOf[installed], by |-> p]
    <3>1. /\ Trusted(lease) /\ lease.controller = p
          /\ lease.session = SessionOf[installed] /\ lease.boot = boot
        BY <1>2, OwnLeaseLemma DEF EtwInv, Phases
    <3>2. QED
        BY <2>2, <3>1, <1>1, ConstantsAssumption DEF ForeignIsForeign, SessionIsLeased, Trusted
  <2>3. QED
      BY <1>1, <2>1, <2>2
<1>6. \E x \in OwnerPlaces \cup {"leaving"} : Goto(p, x)
    BY <1>1 DEF OwnerPlaces, StartPlaces
<1>7. QED
    BY <1>1, <1>3, <1>4, <1>5, <1>6, OwnerStep DEF OwnerPlaces, StartPlaces

\* Stopping a trace leaves the session or none.
LEMMA StopTraceLemma == \A p \in Procs : AfterStopTrace(p) \in {session, Absent}
BY DEF AfterStopTrace

\* Opening the trace.
LEMMA OpenTraceStep ==
  ASSUME EtwInv, NEW p \in Procs, NEW o \in OpenOutcomes, OpenTrace(p, o)
  PROVE  EtwInv'
<1>1. /\ pc[p] = "openTrace"
      /\ session' \in {session, Absent}
      /\ monitor' \in {monitor, [monitor EXCEPT ![p] = "open"]}
      /\ Goto(p, "active") \/ Goto(p, "cleanup")
      /\ UNCHANGED <<lease, survivors, boot, installed, marker, owner, snap, seen>>
      /\ Call(o = "ok")
    BY StopTraceLemma DEF OpenTrace
<1>2. snap[p] = lease /\ lease = OwnLease(p, "Intent")
    BY <1>1 DEF EtwInv, PlaceInv, SnapshotIsCurrent, LeaseIsOwn, IntentPlaces,
                SnapshotPlaces, OwnerPlaces, StartPlaces
<1>3. TypeOK'
  <2>1. disturbances' \in Nat
      BY <1>1, CallLemma DEF EtwInv
  <2>2. QED
      BY <1>1, <2>1 DEF EtwInv, TypeOK, Goto, Places, OwnerPlaces, StartPlaces
<1>4. PlaceInv(p)'
  <2>1. pc'[p] \in {"active", "cleanup"}
      BY <1>1 DEF Goto, EtwInv, TypeOK
  <2>2. QED
      BY <2>1, <1>1, <1>2
         DEF PlaceInv, SnapshotIsCurrent, LeaseIsOwn, LeaseIsRecovered, SessionIsGone,
             OwnLease, ActivePlaces, ReclaimPlaces
<1>5. ForeignIsForeign' /\ SessionIsLeased'
    BY <1>1 DEF EtwInv, ForeignIsForeign, SessionIsLeased, Trusted
<1>6. \E x \in OwnerPlaces \cup {"leaving"} : Goto(p, x)
    BY <1>1 DEF OwnerPlaces, StartPlaces
<1>7. QED
    BY <1>1, <1>3, <1>4, <1>5, <1>6, OwnerStep DEF OwnerPlaces, StartPlaces

\* A write that keeps the process's name in its own lease keeps the session leased.
LEMMA RewriteKeepsLeased ==
  ASSUME EtwInv, NEW p \in Procs, NEW a \in Phases, NEW b \in Phases,
         lease = OwnLease(p, a), lease' \in {lease, OwnLease(p, b)},
         session' = session, boot' = boot
  PROVE  ForeignIsForeign' /\ SessionIsLeased'
<1>1. /\ Trusted(lease') /\ lease'.controller = lease.controller
      /\ lease'.session = lease.session /\ lease'.boot = lease.boot
    BY OwnLeaseLemma DEF EtwInv
<1>2. QED
    BY <1>1 DEF EtwInv, ForeignIsForeign, SessionIsLeased, Trusted

\* The lease becomes active.
LEMMA WriteActiveStep ==
  ASSUME EtwInv, NEW p \in Procs, NEW r \in ReplaceOutcomes, WriteActive(p, r)
  PROVE  EtwInv'
<1> DEFINE l == OwnLease(p, "Active")
<1>1. /\ pc[p] = "active"
      /\ Replace(p, l, r)
      /\ Goto(p, IF Replaced(p, l, r) THEN "serving"
                 ELSE IF Written(p, l, r) THEN "drop" ELSE "abort")
      /\ UNCHANGED <<session, boot, installed, marker, owner, seen, monitor>>
    BY DEF WriteActive
<1>2. "Active" \in Phases /\ "Intent" \in Phases
    BY DEF Phases
<1>3. snap[p] = lease /\ lease = OwnLease(p, "Intent")
    BY <1>1 DEF EtwInv, PlaceInv, SnapshotIsCurrent, LeaseIsOwn, IntentPlaces,
                SnapshotPlaces, OwnerPlaces, StartPlaces
<1>4. TypeOK'
    BY <1>1, <1>2, ReplaceLemma
       DEF EtwInv, TypeOK, Goto, Places, OwnerPlaces, StartPlaces, ServicePlaces
<1>5. PlaceInv(p)'
  <2>1. \/ pc'[p] = "serving" /\ lease' = l /\ snap'[p] = l
        \/ pc'[p] = "drop" /\ lease' = l
        \/ pc'[p] = "abort" /\ lease' = lease /\ snap'[p] = snap[p]
    <3>1. CASE Replaced(p, l, r)
        BY <3>1, <1>1, <1>2, ReplaceLemma DEF Goto, EtwInv, TypeOK
    <3>2. CASE ~Replaced(p, l, r) /\ Written(p, l, r)
        BY <3>2, <1>1, <1>2, ReplaceLemma DEF Goto, EtwInv, TypeOK
    <3>3. CASE ~Replaced(p, l, r) /\ ~Written(p, l, r)
        BY <3>3, <1>1, <1>2, ReplaceLemma DEF Goto, EtwInv, TypeOK
    <3>4. QED
        BY <3>1, <3>2, <3>3
  <2>2. QED
      BY <2>1, <1>1, <1>3
         DEF PlaceInv, SnapshotIsCurrent, LeaseIsOwn, LeaseIsRecovered, SessionIsGone,
             OwnLease, IntentPlaces, ActivePlaces, ReclaimPlaces, SnapshotPlaces
<1>6. ForeignIsForeign' /\ SessionIsLeased'
    BY <1>1, <1>2, <1>3, ReplaceLemma, RewriteKeepsLeased
<1>7. \E x \in OwnerPlaces \cup {"leaving"} : Goto(p, x)
    BY <1>1 DEF OwnerPlaces, StartPlaces, ServicePlaces
<1>8. QED
    BY <1>1, <1>4, <1>5, <1>6, <1>7, OwnerStep DEF OwnerPlaces, StartPlaces

\* The lease is marked stopping.
LEMMA MarkStoppingStep ==
  ASSUME EtwInv, NEW p \in Procs, NEW r \in ReplaceOutcomes, MarkStopping(p, r)
  PROVE  EtwInv'
<1> DEFINE l == OwnLease(p, "Stopping")
<1>1. /\ pc[p] \in {"markStopping", "markDropped"}
      /\ Replace(p, l, r)
      /\ Goto(p, IF pc[p] = "markStopping"
                   THEN IF Replaced(p, l, r) THEN "join" ELSE "joinUnmarked"
                   ELSE IF Replaced(p, l, r) THEN "proveAbsence" ELSE "leaving")
      /\ UNCHANGED <<session, boot, installed, marker, owner, seen, monitor>>
    BY DEF MarkStopping
<1>2. "Active" \in Phases /\ "Stopping" \in Phases
    BY DEF Phases
<1>3. lease = OwnLease(p, "Active")
    BY <1>1 DEF EtwInv, PlaceInv, LeaseIsOwn, ActivePlaces
<1>4. TypeOK'
    BY <1>1, <1>2, ReplaceLemma DEF EtwInv, TypeOK, Goto, Places, OwnerPlaces, ServicePlaces
<1>5. PlaceInv(p)'
  <2>1. \/ pc'[p] \in {"join", "proveAbsence"} /\ lease' = l /\ snap'[p] = l
        \/ pc'[p] = "joinUnmarked" /\ lease' \in {lease, l}
        \/ pc'[p] = "leaving"
    <3>1. CASE Replaced(p, l, r)
        BY <3>1, <1>1, <1>2, ReplaceLemma DEF Goto, EtwInv, TypeOK
    <3>2. CASE ~Replaced(p, l, r)
        BY <3>2, <1>1, <1>2, ReplaceLemma DEF Goto, EtwInv, TypeOK
    <3>3. QED
        BY <3>1, <3>2
  <2>2. QED
      BY <2>1, <1>1, <1>3, LeavingLemma
         DEF PlaceInv, SnapshotIsCurrent, LeaseIsOwn, LeaseIsRecovered, SessionIsGone,
             OwnLease, IntentPlaces, ActivePlaces, ReclaimPlaces, SnapshotPlaces
<1>6. ForeignIsForeign' /\ SessionIsLeased'
    BY <1>1, <1>2, <1>3, ReplaceLemma, RewriteKeepsLeased
<1>7. \E x \in OwnerPlaces \cup {"leaving"} : Goto(p, x)
    BY <1>1 DEF OwnerPlaces, ServicePlaces
<1>8. QED
    BY <1>1, <1>4, <1>5, <1>6, <1>7, OwnerStep DEF OwnerPlaces, ServicePlaces

\* The end of the monitor, by the owner or by a process that has given up waiting.
LEMMA ShutdownMonitorStep ==
  ASSUME EtwInv, NEW p \in Procs, NEW stopped \in BOOLEAN, NEW joined \in BOOLEAN,
         ShutdownMonitor(p, stopped, joined)
  PROVE  EtwInv'
<1> DEFINE next == CASE pc[p] = "abort" -> IF stopped /\ joined THEN "cleanup" ELSE "leaving"
                     [] pc[p] = "drop" -> "leaving"
                     [] pc[p] = "dropEngine" -> "markDropped"
                     [] OTHER -> pc[p]
<1>1. /\ pc[p] \in MonitorPlaces
      /\ session' \in {session, Absent}
      /\ monitor' \in {[monitor EXCEPT ![p] = "clean"], [monitor EXCEPT ![p] = "failed"]}
      /\ Goto(p, next)
      /\ UNCHANGED <<lease, survivors, boot, installed, marker, owner, snap, seen>>
      /\ Call(stopped /\ joined)
    BY StopTraceLemma DEF ShutdownMonitor
<1>2. \/ pc[p] = "abort" /\ next \in {"cleanup", "leaving"}
      \/ pc[p] = "drop" /\ next = "leaving"
      \/ pc[p] = "dropEngine" /\ next = "markDropped"
      \/ pc[p] \in {"join", "joinUnmarked", "leaving", "lingering"} /\ next = pc[p]
    BY <1>1 DEF MonitorPlaces
<1> HIDE DEF next
<1>3. TypeOK'
  <2>1. disturbances' \in Nat
      BY <1>1, CallLemma DEF EtwInv
  <2>2. next \in Places
      BY <1>2 DEF Places, OwnerPlaces, StartPlaces, ServicePlaces
  <2>3. QED
      BY <1>1, <2>1, <2>2 DEF EtwInv, TypeOK, Goto
<1>4. CASE pc[p] \in {"leaving", "lingering"}
  <2>1. next \in {"leaving", "lingering"} /\ (next = "leaving" => marker' = p)
      BY <1>1, <1>2, <1>4 DEF EtwInv, LocksAreHeld
  <2>2. QED
      BY <1>1, <1>3, <1>4, <2>1, OtherStep
<1>5. CASE pc[p] \notin {"leaving", "lingering"}
  <2>1. pc[p] \in OwnerPlaces /\ next \in OwnerPlaces \cup {"leaving"}
      BY <1>2, <1>5 DEF OwnerPlaces, StartPlaces, ServicePlaces
  <2>2. PlaceInv(p)'
    <3>1. pc'[p] = next /\ PlaceInv(p)
        BY <1>1 DEF Goto, EtwInv, TypeOK
    <3>2. CASE next = "leaving"
        BY <3>1, <3>2, LeavingLemma
    <3>3. CASE next # "leaving"
        BY <3>1, <3>3, <1>1, <1>2, <1>5
           DEF PlaceInv, SnapshotIsCurrent, LeaseIsOwn, LeaseIsRecovered, SessionIsGone,
               OwnLease, IntentPlaces, ActivePlaces, ReclaimPlaces, SnapshotPlaces,
               OwnerPlaces, StartPlaces, ServicePlaces
    <3>4. QED
        BY <3>2, <3>3
  <2>3. ForeignIsForeign' /\ SessionIsLeased'
      BY <1>1 DEF EtwInv, ForeignIsForeign, SessionIsLeased, Trusted
  <2>4. QED
      BY <1>1, <1>3, <2>1, <2>2, <2>3, OwnerStep
<1>6. QED
    BY <1>4, <1>5

\* The end of a service, asked for or not, and its wait for the collector thread.
LEMMA ServiceStep ==
  ASSUME EtwInv, NEW p \in Procs,
         EngineStartFails(p) \/ StopService(p) \/ JoinEngine(p) \/ JoinTimesOut(p)
  PROVE  EtwInv'
<1>1. /\ \/ pc[p] = "serving" /\ pc' = [pc EXCEPT ![p] = "dropEngine"]
         \/ pc[p] = "serving" /\ pc' = [pc EXCEPT ![p] = "markStopping"]
         \/ pc[p] = "join" /\ pc' = [pc EXCEPT ![p] = "proveAbsence"]
         \/ pc[p] \in {"join", "joinUnmarked"} /\ pc' = [pc EXCEPT ![p] = "leaving"]
      /\ UNCHANGED <<lease, survivors, session, boot, installed, marker, owner, snap, seen, monitor>>
    BY DEF EngineStartFails, StopService, JoinEngine, JoinTimesOut, Goto
<1>2. disturbances' \in Nat
    BY DEF EngineStartFails, StopService, JoinEngine, JoinTimesOut, Disturb, EtwInv, TypeOK
<1>3. TypeOK'
    BY <1>1, <1>2 DEF EtwInv, TypeOK, Places, OwnerPlaces, ServicePlaces
<1>4. PlaceInv(p)'
  <2>1. /\ \/ pc[p] = "serving" /\ pc'[p] \in {"dropEngine", "markStopping"}
           \/ pc[p] = "join" /\ pc'[p] = "proveAbsence"
           \/ pc'[p] = "leaving"
        /\ PlaceInv(p)
      BY <1>1 DEF EtwInv, TypeOK
  <2>2. QED
      BY <2>1, <1>1, LeavingLemma
         DEF PlaceInv, SnapshotIsCurrent, LeaseIsOwn, LeaseIsRecovered, SessionIsGone,
             OwnLease, IntentPlaces, ActivePlaces, ReclaimPlaces, SnapshotPlaces,
             OwnerPlaces, ServicePlaces
<1>5. pc[p] \in OwnerPlaces /\ \E x \in OwnerPlaces \cup {"leaving"} : Goto(p, x)
    BY <1>1 DEF Goto, OwnerPlaces, ServicePlaces
<1>6. QED
    BY <1>1, <1>3, <1>4, <1>5, LocalStep

-----------------------------------------------------------------------------
(***************************************************************************)
(* The coming and going of processes, and the rest of the machine          *)
(***************************************************************************)

\* The start of a process.  No service is running then.
LEMMA StartServiceStep ==
  ASSUME EtwInv, NEW p \in Procs, StartService(p)
  PROVE  EtwInv'
<1>1. /\ marker = NoProc /\ marker' = p
      /\ pc' = [pc EXCEPT ![p] = "acquire"]
      /\ UNCHANGED <<lease, survivors, session, boot, installed, owner, snap, seen, monitor, disturbances>>
    BY DEF StartService, Goto
<1>2. \A q \in Procs : pc[q] \notin OwnerPlaces \cup {"acquire", "leaving"}
    BY <1>1, ConstantsAssumption DEF EtwInv, LocksAreHeld
<1>3. TypeOK'
    BY <1>1 DEF EtwInv, TypeOK, Places
<1>4. ASSUME NEW q \in Procs PROVE LocksAreHeld(q)' /\ PlaceInv(q)'
  <2>1. \/ q = p /\ pc'[q] = "acquire"
        \/ pc'[q] \notin OwnerPlaces \cup {"acquire", "leaving"}
      BY <1>1, <1>2, <1>4 DEF EtwInv, TypeOK
  <2>2. QED
      BY <2>1, <1>1
         DEF LocksAreHeld, PlaceInv, SnapshotIsCurrent, LeaseIsOwn, LeaseIsRecovered,
             SessionIsGone, OwnerPlaces, RecoveryPlaces, StartPlaces, ServicePlaces,
             SnapshotPlaces, IntentPlaces, ActivePlaces, ReclaimPlaces
<1>5. ForeignIsForeign' /\ SessionIsLeased'
    BY <1>1 DEF EtwInv, ForeignIsForeign, SessionIsLeased, Trusted
<1>6. QED
    BY <1>3, <1>4, <1>5 DEF EtwInv

\* The return from the service, the end of the process, and a crash.
LEMMA EndStep ==
  ASSUME EtwInv, NEW p \in Procs, Leave(p) \/ Exit(p) \/ Crash(p)
  PROVE  EtwInv'
<1>1. /\ pc[p] # "dead"
      /\ Goto(p, "dead") \/ Goto(p, "lingering")
      /\ UNCHANGED <<lease, survivors, session, boot, installed>>
    BY DEF Leave, Exit, Crash, Alive
<1>2. /\ owner' \in {owner, NoProc} /\ marker' \in {marker, NoProc}
      /\ \A q \in Procs \ {p} : /\ owner = q => owner' = q
                                /\ marker = q => marker' = q
    BY DEF Leave, Exit, Crash, Release
<1>3. snap' \in {snap, [snap EXCEPT ![p] = Absent]} /\ seen' \in {seen, [seen EXCEPT ![p] = Absent]}
    BY DEF Leave, Exit, Crash, Release
<1>4. monitor' \in [Procs -> {"none", "open", "clean", "failed"}] /\ disturbances' \in Nat
    BY DEF Leave, Exit, Crash, Disturb, EtwInv, TypeOK
<1>5. TypeOK'
    BY <1>1, <1>2, <1>3, <1>4 DEF EtwInv, TypeOK, Goto, Places, Leases
<1>6. \A q \in Procs \ {p} : /\ snap'[q] = snap[q]
                             /\ owner = q => owner' = q
                             /\ marker = q => marker' = q
  <2>1. \A q \in Procs \ {p} : snap'[q] = snap[q]
      BY <1>3 DEF EtwInv, TypeOK
  <2>2. QED
      BY <1>2, <2>1
<1>7. session' \in {session, Absent}
    BY <1>1
<1>8. CASE Goto(p, "dead")
    BY <1>1, <1>5, <1>6, <1>7, <1>8, OtherStep
<1>9. CASE Goto(p, "lingering")
    BY <1>1, <1>5, <1>6, <1>7, <1>9, OtherStep
<1>10. QED
    BY <1>1, <1>8, <1>9

\* A restart of the machine.
LEMMA RebootStep ==
  ASSUME EtwInv, NEW b \in Boots, Reboot(b)
  PROVE  EtwInv'
<1>1. TypeOK'
  <2>1. disturbances' \in Nat
      BY DEF Reboot, Disturb, EtwInv, TypeOK
  <2>2. QED
      BY <2>1 DEF Reboot, EtwInv, TypeOK, Leases, Places
<1>2. ASSUME NEW p \in Procs PROVE LocksAreHeld(p)' /\ PlaceInv(p)'
    BY DEF Reboot, LocksAreHeld, PlaceInv, SnapshotIsCurrent, LeaseIsOwn, LeaseIsRecovered,
           SessionIsGone, OwnerPlaces, RecoveryPlaces, StartPlaces, ServicePlaces,
           SnapshotPlaces, IntentPlaces, ActivePlaces, ReclaimPlaces
<1>3. ForeignIsForeign' /\ SessionIsLeased'
    BY DEF Reboot, ForeignIsForeign, SessionIsLeased
<1>4. QED
    BY <1>1, <1>2, <1>3 DEF EtwInv

\* A new program is installed.  No service is running then.
LEMMA UpgradeStep ==
  ASSUME EtwInv, NEW g \in Generations, Upgrade(g)
  PROVE  EtwInv'
<1>1. TypeOK'
    BY DEF Upgrade, EtwInv, TypeOK
<1>2. \A p \in Procs : pc[p] \notin OwnerPlaces \cup {"acquire", "leaving"}
    BY ConstantsAssumption DEF Upgrade, EtwInv, LocksAreHeld
<1>3. ASSUME NEW p \in Procs PROVE LocksAreHeld(p)' /\ PlaceInv(p)'
  <2>1. pc'[p] \notin OwnerPlaces \cup {"acquire", "leaving"}
      BY <1>2 DEF Upgrade
  <2>2. QED
      BY <2>1
         DEF LocksAreHeld, PlaceInv, SnapshotIsCurrent, LeaseIsOwn, LeaseIsRecovered,
             SessionIsGone, OwnerPlaces, RecoveryPlaces, StartPlaces, ServicePlaces,
             SnapshotPlaces, IntentPlaces, ActivePlaces, ReclaimPlaces
<1>4. ForeignIsForeign' /\ SessionIsLeased'
    BY DEF Upgrade, EtwInv, ForeignIsForeign, SessionIsLeased, Trusted
<1>5. QED
    BY <1>1, <1>3, <1>4 DEF EtwInv

\* Another program starts or ends a session.
LEMMA ExternalStep ==
  ASSUME EtwInv, ExternalStart \/ ExternalStop
  PROVE  EtwInv'
<1>1. /\ session' \in {Absent, [identity |-> ForeignIdentity, by |-> NoProc]}
      /\ UNCHANGED <<lease, survivors, boot, installed, marker, owner, pc, snap, seen, monitor>>
    BY DEF ExternalStart, ExternalStop
<1>2. TypeOK'
  <2>1. disturbances' \in Nat
      BY DEF ExternalStart, ExternalStop, Disturb, EtwInv, TypeOK
  <2>2. session' \in Session \cup {Absent}
      BY <1>1, ConstantsAssumption DEF Session
  <2>3. QED
      BY <1>1, <2>1, <2>2 DEF EtwInv, TypeOK
<1>3. ASSUME NEW p \in Procs PROVE LocksAreHeld(p)' /\ PlaceInv(p)'
  <2>1. LocksAreHeld(p)'
      BY <1>1 DEF EtwInv, LocksAreHeld
  <2>2. SnapshotIsCurrent(p)' /\ LeaseIsOwn(p)' /\ LeaseIsRecovered(p)'
      BY <1>1 DEF EtwInv, PlaceInv, SnapshotIsCurrent, LeaseIsOwn, LeaseIsRecovered, OwnLease,
                  Matches, Trusted, Alive
  <2>3. SessionIsGone(p)'
      BY <1>1 DEF SessionIsGone
  <2>4. QED
      BY <2>1, <2>2, <2>3 DEF PlaceInv
<1>4. ForeignIsForeign' /\ SessionIsLeased'
    BY <1>1, ConstantsAssumption DEF ForeignIsForeign, SessionIsLeased
<1>5. QED
    BY <1>2, <1>3, <1>4 DEF EtwInv

-----------------------------------------------------------------------------
(***************************************************************************)
(* The theorems                                                            *)
(***************************************************************************)

\* Every step of every process and of the machine preserves the invariant.
LEMMA NextEtwInv == EtwInv /\ [Next]_vars => EtwInv'
<1> SUFFICES ASSUME EtwInv, [Next]_vars PROVE EtwInv'
    OBVIOUS
<1>1. ASSUME NEW p \in Procs, Recovering(p) PROVE EtwInv'
    BY <1>1, AcquireOwnerStep, ObserveLeaseStep, QuerySessionStep, DecideRecoveryStep,
       MarkReclaimedStep, StopExactStep, RecheckStep, ConfirmAbsenceStep, RemoveStep
       DEF Recovering
<1>2. ASSUME NEW p \in Procs, Starting(p) PROVE EtwInv'
    BY <1>2, WriteIntentStep, StartTraceStep, OpenTraceStep, WriteActiveStep DEF Starting
<1>3. ASSUME NEW p \in Procs, Ending(p) PROVE EtwInv'
    BY <1>3, MarkStoppingStep, ShutdownMonitorStep, ServiceStep, EndStep DEF Ending
<1>4. ASSUME NEW p \in Procs, Process(p) PROVE EtwInv'
    BY <1>1, <1>2, <1>3, <1>4, StartServiceStep, ServiceStep, EndStep DEF Process, Running
<1>5. CASE Environment
    BY <1>5, RebootStep, UpgradeStep, ExternalStep DEF Environment
<1>6. CASE UNCHANGED vars
  <2>1. UNCHANGED <<lease, survivors, session, boot, installed, marker, owner, pc, snap, seen,
                    monitor, disturbances>>
      BY <1>6 DEF vars
  <2>2. TypeOK'
      BY <2>1 DEF EtwInv, TypeOK
  <2>3. ASSUME NEW p \in Procs PROVE LocksAreHeld(p)' /\ PlaceInv(p)'
      BY <2>1, <2>3 DEF EtwInv, LocksAreHeld, PlaceInv, SnapshotIsCurrent, LeaseIsOwn,
                        LeaseIsRecovered, SessionIsGone, OwnLease, Matches, Trusted, Alive
  <2>4. ForeignIsForeign' /\ SessionIsLeased'
      BY <2>1 DEF EtwInv, ForeignIsForeign, SessionIsLeased, Trusted
  <2>5. QED
      BY <2>2, <2>3, <2>4 DEF EtwInv
<1>7. QED
    BY <1>4, <1>5, <1>6 DEF Next

\* The lease, the session and the locks agree at every place of every process,
\* whatever crashes, fails, restarts or is installed.
THEOREM EtwInvariance == Spec => []EtwInv
<1>1. Init => EtwInv
    BY InitEtwInv
<1>2. EtwInv /\ [Next]_vars => EtwInv'
    BY NextEtwInv
<1>3. QED
    BY <1>1, <1>2, PTL DEF Spec

\* A session that a service process started is never without a lease that names
\* the process, its boot and the session.
THEOREM SessionsAreLeased == Spec => []SessionIsLeased
<1>1. EtwInv => SessionIsLeased
    BY DEF EtwInv
<1>2. QED
    BY <1>1, EtwInvariance, PTL

-----------------------------------------------------------------------------
\* What one step of a process may do to a session that exists: nothing, unless
\* the process started it, or reclaims that of a dead one.
LEMMA SessionStep ==
  ASSUME EtwInv, NEW p \in Procs, Process(p), session # Absent, session' # session
  PROVE  \/ session.by = p /\ \E o \in OpenOutcomes : OpenTrace(p, o)
         \/ /\ session.by = p
            /\ \E stopped, joined \in BOOLEAN : ShutdownMonitor(p, stopped, joined)
         \/ session.by \in Procs /\ ~Alive(session.by)
<1>1. \/ \E ok \in BOOLEAN : StopExact(p, ok)
      \/ \E o \in OpenOutcomes : OpenTrace(p, o)
      \/ \E stopped, joined \in BOOLEAN : ShutdownMonitor(p, stopped, joined)
  <2>1. ASSUME NEW ok \in BOOLEAN,
               \/ AcquireOwner(p, ok) \/ ObserveLease(p, ok) \/ QuerySession(p, ok)
               \/ ConfirmAbsence(p, ok) \/ StartTrace(p, ok)
        PROVE  FALSE
      BY <2>1 DEF AcquireOwner, ObserveLease, QuerySession, ConfirmAbsence, StartTrace
  <2>2. ASSUME NEW c \in ControllerSeen(snap[p]), DecideRecovery(p, c) \/ Recheck(p, c)
        PROVE  FALSE
      BY <2>2 DEF DecideRecovery, Recheck
  <2>3. ASSUME NEW r \in ReplaceOutcomes,
               \/ MarkReclaimed(p, r) \/ RemoveStale(p, r) \/ RemoveOwn(p, r)
               \/ WriteIntent(p, r) \/ WriteActive(p, r) \/ MarkStopping(p, r)
        PROVE  FALSE
      BY <2>3 DEF MarkReclaimed, RemoveStale, RemoveOwn, WriteIntent, WriteActive, MarkStopping
  <2>4. ASSUME \/ StartService(p) \/ JoinEngine(p) \/ JoinTimesOut(p) \/ Leave(p) \/ Exit(p)
               \/ EngineStartFails(p) \/ StopService(p) \/ Crash(p)
        PROVE  FALSE
      BY <2>4 DEF StartService, JoinEngine, JoinTimesOut, Leave, Exit, EngineStartFails,
                  StopService, Crash
  <2>5. QED
      BY <2>1, <2>2, <2>3, <2>4 DEF Process, Running, Recovering, Starting, Ending
<1>2. ASSUME NEW ok \in BOOLEAN, StopExact(p, ok)
      PROVE  session.by \in Procs /\ ~Alive(session.by)
  <2>1. pc[p] = "stopExact" /\ SessionSeen = snap[p].session
      BY <1>2 DEF StopExact
  <2>2. snap[p] = lease /\ Matches(installed, lease) /\ ~Alive(lease.controller)
      BY <2>1 DEF EtwInv, PlaceInv, SnapshotIsCurrent, LeaseIsRecovered, ReclaimPlaces,
                  SnapshotPlaces, OwnerPlaces, RecoveryPlaces
  <2>3. session.identity # ForeignIdentity
    <3>1. session.identity = SessionOf[installed]
        BY <2>1, <2>2 DEF SessionSeen, Matches
    <3>2. QED
        BY <3>1, ConstantsAssumption DEF EtwInv, TypeOK
  <2>4. session.by \in Procs
      BY <2>3 DEF EtwInv, ForeignIsForeign, TypeOK, Session
  <2>5. QED
      BY <2>2, <2>4 DEF EtwInv, SessionIsLeased
<1>3. ASSUME \/ \E o \in OpenOutcomes : OpenTrace(p, o)
             \/ \E stopped, joined \in BOOLEAN : ShutdownMonitor(p, stopped, joined)
      PROVE  session.by = p
    BY <1>3 DEF OpenTrace, ShutdownMonitor, AfterStopTrace
<1>4. QED
    BY <1>1, <1>2, <1>3

\* The machine's own steps that may end a session.
LEMMA EnvironmentStep ==
  ASSUME Environment, session # Absent, session' # session
  PROVE  ExternalStop \/ \E b \in Boots : Reboot(b)
BY DEF Environment, Upgrade, ExternalStart

\* The session of a living process is ended by that process, by an outsider or by
\* a restart, never by the recovery of another.
THEOREM LiveSessionsAreSpared == Spec => LiveSessionIsSpared
<1>1. ASSUME EtwInv, [Next]_vars, NEW p \in Procs,
             session # Absent, session.by = p, Alive(p), session' # session
      PROVE  \/ \E o \in OpenOutcomes : OpenTrace(p, o)
             \/ \E stopped, joined \in BOOLEAN : ShutdownMonitor(p, stopped, joined)
             \/ ExternalStop
             \/ \E b \in Boots : Reboot(b)
  <2>1. CASE Environment
      BY <1>1, <2>1, EnvironmentStep
  <2>2. ASSUME NEW q \in Procs, Process(q)
        PROVE  \/ \E o \in OpenOutcomes : OpenTrace(p, o)
               \/ \E stopped, joined \in BOOLEAN : ShutdownMonitor(p, stopped, joined)
      BY <1>1, <2>2, SessionStep
  <2>3. CASE UNCHANGED vars
      BY <1>1, <2>3 DEF vars
  <2>4. QED
      BY <1>1, <2>1, <2>2, <2>3 DEF Next
<1> DEFINE Spared == \A p \in Procs :
             session # Absent /\ session.by = p /\ Alive(p) /\ session' # session =>
               \/ \E o \in OpenOutcomes : OpenTrace(p, o)
               \/ \E stopped, joined \in BOOLEAN : ShutdownMonitor(p, stopped, joined)
               \/ ExternalStop
               \/ \E b \in Boots : Reboot(b)
<1>2. EtwInv /\ [Next]_vars => [Spared]_vars
    BY <1>1
<1>3. QED
    BY <1>2, EtwInvariance, PTL DEF Spec, LiveSessionIsSpared

\* The service never ends a session that another program started.
THEOREM ForeignSessionsAreSpared == Spec => ForeignSessionIsSpared
<1>1. ASSUME EtwInv, [Next]_vars, session # Absent, session.by = NoProc, session' # session
      PROVE  ExternalStop \/ \E b \in Boots : Reboot(b)
  <2>1. CASE Environment
      BY <1>1, <2>1, EnvironmentStep
  <2>2. ASSUME NEW q \in Procs, Process(q) PROVE FALSE
      BY <1>1, <2>2, SessionStep, ConstantsAssumption
  <2>3. CASE UNCHANGED vars
      BY <1>1, <2>3 DEF vars
  <2>4. QED
      BY <1>1, <2>1, <2>2, <2>3 DEF Next
<1> DEFINE Spared == session # Absent /\ session.by = NoProc /\ session' # session =>
                       ExternalStop \/ \E b \in Boots : Reboot(b)
<1>2. EtwInv /\ [Next]_vars => [Spared]_vars
    BY <1>1
<1>3. QED
    BY <1>2, EtwInvariance, PTL DEF Spec, ForeignSessionIsSpared

\* Which leases a step of a process changes: none, its own, the one it recovers,
\* or the empty file.
LEMMA LeaseStep ==
  ASSUME EtwInv, NEW p \in Procs, Process(p), lease' # lease
  PROVE  \/ lease = Absent
         \/ Trusted(lease) /\ (lease.generation = installed \/ lease.phase = "Stopping")
<1> USE DEF EtwInv, PlaceInv
<1>1. ASSUME NEW r \in ReplaceOutcomes, MarkReclaimed(p, r)
      PROVE  Trusted(lease) /\ lease.generation = installed
    BY <1>1 DEF MarkReclaimed, LeaseIsRecovered, ReclaimPlaces, Matches
<1>2. ASSUME NEW r \in ReplaceOutcomes, RemoveStale(p, r)
      PROVE  Trusted(lease) /\ (lease.generation = installed \/ lease.phase = "Stopping")
    BY <1>2 DEF RemoveStale, LeaseIsRecovered
<1>3. ASSUME NEW r \in ReplaceOutcomes, WriteIntent(p, r)
      PROVE  lease = Absent
    BY <1>3 DEF WriteIntent, LeaseIsOwn
<1>4. ASSUME NEW r \in ReplaceOutcomes,
             RemoveOwn(p, r) \/ WriteActive(p, r) \/ MarkStopping(p, r)
      PROVE  Trusted(lease) /\ lease.generation = installed
  <2>1. \E ph \in Phases : lease = OwnLease(p, ph)
      BY <1>4 DEF RemoveOwn, WriteActive, MarkStopping, LeaseIsOwn, IntentPlaces, ActivePlaces,
                  Phases
  <2>2. PICK ph \in Phases : lease = OwnLease(p, ph)
      BY <2>1
  <2>3. lease \in Lease
      BY <2>2, ConstantsAssumption DEF OwnLease, Lease, TypeOK
  <2>4. QED
      BY <2>2, <2>3, ConstantsAssumption DEF OwnLease, Trusted
<1>5. ASSUME NEW ok \in BOOLEAN,
             \/ AcquireOwner(p, ok) \/ ObserveLease(p, ok) \/ QuerySession(p, ok)
             \/ StopExact(p, ok) \/ ConfirmAbsence(p, ok) \/ StartTrace(p, ok)
      PROVE  FALSE
    BY <1>5 DEF AcquireOwner, ObserveLease, QuerySession, StopExact, ConfirmAbsence, StartTrace
<1>6. ASSUME NEW c \in ControllerSeen(snap[p]), DecideRecovery(p, c) \/ Recheck(p, c)
      PROVE  FALSE
    BY <1>6 DEF DecideRecovery, Recheck
<1>7. ASSUME \/ \E o \in OpenOutcomes : OpenTrace(p, o)
             \/ \E stopped, joined \in BOOLEAN : ShutdownMonitor(p, stopped, joined)
      PROVE  FALSE
    BY <1>7 DEF OpenTrace, ShutdownMonitor
<1>8. ASSUME \/ StartService(p) \/ JoinEngine(p) \/ JoinTimesOut(p) \/ Leave(p) \/ Exit(p)
             \/ EngineStartFails(p) \/ StopService(p) \/ Crash(p)
      PROVE  FALSE
    BY <1>8 DEF StartService, JoinEngine, JoinTimesOut, Leave, Exit, EngineStartFails,
                StopService, Crash
<1>9. QED
    BY <1>1, <1>2, <1>3, <1>4, <1>5, <1>6, <1>7, <1>8
    DEF Process, Running, Recovering, Starting, Ending

\* A damaged lease and a live lease of another generation are never overwritten or
\* removed by the service.
THEOREM RefusedLeasesAreKept == Spec => RefusedLeaseIsKept
<1> DEFINE Refused == \/ lease \in Damaged
                      \/ Trusted(lease) /\ lease.generation # installed /\ lease.phase # "Stopping"
           Kept == Refused => lease' = lease \/ \E b \in Boots : Reboot(b)
<1>1. ASSUME EtwInv, [Next]_vars, Refused, lease' # lease
      PROVE  \E b \in Boots : Reboot(b)
  <2>1. CASE Environment
      BY <1>1, <2>1 DEF Environment, Upgrade, ExternalStart, ExternalStop
  <2>2. ASSUME NEW p \in Procs, Process(p) PROVE FALSE
      BY <1>1, <2>2, LeaseStep, ConstantsAssumption DEF Trusted
  <2>3. CASE UNCHANGED vars
      BY <1>1, <2>3 DEF vars
  <2>4. QED
      BY <1>1, <2>1, <2>2, <2>3 DEF Next
<1>2. EtwInv /\ [Next]_vars => [Kept]_vars
    BY <1>1
<1>3. QED
    BY <1>2, EtwInvariance, PTL DEF Spec, RefusedLeaseIsKept
=============================================================================
