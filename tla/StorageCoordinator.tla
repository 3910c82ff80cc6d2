------------------------- MODULE StorageCoordinator -------------------------
(***************************************************************************)
(* The current-user storage coordinator of persistence.rs: what it         *)
(* believes about the settings, warm-cache and diagnostics files, how a    *)
(* failure of the directory itself masks that belief and how a verified    *)
(* recovery restores it, and the diagnostics circuit breaker.  The         *)
(* operations are functions from a storage state and the answers of the    *)
(* file system to the next storage state; the modules that own a           *)
(* coordinator (the writer thread of BackgroundPersistence) apply them.    *)
(***************************************************************************)
EXTENDS FileContents

CONSTANT RootCheck         \* answers of ensure_root the instance explores

\* ensure_root answers that the directory is private to the user, that it is
\* not (or cannot be created), or that its ownership cannot be verified.
ASSUME RootCheckAssumption == RootCheck \subseteq {"verified", "invalid", "unverified"}

File == {"Settings", "WarmCache"}
Component == File \cup {"Diagnostics"}

\* RuntimePersistenceState and RuntimePersistenceDurability
State == {"Healthy", "Degraded", "Unavailable"}
Durability == {"Durable", "SessionOnly", "NotApplicable"}
ComponentHealth == [state : State, durability : Durability]
Health == [Component -> ComponentHealth]

\* How the file operation behind a call ends.  "uncertain" is a replacement
\* or removal that happened and whose directory sync failed; the root
\* outcomes are the operation's own ensure_root failing.
Outcome == {"ok", "failed", "uncertain", "rootInvalid", "rootUnverified"}

\* The answers one call gets: the root check before it, the operation, and
\* the root check made after a failure to tell whose failure it was.  Answers
\* nobody asks for have a fixed value.
Answers ==
  {a \in [check : RootCheck, outcome : Outcome, recheck : RootCheck] :
     /\ a.check # "verified" => a.outcome = "failed"
     /\ a.outcome = "rootInvalid" => "invalid" \in RootCheck
     /\ a.outcome = "rootUnverified" => "unverified" \in RootCheck
     /\ a.check # "verified" \/ a.outcome \notin {"failed", "uncertain"} =>
          a.recheck = "verified"}

\* RuntimePersistenceCoordinator and the breaker of UserStorageCoordinator
Coordinator ==
  [health : Health,              \* components
   rootFailed : BOOLEAN,         \* root_failure.is_some()
   permission : {"Verified", "Invalid", "Unavailable"},
   masked : BOOLEAN,             \* components_before_root_failure.is_some()
   saved : Health,               \* components_before_root_failure
   attempted : SUBSET Component, \* components_attempted_during_root_failure
   resolvable : BOOLEAN,         \* root_revalidation_enabled
   breaker : BOOLEAN]            \* diagnostic_state.active_failure.is_some()

\* A coordinator, the files, and whether each file's content is known to
\* survive a power loss (AtomicReplace: survivors = {visible}).
Storage == [co : Coordinator, disk : [File -> Contents], settled : [File -> BOOLEAN]]

-----------------------------------------------------------------------------
Mark(s, d) == [state |-> s, durability |-> d]
Lost == Mark("Degraded", "SessionOnly")

\* The health of components nothing was asked of yet
Untouched == [c \in Component |-> Mark("Healthy", "NotApplicable")]

Attempt(co, c) == [co EXCEPT !.attempted = @ \cup {c}]

RecordSuccess(co, c, d) == [co EXCEPT !.health[c] = Mark("Healthy", d)]

\* record_failure, called only after the root was verified
RecordFailure(co, c) == [co EXCEPT !.health[c] = Lost]

\* record_root_failure: the first one saves what is believed of the
\* components; every one masks them all.
RecordRootFailure(co, check) ==
  LET seen == IF check = "unverified" THEN "Unavailable" ELSE "Degraded"
  IN [co EXCEPT !.saved = IF co.rootFailed THEN @ ELSE co.health,
                !.masked = co.rootFailed => @,
                !.permission = IF check = "unverified" THEN "Unavailable" ELSE "Invalid",
                !.rootFailed = TRUE,
                !.health = [c \in Component |-> Mark(seen, "SessionOnly")]]

\* The verified branch of revalidate_root: unmask, except that a component
\* somebody tried to use meanwhile is degraded until its next success.
Recover(co) ==
  IF ~co.rootFailed THEN co
  ELSE [co EXCEPT !.rootFailed = FALSE,
                  !.permission = "Verified",
                  !.masked = FALSE, !.saved = Untouched,
                  !.health = [c \in Component |->
                                IF c \in co.attempted THEN Lost
                                ELSE IF co.masked THEN co.saved[c] ELSE co.health[c]],
                  !.attempted = {}]

\* revalidate_root lets the call go on.
RootUsable(co, check) == co.resolvable /\ check = "verified"

RevalidateRoot(co, c, check) ==
  IF ~co.resolvable THEN Attempt(co, c)
  ELSE IF check = "verified" THEN Recover(co)
  ELSE Attempt(RecordRootFailure(co, check), c)

\* record_operation_failure: the root is to blame if the failure names it or
\* if it fails the second look.
RecordOperationFailure(co, c, a) ==
  LET blame == CASE a.outcome = "rootInvalid" -> "invalid"
                 [] a.outcome = "rootUnverified" -> "unverified"
                 [] OTHER -> a.recheck
  IN IF blame # "verified" THEN Attempt(RecordRootFailure(co, blame), c)
     ELSE RecordFailure(co, c)

Succeeds(st, a) == RootUsable(st.co, a.check) /\ a.outcome = "ok"

\* The file of component c now holds v, durably or not.
Put(st, c, v, durable) == [st EXCEPT !.disk[c] = v, !.settled[c] = durable]

\* The shared shape of write_json and remove: v is what the file holds after
\* the call, d the durability the coordinator then reports.
ReplaceFile(st, c, v, d, a) ==
  LET co == RevalidateRoot(st.co, c, a.check)
      touched == CASE a.outcome = "ok" -> Put(st, c, v, d = "Durable")
                   [] a.outcome = "uncertain" -> Put(st, c, v, FALSE)
                   [] OTHER -> st
  IN IF ~RootUsable(st.co, a.check) THEN [st EXCEPT !.co = co]
     ELSE [touched EXCEPT !.co = IF a.outcome = "ok" THEN RecordSuccess(co, c, d)
                                 ELSE RecordOperationFailure(co, c, a)]

WriteJson(st, c, v, a) == ReplaceFile(st, c, v, "Durable", a)

\* A removal is never counted on to survive a power loss: Windows syncs
\* nothing, and a name that is already gone is success without a sync.
Remove(st, c, a) == ReplaceFile(st, c, Absent, "NotApplicable", a)

\* load_json: "failed" stands for an unreadable, corrupt or unsupported file.
LoadJson(st, c, a) ==
  LET co == RevalidateRoot(st.co, c, a.check)
      d == IF st.disk[c] = Absent THEN "NotApplicable" ELSE "Durable"
  IN [st EXCEPT !.co = IF ~RootUsable(st.co, a.check) THEN co
                       ELSE IF a.outcome = "ok" THEN RecordSuccess(co, c, d)
                       ELSE RecordOperationFailure(co, c, a)]

RecordDiagnosticUnnoticed(st, rejected, a) ==
  LET co == RevalidateRoot(st.co, "Diagnostics", a.check)
      fuse == IF rejected /\ a.outcome \notin {"rootInvalid", "rootUnverified"}
              THEN co ELSE [co EXCEPT !.breaker = TRUE]
  IN [st EXCEPT !.co =
        IF ~RootUsable(st.co, a.check) \/ co.breaker THEN co
        ELSE IF a.outcome = "ok" /\ ~rejected THEN RecordSuccess(co, "Diagnostics", "Durable")
        ELSE fuse]

\* record_diagnostic: an open breaker suppresses the event; a failure of the
\* file or of the root opens it, an event too large to store (rejected) does
\* not.
RecordDiagnostic(st, rejected, a) ==
  LET co == RevalidateRoot(st.co, "Diagnostics", a.check)
      fuse == IF rejected /\ a.outcome \notin {"rootInvalid", "rootUnverified"}
              THEN co ELSE [co EXCEPT !.breaker = TRUE]
  IN [st EXCEPT !.co =
        IF ~RootUsable(st.co, a.check) \/ co.breaker THEN co
        ELSE IF a.outcome = "ok" /\ ~rejected THEN RecordSuccess(co, "Diagnostics", "Durable")
        ELSE RecordOperationFailure(fuse, "Diagnostics", a)]

RetryDiagnostics(st) ==
  IF st.co.rootFailed THEN st ELSE [st EXCEPT !.co.breaker = FALSE]

-----------------------------------------------------------------------------
\* RuntimePersistenceCoordinator::new before its first root check
Fresh == [health |-> Untouched,
          rootFailed |-> FALSE, permission |-> "Verified",
          masked |-> FALSE, saved |-> Untouched,
          attempted |-> {}, resolvable |-> TRUE, breaker |-> FALSE]

\* new: the check is part of the construction.
NewCoordinator(check) == IF check = "verified" THEN Fresh ELSE RecordRootFailure(Fresh, check)

\* unavailable: no directory could be resolved for this user, for good.
UnavailableCoordinator ==
  [Fresh EXCEPT !.health = [c \in Component |-> Mark("Unavailable", "SessionOnly")],
                !.rootFailed = TRUE, !.permission = "Unavailable", !.resolvable = FALSE]

\* What the coordinator would report of c once the root is usable again.
Unmasked(co, c) ==
  IF ~co.rootFailed THEN co.health[c]
  ELSE IF c \in co.attempted THEN Lost
  ELSE IF co.masked THEN co.saved[c] ELSE co.health[c]

\* Inductive: what is believed of the components is consistent, and a root
\* failure masks all of it, after saving it unless there never was a root.
CoordinatorInv(co) ==
  /\ \A c \in Component : /\ co.health[c].state = "Healthy" <=> co.health[c].durability # "SessionOnly"
                          /\ co.saved[c].state = "Healthy" <=> co.saved[c].durability # "SessionOnly"
  /\ co.rootFailed => \A c \in Component : co.health[c].durability = "SessionOnly"
  /\ ~co.rootFailed => co.attempted = {} /\ co.resolvable
  /\ co.masked <=> co.rootFailed /\ co.resolvable

\* What an open breaker means for the reported health of the diagnostics
BreakerInv(co) == co.breaker => Unmasked(co, "Diagnostics").state # "Healthy"

\* The coordinator's word on file f, once it is given, is that the file holds v.
Vouches(d, st, f, v) ==
  d # "SessionOnly" => /\ st.disk[f] = v
                       /\ d = "Durable" => st.settled[f]
=============================================================================
