------------------------- MODULE PersistenceProofs -------------------------
(***************************************************************************)
(* The current-user files, from the replacement of one file to the writer. *)
(* For any number of writers and payloads, on both platforms, ReplaceInv   *)
(* is inductive and the replacement protocol implements the durable cell.  *)
(* The second part says what each call on the storage coordinator does to  *)
(* what it believes.  For every queue capacity and every set of payloads   *)
(* PersistenceInv is inductive; the health shown to the user and the       *)
(* answer of a flush are truthful by it.                                   *)
(***************************************************************************)
EXTENDS AtomicReplace, BackgroundPersistence, FiniteSetTheorems, TLAPS

-----------------------------------------------------------------------------
(* Replacing a file                                                         *)

\* The initial states satisfy the inductive invariant.
LEMMA InitReplaceInv == ReplaceInit => ReplaceInv
BY ValuesAssumption, TornAssumption
   DEF ReplaceInit, ReplaceInv, ReplaceTypeOK, Contents, Steps, Results, ResultIsTruthful, Settles

\* Every step of every writer, and a power loss, preserves the invariant.
LEMMA NextReplaceInv == ReplaceInv /\ [ReplaceNext]_replaceVars => ReplaceInv'
<1> SUFFICES ASSUME ReplaceInv, [ReplaceNext]_replaceVars
             PROVE  ReplaceInv'
    OBVIOUS
<1> USE ValuesAssumption, TornAssumption
    DEF ReplaceInv, ReplaceTypeOK, Contents, Steps, Results, ResultIsTruthful, Settles, Goto, Return
<1>1. ASSUME NEW w \in Writers, NEW v \in Values, BeginWrite(w, v)
      PROVE  ReplaceInv'
    BY <1>1 DEF BeginWrite
<1>2. ASSUME NEW w \in Writers, CreateTemp(w)
      PROVE  ReplaceInv'
    BY <1>2 DEF CreateTemp
<1>3. ASSUME NEW w \in Writers, WriteAll(w)
      PROVE  ReplaceInv'
    BY <1>3 DEF WriteAll
<1>4. ASSUME NEW w \in Writers, SyncFile(w)
      PROVE  ReplaceInv'
    BY <1>4 DEF SyncFile
<1>5. ASSUME NEW w \in Writers, Replace(w)
      PROVE  ReplaceInv'
    BY <1>5 DEF Replace, Install, DurableBytes
<1>6. ASSUME NEW w \in Writers, SyncDirectory(w)
      PROVE  ReplaceInv'
    BY <1>6 DEF SyncDirectory
<1>7. ASSUME NEW w \in Writers, FailBeforeCommit(w)
      PROVE  ReplaceInv'
    BY <1>7 DEF FailBeforeCommit
<1>8. ASSUME NEW w \in Writers, FailDirectorySync(w)
      PROVE  ReplaceInv'
    BY <1>8 DEF FailDirectorySync
<1>9. ASSUME NEW w \in Writers, BeginRemove(w)
      PROVE  ReplaceInv'
    BY <1>9 DEF BeginRemove
<1>10. ASSUME NEW w \in Writers, Unlink(w)
       PROVE  ReplaceInv'
  <2>1. CASE visible = Absent
      BY <1>10, <2>1 DEF Unlink
  <2>2. CASE visible # Absent
    <3> USE <2>2
    <3>1. /\ visible' = Absent /\ landing' = {Absent}
          /\ survivors' = survivors \cup {Absent}
          /\ committer' = [x \in Writers |-> x = w]
          /\ val' = val /\ temp' = temp
        BY <1>10 DEF Unlink, Install
    <3>2. val[w] = Absent
        BY <1>10 DEF Unlink
    <3>3. CASE WriteThrough
      <4>1. pc' = [pc EXCEPT ![w] = "idle"] /\ result' = [result EXCEPT ![w] = "ok"]
          BY <1>10, <3>3 DEF Unlink
      <4> QED
          BY <3>1, <3>2, <3>3, <4>1
    <3>4. CASE ~WriteThrough
      <4>1. pc' = [pc EXCEPT ![w] = "syncdir"] /\ result' = result
          BY <1>10, <3>4 DEF Unlink
      <4>2. result[w] = "none"
          BY <1>10 DEF Unlink
      <4> QED
          BY <3>1, <3>2, <3>4, <4>1, <4>2
    <3> QED
        BY <3>3, <3>4
  <2> QED
      BY <2>1, <2>2
<1>11. ASSUME NEW w \in Writers, ProcessCrash(w)
       PROVE  ReplaceInv'
    BY <1>11 DEF ProcessCrash
<1>12. CASE PowerLoss
    BY <1>12 DEF PowerLoss
<1>13. CASE UNCHANGED replaceVars
    BY <1>13 DEF replaceVars
<1> QED
    BY <1>1, <1>2, <1>3, <1>4, <1>5, <1>6, <1>7, <1>8, <1>9, <1>10, <1>11, <1>12, <1>13 DEF ReplaceNext

\* The inductive invariant holds in every reachable state, for any writers.
THEOREM ReplaceInvariance == ReplaceSpec => []ReplaceInv
<1>1. ReplaceInit => ReplaceInv
    BY InitReplaceInv
<1>2. ReplaceInv /\ [ReplaceNext]_replaceVars => ReplaceInv'
    BY NextReplaceInv
<1> QED
    BY <1>1, <1>2, PTL DEF ReplaceSpec

\* What write_bytes_atomic and remove_if_exists report is true of the disk.
THEOREM ResultsAreTruthful == ReplaceSpec => []ResultIsTruthful
<1>1. ReplaceInv => ResultIsTruthful
    BY DEF ReplaceInv
<1> QED
    BY <1>1, ReplaceInvariance, PTL

\* Every step of the protocol is a step of the cell or leaves the cell alone.
LEMMA StepImplementsCell ==
  ASSUME ReplaceInv, [ReplaceNext]_replaceVars
  PROVE  [Cell!CellNext]_(Cell!cellVars)
<1> USE DEF Cell!CellNext, Cell!Commit, Cell!Settle, Cell!Lose, Cell!cellVars
<1>1. ASSUME NEW w \in Writers, Replace(w)
      PROVE  \E c \in Contents : Cell!Commit(c)
  <2>1. DurableBytes(w) = {val[w]} /\ val[w] \in Contents
      BY <1>1 DEF ReplaceInv, ReplaceTypeOK, Replace, DurableBytes
  <2> QED
      BY <1>1, <2>1 DEF Replace, Install
<1>2. ASSUME NEW w \in Writers, SyncDirectory(w)
      PROVE  Cell!Settle
    BY <1>2 DEF SyncDirectory, ReplaceInv
<1>3. ASSUME NEW w \in Writers, Unlink(w)
      PROVE  (\E c \in Contents : Cell!Commit(c)) \/ UNCHANGED Cell!cellVars
    BY <1>3 DEF Unlink, Install, Contents
<1>4. CASE PowerLoss
    BY <1>4 DEF PowerLoss
<1>5. CASE \E w \in Writers :
             \/ \E v \in Values : BeginWrite(w, v)
             \/ CreateTemp(w) \/ WriteAll(w) \/ SyncFile(w)
             \/ FailBeforeCommit(w) \/ FailDirectorySync(w)
             \/ BeginRemove(w) \/ ProcessCrash(w)
    BY <1>5 DEF BeginWrite, CreateTemp, WriteAll, SyncFile, FailBeforeCommit,
                FailDirectorySync, BeginRemove, ProcessCrash
<1>6. CASE UNCHANGED replaceVars
    BY <1>6 DEF replaceVars
<1> QED
    BY <1>1, <1>2, <1>3, <1>4, <1>5, <1>6 DEF ReplaceNext

\* write_bytes_atomic and remove_if_exists implement a cell that holds whole
\* values across crashes and power loss, for any number of racing writers.
THEOREM ReplaceImplementsCell == ReplaceSpec => ImplementsCell
<1>1. ReplaceInit => Cell!CellInit
    BY DEF ReplaceInit, Cell!CellInit, Contents
<1>2. ReplaceInv /\ [ReplaceNext]_replaceVars => [Cell!CellNext]_(Cell!cellVars)
    BY StepImplementsCell
<1> QED
    BY <1>1, <1>2, ReplaceInvariance, PTL DEF ReplaceSpec, ImplementsCell, Cell!CellSpec

-----------------------------------------------------------------------------
(* The storage coordinator                                                  *)

\* After a call about component c, the belief about every other component is
\* what it was or is lost, and the other files are untouched.
Confined(s, s2, c) ==
  /\ s2 \in Storage
  /\ CoordinatorInv(s2.co)
  /\ \A d \in Component \ {c} :
       Unmasked(s2.co, d) = Unmasked(s.co, d) \/ Unmasked(s2.co, d) = Lost
  /\ \A f \in File \ {c} : s2.disk[f] = s.disk[f] /\ s2.settled[f] = s.settled[f]

\* record_success: the component is healthy, nothing else changes.
LEMMA RecordSuccessLemma ==
  ASSUME NEW co \in Coordinator, CoordinatorInv(co), ~co.rootFailed,
         NEW c \in Component, NEW d \in Durability, d # "SessionOnly"
  PROVE  LET co2 == RecordSuccess(co, c, d)
         IN /\ co2 \in Coordinator
            /\ CoordinatorInv(co2)
            /\ ~co2.rootFailed
            /\ co2.breaker = co.breaker
            /\ Unmasked(co2, c) = Mark("Healthy", d)
            /\ \A e \in Component \ {c} : Unmasked(co2, e) = Unmasked(co, e)
<1> DEFINE co2 == RecordSuccess(co, c, d)
<1>1. Mark("Healthy", d) \in ComponentHealth
  BY DEF Mark, ComponentHealth, State, Durability
<1>2. co2 = [co EXCEPT !.health = [co.health EXCEPT ![c] = Mark("Healthy", d)]]
  BY DEF RecordSuccess, Coordinator
<1>3. co2 \in Coordinator
  BY <1>1, <1>2 DEF Coordinator, Health
<1>4. /\ co2.health = [co.health EXCEPT ![c] = Mark("Healthy", d)]
      /\ co2.saved = co.saved /\ co2.rootFailed = co.rootFailed /\ co2.masked = co.masked
      /\ co2.attempted = co.attempted /\ co2.resolvable = co.resolvable
      /\ co2.breaker = co.breaker
  BY <1>2 DEF Coordinator
<1>5. co.health \in Health /\ c \in Component
  BY DEF Coordinator
<1>6. CoordinatorInv(co2)
  BY <1>4, <1>5 DEF CoordinatorInv, Health, Mark
<1> QED
  BY <1>3, <1>4, <1>5, <1>6 DEF Unmasked, Health

\* record_failure: the component is lost, nothing else changes.
LEMMA RecordFailureLemma ==
  ASSUME NEW co \in Coordinator, CoordinatorInv(co), ~co.rootFailed,
         NEW c \in Component
  PROVE  LET co2 == RecordFailure(co, c)
         IN /\ co2 \in Coordinator
            /\ CoordinatorInv(co2)
            /\ co2.breaker = co.breaker
            /\ Unmasked(co2, c) = Lost
            /\ \A e \in Component \ {c} : Unmasked(co2, e) = Unmasked(co, e)
<1> DEFINE co2 == RecordFailure(co, c)
<1>1. Lost \in ComponentHealth
  BY DEF Lost, Mark, ComponentHealth, State, Durability
<1>2. co2 = [co EXCEPT !.health = [co.health EXCEPT ![c] = Lost]]
  BY DEF RecordFailure, Coordinator
<1>3. co2 \in Coordinator
  BY <1>1, <1>2 DEF Coordinator, Health
<1>4. /\ co2.health = [co.health EXCEPT ![c] = Lost]
      /\ co2.saved = co.saved /\ co2.rootFailed = co.rootFailed /\ co2.masked = co.masked
      /\ co2.attempted = co.attempted /\ co2.resolvable = co.resolvable
      /\ co2.breaker = co.breaker
  BY <1>2 DEF Coordinator
<1>5. co.health \in Health /\ c \in Component
  BY DEF Coordinator
<1>6. CoordinatorInv(co2)
  BY <1>4, <1>5 DEF CoordinatorInv, Health, Lost, Mark
<1> QED
  BY <1>3, <1>4, <1>5, <1>6 DEF Unmasked, Health

\* record_root_failure followed by the attempt's mark: the component is lost
\* once the root is back, what is believed of the others is kept.
LEMMA RootFailureLemma ==
  ASSUME NEW co \in Coordinator, CoordinatorInv(co), co.resolvable,
         NEW c \in Component, NEW check \in {"invalid", "unverified"}
  PROVE  LET co2 == Attempt(RecordRootFailure(co, check), c)
         IN /\ co2 \in Coordinator
            /\ CoordinatorInv(co2)
            /\ co2.rootFailed
            /\ co2.breaker = co.breaker
            /\ Unmasked(co2, c) = Lost
            /\ \A e \in Component \ {c} : Unmasked(co2, e) = Unmasked(co, e)
<1> DEFINE seen == IF check = "unverified" THEN "Unavailable" ELSE "Degraded"
           h == [e \in Component |-> Mark(seen, "SessionOnly")]
           co2 == Attempt(RecordRootFailure(co, check), c)
<1>1. h \in Health /\ \A e \in Component : h[e] = Mark(seen, "SessionOnly")
  BY DEF Mark, ComponentHealth, State, Durability, Health
<1>2. /\ co2.health = h
      /\ co2.saved = (IF co.rootFailed THEN co.saved ELSE co.health)
      /\ co2.masked = (co.rootFailed => co.masked)
      /\ co2.rootFailed = TRUE
      /\ co2.attempted = co.attempted \cup {c}
      /\ co2.resolvable = co.resolvable
      /\ co2.breaker = co.breaker
  BY DEF Attempt, RecordRootFailure, Coordinator
<1>3. co2 \in Coordinator
  BY <1>1 DEF Attempt, RecordRootFailure, Coordinator
<1>4. co2.masked
  BY <1>2 DEF CoordinatorInv
<1>5. \A e \in Component : h[e].state # "Healthy" /\ h[e].durability = "SessionOnly"
  BY <1>1 DEF Mark
<1>6. CoordinatorInv(co2)
  BY <1>2, <1>4, <1>5 DEF CoordinatorInv
<1> QED
  BY <1>2, <1>3, <1>4, <1>6 DEF Unmasked, CoordinatorInv

\* A recovery restores exactly what was kept behind the mask.
LEMMA RecoverLemma ==
  ASSUME NEW co \in Coordinator, CoordinatorInv(co), co.resolvable
  PROVE  LET co2 == Recover(co)
         IN /\ co2 \in Coordinator
            /\ CoordinatorInv(co2)
            /\ ~co2.rootFailed
            /\ co2.breaker = co.breaker
            /\ \A e \in Component : Unmasked(co2, e) = Unmasked(co, e)
<1> DEFINE co2 == Recover(co)
<1>1. CASE ~co.rootFailed
  BY <1>1 DEF Recover
<1>2. CASE co.rootFailed
  <2> DEFINE h == [e \in Component |-> IF e \in co.attempted THEN Lost
                                      ELSE IF co.masked THEN co.saved[e] ELSE co.health[e]]
  <2>1. Lost \in ComponentHealth /\ Untouched \in Health
    BY DEF Lost, Untouched, Mark, ComponentHealth, State, Durability, Health
  <2>2. h \in Health /\ \A e \in Component : h[e] = Unmasked(co, e)
    BY <1>2, <2>1 DEF Coordinator, Health, Unmasked
  <2>3. /\ co2.health = h /\ co2.saved = Untouched /\ co2.attempted = {}
        /\ co2.rootFailed = FALSE /\ co2.masked = FALSE
        /\ co2.resolvable = co.resolvable /\ co2.breaker = co.breaker
    BY <1>2 DEF Recover, Coordinator
  <2>4. co2 \in Coordinator
    BY <1>2, <2>1, <2>2 DEF Recover, Coordinator
  <2>5. \A e \in Component : h[e].state = "Healthy" <=> h[e].durability # "SessionOnly"
    BY <1>2 DEF CoordinatorInv, Lost, Mark
  <2>6. \A e \in Component :
          Untouched[e].state = "Healthy" /\ Untouched[e].durability # "SessionOnly"
    BY DEF Untouched, Mark
  <2>7. CoordinatorInv(co2)
    BY <2>3, <2>5, <2>6 DEF CoordinatorInv
  <2> QED
    BY <2>2, <2>3, <2>4, <2>7 DEF Unmasked
<1> QED
  BY <1>1, <1>2

\* revalidate_root: the others keep what is believed of them; the component
\* keeps it too if the root is usable and is lost otherwise.
LEMMA RevalidateRootLemma ==
  ASSUME NEW co \in Coordinator, CoordinatorInv(co),
         NEW c \in Component, NEW check \in RootCheck
  PROVE  LET co2 == RevalidateRoot(co, c, check)
         IN /\ co2 \in Coordinator
            /\ CoordinatorInv(co2)
            /\ co2.breaker = co.breaker
            /\ \A e \in Component \ {c} : Unmasked(co2, e) = Unmasked(co, e)
            /\ IF RootUsable(co, check)
               THEN ~co2.rootFailed /\ Unmasked(co2, c) = Unmasked(co, c)
               ELSE Unmasked(co2, c) = Lost
<1>1. CASE ~co.resolvable
  <2> DEFINE co2 == Attempt(co, c)
  <2>1. /\ co2.health = co.health /\ co2.saved = co.saved /\ co2.rootFailed = co.rootFailed
        /\ co2.masked = co.masked /\ co2.attempted = co.attempted \cup {c}
        /\ co2.resolvable = co.resolvable /\ co2.breaker = co.breaker
    BY DEF Attempt, Coordinator
  <2>2. co2 \in Coordinator
    BY DEF Attempt, Coordinator
  <2>3. co.rootFailed
    BY <1>1 DEF CoordinatorInv
  <2>4. CoordinatorInv(co2)
    BY <1>1, <2>1, <2>3 DEF CoordinatorInv
  <2> QED
    BY <1>1, <2>1, <2>2, <2>3, <2>4 DEF RevalidateRoot, RootUsable, Unmasked
<1>2. CASE co.resolvable /\ check = "verified"
  BY <1>2, RecoverLemma DEF RevalidateRoot, RootUsable
<1>3. CASE co.resolvable /\ check # "verified"
  <2>1. check \in {"invalid", "unverified"}
    BY <1>3, RootCheckAssumption
  <2> QED
    BY <1>3, <2>1, RootFailureLemma DEF RevalidateRoot, RootUsable
<1> QED
  BY <1>1, <1>2, <1>3

\* record_operation_failure: whoever is to blame, the component is lost.
LEMMA OperationFailureLemma ==
  ASSUME NEW co \in Coordinator, CoordinatorInv(co), ~co.rootFailed,
         NEW c \in Component, NEW a \in Answers
  PROVE  LET co2 == RecordOperationFailure(co, c, a)
         IN /\ co2 \in Coordinator
            /\ CoordinatorInv(co2)
            /\ co2.breaker = co.breaker
            /\ Unmasked(co2, c) = Lost
            /\ \A e \in Component \ {c} : Unmasked(co2, e) = Unmasked(co, e)
<1> DEFINE blame == CASE a.outcome = "rootInvalid" -> "invalid"
                      [] a.outcome = "rootUnverified" -> "unverified"
                      [] OTHER -> a.recheck
<1>1. blame \in {"verified", "invalid", "unverified"}
  BY RootCheckAssumption DEF Answers
<1>2. co.resolvable
  BY DEF CoordinatorInv
<1>3. CASE blame = "verified"
  <2>1. RecordOperationFailure(co, c, a) = RecordFailure(co, c)
    BY <1>3 DEF RecordOperationFailure
  <2> QED
    BY <2>1, RecordFailureLemma
<1>4. CASE blame # "verified"
  <2>1. RecordOperationFailure(co, c, a) = Attempt(RecordRootFailure(co, blame), c)
    BY <1>4 DEF RecordOperationFailure
  <2>2. blame \in {"invalid", "unverified"}
    BY <1>1, <1>4
  <2> QED
    BY <1>2, <2>1, <2>2, RootFailureLemma
<1> QED
  BY <1>3, <1>4

\* write_json and remove: if the component is then believed stored, the file
\* holds the new value; a write that is only uncertain is never believed.
LEMMA ReplaceFileLemma ==
  ASSUME NEW s \in Storage, CoordinatorInv(s.co), BreakerInv(s.co),
         NEW f \in File, NEW v \in Contents, NEW d \in {"Durable", "NotApplicable"},
         NEW a \in Answers
  PROVE  LET s2 == ReplaceFile(s, f, v, d, a)
         IN /\ Confined(s, s2, f)
            /\ BreakerInv(s2.co)
            /\ Vouches(Unmasked(s2.co, f).durability, s2, f, v)
<1> DEFINE co == RevalidateRoot(s.co, f, a.check)
           s2 == ReplaceFile(s, f, v, d, a)
           lasting == a.outcome = "ok" /\ d = "Durable"
<1>1. /\ s.co \in Coordinator /\ s.disk \in [File -> Contents]
      /\ s.settled \in [File -> BOOLEAN] /\ f \in Component /\ f # "Diagnostics"
      /\ a.check \in RootCheck /\ "Diagnostics" \in Component
  BY DEF Storage, File, Component, Answers
<1>0. d \in Durability /\ d # "SessionOnly"
  BY DEF Durability
<1>2. /\ co \in Coordinator /\ CoordinatorInv(co) /\ co.breaker = s.co.breaker
      /\ \A e \in Component \ {f} : Unmasked(co, e) = Unmasked(s.co, e)
      /\ IF RootUsable(s.co, a.check)
         THEN ~co.rootFailed /\ Unmasked(co, f) = Unmasked(s.co, f)
         ELSE Unmasked(co, f) = Lost
  BY <1>1, RevalidateRootLemma
<1>3. Lost.durability = "SessionOnly"
  BY DEF Lost, Mark
<1>4. CASE ~RootUsable(s.co, a.check)
  <2>1. s2.co = co /\ s2.disk = s.disk /\ s2.settled = s.settled /\ s2 \in Storage
    BY <1>2, <1>4 DEF ReplaceFile, Storage
  <2> QED
    BY <1>1, <1>2, <1>3, <1>4, <2>1 DEF Confined, BreakerInv, Vouches
<1>5. CASE RootUsable(s.co, a.check) /\ a.outcome = "ok"
  <2>1. /\ s2.co = RecordSuccess(co, f, d)
        /\ s2.disk = [s.disk EXCEPT ![f] = v]
        /\ s2.settled = [s.settled EXCEPT ![f] = (d = "Durable")]
    BY <1>1, <1>5 DEF ReplaceFile, Put, Storage
  <2>2. /\ s2.co \in Coordinator /\ CoordinatorInv(s2.co) /\ s2.co.breaker = co.breaker
        /\ Unmasked(s2.co, f) = Mark("Healthy", d)
        /\ \A e \in Component \ {f} : Unmasked(s2.co, e) = Unmasked(co, e)
    <3>1. co \in Coordinator /\ CoordinatorInv(co) /\ ~co.rootFailed
      BY <1>2, <1>5
    <3> HIDE DEF co, s2
    <3> QED
      BY <1>1, <1>0, <2>1, <3>1, RecordSuccessLemma
  <2>3. RecordSuccess(co, f, d) \in Coordinator
    BY <2>1, <2>2
  <2>4. s2 \in Storage
    BY <1>1, <1>5, <2>3 DEF ReplaceFile, Put, Storage
  <2>5. Mark("Healthy", d).durability = d
    BY DEF Mark
  <2>6. Vouches(Unmasked(s2.co, f).durability, s2, f, v)
    BY <1>1, <2>1, <2>2, <2>5 DEF Vouches
  <2>7. BreakerInv(s2.co)
    BY <1>1, <1>2, <2>2 DEF BreakerInv
  <2>8. \A g \in File \ {f} : s2.disk[g] = s.disk[g] /\ s2.settled[g] = s.settled[g]
    BY <1>1, <2>1
  <2>9. Confined(s, s2, f)
    <3> HIDE DEF s2, co
    <3> QED
      BY <1>1, <1>2, <1>5, <2>2, <2>4, <2>8 DEF Confined
  <2> QED
    BY <2>6, <2>7, <2>9
<1>6. CASE RootUsable(s.co, a.check) /\ a.outcome # "ok"
  <2> DEFINE co3 == RecordOperationFailure(co, f, a)
  <2>1. /\ co3 \in Coordinator /\ CoordinatorInv(co3) /\ co3.breaker = co.breaker
        /\ Unmasked(co3, f) = Lost
        /\ \A e \in Component \ {f} : Unmasked(co3, e) = Unmasked(co, e)
    BY <1>1, <1>2, <1>6, OperationFailureLemma
  <2>2. /\ s2.co = co3 /\ s2 \in Storage
        /\ \A g \in File \ {f} : s2.disk[g] = s.disk[g] /\ s2.settled[g] = s.settled[g]
    <3>1. CASE a.outcome = "uncertain"
      BY <1>1, <1>6, <2>1, <3>1 DEF ReplaceFile, Put, Storage
    <3>2. CASE a.outcome # "uncertain"
      BY <1>1, <1>6, <2>1, <3>2 DEF ReplaceFile, Storage
    <3> QED
      BY <3>1, <3>2
  <2> QED
    BY <1>1, <1>2, <1>3, <2>1, <2>2 DEF Confined, BreakerInv, Vouches
<1> QED
  BY <1>4, <1>5, <1>6

\* load_json leaves the files alone and believes what it read.
LEMMA LoadJsonLemma ==
  ASSUME NEW s \in Storage, CoordinatorInv(s.co), BreakerInv(s.co),
         NEW f \in File, NEW a \in Answers, s.settled[f]
  PROVE  LET s2 == LoadJson(s, f, a)
         IN /\ Confined(s, s2, f)
            /\ BreakerInv(s2.co)
            /\ s2.disk = s.disk /\ s2.settled = s.settled
            /\ Vouches(Unmasked(s2.co, f).durability, s2, f, s.disk[f])
<1> DEFINE co == RevalidateRoot(s.co, f, a.check)
           d == IF s.disk[f] = Absent THEN "NotApplicable" ELSE "Durable"
           s2 == LoadJson(s, f, a)
           co2 == IF ~RootUsable(s.co, a.check) THEN co
                  ELSE IF a.outcome = "ok" THEN RecordSuccess(co, f, d)
                  ELSE RecordOperationFailure(co, f, a)
<1>1. /\ s.co \in Coordinator /\ f \in Component /\ f # "Diagnostics"
      /\ a.check \in RootCheck /\ "Diagnostics" \in Component
  BY DEF Storage, File, Component, Answers
<1>2. /\ co \in Coordinator /\ CoordinatorInv(co) /\ co.breaker = s.co.breaker
      /\ \A e \in Component \ {f} : Unmasked(co, e) = Unmasked(s.co, e)
      /\ IF RootUsable(s.co, a.check)
         THEN ~co.rootFailed /\ Unmasked(co, f) = Unmasked(s.co, f)
         ELSE Unmasked(co, f) = Lost
  BY <1>1, RevalidateRootLemma
<1>3. /\ co2 \in Coordinator /\ CoordinatorInv(co2) /\ co2.breaker = co.breaker
      /\ \A e \in Component \ {f} : Unmasked(co2, e) = Unmasked(co, e)
  <2>1. d \in Durability /\ d # "SessionOnly"
    BY DEF Durability
  <2>2. CASE ~RootUsable(s.co, a.check)
    BY <1>2, <2>2
  <2>3. CASE RootUsable(s.co, a.check) /\ a.outcome = "ok"
    <3>1. co \in Coordinator /\ CoordinatorInv(co) /\ ~co.rootFailed
      BY <1>2, <2>3
    <3>2. co2 = RecordSuccess(co, f, d)
      BY <2>3
    <3> HIDE DEF co, co2, d
    <3> QED
      BY <1>1, <2>1, <3>1, <3>2, RecordSuccessLemma
  <2>4. CASE RootUsable(s.co, a.check) /\ a.outcome # "ok"
    <3>1. co \in Coordinator /\ CoordinatorInv(co) /\ ~co.rootFailed
      BY <1>2, <2>4
    <3>2. co2 = RecordOperationFailure(co, f, a)
      BY <2>4
    <3> HIDE DEF co, co2
    <3> QED
      BY <1>1, <3>1, <3>2, OperationFailureLemma
  <2> QED
    BY <2>2, <2>3, <2>4
<1>4. s2 = [s EXCEPT !.co = co2]
  BY DEF LoadJson
<1>5. s2.co = co2 /\ s2.disk = s.disk /\ s2.settled = s.settled /\ s2 \in Storage
  BY <1>3, <1>4 DEF Storage
<1>6. Vouches(Unmasked(s2.co, f).durability, s2, f, s.disk[f])
  BY <1>5 DEF Vouches
<1>7. BreakerInv(s2.co)
  <2> HIDE DEF s2, co2, co
  <2> QED
    BY <1>1, <1>2, <1>3, <1>5 DEF BreakerInv
<1>8. Confined(s, s2, f)
  <2> HIDE DEF s2, co2, co
  <2> QED
    BY <1>1, <1>2, <1>3, <1>5 DEF Confined
<1> QED
  BY <1>5, <1>6, <1>7, <1>8

\* record_diagnostic touches neither file; if it trips the breaker the
\* diagnostics are lost.
LEMMA RecordDiagnosticLemma ==
  ASSUME NEW s \in Storage, CoordinatorInv(s.co), BreakerInv(s.co),
         NEW oversized \in BOOLEAN, NEW a \in Answers
  PROVE  LET s2 == RecordDiagnostic(s, oversized, a)
         IN /\ Confined(s, s2, "Diagnostics")
            /\ BreakerInv(s2.co)
            /\ s2.disk = s.disk /\ s2.settled = s.settled
            /\ \A f \in File : Unmasked(s2.co, f) = Unmasked(s.co, f)
<1> DEFINE c == "Diagnostics"
           co == RevalidateRoot(s.co, c, a.check)
           fuse == IF oversized /\ a.outcome \notin {"rootInvalid", "rootUnverified"}
                   THEN co ELSE [co EXCEPT !.breaker = TRUE]
           co2 == IF ~RootUsable(s.co, a.check) \/ co.breaker THEN co
                  ELSE IF a.outcome = "ok" /\ ~oversized THEN RecordSuccess(co, c, "Durable")
                  ELSE RecordOperationFailure(fuse, c, a)
           s2 == RecordDiagnostic(s, oversized, a)
<1>1. s.co \in Coordinator /\ c \in Component /\ a.check \in RootCheck
  BY DEF Storage, Component, Answers
<1>2. \A f \in File : f \in Component \ {c}
  BY DEF File, Component
<1>3. /\ co \in Coordinator /\ CoordinatorInv(co) /\ co.breaker = s.co.breaker
      /\ \A e \in Component \ {c} : Unmasked(co, e) = Unmasked(s.co, e)
      /\ IF RootUsable(s.co, a.check)
         THEN ~co.rootFailed /\ Unmasked(co, c) = Unmasked(s.co, c)
         ELSE Unmasked(co, c) = Lost
  BY <1>1, RevalidateRootLemma
<1>4. Lost.state # "Healthy"
  BY DEF Lost, Mark
<1>5. BreakerInv(co)
  BY <1>3, <1>4 DEF BreakerInv
<1>6. /\ co2 \in Coordinator /\ CoordinatorInv(co2) /\ BreakerInv(co2)
      /\ \A e \in Component \ {c} : Unmasked(co2, e) = Unmasked(co, e)
  <2>1. CASE ~RootUsable(s.co, a.check) \/ co.breaker
    BY <1>3, <1>5, <2>1
  <2>2. CASE RootUsable(s.co, a.check) /\ ~co.breaker /\ a.outcome = "ok" /\ ~oversized
    BY <1>1, <1>3, <2>2, RecordSuccessLemma DEF BreakerInv, Durability
  <2>3. CASE RootUsable(s.co, a.check) /\ ~co.breaker /\ ~(a.outcome = "ok" /\ ~oversized)
    <3>1. fuse \in Coordinator
      BY <1>3 DEF Coordinator
    <3>2. /\ fuse.health = co.health /\ fuse.saved = co.saved /\ fuse.rootFailed = co.rootFailed
          /\ fuse.masked = co.masked /\ fuse.attempted = co.attempted
          /\ fuse.resolvable = co.resolvable
      BY <1>3 DEF Coordinator
    <3>3. CoordinatorInv(fuse) /\ ~fuse.rootFailed
      BY <1>3, <2>3, <3>2 DEF CoordinatorInv
    <3>4. \A e \in Component : Unmasked(fuse, e) = Unmasked(co, e)
      BY <3>2 DEF Unmasked
    <3>5. co2 = RecordOperationFailure(fuse, c, a)
      BY <2>3
    <3> HIDE DEF fuse, co2
    <3> QED
      BY <1>1, <1>4, <3>1, <3>3, <3>4, <3>5, OperationFailureLemma DEF BreakerInv
  <2> QED
    BY <2>1, <2>2, <2>3
<1>7. s2 = [s EXCEPT !.co = co2]
  BY DEF RecordDiagnostic
<1>8. s2.co = co2 /\ s2.disk = s.disk /\ s2.settled = s.settled /\ s2 \in Storage
  BY <1>6, <1>7 DEF Storage
<1> QED
  BY <1>2, <1>3, <1>6, <1>8 DEF Confined

\* retry_diagnostics closes the breaker and changes nothing that is believed.
LEMMA RetryDiagnosticsLemma ==
  ASSUME NEW s \in Storage, CoordinatorInv(s.co), BreakerInv(s.co)
  PROVE  LET s2 == RetryDiagnostics(s)
         IN /\ s2 \in Storage /\ CoordinatorInv(s2.co) /\ BreakerInv(s2.co)
            /\ s2.disk = s.disk /\ s2.settled = s.settled
            /\ \A e \in Component : Unmasked(s2.co, e) = Unmasked(s.co, e)
<1> DEFINE s2 == RetryDiagnostics(s)
<1>1. CASE s.co.rootFailed
  BY <1>1 DEF RetryDiagnostics
<1>2. CASE ~s.co.rootFailed
  <2> DEFINE co2 == [s.co EXCEPT !.breaker = FALSE]
  <2>1. /\ co2 \in Coordinator
        /\ co2.health = s.co.health /\ co2.saved = s.co.saved
        /\ co2.rootFailed = s.co.rootFailed /\ co2.masked = s.co.masked
        /\ co2.attempted = s.co.attempted /\ co2.resolvable = s.co.resolvable
        /\ co2.breaker = FALSE
    BY DEF Storage, Coordinator
  <2>2. s2 = [s EXCEPT !.co = co2]
    BY <1>2 DEF RetryDiagnostics, Storage
  <2>3. s2.co = co2 /\ s2.disk = s.disk /\ s2.settled = s.settled /\ s2 \in Storage
    BY <2>1, <2>2 DEF Storage
  <2> QED
    BY <2>1, <2>3 DEF CoordinatorInv, BreakerInv, Unmasked
<1> QED
  BY <1>1, <1>2

-----------------------------------------------------------------------------
(* The writer                                                               *)

\* What a published health says without hedging is what the coordinator
\* believes of the component, masked or not.
LEMMA PublishedHealth ==
  ASSUME NEW co \in Coordinator, CoordinatorInv(co), NEW f \in File,
         co.health[f].durability # "SessionOnly"
  PROVE  Unmasked(co, f) = co.health[f]
BY DEF CoordinatorInv, Unmasked, Component

\* A belief that survives a step that leaves the file alone stays true.
LEMMA VouchesStable ==
  ASSUME NEW s, NEW s2, NEW f, NEW v,
         s2.disk[f] = s.disk[f], s2.settled[f] = s.settled[f],
         Vouches(Unmasked(s.co, f).durability, s, f, v),
         Unmasked(s2.co, f) = Unmasked(s.co, f) \/ Unmasked(s2.co, f) = Lost
  PROVE  Vouches(Unmasked(s2.co, f).durability, s2, f, v)
<1>1. Lost.durability = "SessionOnly"
  BY DEF Lost, Mark
<1> QED
  BY <1>1 DEF Vouches

\* verify_current_user_root touches no file; it may lose the belief in the
\* settings.
LEMMA VerifyRootLemma ==
  ASSUME st \in Storage, CoordinatorInv(st.co), BreakerInv(st.co), NEW check \in RootCheck
  PROVE  LET st2 == VerifyRoot(st, check)
         IN /\ st2 \in Storage /\ CoordinatorInv(st2.co) /\ BreakerInv(st2.co)
            /\ st2.disk = st.disk /\ st2.settled = st.settled
            /\ \A f \in File : Unmasked(st2.co, f) = Unmasked(st.co, f) \/ Unmasked(st2.co, f) = Lost
<1> DEFINE co2 == RevalidateRoot(st.co, "Settings", check)
           st2 == VerifyRoot(st, check)
<1>1. /\ st.co \in Coordinator /\ File \subseteq Component /\ "Settings" \in Component
      /\ "Diagnostics" \in Component /\ "Diagnostics" # "Settings"
  BY DEF Storage, File, Component
<1>2. /\ co2 \in Coordinator /\ CoordinatorInv(co2) /\ co2.breaker = st.co.breaker
      /\ \A e \in Component \ {"Settings"} : Unmasked(co2, e) = Unmasked(st.co, e)
      /\ Unmasked(co2, "Settings") = Unmasked(st.co, "Settings") \/ Unmasked(co2, "Settings") = Lost
  BY <1>1, RevalidateRootLemma
<1> HIDE DEF co2
<1>3. st2.co = co2 /\ st2.disk = st.disk /\ st2.settled = st.settled /\ st2 \in Storage
  BY <1>2 DEF Storage, co2, VerifyRoot
<1> QED
  BY <1>1, <1>2, <1>3 DEF BreakerInv

\* Every operation the writer runs leaves the other files and the belief in
\* them alone, or loses the belief; if it leaves its own file believed, the
\* file holds what the job carried.
LEMMA EffectsLemma ==
  ASSUME st \in Storage, CoordinatorInv(st.co), BreakerInv(st.co),
         NEW j \in Job, NEW st2 \in Effects(j)
  PROVE  /\ st2 \in Storage /\ CoordinatorInv(st2.co) /\ BreakerInv(st2.co)
         /\ \A f \in File \ {j.component} :
              /\ st2.disk[f] = st.disk[f] /\ st2.settled[f] = st.settled[f]
              /\ Unmasked(st2.co, f) = Unmasked(st.co, f) \/ Unmasked(st2.co, f) = Lost
         /\ j.component \in File =>
              Vouches(Unmasked(st2.co, j.component).durability, st2, j.component, j.val)
<1>1. File \subseteq Component /\ "Settings" \in File /\ "WarmCache" \in File
      /\ "Diagnostics" \notin File /\ "None" \notin File
  BY DEF File, Component
<1>2. CASE j.kind = "write" /\ j.component = "Settings"
  <2>1. j.val \in Contents
    BY <1>2 DEF Job, Contents
  <2>2. PICK a \in Answers, d \in Answers : st2 = WriteSettings(j.val, a, d)
    BY <1>2 DEF Effects
  <2> DEFINE w == WriteJson(st, "Settings", j.val, a)
             r == RetryDiagnostics(w)
  <2>3. /\ Confined(st, w, "Settings") /\ BreakerInv(w.co)
        /\ Vouches(Unmasked(w.co, "Settings").durability, w, "Settings", j.val)
    BY <1>1, <2>1, ReplaceFileLemma DEF WriteJson
  <2>4. w \in Storage /\ CoordinatorInv(w.co)
    BY <2>3 DEF Confined
  <2> HIDE DEF w
  <2>5. /\ r \in Storage /\ CoordinatorInv(r.co) /\ BreakerInv(r.co)
        /\ r.disk = w.disk /\ r.settled = w.settled
        /\ \A e \in Component : Unmasked(r.co, e) = Unmasked(w.co, e)
    BY <2>3, <2>4, RetryDiagnosticsLemma
  <2> HIDE DEF r
  <2>6. LET s == RecordDiagnostic(r, FALSE, d)
        IN /\ s \in Storage /\ CoordinatorInv(s.co) /\ BreakerInv(s.co)
           /\ s.disk = r.disk /\ s.settled = r.settled
           /\ \A f \in File : Unmasked(s.co, f) = Unmasked(r.co, f)
    BY <2>5, RecordDiagnosticLemma DEF Confined
  <2>7. st2 = w \/ st2 = RecordDiagnostic(r, FALSE, d)
    BY <2>2 DEF WriteSettings, w, r
  <2>8. /\ st2 \in Storage /\ CoordinatorInv(st2.co) /\ BreakerInv(st2.co)
        /\ st2.disk = w.disk /\ st2.settled = w.settled
        /\ \A f \in File : Unmasked(st2.co, f) = Unmasked(w.co, f)
    BY <1>1, <2>3, <2>4, <2>5, <2>6, <2>7
  <2> QED
    BY <1>1, <1>2, <2>3, <2>8 DEF Confined, Vouches
<1>3. CASE j.kind = "write" /\ j.component = "WarmCache"
  <2>1. j.val \in Contents
    BY <1>3 DEF Job, Contents
  <2>2. PICK a \in Answers : st2 = ReplaceFile(st, "WarmCache", j.val, "Durable", a)
    BY <1>3 DEF Effects, WriteJson
  <2> QED
    BY <1>1, <1>3, <2>1, <2>2, ReplaceFileLemma DEF Confined
<1>4. CASE j.kind = "remove"
  <2>1. j.component = "WarmCache" /\ j.val = Absent /\ Absent \in Contents
    BY <1>4 DEF Job, Contents
  <2>2. PICK a \in Answers : st2 = ReplaceFile(st, "WarmCache", Absent, "NotApplicable", a)
    BY <1>4 DEF Effects, Remove
  <2> QED
    BY <1>1, <2>1, <2>2, ReplaceFileLemma DEF Confined
<1>5. CASE j.kind = "diagnostic"
  <2>1. j.component = "Diagnostics"
    BY <1>5 DEF Job
  <2>2. PICK o \in BOOLEAN, a \in Answers : st2 = RecordDiagnostic(st, o, a)
    BY <1>5 DEF Effects
  <2> QED
    BY <1>1, <2>1, <2>2, RecordDiagnosticLemma DEF Confined
<1>6. CASE j.kind = "retry"
  <2>1. j.component = "None"
    BY <1>6 DEF Job
  <2>2. st2 = RetryDiagnostics(st)
    BY <1>6 DEF Effects
  <2> QED
    BY <1>1, <2>1, <2>2, RetryDiagnosticsLemma
<1>7. CASE j.kind = "migration"
  <2>1. j.component = "None"
    BY <1>7 DEF Job
  <2>2. st2 = st \/ \E check \in RootCheck : st2 = VerifyRoot(st, check)
    BY <1>7 DEF Effects
  <2>3. CASE st2 = st
    BY <1>1, <2>1, <2>3
  <2>4. ASSUME NEW check \in RootCheck, st2 = VerifyRoot(st, check)
        PROVE  /\ st2 \in Storage /\ CoordinatorInv(st2.co) /\ BreakerInv(st2.co)
               /\ \A f \in File :
                    /\ st2.disk[f] = st.disk[f] /\ st2.settled[f] = st.settled[f]
                    /\ Unmasked(st2.co, f) = Unmasked(st.co, f) \/ Unmasked(st2.co, f) = Lost
    BY <1>1, <2>4, VerifyRootLemma
  <2> QED
    BY <1>1, <2>1, <2>2, <2>3, <2>4
<1>8. /\ j.kind \in {"write", "remove", "diagnostic", "retry", "migration"}
      /\ j.kind = "write" => j.component \in {"Settings", "WarmCache"}
  BY DEF Job, File
<1> QED
  BY <1>2, <1>3, <1>4, <1>5, <1>6, <1>7, <1>8

-----------------------------------------------------------------------------
LEMMA NewCoordinatorLemma ==
  ASSUME NEW co, co \in {NewCoordinator(check) : check \in RootCheck} \cup {UnavailableCoordinator}
  PROVE  /\ co \in Coordinator /\ CoordinatorInv(co) /\ BreakerInv(co)
         /\ \A f \in File : Unmasked(co, f).durability # "Durable"
<1>1. /\ Fresh \in Coordinator /\ CoordinatorInv(Fresh) /\ ~Fresh.breaker
      /\ \A f \in File : Unmasked(Fresh, f).durability # "Durable"
  BY DEF Fresh, Untouched, Mark, Coordinator, Health, ComponentHealth, State, Durability,
         CoordinatorInv, Unmasked, File, Component
<1>2. CASE co = UnavailableCoordinator
  <2> DEFINE h == [c \in Component |-> Mark("Unavailable", "SessionOnly")]
  <2>1. h \in Health /\ \A c \in Component : h[c] = Mark("Unavailable", "SessionOnly")
    BY DEF Mark, Health, ComponentHealth, State, Durability
  <2>2. /\ co.health = h /\ co.rootFailed = TRUE /\ co.resolvable = FALSE
        /\ co.saved = Fresh.saved /\ co.attempted = {} /\ co.masked = FALSE
        /\ co.breaker = FALSE /\ co.permission = "Unavailable"
    BY <1>2 DEF UnavailableCoordinator, Fresh
  <2>3. co \in Coordinator
    BY <1>1, <1>2, <2>1 DEF UnavailableCoordinator, Coordinator
  <2>4. \A c \in Component : h[c].state # "Healthy" /\ h[c].durability = "SessionOnly"
    BY <2>1 DEF Mark
  <2>5. CoordinatorInv(co)
    BY <1>1, <2>2, <2>4 DEF CoordinatorInv
  <2> QED
    BY <2>2, <2>3, <2>4, <2>5 DEF BreakerInv, Unmasked, File, Component
<1>3. CASE co = Fresh
  BY <1>1, <1>3 DEF BreakerInv
<1>4. ASSUME NEW check \in {"invalid", "unverified"}, co = RecordRootFailure(Fresh, check)
      PROVE  /\ co \in Coordinator /\ CoordinatorInv(co) /\ BreakerInv(co)
             /\ \A f \in File : Unmasked(co, f).durability # "Durable"
  <2> DEFINE seen == IF check = "unverified" THEN "Unavailable" ELSE "Degraded"
             h == [c \in Component |-> Mark(seen, "SessionOnly")]
  <2>1. h \in Health /\ \A c \in Component : h[c] = Mark(seen, "SessionOnly")
    BY DEF Mark, Health, ComponentHealth, State, Durability
  <2>2. /\ co.health = h /\ co.rootFailed = TRUE /\ co.resolvable = TRUE
        /\ co.saved = Fresh.health /\ co.attempted = {} /\ co.masked = TRUE
        /\ co.breaker = FALSE
    BY <1>4 DEF RecordRootFailure, Fresh
  <2>3. co \in Coordinator
    BY <1>1, <1>4, <2>1 DEF RecordRootFailure, Coordinator, Fresh
  <2>4. \A c \in Component : h[c].state # "Healthy" /\ h[c].durability = "SessionOnly"
    BY <2>1 DEF Mark
  <2>5. CoordinatorInv(co)
    BY <1>1, <2>2, <2>4 DEF CoordinatorInv
  <2>6. ~Fresh.rootFailed
    BY DEF Fresh
  <2> QED
    BY <1>1, <2>2, <2>3, <2>5, <2>6 DEF BreakerInv, Unmasked
<1> QED
  BY <1>2, <1>3, <1>4, RootCheckAssumption DEF NewCoordinator

LEMMA InitPersistenceInv == Init => PersistenceInv
<1> SUFFICES ASSUME Init PROVE PersistenceInv
  OBVIOUS
<1>1. PICK disk \in [File -> Contents],
           co \in {NewCoordinator(check) : check \in RootCheck} \cup {UnavailableCoordinator} :
        st = [co |-> co, disk |-> disk, settled |-> [f \in File |-> TRUE]]
  BY DEF Init
<1>2. /\ co \in Coordinator /\ CoordinatorInv(co) /\ BreakerInv(co)
      /\ \A f \in File : Unmasked(co, f).durability # "Durable"
  BY NewCoordinatorLemma
<1>3. st \in Storage /\ st.co = co /\ st.disk = disk /\ \A f \in File : st.settled[f]
  BY <1>1, <1>2 DEF Storage
<1>4. TypeOK
  BY <1>3 DEF Init, TypeOK, Storage, Coordinator
<1>5. NoJob.gen = 0 /\ NoJob.component = "None"
  BY DEF NoJob
<1>6. QueueInv
  BY <1>5 DEF Init, QueueInv, Quiescent, Component, File
<1>7. PendingInv
  BY <1>5 DEF Init, PendingInv, File
<1>8. StorageInv
  BY <1>3, <1>5 DEF Init, StorageInv, Vouches, File
<1>9. StartupInv /\ FlushInv
  BY <1>3 DEF Init, StartupInv, FlushInv, File
<1> QED
  BY <1>2, <1>3, <1>4, <1>6, <1>7, <1>8, <1>9 DEF PersistenceInv

-----------------------------------------------------------------------------
(* One lemma per group of actions.                                          *)

\* What the invariant says of a file nobody is waiting for.
LEMMA IdleFiles ==
  ASSUME PersistenceInv, NEW f \in File, Idle(f)
  PROVE  /\ Vouches(Unmasked(st.co, f).durability, st, f, wanted[f])
         /\ mode = "background" => Vouches(health[f].durability, st, f, wanted[f])
         /\ f \in submitted \ failedWrites => st.disk[f] = wanted[f]
<1>1. StorageInv
  BY DEF PersistenceInv
<1> QED
  BY <1>1, Zenon DEF StorageInv

\* A call about file f, or about none, leaves the other files alone and the
\* belief in them unchanged or lost.
FilesConfined(s, s2, f) ==
  /\ s2 \in Storage /\ CoordinatorInv(s2.co) /\ BreakerInv(s2.co)
  /\ \A g \in File \ {f} :
       /\ s2.disk[g] = s.disk[g] /\ s2.settled[g] = s.settled[g]
       /\ Unmasked(s2.co, g) = Unmasked(s.co, g) \/ Unmasked(s2.co, g) = Lost

\* A startup step that is a call about file f, or about none, leaving the
\* file believed only if it holds what is then wanted.
LEMMA StartupStep ==
  ASSUME PersistenceInv, mode \notin {"start", "background", "failed"}, NEW f \in File \cup {"None"},
         mode' \in {"loadSettings", "writeDefaults", "legacyMigration", "loadWarmCache", "start"},
         UNCHANGED <<queueVars, threadVars, submitted>>,
         wanted' \in [File -> Contents],
         \A g \in File \ {f} : wanted'[g] = wanted[g],
         FilesConfined(st, st', f),
         f \in File => Vouches(Unmasked(st'.co, f).durability, st', f, wanted'[f]),
         mode' # "start" => f # "WarmCache",
         mode' = "loadSettings" => f = "None" /\ mode = "warn"
  PROVE  PersistenceInv'
<1>1. TypeOK'
  BY DEF PersistenceInv, TypeOK, FilesConfined, queueVars, threadVars
<1>2. CoordinatorInv(st'.co) /\ BreakerInv(st'.co)
  BY DEF FilesConfined
<1>3. /\ jobs' = {} /\ active' = NoJob /\ worker' = "lock" /\ submitted' = {} /\ rejected' = rejected
      /\ jobs = {} /\ active = NoJob
  BY DEF PersistenceInv, QueueInv, Quiescent, queueVars, threadVars
<1>4. QueueInv'
  BY <1>3 DEF PersistenceInv, QueueInv, Quiescent, queueVars, threadVars
<1>5. NoJob.component = "None" /\ "None" \notin File
  BY DEF NoJob, File
<1>6. PendingInv'
  BY <1>3, <1>5 DEF PendingInv
<1>7. StorageInv'
  <2>1. \A g \in File : Idle(g)' => Idle(g)
    BY <1>3 DEF Idle, Pending
  <2>2. ASSUME NEW g \in File, Idle(g)'
        PROVE  Vouches(Unmasked(st'.co, g).durability, st', g, wanted'[g])
    <3>1. CASE g = f
      BY <3>1
    <3>2. CASE g # f
      <4>1. Vouches(Unmasked(st.co, g).durability, st, g, wanted[g])
        BY <2>1, <2>2, IdleFiles
      <4>2. /\ st'.disk[g] = st.disk[g] /\ st'.settled[g] = st.settled[g]
            /\ Unmasked(st'.co, g) = Unmasked(st.co, g) \/ Unmasked(st'.co, g) = Lost
        BY <3>2 DEF FilesConfined
      <4>3. Vouches(Unmasked(st'.co, g).durability, st', g, wanted[g])
        BY <4>1, <4>2, VouchesStable
      <4>4. wanted'[g] = wanted[g]
        BY <3>2
      <4> QED
        BY <4>3, <4>4
    <3> QED
      BY <3>1, <3>2
  <2> QED
    BY <1>3, <2>2 DEF StorageInv
<1>8. StartupInv'
  BY DEF PersistenceInv, StartupInv, FilesConfined, File
<1>9. FlushInv'
  BY DEF PersistenceInv, FlushInv, Quiescent, queueVars, threadVars
<1> QED
  BY <1>1, <1>2, <1>4, <1>6, <1>7, <1>8, <1>9 DEF PersistenceInv

\* A warning touches no file and no belief in one.
LEMMA WarnLemma ==
  ASSUME NEW s0, NEW s, NEW f, NEW v, NEW d \in Answers,
         FilesConfined(s0, s, f),
         f \in File => Vouches(Unmasked(s.co, f).durability, s, f, v)
  PROVE  /\ FilesConfined(s0, Warn(s, d), f)
         /\ f \in File => Vouches(Unmasked(Warn(s, d).co, f).durability, Warn(s, d), f, v)
<1> DEFINE w == Warn(s, d)
<1>1. s \in Storage /\ CoordinatorInv(s.co) /\ BreakerInv(s.co)
  BY DEF FilesConfined
<1>2. /\ w \in Storage /\ CoordinatorInv(w.co) /\ BreakerInv(w.co)
      /\ w.disk = s.disk /\ w.settled = s.settled
      /\ \A g \in File : Unmasked(w.co, g) = Unmasked(s.co, g)
  BY <1>1, RecordDiagnosticLemma DEF Warn, Confined
<1> HIDE DEF w
<1>3. FilesConfined(s0, w, f)
  BY <1>2 DEF FilesConfined
<1>4. f \in File => Vouches(Unmasked(w.co, f).durability, w, f, v)
  BY <1>2 DEF Vouches
<1> QED
  BY <1>3, <1>4 DEF w

LEMMA ConfinedFiles ==
  ASSUME NEW s, NEW s2, NEW f \in File, Confined(s, s2, f), BreakerInv(s2.co)
  PROVE  FilesConfined(s, s2, f)
BY DEF Confined, FilesConfined, Component

LEMMA StartupActions ==
  ASSUME PersistenceInv, NEW a \in Answers, NEW d \in Answers, NEW e \in Answers, NEW check \in RootCheck,
         \/ PrivilegeWarning(d) \/ LoadSettings(a, d, e) \/ WriteDefaults(a, d)
         \/ LegacyMigration(check, d) \/ LoadWarmCache(a, d)
  PROVE  PersistenceInv'
<1>1. /\ st \in Storage /\ CoordinatorInv(st.co) /\ BreakerInv(st.co)
      /\ wanted \in [File -> Contents] /\ "Settings" \in File /\ "WarmCache" \in File
      /\ "None" \notin File /\ "None" # "WarmCache" /\ "Settings" # "WarmCache"
  BY DEF PersistenceInv, TypeOK, File
<1>2. FilesConfined(st, st, "None")
  BY <1>1 DEF FilesConfined
<1>3. CASE PrivilegeWarning(d)
  <2>1. /\ mode = "warn" /\ mode' = "loadSettings" /\ UNCHANGED <<queueVars, threadVars, submitted>>
        /\ wanted' = wanted /\ (st' = st \/ st' = Warn(st, d))
    BY <1>3 DEF PrivilegeWarning
  <2>2. FilesConfined(st, st', "None")
    BY <1>1, <1>2, <2>1, WarnLemma
  <2> QED
    BY <1>1, <2>1, <2>2, StartupStep
<1>4. ASSUME NEW v \in Values
      PROVE  LET s == WriteJson(st, "Settings", v, a)
             IN /\ FilesConfined(st, s, "Settings")
                /\ Vouches(Unmasked(s.co, "Settings").durability, s, "Settings", v)
  <2>1. v \in Contents
    BY <1>4 DEF Contents
  <2> QED
    BY <1>1, <2>1, ReplaceFileLemma, ConfinedFiles DEF WriteJson
<1>5. ASSUME NEW v \in Values,
             wanted' = [wanted EXCEPT !["Settings"] = v],
             LET s == WriteJson(st, "Settings", v, a)
             IN st' \in {s, Warn(s, d), Warn(Warn(s, d), e)},
             mode \in {"loadSettings", "writeDefaults"}, mode' = "legacyMigration",
             UNCHANGED <<queueVars, threadVars, submitted>>
      PROVE  PersistenceInv'
  <2> DEFINE s == WriteJson(st, "Settings", v, a)
  <2>1. /\ FilesConfined(st, s, "Settings")
        /\ Vouches(Unmasked(s.co, "Settings").durability, s, "Settings", v)
    BY <1>4
  <2>2. st' \in {s, Warn(s, d), Warn(Warn(s, d), e)}
    BY <1>5
  <2> HIDE DEF s
  <2>3. /\ FilesConfined(st, Warn(s, d), "Settings")
        /\ Vouches(Unmasked(Warn(s, d).co, "Settings").durability, Warn(s, d), "Settings", v)
    BY <1>1, <2>1, WarnLemma
  <2>4. /\ FilesConfined(st, Warn(Warn(s, d), e), "Settings")
        /\ Vouches(Unmasked(Warn(Warn(s, d), e).co, "Settings").durability, Warn(Warn(s, d), e), "Settings", v)
    BY <1>1, <2>3, WarnLemma
  <2>5. /\ FilesConfined(st, st', "Settings")
        /\ Vouches(Unmasked(st'.co, "Settings").durability, st', "Settings", v)
    BY <2>1, <2>2, <2>3, <2>4
  <2>6. wanted'["Settings"] = v /\ wanted' \in [File -> Contents]
        /\ \A g \in File \ {"Settings"} : wanted'[g] = wanted[g]
    BY <1>1, <1>5 DEF Contents
  <2> QED
    BY <1>1, <1>5, <2>5, <2>6, StartupStep
<1>6. ASSUME NEW f \in File, st.settled[f], st.disk[f] = wanted[f],
             LET s == LoadJson(st, f, a) IN st' \in {s, Warn(s, d)}
      PROVE  /\ FilesConfined(st, st', f)
             /\ Vouches(Unmasked(st'.co, f).durability, st', f, wanted[f])
  <2> DEFINE s == LoadJson(st, f, a)
  <2>1. FilesConfined(st, s, f) /\ Vouches(Unmasked(s.co, f).durability, s, f, wanted[f])
    BY <1>1, <1>6, LoadJsonLemma, ConfinedFiles
  <2>2. st' = s \/ st' = Warn(s, d)
    BY <1>6
  <2> HIDE DEF s
  <2> QED
    BY <2>1, <2>2, WarnLemma
<1>7. CASE LoadSettings(a, d, e)
  <2>1. mode = "loadSettings" /\ UNCHANGED <<queueVars, threadVars, submitted>>
    BY <1>7 DEF LoadSettings
  <2>2. st.settled["Settings"] /\ st.disk["Settings"] = wanted["Settings"]
    BY <2>1 DEF PersistenceInv, StartupInv
  <2>3. CASE st' = WarnUnless(Succeeds(st, a), LoadJson(st, "Settings", a), d) /\ UNCHANGED wanted
             /\ mode' \in {"writeDefaults", "legacyMigration"}
    <3>1. /\ FilesConfined(st, st', "Settings")
          /\ Vouches(Unmasked(st'.co, "Settings").durability, st', "Settings", wanted["Settings"])
      BY <1>1, <1>6, <2>2, <2>3 DEF WarnUnless
    <3> QED
      BY <1>1, <2>1, <2>3, <3>1, StartupStep
  <2>4. CASE mode' = "legacyMigration" /\ \E v \in Values :
               LET s == WriteJson(st, "Settings", v, a)
               IN /\ st' \in {Warn(s, d)} \cup
                            {WarnUnless(~Succeeds(st, a) \/ Succeeds(s, d), Warn(s, d), e)}
                  /\ wanted' = [wanted EXCEPT !["Settings"] = v]
    BY <1>5, <2>1, <2>4 DEF WarnUnless
  <2> QED
    BY <1>7, <2>3, <2>4 DEF LoadSettings
<1>8. CASE WriteDefaults(a, d)
  <2>1. PICK v \in Values :
          /\ st' = WarnUnless(Succeeds(st, a), WriteJson(st, "Settings", v, a), d)
          /\ wanted' = [wanted EXCEPT !["Settings"] = v]
    BY <1>8 DEF WriteDefaults
  <2>2. mode = "writeDefaults" /\ mode' = "legacyMigration" /\ UNCHANGED <<queueVars, threadVars, submitted>>
    BY <1>8 DEF WriteDefaults
  <2> QED
    BY <1>5, <2>1, <2>2 DEF WarnUnless
<1>9. CASE LegacyMigration(check, d)
  <2> DEFINE s == VerifyRoot(st, check)
  <2>1. /\ mode = "legacyMigration" /\ mode' = "loadWarmCache" /\ wanted' = wanted
        /\ UNCHANGED <<queueVars, threadVars, submitted>>
        /\ st' \in {st, Warn(st, d), s, Warn(s, d)}
    BY <1>9 DEF LegacyMigration
  <2>2. FilesConfined(st, s, "None")
    BY <1>1, VerifyRootLemma DEF FilesConfined
  <2> HIDE DEF s
  <2>3. FilesConfined(st, st', "None")
    BY <1>1, <1>2, <2>1, <2>2, WarnLemma
  <2> QED
    BY <1>1, <2>1, <2>3, StartupStep
<1>10. CASE LoadWarmCache(a, d)
  <2>1. /\ mode = "loadWarmCache" /\ mode' = "start"
        /\ st' = WarnUnless(Succeeds(st, a), LoadJson(st, "WarmCache", a), d)
        /\ UNCHANGED <<queueVars, threadVars, submitted>> /\ wanted' = wanted
    BY <1>10 DEF LoadWarmCache
  <2>2. st.settled["WarmCache"] /\ st.disk["WarmCache"] = wanted["WarmCache"]
    BY <2>1 DEF PersistenceInv, StartupInv
  <2>3. /\ FilesConfined(st, st', "WarmCache")
        /\ Vouches(Unmasked(st'.co, "WarmCache").durability, st', "WarmCache", wanted["WarmCache"])
    BY <1>1, <1>6, <2>1, <2>2 DEF WarnUnless
  <2> QED
    BY <1>1, <2>1, <2>3, StartupStep
<1> QED
  BY <1>3, <1>7, <1>8, <1>9, <1>10

LEMMA StartAction ==
  ASSUME PersistenceInv, Start
  PROVE  PersistenceInv'
<1>1. TypeOK'
  BY DEF PersistenceInv, TypeOK, Start, threadVars, Storage, Coordinator
<1>2. QueueInv' /\ PendingInv' /\ StartupInv' /\ FlushInv'
  BY DEF PersistenceInv, QueueInv, PendingInv, StartupInv, FlushInv, Quiescent, Start, threadVars
<1>3. StorageInv'
  <2>1. st.co \in Coordinator /\ CoordinatorInv(st.co)
    BY DEF PersistenceInv, TypeOK, Storage
  <2>2. ASSUME NEW f \in File, Idle(f)
        PROVE  /\ Vouches(Unmasked(st.co, f).durability, st, f, wanted[f])
               /\ Vouches(st.co.health[f].durability, st, f, wanted[f])
    <3>1. Vouches(Unmasked(st.co, f).durability, st, f, wanted[f])
      BY <2>2, IdleFiles
    <3> QED
      BY <2>1, <3>1, PublishedHealth DEF Vouches
  <2>3. \A f \in File : Idle(f)' <=> Idle(f)
    BY DEF Start, Idle, Pending, threadVars
  <2>4. submitted' = {} /\ worker' = "lock"
    BY DEF Start, PersistenceInv, QueueInv, threadVars
  <2> QED
    BY <2>2, <2>3, <2>4 DEF Start, StorageInv, Vouches
<1> QED
  BY <1>1, <1>2, <1>3 DEF PersistenceInv, Start

LEMMA StartFailsAction ==
  ASSUME PersistenceInv, StartFails
  PROVE  PersistenceInv'
<1>1. TypeOK' /\ QueueInv' /\ PendingInv' /\ StartupInv' /\ FlushInv'
  BY DEF PersistenceInv, TypeOK, QueueInv, PendingInv, StartupInv, FlushInv, Quiescent, StartFails, queueVars,
     threadVars
<1>2. StorageInv'
  BY DEF PersistenceInv, StorageInv, StartFails, Idle, Pending, queueVars, threadVars
<1> QED
  BY <1>1, <1>2 DEF PersistenceInv, StartFails

\* submit, accepted or rejected: the component it is about is pending or
\* marked as rejected afterwards, and nothing changes for the others.
LEMMA SubmitStep ==
  ASSUME PersistenceInv, ClientCall, NEW j, Submit(j),
         NEW n \in Job, n = Stamped(j), n.gen = generation + 1,
         n.component = j.component, n.kind = j.kind, n.val = j.val,
         wanted' \in [File -> Contents],
         \A f \in File : wanted'[f] = IF f = j.component THEN j.val ELSE wanted[f],
         submitted' = submitted \cup (File \cap {j.component})
  PROVE  PersistenceInv'
<1> DEFINE c == j.component
           kept == MergedOnArrival(j)
<1>1. /\ TypeOK /\ QueueInv /\ PendingInv /\ StorageInv
      /\ CoordinatorInv(st.co) /\ BreakerInv(st.co)
  BY DEF PersistenceInv
<1>2. /\ mode = "background" /\ mode' = mode /\ st' = st /\ worker' = worker /\ client' = client
      /\ flushed' = "none" /\ generation' = generation + 1 /\ generation \in Nat
      /\ failedWrites' = failedWrites /\ active' = active /\ health' = health
      /\ closed' = closed /\ completed' = completed
  BY <1>1 DEF ClientCall, Submit, TypeOK
<1>3. /\ kept \subseteq jobs
      /\ \A k \in jobs \ kept : k.component = c
  BY DEF MergedOnArrival, Coalescible
<1>4. /\ jobs' \in {jobs, kept, kept \cup {n}}
      /\ \/ rejected' = rejected /\ jobs' = kept \cup {n}
         \/ /\ rejected' = (IF c = "None" THEN rejected ELSE [rejected EXCEPT ![c] = generation + 1])
            /\ jobs' \in {jobs, kept}
      /\ waiters' \subseteq waiters
  BY <1>1 DEF Submit, Reject, NotifyOne, TypeOK
<1>5. c \in Component \cup {"None"} /\ "None" \notin Component /\ File \subseteq Component
  BY DEF Job, File, Component
<1>6. /\ rejected \in [Component -> Nat]
      /\ \A e \in Component : rejected[e] <= generation
      /\ \A k \in jobs \cup {active} : k.gen <= generation /\ k.gen \in Nat
      /\ jobs \subseteq Job
  BY <1>1 DEF TypeOK, QueueInv, Job, NoJob
<1>7. /\ rejected' \in [Component -> Nat]
      /\ \A e \in Component : rejected'[e] <= generation + 1
      /\ \A e \in Component \ {c} : rejected'[e] = rejected[e]
      /\ c \in Component => n \in jobs' \/ rejected'[c] = generation + 1
  <2>1. CASE rejected' = rejected /\ jobs' = kept \cup {n}
    BY <1>2, <1>6, <2>1
  <2>2. CASE rejected' = (IF c = "None" THEN rejected ELSE [rejected EXCEPT ![c] = generation + 1])
    <3> HIDE DEF c
    <3> QED
      BY <1>2, <1>5, <1>6, <2>2
  <2> QED
    BY <1>4, <2>1, <2>2
<1>8. /\ \A k \in jobs' : k \in jobs \/ k = n
      /\ \A k \in jobs : k.component # c => k \in jobs'
  BY <1>3, <1>4
<1> HIDE DEF kept, c
<1>9. TypeOK'
  BY <1>1, <1>2, <1>4, <1>6, <1>7, <1>8 DEF TypeOK
<1>10. QueueInv'
  BY <1>1, <1>2, <1>6, <1>7, <1>8 DEF QueueInv, Quiescent
<1>11. PendingInv'
  <2> SUFFICES ASSUME NEW f \in File, NEW k \in jobs' \cup {active},
                      k.component = f, rejected'[f] < k.gen,
                      \A m \in jobs' : m.component = f => m.gen <= k.gen
               PROVE  k.val = wanted'[f]
    BY <1>2 DEF PendingInv
  <2>1. CASE k = n
    BY <2>1 DEF c
  <2>2. CASE k # n /\ f = c
    <3>1. k.gen <= generation /\ k.gen \in Nat /\ generation \in Nat
      BY <1>2, <1>6, <1>8, <2>2
    <3>2. n \in jobs' \/ rejected'[f] = generation + 1
      BY <1>5, <1>7, <2>2
    <3>3. n.component = f
      BY <2>2 DEF c
    <3> QED
      BY <3>1, <3>2, <3>3
  <2>3. CASE k # n /\ f # c
    <3>1. k \in jobs \cup {active} /\ rejected[f] < k.gen
      BY <1>5, <1>7, <1>8, <2>3
    <3>2. \A m \in jobs : m.component = f => m.gen <= k.gen
      BY <1>8, <2>3
    <3>3. k.val = wanted[f]
      BY <1>1, <3>1, <3>2 DEF PendingInv
    <3> QED
      BY <2>3, <3>3 DEF c
  <2> QED
    BY <2>1, <2>2, <2>3
<1>12. StorageInv'
  <2>1. ASSUME NEW f \in File, Idle(f)'
        PROVE  f # c /\ Idle(f) /\ wanted'[f] = wanted[f] /\ (f \in submitted' => f \in submitted)
    <3>1. f # c
      BY <1>2, <1>5, <1>7, <2>1 DEF Idle, Pending, c
    <3> QED
      BY <1>2, <1>5, <1>7, <1>8, <2>1, <3>1 DEF Idle, Pending, c
  <2>2. ASSUME NEW f \in File, Idle(f)'
        PROVE  /\ Vouches(Unmasked(st'.co, f).durability, st', f, wanted'[f])
               /\ Vouches(health'[f].durability, st', f, wanted'[f])
               /\ f \in submitted' \ failedWrites' => st'.disk[f] = wanted'[f]
    BY <1>2, <2>1, <2>2, IdleFiles
  <2>3. \A f \in File : active'.component = f /\ worker' = "ran" =>
           Vouches(Unmasked(st'.co, f).durability, st', f, active'.val)
    BY <1>1, <1>2 DEF StorageInv
  <2> QED
    BY <2>2, <2>3 DEF StorageInv
<1>13. StartupInv' /\ FlushInv'
  BY <1>2 DEF StartupInv, FlushInv
<1> QED
  BY <1>1, <1>2, <1>9, <1>10, <1>11, <1>12, <1>13 DEF PersistenceInv

LEMMA SubmitActions ==
  ASSUME PersistenceInv,
         \/ \E f \in File, v \in Values : SubmitWrite(f, v)
         \/ SubmitRemove
         \/ SubmitDiagnostic
         \/ \E kind \in {"retry", "migration"} : SubmitUnattributed(kind)
  PROVE  PersistenceInv'
<1>1. generation \in Nat /\ wanted \in [File -> Contents] /\ submitted \subseteq File
      /\ generation + 1 \in Nat \ {0}
  BY DEF PersistenceInv, TypeOK
<1>2. ASSUME NEW f \in File, NEW v \in Values, SubmitWrite(f, v)
      PROVE  PersistenceInv'
  <2> DEFINE j == NewJob("write", f, v)
             n == Stamped(j)
  <2>1. n = [gen |-> generation + 1, kind |-> "write", component |-> f, val |-> v]
    BY DEF NewJob, Stamped
  <2>2. n \in Job /\ n.gen = generation + 1 /\ n.component = j.component
        /\ n.kind = j.kind /\ n.val = j.val /\ j.component = f /\ j.val = v
    BY <1>1, <2>1 DEF Job, NewJob
  <2>3. ClientCall /\ Submit(j) /\ wanted' = [wanted EXCEPT ![f] = v]
        /\ submitted' = submitted \cup {f} /\ v \in Contents
    BY <1>2 DEF SubmitWrite, Contents
  <2>4. /\ wanted' \in [File -> Contents]
        /\ \A g \in File : wanted'[g] = IF g = j.component THEN j.val ELSE wanted[g]
        /\ submitted' = submitted \cup (File \cap {j.component})
    BY <1>1, <2>2, <2>3
  <2> HIDE DEF j, n
  <2> QED
    BY <2>2, <2>3, <2>4, SubmitStep DEF n
<1>3. ASSUME SubmitRemove
      PROVE  PersistenceInv'
  <2> DEFINE j == NewJob("remove", "WarmCache", Absent)
             n == Stamped(j)
  <2>1. n = [gen |-> generation + 1, kind |-> "remove", component |-> "WarmCache", val |-> Absent]
    BY DEF NewJob, Stamped
  <2>2. n \in Job /\ n.gen = generation + 1 /\ n.component = j.component
        /\ n.kind = j.kind /\ n.val = j.val /\ j.component = "WarmCache" /\ j.val = Absent
    BY <1>1, <2>1 DEF Job, NewJob
  <2>3. ClientCall /\ Submit(j) /\ wanted' = [wanted EXCEPT !["WarmCache"] = Absent]
        /\ submitted' = submitted \cup {"WarmCache"} /\ Absent \in Contents /\ "WarmCache" \in File
    BY <1>3 DEF SubmitRemove, Contents, File
  <2>4. /\ wanted' \in [File -> Contents]
        /\ \A g \in File : wanted'[g] = IF g = j.component THEN j.val ELSE wanted[g]
        /\ submitted' = submitted \cup (File \cap {j.component})
    BY <1>1, <2>2, <2>3
  <2> HIDE DEF j, n
  <2> QED
    BY <2>2, <2>3, <2>4, SubmitStep DEF n
<1>4. ASSUME NEW kind, NEW c, Submit(NewJob(kind, c, Absent)), ClientCall,
             UNCHANGED <<wanted, submitted>>,
             \/ kind = "diagnostic" /\ c = "Diagnostics"
             \/ kind \in {"retry", "migration"} /\ c = "None"
      PROVE  PersistenceInv'
  <2> DEFINE j == NewJob(kind, c, Absent)
             n == Stamped(j)
  <2>1. n = [gen |-> generation + 1, kind |-> kind, component |-> c, val |-> Absent]
    BY DEF NewJob, Stamped
  <2>2. n \in Job /\ n.gen = generation + 1 /\ n.component = j.component
        /\ n.kind = j.kind /\ n.val = j.val /\ j.component = c /\ j.val = Absent
    BY <1>1, <1>4, <2>1 DEF Job, NewJob
  <2>3. c \notin File
    BY <1>4 DEF File
  <2>4. /\ wanted' \in [File -> Contents]
        /\ \A g \in File : wanted'[g] = IF g = j.component THEN j.val ELSE wanted[g]
        /\ submitted' = submitted \cup (File \cap {j.component})
    BY <1>1, <1>4, <2>2, <2>3
  <2> HIDE DEF j, n
  <2> QED
    BY <1>4, <2>2, <2>4, SubmitStep DEF j, n
<1> QED
  BY <1>2, <1>3, <1>4 DEF SubmitDiagnostic, SubmitUnattributed

\* Steps that touch neither the storage nor the queue.
LEMMA QuietStep ==
  ASSUME PersistenceInv, TypeOK', FlushInv',
         UNCHANGED <<mode, st, jobs, generation, rejected, failedWrites, active, health,
                     wanted, submitted>>,
         worker' = worker \/ (worker' = "exited" /\ worker = "lock" /\ mode = "background")
  PROVE  PersistenceInv'
<1>1. QueueInv' /\ PendingInv' /\ StartupInv'
  BY DEF PersistenceInv, QueueInv, PendingInv, StartupInv, Quiescent
<1>2. StorageInv'
  <2>1. \A f \in File : Idle(f)' <=> Idle(f)
    BY DEF Idle, Pending
  <2> QED
    BY <2>1 DEF PersistenceInv, StorageInv
<1> QED
  BY <1>1, <1>2 DEF PersistenceInv

LEMMA QuietActions ==
  ASSUME PersistenceInv,
         \/ BeginFlush \/ Flush \/ FlushTimeout \/ Drop
         \/ WorkerWait \/ WorkerExit
         \/ \E t \in waiters : SpuriousWakeup(t)
         \/ UNCHANGED vars
  PROVE  PersistenceInv'
<1> USE DEF queueVars
<1>0. TypeOK /\ FlushInv
  BY DEF PersistenceInv
<1>1. CASE BeginFlush
  <2>1. TypeOK' /\ FlushInv'
    BY <1>0, <1>1 DEF BeginFlush, TypeOK, FlushInv
  <2>3. /\ UNCHANGED <<mode, st, jobs, generation, rejected, failedWrites, active, health,
                        wanted, submitted>>
        /\ worker' = worker \/ (worker' = "exited" /\ worker = "lock" /\ mode = "background")
    BY <1>1 DEF BeginFlush
  <2> QED
    BY <2>1, <2>3, QuietStep
<1>2. CASE Flush
  <2>1. TypeOK'
    BY <1>0, <1>2 DEF Flush, TypeOK
  <2>2. FlushInv'
    BY <1>0, <1>2 DEF Flush, FlushInv, TypeOK, Quiescent
  <2>3. /\ UNCHANGED <<mode, st, jobs, generation, rejected, failedWrites, active, health,
                        wanted, submitted>>
        /\ worker' = worker \/ (worker' = "exited" /\ worker = "lock" /\ mode = "background")
    BY <1>2 DEF Flush
  <2> QED
    BY <2>1, <2>2, <2>3, QuietStep
<1>3. CASE FlushTimeout
  <2>1. TypeOK' /\ FlushInv'
    BY <1>0, <1>3 DEF FlushTimeout, TypeOK, FlushInv
  <2>3. /\ UNCHANGED <<mode, st, jobs, generation, rejected, failedWrites, active, health,
                        wanted, submitted>>
        /\ worker' = worker \/ (worker' = "exited" /\ worker = "lock" /\ mode = "background")
    BY <1>3 DEF FlushTimeout
  <2> QED
    BY <2>1, <2>3, QuietStep
<1>4. CASE Drop
  <2>1. TypeOK' /\ FlushInv'
    BY <1>0, <1>4 DEF Drop, NotifyOne, TypeOK, FlushInv, Quiescent
  <2>3. /\ UNCHANGED <<mode, st, jobs, generation, rejected, failedWrites, active, health,
                        wanted, submitted>>
        /\ worker' = worker \/ (worker' = "exited" /\ worker = "lock" /\ mode = "background")
    BY <1>4 DEF Drop
  <2> QED
    BY <2>1, <2>3, QuietStep
<1>5. CASE WorkerWait
  <2>1. TypeOK' /\ FlushInv'
    BY <1>0, <1>5 DEF WorkerWait, TypeOK, FlushInv, Quiescent
  <2>3. /\ UNCHANGED <<mode, st, jobs, generation, rejected, failedWrites, active, health,
                        wanted, submitted>>
        /\ worker' = worker \/ (worker' = "exited" /\ worker = "lock" /\ mode = "background")
    BY <1>5 DEF WorkerWait
  <2> QED
    BY <2>1, <2>3, QuietStep
<1>6. CASE WorkerExit
  <2>1. TypeOK' /\ FlushInv'
    BY <1>0, <1>6 DEF WorkerExit, NotifyAll, TypeOK, FlushInv, Quiescent
  <2>3. /\ UNCHANGED <<mode, st, jobs, generation, rejected, failedWrites, active, health,
                        wanted, submitted>>
        /\ worker' = worker \/ (worker' = "exited" /\ worker = "lock" /\ mode = "background")
    BY <1>6 DEF WorkerExit, WorkerLocks
  <2> QED
    BY <2>1, <2>3, QuietStep
<1>7. CASE \E t \in waiters : SpuriousWakeup(t)
  <2>1. TypeOK' /\ FlushInv'
    BY <1>0, <1>7 DEF SpuriousWakeup, TypeOK, FlushInv, Quiescent
  <2>3. /\ UNCHANGED <<mode, st, jobs, generation, rejected, failedWrites, active, health,
                        wanted, submitted>>
        /\ worker' = worker \/ (worker' = "exited" /\ worker = "lock" /\ mode = "background")
    BY <1>7 DEF SpuriousWakeup
  <2> QED
    BY <2>1, <2>3, QuietStep
<1>8. CASE UNCHANGED vars
  <2>1. TypeOK' /\ FlushInv'
    BY <1>0, <1>8 DEF vars, threadVars, TypeOK, FlushInv, Quiescent
  <2>3. /\ UNCHANGED <<mode, st, jobs, generation, rejected, failedWrites, active, health,
                        wanted, submitted>>
        /\ worker' = worker \/ (worker' = "exited" /\ worker = "lock" /\ mode = "background")
    BY <1>8 DEF vars, threadVars
  <2> QED
    BY <2>1, <2>3, QuietStep
<1> QED
  BY <1>1, <1>2, <1>3, <1>4, <1>5, <1>6, <1>7, <1>8

\* pop_front: the job changes hands; its component stays pending.
LEMMA TakeAction ==
  ASSUME PersistenceInv, NEW j \in jobs, Take(j)
  PROVE  PersistenceInv'
<1>1. /\ TypeOK /\ QueueInv /\ PendingInv /\ StorageInv /\ CoordinatorInv(st.co) /\ BreakerInv(st.co)
  BY DEF PersistenceInv
<1>2. /\ jobs' = jobs \ {j} /\ active' = j /\ worker' = "running" /\ worker = "lock"
      /\ mode = "background" /\ \A k \in jobs : j.gen <= k.gen
      /\ UNCHANGED <<mode, st, generation, rejected, failedWrites, health, closed, completed,
                     waiters, client, flushed, wanted, submitted>>
  BY DEF Take, WorkerLocks, Oldest
<1>3. active = NoJob /\ NoJob.component = "None" /\ NoJob.gen = 0 /\ "None" \notin File
  BY <1>1, <1>2 DEF QueueInv, NoJob, File
<1>4. jobs \subseteq Job /\ \A k \in jobs : k.gen \in Nat /\ k.gen # 0
  BY <1>1 DEF TypeOK, Job
<1>5. TypeOK'
  BY <1>1, <1>2 DEF TypeOK
<1>6. QueueInv'
  BY <1>1, <1>2, <1>3, <1>4 DEF QueueInv, TypeOK
<1>7. PendingInv'
  <2> SUFFICES ASSUME NEW f \in File, NEW k \in jobs, k.component = f, rejected[f] < k.gen,
                      \A m \in jobs \ {j} : m.component = f => m.gen <= k.gen
               PROVE  k.val = wanted[f]
    BY <1>2 DEF PendingInv
  <2>1. j.gen <= k.gen
    BY <1>2
  <2> QED
    BY <1>1, <2>1 DEF PendingInv
<1>8. StorageInv'
  <2>1. ASSUME NEW f \in File, Idle(f)'
        PROVE  Idle(f)
    BY <1>2, <1>3, <2>1 DEF Idle, Pending
  <2> QED
    BY <1>1, <1>2, <2>1 DEF StorageInv
<1>9. StartupInv'
  BY <1>2 DEF PersistenceInv, StartupInv
<1>10. FlushInv'
  BY <1>2 DEF PersistenceInv, FlushInv, Quiescent
<1> QED
  BY <1>1, <1>2, <1>5, <1>6, <1>7, <1>8, <1>9, <1>10 DEF PersistenceInv

\* The operation itself, ended or panicked.
LEMMA RunActions ==
  ASSUME PersistenceInv, Run \/ Panic
  PROVE  PersistenceInv'
<1>1. /\ TypeOK /\ QueueInv /\ PendingInv /\ StorageInv /\ CoordinatorInv(st.co) /\ BreakerInv(st.co)
      /\ st \in Storage
  BY DEF PersistenceInv, TypeOK
<1>2. /\ worker = "running" /\ worker' \in {"ran", "panicked"}
      /\ worker' = "ran" => st' \in Effects(active)
      /\ st' = st \/ st' \in Effects(active)
      /\ UNCHANGED <<mode, jobs, generation, rejected, failedWrites, active, health, closed,
                     completed, waiters, client, flushed, wanted, submitted>>
  BY DEF Run, Panic, queueVars
<1>3. active \in Job
  BY <1>1, <1>2 DEF TypeOK, QueueInv
<1>4. /\ st' \in Storage /\ CoordinatorInv(st'.co) /\ BreakerInv(st'.co)
      /\ \A f \in File \ {active.component} :
           /\ st'.disk[f] = st.disk[f] /\ st'.settled[f] = st.settled[f]
           /\ Unmasked(st'.co, f) = Unmasked(st.co, f) \/ Unmasked(st'.co, f) = Lost
      /\ worker' = "ran" /\ active.component \in File =>
           Vouches(Unmasked(st'.co, active.component).durability, st', active.component, active.val)
  <2>1. CASE st' \in Effects(active)
    BY <1>1, <1>3, <2>1, EffectsLemma
  <2>2. CASE st' = st /\ worker' # "ran"
    BY <1>1, <2>2
  <2> QED
    BY <1>2, <2>1, <2>2
<1>5. TypeOK'
  BY <1>1, <1>2, <1>4 DEF TypeOK
<1>6. mode = "background"
  BY <1>1, <1>2 DEF QueueInv
<1>7. QueueInv' /\ PendingInv'
  BY <1>1, <1>2 DEF QueueInv, PendingInv, Quiescent
<1>8. StorageInv'
  <2>1. ASSUME NEW f \in File, Idle(f)'
        PROVE  Idle(f) /\ f # active.component
    BY <1>2, <2>1 DEF Idle, Pending
  <2>2. ASSUME NEW f \in File, Idle(f)'
        PROVE  /\ Vouches(Unmasked(st'.co, f).durability, st', f, wanted'[f])
               /\ Vouches(health'[f].durability, st', f, wanted'[f])
               /\ f \in submitted' \ failedWrites' => st'.disk[f] = wanted'[f]
    <3>1. /\ Vouches(Unmasked(st.co, f).durability, st, f, wanted[f])
          /\ Vouches(health[f].durability, st, f, wanted[f])
          /\ f \in submitted \ failedWrites => st.disk[f] = wanted[f]
      BY <1>6, <2>1, <2>2, IdleFiles
    <3>2. /\ st'.disk[f] = st.disk[f] /\ st'.settled[f] = st.settled[f]
          /\ Unmasked(st'.co, f) = Unmasked(st.co, f) \/ Unmasked(st'.co, f) = Lost
      BY <1>4, <2>1, <2>2
    <3>3. Vouches(Unmasked(st'.co, f).durability, st', f, wanted[f])
      BY <3>1, <3>2, VouchesStable
    <3>4. Vouches(health[f].durability, st', f, wanted[f])
      BY <3>1, <3>2 DEF Vouches
    <3> QED
      BY <1>2, <3>1, <3>2, <3>3, <3>4
  <2>3. \A f \in File : active'.component = f /\ worker' = "ran" =>
           Vouches(Unmasked(st'.co, f).durability, st', f, active'.val)
    BY <1>2, <1>4
  <2> QED
    BY <2>2, <2>3 DEF StorageInv
<1>9. StartupInv'
  BY <1>2, <1>6 DEF StartupInv
<1>10. FlushInv'
  BY <1>2 DEF PersistenceInv, FlushInv, Quiescent
<1> QED
  BY <1>4, <1>5, <1>7, <1>8, <1>9, <1>10 DEF PersistenceInv

\* The end of the loop body: a component whose last job was this one, and
\* which is then believed stored, holds what the job carried, which is what
\* was asked for last.
LEMMA PublishAction ==
  ASSUME PersistenceInv, Publish
  PROVE  PersistenceInv'
<1>1. /\ TypeOK /\ QueueInv /\ PendingInv /\ StorageInv /\ CoordinatorInv(st.co) /\ BreakerInv(st.co)
      /\ st \in Storage /\ st.co \in Coordinator
  BY DEF PersistenceInv, TypeOK, Storage
<1>2. /\ worker = "ran" /\ worker' = "lock" /\ active' = NoJob /\ health' = st.co.health
      /\ waiters' = {}
      /\ failedWrites' = IF active.component = "None" THEN failedWrites
                         ELSE IF HealthyNow(active.component) THEN failedWrites \ {active.component}
                         ELSE failedWrites \cup {active.component}
      /\ rejected' = [c \in Component |->
                        IF c = active.component /\ rejected[c] < active.gen /\ HealthyNow(c)
                        THEN 0 ELSE rejected[c]]
      /\ UNCHANGED <<mode, st, jobs, generation, closed, completed, client, flushed, wanted, submitted>>
  BY DEF Publish, NotifyAll
<1>3. /\ active \in Job /\ active # NoJob /\ mode = "background"
      /\ active.component \in Component \cup {"None"} /\ active.gen \in Nat /\ active.gen # 0
      /\ File \subseteq Component /\ "None" \notin File
      /\ NoJob.component = "None" /\ NoJob.gen = 0
  BY <1>1, <1>2 DEF TypeOK, QueueInv, Job, NoJob, File, Component
<1>4. /\ rejected \in [Component -> Nat] /\ rejected' \in [Component -> Nat]
      /\ \A c \in Component : /\ rejected'[c] = 0 \/ rejected'[c] = rejected[c]
                              /\ rejected'[c] <= rejected[c]
                              /\ c # active.component => rejected'[c] = rejected[c]
  BY <1>1, <1>2 DEF TypeOK
<1>5. TypeOK'
  <2>1. st.co.health \in Health
    BY <1>1 DEF Coordinator
  <2>2. failedWrites' \subseteq Component
    BY <1>1, <1>2, <1>3 DEF TypeOK
  <2> QED
    BY <1>1, <1>2, <1>4, <2>1, <2>2 DEF TypeOK
<1>6. QueueInv'
  <2>1. \A c \in Component : rejected'[c] <= generation'
    BY <1>1, <1>2, <1>4 DEF QueueInv, TypeOK
  <2>2. \A j \in jobs : j.gen \in Nat /\ j.gen # 0
    BY <1>1 DEF TypeOK, Job
  <2> QED
    BY <1>1, <1>2, <1>3, <2>1, <2>2 DEF QueueInv, TypeOK
<1>7. PendingInv'
  <2> SUFFICES ASSUME NEW f \in File, NEW j \in jobs, j.component = f, rejected'[f] < j.gen,
                      \A k \in jobs : k.component = f => k.gen <= j.gen
               PROVE  j.val = wanted[f]
    BY <1>2, <1>3 DEF PendingInv
  <2>1. rejected[f] < j.gen
    <3>1. j.gen \in Nat /\ active.gen < j.gen
      BY <1>1 DEF TypeOK, Job, QueueInv
    <3>2. CASE rejected'[f] = rejected[f]
      BY <3>2
    <3>3. CASE f = active.component /\ rejected[f] < active.gen
      BY <1>3, <1>4, <3>1, <3>3
    <3>4. rejected'[f] = rejected[f] \/ (f = active.component /\ rejected[f] < active.gen)
      BY <1>2, <1>3, <1>4
    <3> QED
      BY <3>2, <3>3, <3>4
  <2> QED
    BY <1>1, <2>1 DEF PendingInv
<1>8. StorageInv'
  <2>1. ASSUME NEW f \in File, Idle(f)', f # active.component
        PROVE  /\ Vouches(Unmasked(st.co, f).durability, st, f, wanted[f])
               /\ f \in submitted \ failedWrites' => st.disk[f] = wanted[f]
    <3>1. Idle(f)
      BY <1>2, <1>3, <1>4, <2>1 DEF Idle, Pending
    <3>2. f \notin failedWrites' => f \notin failedWrites
      BY <1>2, <2>1
    <3> QED
      BY <3>1, <3>2, IdleFiles
  <2>2. ASSUME NEW f \in File, Idle(f)', f = active.component
        PROVE  /\ Vouches(Unmasked(st.co, f).durability, st, f, wanted[f])
               /\ f \in submitted \ failedWrites' => st.disk[f] = wanted[f]
    <3>1. Vouches(Unmasked(st.co, f).durability, st, f, active.val)
      BY <1>1, <1>2, <2>2 DEF StorageInv
    <3>2. /\ \A k \in jobs : k.component # f
          /\ rejected'[f] = 0
      BY <1>2, <2>2 DEF Idle, Pending
    <3>3. rejected[f] < active.gen
      BY <1>2, <1>3, <1>4, <3>2
    <3>4. active.val = wanted[f]
      BY <1>1, <2>2, <3>2, <3>3 DEF PendingInv
    <3>5. f \notin failedWrites' => Unmasked(st.co, f).durability # "SessionOnly"
      <4>1. f \notin failedWrites' => HealthyNow(f)
        BY <1>2, <1>3, <2>2
      <4>2. HealthyNow(f) => st.co.health[f].durability # "SessionOnly"
        BY <1>1, <1>3 DEF HealthyNow, CoordinatorInv
      <4> QED
        BY <1>1, <4>1, <4>2, PublishedHealth
    <3> QED
      BY <3>1, <3>4, <3>5 DEF Vouches
  <2>3. ASSUME NEW f \in File, Idle(f)'
        PROVE  /\ Vouches(Unmasked(st.co, f).durability, st, f, wanted[f])
               /\ Vouches(st.co.health[f].durability, st, f, wanted[f])
               /\ f \in submitted \ failedWrites' => st.disk[f] = wanted[f]
    <3>1. /\ Vouches(Unmasked(st.co, f).durability, st, f, wanted[f])
          /\ f \in submitted \ failedWrites' => st.disk[f] = wanted[f]
      BY <2>1, <2>2, <2>3
    <3>2. Vouches(st.co.health[f].durability, st, f, wanted[f])
      BY <1>1, <3>1, PublishedHealth DEF Vouches
    <3> QED
      BY <3>1, <3>2
  <2>4. /\ st' = st /\ wanted' = wanted /\ submitted' = submitted /\ health' = st.co.health
        /\ worker' # "ran"
    BY <1>2
  <2> QED
    BY <2>3, <2>4 DEF StorageInv
<1>9. StartupInv'
  BY <1>2, <1>3 DEF StartupInv
<1>10. FlushInv'
  BY <1>2, <1>3 DEF PersistenceInv, FlushInv, Quiescent
<1> QED
  BY <1>1, <1>2, <1>5, <1>6, <1>7, <1>8, <1>9, <1>10 DEF PersistenceInv

\* The panic branch marks every component as rejected, so nothing is claimed.
LEMMA PublishPanicAction ==
  ASSUME PersistenceInv, PublishPanic
  PROVE  PersistenceInv'
<1>1. /\ TypeOK /\ QueueInv /\ CoordinatorInv(st.co) /\ BreakerInv(st.co)
      /\ st \in Storage /\ st.co \in Coordinator
  BY DEF PersistenceInv, TypeOK, Storage
<1>2. /\ worker = "panicked" /\ worker' = "exited" /\ active' = NoJob /\ health' = st.co.health
      /\ jobs' = {} /\ waiters' = {} /\ closed' = TRUE /\ completed' = TRUE
      /\ rejected' = [c \in Component |-> generation]
      /\ UNCHANGED <<mode, st, generation, failedWrites, client, flushed, wanted, submitted>>
  BY DEF PublishPanic, NotifyAll
<1>3. /\ active \in Job /\ active # NoJob /\ mode = "background" /\ generation \in Nat /\ generation # 0
  <2>1. active \in Job /\ active # NoJob /\ mode = "background"
    BY <1>1, <1>2 DEF TypeOK, QueueInv
  <2>2. active.gen \in Nat /\ active.gen # 0
    BY <2>1 DEF Job
  <2> QED
    BY <1>1, <2>1, <2>2 DEF QueueInv, TypeOK
<1>4. NoJob.component = "None" /\ NoJob.gen = 0 /\ "None" \notin File /\ File \subseteq Component
  BY DEF NoJob, File, Component
<1>5. st.co.health \in Health
  BY <1>1 DEF Coordinator
<1>6. TypeOK'
  BY <1>1, <1>2, <1>3, <1>5 DEF TypeOK
<1>7. QueueInv'
  BY <1>2, <1>3, <1>4 DEF QueueInv
<1>8. PendingInv'
  BY <1>2, <1>4 DEF PendingInv
<1>9. StorageInv'
  <2>1. \A f \in File : ~Idle(f)'
    BY <1>2, <1>3, <1>4 DEF Idle
  <2> QED
    BY <1>2, <2>1 DEF StorageInv
<1>10. StartupInv'
  BY <1>2, <1>3 DEF StartupInv
<1>11. FlushInv'
  BY <1>2, <1>3 DEF PersistenceInv, FlushInv, Quiescent
<1> QED
  BY <1>1, <1>2, <1>6, <1>7, <1>8, <1>9, <1>10, <1>11 DEF PersistenceInv

LEMMA NextPersistenceInv == PersistenceInv /\ [Next]_vars => PersistenceInv'
<1> SUFFICES ASSUME PersistenceInv, [Next]_vars PROVE PersistenceInv'
  OBVIOUS
<1>1. CASE \E d \in Answers :
             \/ PrivilegeWarning(d)
             \/ \E a \in Answers : (\E e \in Answers : LoadSettings(a, d, e)) \/ WriteDefaults(a, d)
                                    \/ LoadWarmCache(a, d)
             \/ \E check \in RootCheck : LegacyMigration(check, d)
  <2>1. \A d \in Answers : d.check \in RootCheck
    BY DEF Answers
  <2> QED
    BY <1>1, <2>1, StartupActions
<1>2. CASE Start \/ StartFails
  BY <1>2, StartAction, StartFailsAction
<1>3. CASE \/ \E f \in File, v \in Values : SubmitWrite(f, v)
           \/ SubmitRemove
           \/ SubmitDiagnostic
           \/ \E kind \in {"retry", "migration"} : SubmitUnattributed(kind)
  BY <1>3, SubmitActions
<1>4. CASE \/ BeginFlush \/ Flush \/ FlushTimeout \/ Drop
           \/ WorkerWait \/ WorkerExit
           \/ \E t \in waiters : SpuriousWakeup(t)
           \/ UNCHANGED vars
  BY <1>4, QuietActions
<1>5. CASE \E j \in jobs : Take(j)
  BY <1>5, TakeAction
<1>6. CASE Run \/ Panic
  BY <1>6, RunActions
<1>7. CASE Publish
  BY <1>7, PublishAction
<1>8. CASE PublishPanic
  BY <1>8, PublishPanicAction
<1> QED
  BY <1>1, <1>2, <1>3, <1>4, <1>5, <1>6, <1>7, <1>8 DEF Next, WorkerStep

\* PersistenceInv is an invariant of the writer and its client, for every
\* capacity, every number of submissions and every set of payloads.
THEOREM PersistenceInvariance == Spec => []PersistenceInv
<1> QED
  BY InitPersistenceInv, NextPersistenceInv, PTL DEF Spec

\* BackgroundPersistence::health never reports a file as stored that does not
\* hold, durably if it says so, what the runtime last asked for.
THEOREM HealthTruth == Spec => []HealthIsTruthful
<1>1. PersistenceInv => HealthIsTruthful
  <2> SUFFICES ASSUME PersistenceInv, mode = "background", NEW f \in File
               PROVE  Vouches(ReportedDurability(f), st, f, wanted[f])
    BY DEF HealthIsTruthful
  <2>1. CASE Idle(f)
    BY <2>1, IdleFiles DEF Idle, ReportedDurability
  <2>2. CASE ~Idle(f)
    BY <2>2 DEF Idle, ReportedDurability, Vouches
  <2> QED
    BY <2>1, <2>2
<1> QED
  BY <1>1, PersistenceInvariance, PTL

\* A flush that returned Ok is the truth about every file the runtime queued
\* a job for.
THEOREM FlushTruth == Spec => []FlushIsTruthful
<1>1. PersistenceInv => FlushIsTruthful
  <2> SUFFICES ASSUME PersistenceInv, flushed = "ok", NEW f \in submitted
               PROVE  st.disk[f] = wanted[f]
    BY DEF FlushIsTruthful
  <2>1. f \in File /\ f \in Component
    BY DEF PersistenceInv, TypeOK, Component
  <2>2. jobs = {} /\ active = NoJob /\ failedWrites = {} /\ rejected[f] = 0
    BY <2>1 DEF PersistenceInv, FlushInv, Quiescent
  <2>3. NoJob.component = "None" /\ "None" \notin File
    BY DEF NoJob, File
  <2>4. Idle(f)
    BY <2>1, <2>2, <2>3 DEF Idle, Pending
  <2> QED
    BY <2>1, <2>2, <2>4, IdleFiles
<1> QED
  BY <1>1, PersistenceInvariance, PTL

\* The diagnostics are not reported healthy behind an open breaker.
THEOREM BreakerTruth == Spec => []BreakerIsVisible
<1>1. PersistenceInv => BreakerIsVisible
  BY DEF PersistenceInv, BreakerIsVisible
<1> QED
  BY <1>1, PersistenceInvariance, PTL
-----------------------------------------------------------------------------
(* Wakeups: who waits is where it should be, and they never both wait.      *)

WaitInv ==
  /\ NoWakeupIsLost
  /\ "worker" \in waiters => worker = "lock"
  /\ "client" \in waiters => client = "flush"
  /\ mode # "background" => client = "idle" /\ waiters = {}

LEMMA WaitStep ==
  ASSUME PersistenceInv, WaitInv, [Next]_vars
  PROVE  WaitInv'
<1> USE DEF WaitInv, NoWakeupIsLost
<1>0. /\ waiters \subseteq {"worker", "client"}
      /\ worker \in {"running", "ran", "panicked"} <=> active # NoJob
  BY DEF PersistenceInv, TypeOK, QueueInv
<1>1. ASSUME mode # "background", UNCHANGED <<queueVars, threadVars>> PROVE WaitInv'
  BY <1>1 DEF queueVars, threadVars, Quiescent
<1>2. CASE \E d \in Answers :
             \/ PrivilegeWarning(d)
             \/ \E a \in Answers : (\E e \in Answers : LoadSettings(a, d, e)) \/ WriteDefaults(a, d)
                                    \/ LoadWarmCache(a, d)
             \/ \E check \in RootCheck : LegacyMigration(check, d)
  BY <1>1, <1>2 DEF PrivilegeWarning, LoadSettings, WriteDefaults, LoadWarmCache, LegacyMigration
<1>3. CASE Start \/ StartFails
  BY <1>1, <1>3 DEF Start, StartFails, queueVars, threadVars, Quiescent
<1>4. ASSUME NEW j, ClientCall, Submit(j) PROVE WaitInv'
  <2>1. "client" \notin waiters /\ mode' = "background" /\ UNCHANGED <<worker, client, active, closed>>
    BY <1>4 DEF ClientCall, Submit
  <2>2. CASE waiters' = {}
    BY <2>2, <2>1
  <2>3. CASE closed \/ waiters = {}
    BY <1>4, <2>1, <2>3, <1>0 DEF Submit, Reject, NotifyOne
  <2>4. CASE waiters = {"worker"} /\ ~closed
    <3>1. CASE jobs' = MergedOnArrival(j) /\ Cardinality(MergedOnArrival(j)) >= Capacity
      <4>1. jobs = {} /\ MergedOnArrival(j) = {}
        BY <2>4 DEF Quiescent, MergedOnArrival
      <4>2. Cardinality({}) = 0
        BY FS_EmptySet
      <4> QED BY <3>1, <4>1, <4>2, BoundsAssumption
    <3>2. CASE NotifyOne
      <4>1. waiters' = {}
        BY <3>2, <2>4 DEF NotifyOne
      <4> QED BY <4>1, <2>2
    <3> QED BY <1>4, <2>4, <3>1, <3>2 DEF Submit
  <2> QED BY <2>1, <2>3, <2>4, <1>0
<1>5. CASE \/ \E f \in File, v \in Values : SubmitWrite(f, v)
           \/ SubmitRemove
           \/ SubmitDiagnostic
           \/ \E kind \in {"retry", "migration"} : SubmitUnattributed(kind)
  BY <1>4, <1>5 DEF SubmitWrite, SubmitRemove, SubmitDiagnostic, SubmitUnattributed
<1>6. CASE BeginFlush \/ Flush \/ FlushTimeout
  <2>1. (Quiescent' <=> Quiescent) /\ UNCHANGED <<closed, worker, mode>>
    BY <1>6 DEF BeginFlush, Flush, FlushTimeout, queueVars, Quiescent
  <2>2. CASE BeginFlush
    BY <2>1, <2>2 DEF BeginFlush
  <2>3. CASE Flush
    <3>1. client = "flush" /\ mode = "background"
      BY <2>3 DEF Flush
    <3>2. CASE Quiescent
      BY <2>1, <2>3, <3>2 DEF Flush
    <3>3. CASE ~Quiescent
      BY <2>1, <2>3, <3>1, <3>3 DEF Flush
    <3> QED BY <3>2, <3>3
  <2>4. CASE FlushTimeout
    BY <2>1, <2>4 DEF FlushTimeout
  <2> QED BY <1>6, <2>2, <2>3, <2>4
<1>7. CASE Drop
  <2>1. "client" \notin waiters /\ waiters \subseteq {"worker"} /\ mode' = "background"
    BY <1>7, <1>0 DEF Drop
  <2>2. waiters' = {}
    BY <1>7, <2>1 DEF Drop, NotifyOne
  <2> QED BY <2>1, <2>2
<1>8. CASE WorkerWait
  BY <1>8, <1>0 DEF WorkerWait, WorkerLocks, queueVars, Quiescent
<1>9. ASSUME NEW j \in jobs, Take(j) PROVE WaitInv'
  <2>1. "worker" \notin waiters /\ UNCHANGED <<waiters, client, mode>> /\ mode = "background"
    BY <1>9 DEF Take, WorkerLocks
  <2>2. active' = j /\ j # NoJob
    <3>1. j.gen # 0
      BY <1>9 DEF PersistenceInv, TypeOK, Job
    <3>2. NoJob.gen = 0
      BY DEF NoJob
    <3> QED BY <1>9, <3>1, <3>2 DEF Take
  <2> QED BY <2>1, <2>2 DEF Quiescent
<1>10. CASE WorkerExit \/ Publish \/ PublishPanic
  <2>1. waiters' = {} /\ mode' = "background"
    BY <1>10 DEF WorkerExit, WorkerLocks, Publish, PublishPanic, NotifyAll, PersistenceInv, QueueInv
  <2> QED BY <2>1
<1>11. CASE Run \/ Panic
  BY <1>11, <1>0 DEF Run, Panic, queueVars, Quiescent
<1>12. CASE \E t \in waiters : SpuriousWakeup(t)
  BY <1>12 DEF SpuriousWakeup, queueVars, Quiescent
<1>13. CASE UNCHANGED vars
  BY <1>13 DEF vars, queueVars, threadVars, Quiescent
<1> QED
  BY <1>2, <1>3, <1>5, <1>6, <1>7, <1>8, <1>9, <1>10, <1>11, <1>12, <1>13 DEF Next, WorkerStep

\* Neither the writer nor a flush sleeps through what it waits for, whatever
\* the capacity and whoever is notified.
THEOREM WakeupsAreKept == Spec => []NoWakeupIsLost
<1>1. Init => WaitInv
  BY DEF Init, WaitInv, NoWakeupIsLost
<1>2. WaitInv => NoWakeupIsLost
  BY DEF WaitInv
<1> QED
  BY <1>1, <1>2, WaitStep, PersistenceInvariance, PTL DEF Spec
-----------------------------------------------------------------------------
(* The queue at its limit                                                   *)

CapacityInv == IsFiniteSet(jobs) /\ Cardinality(jobs) <= Capacity

\* Merging on arrival makes room: a queue that is full after it had nothing to merge.
LEMMA MergeMakesRoom ==
  ASSUME CapacityInv, NEW j
  PROVE  /\ IsFiniteSet(MergedOnArrival(j)) /\ Cardinality(MergedOnArrival(j)) \in Nat
         /\ Cardinality(MergedOnArrival(j)) <= Capacity
         /\ Cardinality(MergedOnArrival(j)) >= Capacity => MergedOnArrival(j) = jobs
<1>1. MergedOnArrival(j) \in SUBSET jobs
  BY DEF MergedOnArrival
<1>2. /\ IsFiniteSet(MergedOnArrival(j)) /\ Cardinality(MergedOnArrival(j)) <= Cardinality(jobs)
      /\ Cardinality(jobs) = Cardinality(MergedOnArrival(j)) => jobs = MergedOnArrival(j)
  BY <1>1, FS_Subset DEF CapacityInv
<1>3. Cardinality(MergedOnArrival(j)) \in Nat /\ Cardinality(jobs) \in Nat
  BY <1>2, FS_CardinalityType DEF CapacityInv
<1> QED
  BY <1>2, <1>3, BoundsAssumption DEF CapacityInv

\* The steps that leave the queue and the rejections alone.
Settled == UNCHANGED <<jobs, rejected>>

\* Every step is one of the runtime's submissions, leaves queue and rejections alone, or is
\* the writer's: it takes a job, forgives a rejection or drops everything in a panic.
LEMMA QueueSteps ==
  ASSUME [Next]_vars
  PROVE  \/ Settled
         \/ \E j : Submit(j)
         \/ \E j \in jobs : Take(j)
         \/ Publish \/ PublishPanic
<1>1. CASE \E d \in Answers :
             \/ PrivilegeWarning(d)
             \/ \E a \in Answers : (\E e \in Answers : LoadSettings(a, d, e)) \/ WriteDefaults(a, d)
                                    \/ LoadWarmCache(a, d)
             \/ \E check \in RootCheck : LegacyMigration(check, d)
  BY <1>1 DEF PrivilegeWarning, LoadSettings, WriteDefaults, LoadWarmCache, LegacyMigration, queueVars,
     Settled
<1>2. CASE \/ \E f \in File, v \in Values : SubmitWrite(f, v)
           \/ SubmitRemove
           \/ SubmitDiagnostic
           \/ \E kind \in {"retry", "migration"} : SubmitUnattributed(kind)
  BY <1>2 DEF SubmitWrite, SubmitRemove, SubmitDiagnostic, SubmitUnattributed
<1>3. CASE Start \/ StartFails \/ BeginFlush \/ Flush \/ FlushTimeout \/ Drop \/ Panic \/ UNCHANGED vars
  BY <1>3 DEF Start, StartFails, BeginFlush, Flush, FlushTimeout, Drop, Panic, vars, queueVars, Settled
<1>4. CASE WorkerStep
  BY <1>4 DEF WorkerStep, WorkerWait, WorkerExit, Run, queueVars, Settled
<1>5. CASE \E t \in waiters : SpuriousWakeup(t)
  BY <1>5 DEF SpuriousWakeup, queueVars, Settled
<1> QED
  BY <1>1, <1>2, <1>3, <1>4, <1>5 DEF Next

\* The queue never holds more than its capacity.
LEMMA CapacityStep ==
  ASSUME CapacityInv, [Next]_vars
  PROVE  CapacityInv'
<1>1. CASE Settled
  BY <1>1 DEF Settled, CapacityInv
<1>2. ASSUME NEW j, Submit(j) PROVE CapacityInv'
  <2>1. CASE jobs' = jobs \/ jobs' = MergedOnArrival(j)
    BY <2>1, MergeMakesRoom DEF CapacityInv
  <2>2. CASE Cardinality(MergedOnArrival(j)) < Capacity /\ jobs' = MergedOnArrival(j) \cup {Stamped(j)}
    <3>1. /\ IsFiniteSet(jobs')
          /\ \/ Cardinality(jobs') = Cardinality(MergedOnArrival(j))
             \/ Cardinality(jobs') = Cardinality(MergedOnArrival(j)) + 1
      BY <2>2, MergeMakesRoom, FS_AddElement
    <3> QED
      BY <2>2, <3>1, MergeMakesRoom, BoundsAssumption DEF CapacityInv
  <2> QED
    BY <1>2, <2>1, <2>2 DEF Submit
<1>3. CASE jobs' \in SUBSET jobs
  <2>1. IsFiniteSet(jobs') /\ Cardinality(jobs') <= Cardinality(jobs)
    BY <1>3, FS_Subset DEF CapacityInv
  <2>2. Cardinality(jobs') \in Nat /\ Cardinality(jobs) \in Nat
    BY <2>1, FS_CardinalityType DEF CapacityInv
  <2> QED
    BY <2>1, <2>2, BoundsAssumption DEF CapacityInv
<1>4. CASE (\E j \in jobs : Take(j)) \/ Publish \/ PublishPanic
  BY <1>3, <1>4 DEF Take, Publish, PublishPanic
<1> QED
  BY <1>1, <1>2, <1>4, QueueSteps

\* submit: a job turned away because the queue is full or closed costs no other.
LEMMA RejectionStep ==
  ASSUME PersistenceInv, CapacityInv, [Next]_vars, NEW c \in Component, rejected'[c] = generation + 1
  PROVE  jobs' = jobs
<1>1. generation \in Nat /\ rejected \in [Component -> Nat] /\ rejected[c] <= generation
  BY DEF PersistenceInv, TypeOK, QueueInv
<1>2. CASE UNCHANGED rejected
  BY <1>1, <1>2
<1>3. ASSUME NEW j, Submit(j) PROVE jobs' = jobs
  <2>1. CASE Reject(j.component)
    BY <1>1, <1>3, <2>1, MergeMakesRoom DEF Submit
  <2>2. CASE UNCHANGED rejected
    BY <1>2, <2>2
  <2> QED
    BY <1>3, <2>1, <2>2 DEF Submit
<1>4. CASE \E j \in jobs : Take(j)
  BY <1>2, <1>4 DEF Take
<1>5. CASE Publish \/ PublishPanic
  <2>1. rejected'[c] \in {0, rejected[c], generation}
    BY <1>5 DEF Publish, PublishPanic
  <2> QED
    BY <1>1, <2>1
<1> QED
  BY <1>2, <1>3, <1>4, <1>5, QueueSteps DEF Settled

\* A full queue turns the new job away and keeps every job it had accepted.
THEOREM AcceptedJobsAreKept == Spec => RejectionKeepsAccepted
<1>1. Init => CapacityInv
  BY FS_EmptySet, BoundsAssumption DEF Init, CapacityInv
<1>2. PersistenceInv /\ CapacityInv /\ [Next]_vars =>
        [\A c \in Component : rejected'[c] = generation + 1 => jobs' = jobs]_vars
  BY RejectionStep
<1> QED
  BY <1>1, <1>2, CapacityStep, PersistenceInvariance, PTL DEF Spec, RejectionKeepsAccepted
=============================================================================
