------------------------- MODULE UpgradeTransaction -------------------------
(***************************************************************************)
(* Installing, upgrading and removing the collector service on Windows.    *)
(* The installer (NSIS) extracts a recovery controller, has it prepare the *)
(* upgrade, replaces the stable service program, has the controller commit *)
(* the candidate, and has the new program finish with `install`.  A        *)
(* journal and a copy of the old program let a later run take up whatever  *)
(* an earlier one left: the run may be killed and the machine may restart  *)
(* between any two steps, and any step may fail.                           *)
(*                                                                         *)
(* A program is known by its digest.  One run of the installer or of the   *)
(* uninstaller is an attempt; `pc` is the place it has reached, a step is  *)
(* one change of the disk, the registry or the service manager with the    *)
(* checks before it.                                                       *)
(***************************************************************************)
EXTENDS Naturals

CONSTANTS Images,        \* digests of service programs
          Broken,        \* those that do not come up as a service
          Targets,       \* those an installer carries
          Initial,       \* what may be installed at first: an image, or None
          MaxAttempts,   \* bound on attempts
          MaxFaults,     \* bound on failures, crashes and restarts
          None, Torn     \* no file; a file written in part

VARIABLES scm,           \* the service as the service manager knows it
          roots,         \* which of the two ProgramData directories exist
          appPath,       \* the App Paths key: absent, bare (without its value), exact
          start,         \* files of the Start entry: its stage, its leaf, its receipt
          entry,         \* how far ensure_owned_start_entry has come
          stable,        \* batcave-collector-service.exe
          proved,        \* it was seen to run as the service since it was written
          recovery,      \* batcave-collector-service.recovery.exe
          alias,         \* the same program under the installed version's staged name
          backups,       \* digests for which a rollback copy exists
          temps,         \* temporary files of copies: of a rollback copy, of a restore
          journal,       \* installer-upgrade.v1.json
          pc, verdict,   \* place of the attempt, and how the latest one ended
          mem,           \* the journal as the running verb holds it
          after,         \* what follows a rollback
          verb,          \* the provisioner verb under way or next
          target,        \* the image the installer carries
          keep,          \* which staged name the running controller has
          prepared,      \* the journal at hand is the one to go on with
          active,        \* the service was up when its removal began
          created,       \* what a first installation has created
          obstructed,    \* the attempt began in a state it cannot mend
          attempts, faults, faulted

launch == <<appPath, start, entry>>
home == <<roots, launch>>
exe == <<stable, proved>>
staging == <<recovery, alias>>
spare == <<backups, temps>>
plan == <<verb, target, keep, prepared, active, created, obstructed, attempts>>
vars == <<scm, home, exe, staging, spare, journal, pc, verdict, mem, after, plan,
          faults, faulted>>

Sound == Images \ Broken
Phases == {"Prepared", "CandidateInstalled", "Verified"}
Journals == [phase : Phases, old : Images, new : Images]
Roots == {"product", "service"}
Published == {"leaf", "receipt"}   \* a Start entry with its ownership record
Registered == {"stopped", "failed", "running"}

ASSUME UpgradeAssumption ==
  /\ Broken \subseteq Images /\ Targets \subseteq Images
  /\ Initial \subseteq Images \cup {None}
  /\ None \notin Images /\ Torn \notin Images /\ None # Torn
  /\ None \notin Journals
  /\ MaxAttempts \in Nat /\ MaxFaults \in Nat

\* A machine without the product, or with one program installed and the
\* service running if that program does, by a version that registered its
\* launch entries or by one that did not yet.
Init ==
  /\ stable \in Initial
  /\ scm = IF stable = None THEN "absent" ELSE IF stable \in Sound THEN "running" ELSE "failed"
  /\ roots = (IF stable = None THEN {} ELSE Roots)
  /\ start \in {{}} \cup {Published : d \in {stable} \ {None}}
  /\ appPath = (IF start = {} THEN "absent" ELSE "exact")
  /\ entry = "inspect"
  /\ proved = (stable \in Sound)
  /\ recovery = None /\ alias = None /\ backups = {} /\ temps = {} /\ journal = None
  /\ pc = "idle" /\ verdict = "none" /\ mem = None /\ after = "fail"
  /\ verb = "none" /\ target = None /\ keep = "none"
  /\ prepared = FALSE /\ active = FALSE /\ created = {}
  /\ obstructed = FALSE /\ attempts = 0 /\ faults = 0 /\ faulted = FALSE

-----------------------------------------------------------------------------
\* How a step ends: on to another place, the attempt failed, the attempt done.
Go(place) == pc' = place /\ UNCHANGED <<verdict, after>>
Fail == pc' = "idle" /\ verdict' = "failed" /\ UNCHANGED after
Done == pc' = "idle" /\ verdict' = "ok" /\ UNCHANGED after

Fine == UNCHANGED <<faults, faulted>>
Fault == faults < MaxFaults /\ faults' = faults + 1 /\ faulted' = TRUE

\* start_upgrade_service_generation with validate_running_service_image: the
\* program comes up as the service, and the stable file has digest d.
RunsAs(d) == stable = d /\ d \in Sound

\* ensure_service_generation_ready: the service runs, or is started, as digest d.
Ready(d, Yes, No) ==
  \/ /\ Fine /\ RunsAs(d)
     /\ scm' = "running" /\ proved' = TRUE
     /\ Yes
  \/ /\ Fine /\ ~RunsAs(d)
     /\ scm' = IF stable \in Sound THEN "running" ELSE "failed"
     /\ UNCHANGED proved
     /\ No
  \/ /\ Fault
     /\ scm' \in {"failed"} \cup {s \in {"running"} : stable \in Sound}
     /\ UNCHANGED proved
     /\ No

\* A stop that fails may have stopped the service.
StopFails == scm' \in {scm} \cup {s \in {"stopped", "failed"} : scm = "running"}

\* settle_service_for_replacement: a stopped service will do, however it ended.
Settle(Yes, No) ==
  \/ Fine /\ scm' = (IF scm = "running" THEN "stopped" ELSE scm) /\ Yes
  \/ Fault /\ StopFails /\ No

\* validate_clean_stopped_status: the service did not end with an error.
EndedWell == scm # "failed"

\* settle_service_for_candidate_replacement: one that ended by itself must have
\* ended well.
SettleCandidate(Yes, No) ==
  \/ EndedWell /\ Settle(Yes, No)
  \/ ~EndedWell /\ Fine /\ UNCHANGED scm /\ No

\* write_upgrade_journal, an atomic replacement.  The verb's own copy has
\* changed by then, and stays so if the write fails.
WriteJournal(j, Yes, No) ==
  /\ mem' = j
  /\ \/ Fine /\ journal' = j /\ Yes
     \/ Fault /\ journal' \in {journal, j} /\ No

\* The verbs' preflight, preflight_app_path_registration and inspect: nothing is
\* registered, or what is there is the installer's own by its record.
LaunchIsOwned ==
  appPath # "bare" /\ start \in {{}, {"receipt"}, {"stage", "receipt"}, Published}

\* rollback_upgrade begins; a is what the caller does afterwards.
Rollback(a) == pc' = "rbSettle" /\ after' = a /\ UNCHANGED verdict

\* validate_service_contract and open_protected_etw_lease_root: the service has
\* the owner's marker and configuration, and both directories are there.
ContractHolds == scm \in Registered /\ roots = Roots
-----------------------------------------------------------------------------
\* The installer.  Places with the name of a verb are where that verb begins.

\* What no installer gets past: a service without marker or directories, which an
\* interrupted first installation leaves; one being deleted; a candidate that
\* does not come up; an installed program that no longer does; a journal whose
\* rollback copy is gone, if it is its own or asks for a rollback; a journal of a
\* removed service beside the recovery image of another installer; launch entries
\* cut off half made.
HalfMadeLaunch == appPath = "bare" \/ start \in {{"stage"}, {"stage", "torn"}}

\* The installed program is what the journal says.
Settled(j) == \/ j.phase = "Prepared" /\ stable = j.old
              \/ j.phase = "Verified" /\ stable = j.new

InstallObstacle(v) ==
  \/ HalfMadeLaunch
  \/ scm \in {"unmarked", "deleting"}
  \/ scm \in Registered /\ roots # Roots
  \/ v \in Broken
  \/ scm \in Registered /\ stable \in Broken
  \/ /\ scm \in Registered /\ journal # None /\ journal.old \notin backups
     /\ journal.new = v \/ ~Settled(journal)
  \/ scm = "absent" /\ journal # None /\ recovery \notin {None, journal.new}

\* The controller an uninstaller runs: the recovery image, else the alias, else
\* the stable image.
ControllerName == CASE recovery # None -> "recovery"
                    [] recovery = None /\ alias # None -> "alias"
                    [] OTHER -> "none"
Controller == CASE ControllerName = "recovery" -> recovery
                [] ControllerName = "alias" -> alias
                [] OTHER -> stable

\* What no uninstaller gets past: such a service, such launch entries, and a
\* controller that is missing or half written.
UninstallObstacle ==
  \/ HalfMadeLaunch
  \/ scm = "unmarked"
  \/ scm \in Registered /\ roots # Roots
  \/ Controller \notin Images

Begin ==
  /\ pc = "idle" /\ attempts < MaxAttempts
  /\ attempts' = attempts + 1 /\ faulted' = FALSE /\ UNCHANGED faults
  /\ mem' = None /\ prepared' = FALSE /\ active' = FALSE /\ created' = {}
  /\ UNCHANGED <<scm, home, exe, alias, spare, journal>>

\* NSIS_HOOK_PREINSTALL: an unowned service ends it; with a service the recovery
\* controller is extracted and the verbs run.
BeginInstall(v) ==
  /\ Begin
  /\ target' = v /\ obstructed' = InstallObstacle(v)
  /\ \/ /\ scm = "unmarked" /\ Fail
        /\ UNCHANGED <<recovery, keep, verb>>
     \/ /\ scm = "absent" /\ Go("files")
        /\ verb' = "install" /\ keep' = "none" /\ UNCHANGED recovery
     \/ /\ scm \in Registered \cup {"deleting"} /\ Go("extract")
        /\ verb' = "prepare" /\ keep' = "recovery" /\ recovery' = Torn

Extract ==
  /\ pc = "extract" /\ Fine
  /\ recovery' = target /\ Go("shortcuts")
  /\ UNCHANGED <<scm, home, exe, alias, spare, journal, mem, plan>>

\* NSIS_HOOK_PREUNINSTALL
BeginUninstall ==
  /\ Begin
  /\ target' = None /\ obstructed' = UninstallObstacle /\ verb' = "uninstall"
  /\ keep' = ControllerName
  /\ IF scm = "unmarked" \/ Controller \notin Images THEN Fail ELSE Go("shortcuts")
  /\ UNCHANGED recovery

\* retire_installer_shortcuts: a failure with a journal about rolls back.
RetireShortcuts ==
  /\ pc = "shortcuts"
  /\ \/ Fine /\ Go(verb) /\ UNCHANGED mem
     \/ Fault /\ (journal = None \/ ~ContractHolds) /\ Fail /\ UNCHANGED mem
     \/ Fault /\ journal # None /\ ContractHolds /\ mem' = journal /\ Rollback("fail")
  /\ UNCHANGED <<scm, home, exe, staging, spare, journal, plan>>

\* NSIS writes the stable program in place, which a running service forbids.
BeginFiles ==
  /\ pc = "files" /\ Fine
  /\ IF scm = "running" THEN Fail /\ UNCHANGED exe
     ELSE Go("filesWritten") /\ stable' = Torn /\ proved' = FALSE
  /\ UNCHANGED <<scm, home, staging, spare, journal, mem, plan>>

EndFiles ==
  /\ pc = "filesWritten" /\ Fine
  /\ stable' = target
  /\ IF verb = "prepare" THEN verb' = "commit" /\ Go("commit")
     ELSE Go("shortcuts") /\ UNCHANGED verb
  /\ UNCHANGED <<scm, home, proved, staging, spare, journal, mem, target, keep, prepared,
                 active, created, obstructed, attempts>>

\* A verb returned 0: NSIS replaces the files after prepare, and retires the
\* shortcuts again before install.
NextVerb ==
  /\ pc = "next" /\ Fine
  /\ IF verb = "prepare" THEN Go("files") /\ UNCHANGED verb
     ELSE Go("shortcuts") /\ verb' = "install"
  /\ UNCHANGED <<scm, home, exe, staging, spare, journal, mem, target, keep, prepared,
                 active, created, obstructed, attempts>>

-----------------------------------------------------------------------------
\* prepare-upgrade-staged

\* decide_upgrade_resume for the journal, the stable file, the staged one and
\* the presence of the rollback copy.
DecideResume(j, s, staged, copies) ==
  IF staged # j.new \/ j.old \notin copies THEN "Invalid"
  ELSE IF j.phase = "Prepared" /\ s = j.old
  THEN IF j.old = j.new THEN "ReusePreparedSameImage" ELSE "ReusePrepared"
  ELSE IF s # j.new THEN "RetryRollback"
  ELSE IF j.phase = "Verified" THEN "FinalizeVerified" ELSE "CommitCandidate"

\* resume_upgrade_transaction, up to the first change
ResumeMatching(j) ==
  LET action == DecideResume(j, stable, recovery, backups) IN
    CASE action = "Invalid" -> Fail
      [] action \in {"ReusePrepared", "ReusePreparedSameImage"} -> Go("reuse")
      [] action = "CommitCandidate" -> Go("cSettle")
      [] action = "RetryRollback" -> Rollback("prepared")
      [] action = "FinalizeVerified" -> Go("vReady")

\* resolve_superseded_upgrade_transaction: the journal is of another installer.
ResolveSuperseded(j) ==
  CASE j.phase = "Prepared" /\ stable = j.old -> Go("check")
    [] j.phase = "Verified" /\ stable = j.new -> Go("sReady")
    [] OTHER -> Rollback("check")

Prepare ==
  /\ pc = "prepare" /\ Fine
  /\ mem' = journal
  /\ \/ ~(LaunchIsOwned /\ ContractHolds) /\ Fail
     \/ LaunchIsOwned /\ ContractHolds /\ journal = None /\ Go("residue")
     \/ /\ LaunchIsOwned /\ ContractHolds /\ journal # None
        /\ IF recovery = journal.new THEN ResumeMatching(journal) ELSE ResolveSuperseded(journal)
  /\ UNCHANGED <<scm, home, exe, staging, spare, journal, plan>>

GoOn(flag) == Go("prior") /\ prepared' = flag

ReusePrepared ==
  /\ pc = "reuse"
  /\ Ready(mem.old, GoOn(TRUE), Fail /\ UNCHANGED prepared)
  /\ UNCHANGED <<home, stable, staging, spare, journal, mem, verb, target, keep, active,
                 created, obstructed, attempts>>

\* ensure_verified_candidate_ready; its caller looks at the phase in memory.
VerifiedReady ==
  /\ pc \in {"vReady", "sReady"}
  /\ LET next == IF pc = "vReady" THEN "vGate" ELSE "sJournal"
         then == IF pc = "vReady" THEN "preparedAnyway" ELSE "checkAnyway"
     IN Ready(mem.new, Go(next), Rollback(then))
  /\ UNCHANGED <<home, stable, staging, spare, journal, mem, plan>>

\* Deleting the journal commits; then its rollback copy goes.  finalize_verified
\* and the superseded journal of a verified candidate.
DropJournal ==
  /\ pc \in {"fJournal", "sJournal"}
  /\ \/ /\ Fine
        /\ IF pc = "fJournal" /\ ~(mem.phase = "Verified" /\ stable = mem.new /\ recovery = mem.new)
           THEN Fail /\ UNCHANGED journal
           ELSE Go(IF pc = "fJournal" THEN "fBackup" ELSE "sBackup") /\ journal' = None
     \/ Fault /\ Fail /\ journal' \in {journal, None}
  /\ UNCHANGED <<scm, home, exe, staging, spare, mem, plan>>

DropBackup ==
  /\ pc \in {"fBackup", "sBackup"}
  /\ \/ /\ Fine /\ backups' = backups \ {mem.old}
        /\ Go(CASE pc = "sBackup" -> "residue"
                [] pc = "fBackup" /\ verb = "prepare" -> "prior"
                [] OTHER -> "iStaged")
     \/ Fault /\ Fail /\ backups' \in {backups, backups \ {mem.old}}
  /\ UNCHANGED <<scm, home, exe, staging, temps, journal, mem, plan>>

\* retire_upgrade_artifacts: rollback copy, staged image, residue, journal last.
RetireBackup ==
  /\ pc \in {"check", "rBackup"}
  /\ \/ /\ Fine /\ pc = "check" /\ ~(mem.phase = "Prepared" /\ stable = mem.old)
        /\ Fail /\ UNCHANGED backups
     \/ /\ Fine /\ (pc = "check" => mem.phase = "Prepared" /\ stable = mem.old)
        /\ backups' = backups \ {mem.old}
        /\ Go(IF keep = "recovery" THEN "rResidue" ELSE "rStaged")
     \/ Fault /\ Fail /\ backups' \in {backups, backups \ {mem.old}}
  /\ UNCHANGED <<scm, home, exe, staging, temps, journal, mem, plan>>

RetireStaged ==
  /\ pc = "rStaged"
  /\ \/ Fine /\ recovery \in {mem.new, None} /\ recovery' = None /\ Go("rResidue")
     \/ Fine /\ recovery \notin {mem.new, None} /\ UNCHANGED recovery /\ Fail
     \/ Fault /\ Fail /\ UNCHANGED recovery
  /\ UNCHANGED <<scm, home, exe, alias, spare, journal, mem, plan>>

AfterTransaction == CASE verb = "install" -> "nCreate"
                      [] verb = "uninstall" -> "uRoots"
                      [] OTHER -> "residue"

RetireJournal ==
  /\ pc = "rJournal"
  /\ \/ Fine /\ journal' = None /\ Go(AfterTransaction)
     \/ Fault /\ Fail /\ journal' \in {journal, None}
  /\ UNCHANGED <<scm, home, exe, staging, spare, mem, plan>>

\* cleanup_upgrade_install_residue goes through the directory in any order.
CleanResidue ==
  /\ pc \in {"residue", "rResidue", "lastResidue"}
  /\ \/ /\ Fine /\ UNCHANGED <<pc, verdict, after>>
        /\ \/ alias # None /\ keep # "alias" /\ alias' = None /\ UNCHANGED <<recovery, spare>>
           \/ recovery # None /\ keep # "recovery" /\ recovery' = None /\ UNCHANGED <<alias, spare>>
           \/ temps # {} /\ (\E t \in temps : temps' = temps \ {t}) /\ UNCHANGED <<staging, backups>>
           \/ \E d \in backups : backups' = backups \ {d} /\ UNCHANGED <<staging, temps>>
     \/ /\ Fine /\ backups = {} /\ temps = {}
        /\ (alias = None \/ keep = "alias") /\ (recovery = None \/ keep = "recovery")
        /\ CASE pc = "rResidue" -> Go("rJournal")
             [] pc = "residue" -> Go(IF verb = "prepare" THEN "prior" ELSE AfterTransaction)
             [] OTHER -> IF verb = "uninstall" THEN Go("uFiles") ELSE Done
        /\ UNCHANGED <<staging, spare>>
     \/ Fault /\ Fail /\ UNCHANGED <<staging, spare>>
  /\ UNCHANGED <<scm, home, exe, journal, mem, plan>>
\* prepare_upgrade_staged_image from there on: the installed program must run,
\* whatever it is.
PriorReady ==
  /\ pc = "prior"
  /\ \/ LaunchIsOwned /\ stable \in Images /\ Ready(stable, Go("pShortcuts"), Fail)
     \/ ~(LaunchIsOwned /\ stable \in Images) /\ Fine /\ Fail /\ UNCHANGED <<scm, proved>>
  /\ UNCHANGED <<home, stable, staging, spare, journal, mem, plan>>

\* Shared shortcuts, then ensure_uninstaller_compatibility_alias, which writes
\* nothing when no installed version is known or it is the staged image's own.
PrepareAlias ==
  /\ pc = "pShortcuts"
  /\ \/ Fine /\ alias' \in {alias, recovery} /\ Go("pSettle")
     \/ Fault /\ alias' \in {alias, recovery} /\ Fail
  /\ UNCHANGED <<scm, home, exe, recovery, spare, journal, mem, plan>>

PrepareSettle ==
  /\ pc = "pSettle"
  /\ SettleCandidate(Go(IF prepared THEN "next" ELSE "pBackup"), Go("pRestart"))
  /\ UNCHANGED <<home, exe, staging, spare, journal, mem, plan>>

\* Variant: the journal is written without a rollback copy.
PrepareNoBackup ==
  /\ pc = "pBackup" /\ Fine /\ Go("pJournal")
  /\ UNCHANGED <<scm, home, exe, staging, spare, journal, mem, plan>>

\* prepare_upgrade_transaction: rollback copy, then journal.
PrepareBackup ==
  /\ pc = "pBackup"
  /\ \/ Fine /\ journal = None /\ backups' = backups \cup {stable} /\ temps' = temps \ {"backup"}
        /\ Go("pJournal")
     \/ Fine /\ journal # None /\ Go("pRestart") /\ UNCHANGED spare
     \/ Fault /\ temps' \in {temps \ {"backup"}, temps \cup {"backup"}}
        /\ backups' \in {backups, backups \cup {stable}} /\ Go("pRestart")
  /\ UNCHANGED <<scm, home, exe, staging, journal, mem, plan>>

PrepareJournal ==
  /\ pc = "pJournal"
  /\ WriteJournal([phase |-> "Prepared", old |-> stable, new |-> recovery],
                  Go("next"), Go("pRestart"))
  /\ UNCHANGED <<scm, home, exe, staging, spare, plan>>

\* The verb failed: the prior program is started again.
PrepareRestart ==
  /\ pc = "pRestart"
  /\ Ready(stable, Fail, Fail)
  /\ UNCHANGED <<home, stable, staging, spare, journal, mem, plan>>

-----------------------------------------------------------------------------
\* commit-upgrade-staged

Commit ==
  /\ pc = "commit" /\ Fine
  /\ mem' = journal
  /\ IF ~LaunchIsOwned \/ ~ContractHolds \/ journal = None \/ recovery = None THEN Fail
     ELSE LET action == DecideResume(journal, stable, recovery, backups) IN
       CASE action \in {"CommitCandidate", "ReusePreparedSameImage"} -> Go("cSettle")
         [] action = "FinalizeVerified" -> Go("vGate")
         [] OTHER -> Fail
  /\ UNCHANGED <<scm, home, exe, staging, spare, journal, plan>>

\* commit_upgrade_candidate: settle, mark, start and prove, mark verified, gate.
CommitSettle ==
  /\ pc = "cSettle"
  /\ Settle(Go("cMark"), Fail)
  /\ UNCHANGED <<home, exe, staging, spare, journal, mem, plan>>

CommitMark ==
  /\ pc = "cMark"
  /\ WriteJournal([mem EXCEPT !.phase = "CandidateInstalled"], Go("cStart"), Fail)
  /\ UNCHANGED <<scm, home, exe, staging, spare, plan>>

\* Variant: a candidate that does not come up stays.
CommitStartOrFail ==
  /\ pc = "cStart"
  /\ Ready(mem.new, Go("cVerify"), Fail)
  /\ UNCHANGED <<home, stable, staging, spare, journal, mem, plan>>

CommitStart ==
  /\ pc = "cStart"
  /\ Ready(mem.new, Go("cVerify"), Rollback("fail"))
  /\ UNCHANGED <<home, stable, staging, spare, journal, mem, plan>>

CommitVerify ==
  /\ pc = "cVerify"
  /\ WriteJournal([mem EXCEPT !.phase = "Verified"], Go("vGate"), Rollback("fail"))
  /\ UNCHANGED <<scm, home, exe, staging, spare, plan>>

-----------------------------------------------------------------------------
\* rollback_upgrade: settle, restore the rollback copy, start and prove it, and
\* only then set the journal back.
RollbackSettle ==
  /\ pc = "rbSettle"
  /\ Settle(Go("rbCopy"), Fail)
  /\ UNCHANGED <<home, exe, staging, spare, journal, mem, plan>>

RollbackCopy ==
  /\ pc = "rbCopy"
  /\ \/ Fine /\ mem.old \in backups /\ temps' = temps \cup {"restore"} /\ Go("rbMove")
     \/ Fine /\ mem.old \notin backups /\ Fail /\ UNCHANGED temps
     \/ Fault /\ Fail /\ temps' \in {temps, temps \cup {"restore"}}
  /\ UNCHANGED <<scm, home, exe, staging, backups, journal, mem, plan>>

RollbackMove ==
  /\ pc = "rbMove"
  /\ \/ /\ stable' = mem.old /\ proved' = FALSE /\ temps' = temps \ {"restore"}
        /\ (Fine /\ Go("rbStart")) \/ (Fault /\ Fail)
     \/ Fault /\ Fail /\ UNCHANGED <<exe, temps>>
  /\ UNCHANGED <<scm, home, staging, backups, journal, mem, plan>>

RollbackStart ==
  /\ pc = "rbStart"
  /\ Ready(mem.old, Go("rbWrite"), Fail)
  /\ UNCHANGED <<home, stable, staging, spare, journal, mem, plan>>

RollbackWrite ==
  /\ pc = "rbWrite"
  /\ LET onwards == CASE after = "fail" -> Fail /\ UNCHANGED prepared
                      [] after \in {"prepared", "preparedAnyway"} -> GoOn(TRUE)
                      [] OTHER -> Go("check") /\ UNCHANGED prepared
     IN WriteJournal([mem EXCEPT !.phase = "Prepared"], onwards,
          IF after \in {"preparedAnyway", "checkAnyway"} THEN onwards
          ELSE Fail /\ UNCHANGED prepared)
  /\ UNCHANGED <<scm, home, exe, staging, spare, verb, target, keep, active, created,
                 obstructed, attempts>>
-----------------------------------------------------------------------------
\* app_path_upgrade_gate, and the same steps at the end of a new installation:
\* App Paths registration, shared shortcuts gone, Start entry.  The place tells
\* who runs it: a verified candidate (v), install with a service (i) or without (n).

TakeBackAppPath == appPath' = (IF "appPath" \in created THEN "absent" ELSE appPath)

\* What the caller does when it fails; install reads the journal again in
\* fail_shortcut_retirement_with_upgrade_recovery.
GateFailed ==
  CASE pc \in {"vGate", "vEntry"} -> Rollback("fail") /\ UNCHANGED mem
    [] pc \in {"iGate", "iEntry"} /\ journal # None -> mem' = journal /\ Rollback("fail")
    [] pc \in {"iGate", "iEntry"} /\ journal = None -> Fail /\ UNCHANGED mem
    [] OTHER -> Go("nRollback") /\ UNCHANGED mem

\* ensure_app_path_registration: the key, then its value.  A creation that fails
\* takes its key back.
RegisterAppPath ==
  /\ \/ /\ pc \in {"vGate", "iGate", "nGate"} /\ Fine /\ appPath = "absent"
        /\ appPath' = "bare" /\ created' = created \cup {"appPath"}
        /\ UNCHANGED <<pc, verdict, after, mem>>
     \/ /\ pc \in {"vGate", "iGate", "nGate"} /\ Fine /\ appPath # "absent"
        /\ appPath' = "exact"
        /\ Go(CASE pc = "vGate" -> "vEntry" [] pc = "iGate" -> "iEntry" [] OTHER -> "nEntry")
        /\ UNCHANGED <<created, mem>>
     \/ /\ pc \in {"vGate", "iGate", "nGate"} /\ Fault /\ GateFailed
        /\ TakeBackAppPath \/ UNCHANGED appPath
        /\ created' = created \ {"appPath"}
  /\ UNCHANGED <<scm, roots, start, entry, exe, staging, spare, journal, verb, target, keep,
                 prepared, active, obstructed, attempts>>

GatePassed ==
  /\ Go(CASE pc = "vEntry" /\ verb = "prepare" -> "fJournal"
          [] pc = "vEntry" /\ verb # "prepare" -> "next"
          [] OTHER -> "iFinal")
  /\ created' = created \ {"appPath"} /\ entry' = "inspect"

\* ensure_owned_start_entry: a record without an entry is dropped, an entry that
\* is staged is published, one that is missing is staged, recorded, published.
EnsureEntry ==
  /\ pc \in {"vEntry", "iEntry", "nEntry"} /\ Fine
  /\ \/ /\ entry = "inspect" /\ start \in {{}, {"receipt"}}
        /\ start' = (IF start = {} THEN {"stage"} ELSE {})
        /\ entry' = (IF start = {} THEN "record" ELSE "inspect")
        /\ UNCHANGED <<pc, verdict, after, created>>
     \/ /\ entry = "record" /\ start' = start \cup {"receipt"} /\ entry' = "publish"
        /\ UNCHANGED <<pc, verdict, after, created>>
     \/ /\ entry \in {"inspect", "publish"} /\ start \in {{"stage", "receipt"}, Published}
        /\ start' = Published /\ GatePassed
  /\ UNCHANGED <<scm, roots, appPath, exe, staging, spare, journal, mem, verb, target, keep,
                 prepared, active, obstructed, attempts>>

\* It fails: a stage that has no record is deleted, if that does not fail as
\* well; one that has is left to be published.  The gate takes back the
\* registration it made; a new installation does so as it rolls back.
EnsureEntryFails ==
  /\ pc \in {"vEntry", "iEntry", "nEntry"} /\ Fault /\ GateFailed
  /\ start' \in CASE entry = "record" -> {{}, {"receipt"}, {"stage"}}
                  [] entry = "publish" -> {start, Published}
                  [] OTHER -> {start}
  /\ entry' = "inspect"
  /\ IF pc = "nEntry" THEN UNCHANGED <<appPath, created>>
     ELSE created' = created \ {"appPath"} /\ (TakeBackAppPath \/ UNCHANGED appPath)
  /\ UNCHANGED <<scm, roots, exe, staging, spare, journal, verb, target, keep, prepared,
                 active, obstructed, attempts>>

-----------------------------------------------------------------------------
\* install, run from the stable program

\* start_service_and_wait: up, without a look at the program.
StartAndWait(Yes, No) ==
  \/ Fine /\ stable \in Sound /\ scm' = "running" /\ Yes
  \/ Fine /\ stable \notin Sound /\ scm' = "failed" /\ No
  \/ Fault /\ scm' \in {"failed"} \cup {s \in {"running"} : stable \in Sound} /\ No

\* With a service: start, gate, finalize.  Without one: retire what a journal
\* of an earlier installation left, and begin a new installation.
Install ==
  /\ pc = "install" /\ Fine
  /\ keep' = "none"
  /\ \/ /\ LaunchIsOwned /\ scm = "absent"
        /\ mem' = journal
        /\ IF journal # None THEN Go("rBackup") ELSE Go("residue")
     \/ LaunchIsOwned /\ ContractHolds /\ Go("iStart") /\ UNCHANGED mem
     \/ ~(LaunchIsOwned /\ (scm = "absent" \/ ContractHolds)) /\ Fail /\ UNCHANGED mem
  /\ UNCHANGED <<scm, home, exe, staging, spare, journal, verb, target, prepared, active,
                 created, obstructed, attempts>>

InstallStart ==
  /\ pc = "iStart"
  /\ StartAndWait(Go("iGate"), Fail)
  /\ UNCHANGED <<home, exe, staging, spare, journal, mem, plan>>

\* finalize_upgrade_transaction
InstallFinalize ==
  /\ pc = "iFinal" /\ Fine
  /\ mem' = journal
  /\ CASE journal = None -> Go("iStaged")
       [] journal # None -> IF journal.phase = "Verified" THEN Go("fJournal") ELSE Fail
  /\ UNCHANGED <<scm, home, exe, staging, spare, journal, plan>>

\* retire_staged_upgrade_image: staged images must be the stable program.
RetireStagedImages ==
  /\ pc = "iStaged"
  /\ \/ /\ Fine /\ {recovery, alias} \subseteq {stable, None}
        /\ recovery' = None /\ alias' = None /\ Go("lastResidue")
     \/ /\ Fault \/ (Fine /\ ~({recovery, alias} \subseteq {stable, None}))
        /\ Fail
        /\ recovery' \in {recovery} \cup {f \in {None} : recovery = stable}
        /\ alias' \in {alias} \cup {f \in {None} : alias = stable}
  /\ UNCHANGED <<scm, home, exe, spare, journal, mem, plan>>

\* A new installation: the service exists before it has its marker, and has its
\* marker before its directories are there.  Which exit code the service manager
\* reports for a service that was never started is left open.
CreateService ==
  /\ pc = "nCreate"
  /\ \/ Fine /\ scm' = "unmarked" /\ Go("nMark")
     \/ Fault /\ Fail /\ UNCHANGED scm
  /\ UNCHANGED <<home, exe, staging, spare, journal, mem, plan>>

MarkService ==
  /\ pc = "nMark"
  /\ \/ Fine /\ scm' \in {"stopped", "failed"} /\ Go("nRoots")
     \/ Fault /\ scm' \in {"unmarked", "stopped", "failed"} /\ Go("nRollback")
  /\ UNCHANGED <<home, exe, staging, spare, journal, mem, plan>>

ProvisionRoots ==
  /\ pc = "nRoots"
  /\ \/ /\ Fine /\ roots = Roots /\ Go("nStart")
        /\ UNCHANGED <<roots, created>>
     \/ /\ Fine /\ roots # Roots /\ UNCHANGED <<pc, verdict, after>>
        /\ LET next == IF "product" \in roots THEN "service" ELSE "product" IN
             roots' = roots \cup {next} /\ created' = created \cup {next}
     \/ Fault /\ Go("nRollback") /\ UNCHANGED <<roots, created>>
  /\ UNCHANGED <<scm, launch, exe, staging, spare, journal, mem, verb, target, keep, prepared,
                 active, obstructed, attempts>>

StartNewService ==
  /\ pc = "nStart"
  /\ StartAndWait(Go("nGate"), Go("nRollback"))
  /\ UNCHANGED <<home, exe, staging, spare, journal, mem, plan>>

\* rollback_new_install: the service must have stopped well to be deleted.
RollbackNewInstall ==
  /\ pc = "nRollback"
  /\ \/ Fine /\ (~EndedWell \/ scm = "unmarked") /\ Fail /\ UNCHANGED scm
     \/ Fine /\ EndedWell /\ scm' = "deleting" /\ Go("uWait")
     \/ Fault /\ Fail /\ StopFails
  /\ UNCHANGED <<home, exe, staging, spare, journal, mem, plan>>

-----------------------------------------------------------------------------
\* uninstall and uninstall-staged

Uninstall ==
  /\ pc = "uninstall"
  /\ active' = (scm = "running")
  /\ Fine
  /\ \/ LaunchIsOwned /\ scm = "absent" /\ Go("uEntries")
     \/ LaunchIsOwned /\ scm = "deleting" /\ Go("uWait")
     \/ LaunchIsOwned /\ ContractHolds /\ Go("uSettle")
     \/ ~(LaunchIsOwned /\ (scm \in {"absent", "deleting"} \/ ContractHolds)) /\ Fail
  /\ UNCHANGED <<scm, home, exe, staging, spare, journal, mem, verb, target, keep, prepared, created,
                 obstructed, attempts>>

Restarting == IF active THEN Go("uRestart") ELSE Fail

UninstallSettle ==
  /\ pc = "uSettle"
  /\ Settle(Go("uDelete"), Restarting)
  /\ UNCHANGED <<home, exe, staging, spare, journal, mem, plan>>

DeleteService ==
  /\ pc = "uDelete"
  /\ \/ Fine /\ scm' = "deleting" /\ Go("uWait")
     \/ Fault /\ Restarting /\ UNCHANGED scm
  /\ UNCHANGED <<home, exe, staging, spare, journal, mem, plan>>

\* failed_service_mutation
RestartAfterFailure ==
  /\ pc = "uRestart"
  /\ StartAndWait(Fail, Fail)
  /\ UNCHANGED <<home, exe, staging, spare, journal, mem, plan>>

\* wait_service_deleted: done, or a restart of the machine is required.
WaitDeleted ==
  /\ pc = "uWait"
  /\ \/ Fine /\ scm' = "absent" /\ Go(IF verb = "uninstall" THEN "uEntries" ELSE "nUndo")
     \/ Fault /\ Fail /\ UNCHANGED scm
  /\ UNCHANGED <<home, exe, staging, spare, journal, mem, plan>>

\* Variant: the App Paths registration is forgotten.
RemoveStartEntry ==
  /\ \/ /\ pc = "uEntries" /\ Fine /\ start' = {}
        /\ mem' = journal
        /\ IF journal # None THEN Go("rBackup") ELSE Go("residue")
     \/ pc = "nUndo" /\ Fine /\ Go("uRoots") /\ UNCHANGED <<start, mem>>
  /\ UNCHANGED <<scm, roots, appPath, entry, exe, staging, spare, journal, plan>>

\* Variant: the record goes first.
RemoveReceiptFirst ==
  /\ \/ /\ pc = "uEntries" /\ Fine /\ start # {}
        /\ start' = (IF "receipt" \in start THEN start \ {"receipt"} ELSE {})
        /\ UNCHANGED <<pc, verdict, after, mem, appPath>>
     \/ /\ pc = "uEntries" /\ Fine /\ start = {} /\ appPath' = "absent"
        /\ mem' = journal
        /\ IF journal # None THEN Go("rBackup") ELSE Go("residue")
        /\ UNCHANGED start
  /\ UNCHANGED <<scm, roots, entry, exe, staging, spare, journal, plan>>

\* remove_owned_start_entry, the entry before its record, then
\* remove_app_path_registration; a new installation takes back only the
\* registration it made.
RemoveEntries ==
  /\ \/ /\ pc = "uEntries" /\ Fine /\ start # {}
        /\ start' = start \cap (IF start = {"receipt"} THEN {} ELSE {"receipt"})
        /\ UNCHANGED <<pc, verdict, after, mem, appPath>>
     \/ /\ pc = "uEntries" /\ Fine /\ start = {} /\ appPath' = "absent"
        /\ mem' = journal
        /\ IF journal # None THEN Go("rBackup") ELSE Go("residue")
        /\ UNCHANGED start
     \/ pc = "nUndo" /\ Fine /\ TakeBackAppPath /\ Go("uRoots") /\ UNCHANGED <<start, mem>>
     \/ pc = "uEntries" /\ Fault /\ Fail /\ UNCHANGED <<appPath, start, mem>>
     \/ pc = "nUndo" /\ Fault /\ Go("uRoots") /\ UNCHANGED <<appPath, start, mem>>
  /\ UNCHANGED <<scm, roots, entry, exe, staging, spare, journal, plan>>

\* cleanup_roots_if_owned: the leaves and the service directory, then the
\* product directory; a new installation removes only what it created.
RemoveRoots ==
  /\ pc = "uRoots"
  /\ LET doomed == IF verb = "uninstall" THEN roots ELSE roots \cap created
         last == IF verb = "uninstall" THEN Go("uStaged") ELSE Fail
     IN \/ /\ Fine /\ "service" \in doomed /\ roots' = roots \ {"service"} /\ journal' = None
           /\ UNCHANGED <<pc, verdict, after>>
        \/ /\ Fine /\ "service" \notin doomed /\ roots' = roots \ doomed
           /\ last /\ UNCHANGED journal
        \/ Fault /\ Fail /\ UNCHANGED roots /\ journal' \in {journal, None}
  /\ UNCHANGED <<scm, launch, exe, staging, spare, mem, plan>>

UninstallStaged ==
  /\ pc = "uStaged" /\ Fine
  /\ Go(IF keep = "none" THEN "iStaged" ELSE "uFiles")
  /\ UNCHANGED <<scm, home, exe, staging, spare, journal, mem, plan>>

\* NSIS deletes the controller that ran and the installed files.
DeleteFiles ==
  /\ pc = "uFiles" /\ Fine
  /\ stable' = None /\ proved' = FALSE /\ recovery' = None /\ alias' = None /\ Done
  /\ UNCHANGED <<scm, home, spare, journal, mem, plan>>

-----------------------------------------------------------------------------
\* The environment: the installer or its controller is killed, the service
\* fails, a deletion completes, the machine restarts and starts the service.
Killed == /\ pc' = "idle" /\ verdict' = "none" /\ entry' = "inspect"
          /\ temps' \in {temps} \cup {temps \cup {"backup"} : p \in {pc} \cap {"pBackup"}}
          /\ start' \in {start} \cup {start \cup {"torn"} : e \in {entry} \cap {"record"}}
          /\ UNCHANGED <<roots, appPath, exe, staging, backups, journal, mem, after, plan>>

Crash == pc # "idle" /\ Fault /\ Killed /\ UNCHANGED scm

Restart ==
  /\ Fault /\ Killed
  /\ scm' = CASE scm = "deleting" -> "absent"
              [] scm \in Registered -> IF stable \in Sound THEN "running" ELSE "failed"
              [] OTHER -> scm

ServiceFails ==
  /\ scm = "running" /\ scm' = "failed" /\ Fault
  /\ UNCHANGED <<home, exe, staging, spare, journal, pc, verdict, mem, after, plan>>

DeletionCompletes ==
  /\ scm = "deleting" /\ pc # "uWait" /\ scm' = "absent" /\ Fine
  /\ UNCHANGED <<home, exe, staging, spare, journal, pc, verdict, mem, after, plan>>

\* Between two attempts somebody deletes the Start entry.
EntryIsDeleted ==
  /\ pc = "idle" /\ "leaf" \in start /\ start' = start \ {"leaf"} /\ Fine
  /\ UNCHANGED <<scm, roots, appPath, entry, exe, staging, spare, journal, pc, verdict, mem,
                 after, plan>>

Verbs ==
  \/ Extract \/ RetireShortcuts \/ BeginFiles \/ EndFiles \/ NextVerb
  \/ Prepare \/ ReusePrepared \/ VerifiedReady \/ RegisterAppPath \/ EnsureEntry \/ EnsureEntryFails \/ DropJournal \/ DropBackup
  \/ RetireBackup \/ RetireStaged \/ RetireJournal \/ CleanResidue
  \/ PriorReady \/ PrepareAlias \/ PrepareSettle \/ PrepareBackup \/ PrepareJournal \/ PrepareRestart
  \/ Commit \/ CommitSettle \/ CommitMark \/ CommitStart \/ CommitVerify
  \/ RollbackSettle \/ RollbackCopy \/ RollbackMove \/ RollbackStart \/ RollbackWrite
  \/ Install \/ InstallStart \/ InstallFinalize \/ RetireStagedImages
  \/ CreateService \/ MarkService \/ ProvisionRoots \/ StartNewService
  \/ RollbackNewInstall
  \/ Uninstall \/ UninstallSettle \/ DeleteService \/ RestartAfterFailure \/ WaitDeleted
  \/ RemoveEntries \/ RemoveRoots \/ UninstallStaged \/ DeleteFiles

Next ==
  \/ \E v \in Targets : BeginInstall(v)
  \/ BeginUninstall
  \/ Verbs
  \/ Crash \/ Restart \/ ServiceFails \/ DeletionCompletes \/ EntryIsDeleted

Spec == Init /\ [][Next]_vars

-----------------------------------------------------------------------------
\* Whatever interrupts an upgrade, the program it replaces is not lost: as long
\* as a service is registered and the journal names an old program, that program
\* is the installed one or its rollback copy is there; and while the installed
\* file is missing or half written there is a journal to name the old one.
ImageIsNotLost ==
  scm \in Registered =>
    /\ journal # None => stable = journal.old \/ journal.old \in backups
    /\ stable \notin Images => journal # None /\ journal.old \in backups

\* An attempt that succeeds is complete, and nothing of the transaction is left.
Complete ==
  /\ journal' = None /\ backups' = {} /\ temps' = {}
  /\ recovery' = None /\ alias' = None
  /\ IF verb = "uninstall"
     THEN scm' = "absent" /\ roots' = {} /\ appPath' = "absent" /\ start' = {}
          /\ stable' = None
     ELSE /\ stable' = target /\ roots' = Roots
          /\ appPath' = "exact" /\ start' = Published
          /\ scm' = "running" \/ faulted'
Succeeds == pc # "idle" /\ pc' = "idle" /\ verdict' = "ok"
SuccessIsComplete == [][Succeeds => Complete]_vars

\* An attempt that nothing disturbs succeeds, whatever earlier ones left behind,
\* unless it began before one of the obstacles.
CleanAttemptSucceeds == pc = "idle" /\ verdict = "failed" => faulted \/ obstructed

\* A candidate that is rejected without further trouble leaves the old program
\* installed and running, under a journal that says so.
RejectedIsRolledBack ==
  pc = "idle" /\ verdict = "failed" /\ verb = "commit" /\ ~faulted =>
    scm = "running" /\ stable = journal.old /\ journal.phase = "Prepared"

\* A candidate is accepted, that is its journal is dropped, only after the
\* installed program was seen to run as the service.
AcceptedIsProved == pc \in {"fBackup", "sBackup"} => proved

\* An undisturbed installer with a sound program replaces an installed program
\* that does not come up: the old image need not start.
BrokenImageIsReplaced ==
  pc = "idle" /\ verdict = "failed" /\ ~faulted =>
    target \notin Sound \/ scm \notin Registered \/ verb = "uninstall"

-----------------------------------------------------------------------------
\* The inductive invariant (UpgradeTransactionProofs): what holds at each place.

Resuming == {"reuse", "vReady", "sReady", "check"}
Preparing == {"prior", "pShortcuts", "pSettle", "pBackup", "pJournal"}
Committing == {"cSettle", "cMark", "cStart", "cVerify", "vGate", "vEntry"}
Rolling == {"rbSettle", "rbCopy", "rbMove", "rbStart", "rbWrite"}
Retiring == {"rBackup", "rStaged", "rResidue", "rJournal"}
Installing == {"install", "iStart", "iGate", "iEntry"}
Creating == {"nCreate", "nMark", "nRoots", "nStart", "nGate", "nEntry", "nRollback"}
Removing == {"uninstall", "uSettle", "uDelete", "uRestart", "uEntries", "uStaged", "uFiles"}
Places == Resuming \cup Preparing \cup Committing \cup Rolling \cup Retiring \cup Installing
          \cup Creating \cup Removing
          \cup {"idle", "extract", "shortcuts", "prepare", "files", "filesWritten", "next",
                "commit", "residue", "pRestart", "fJournal", "sJournal", "fBackup", "sBackup",
                "iFinal", "iStaged", "lastResidue", "uWait", "uRoots", "nUndo"}

TypeOK ==
  /\ scm \in Registered \cup {"absent", "unmarked", "deleting"}
  /\ roots \subseteq Roots
  /\ stable \in Images \cup {None, Torn}
  /\ recovery \in Images \cup {None, Torn} /\ alias \in Images \cup {None, Torn}
  /\ backups \subseteq Images /\ temps \subseteq {"backup", "restore"}
  /\ journal \in Journals \cup {None} /\ mem \in Journals \cup {None}
  /\ after \in {"fail", "prepared", "preparedAnyway", "check", "checkAnyway"}

\* The old program was proved, and is served: with a service and its directories
\* about, the files have been handed over, or the candidate has been verified.
Handed == pc = "commit" \/ (verb = "prepare" /\ pc \in {"next", "files", "filesWritten"})
Verified ==
  \/ verb = "commit" /\ pc = "next"
  \/ verb = "install" /\ scm # "absent" /\ pc \in {"shortcuts"} \cup Installing

\* Which verb is at which place, and with what it was begun
VerbInv ==
  /\ pc \in Places
  /\ pc \in {"extract", "prepare", "sJournal", "sBackup", "pRestart"} \cup Resuming \cup Preparing
       => verb = "prepare"
  /\ pc = "commit" => verb = "commit"
  /\ pc \in {"next"} \cup Committing => verb \in {"prepare", "commit"}
  /\ pc \in {"files", "filesWritten", "fJournal", "fBackup"} => verb \in {"prepare", "install"}
  /\ pc \in {"nUndo", "iFinal"} \cup Installing \cup Creating => verb = "install"
  /\ pc \in Removing => verb = "uninstall"
  /\ pc \in {"iStaged", "lastResidue", "uWait", "uRoots"} => verb \in {"install", "uninstall"}
  /\ pc \in {"shortcuts", "residue"} \cup Retiring => verb \in {"prepare", "install", "uninstall"}
  /\ pc \in Rolling => verb \in {"prepare", "commit", "install", "uninstall"}
  /\ pc # "idle" /\ verb # "uninstall" => target \in Targets

\* The staged images
StagedInv ==
  /\ verb \in {"prepare", "commit"} /\ pc # "idle" => keep = "recovery"
  /\ verb \in {"prepare", "commit"} /\ pc \notin {"idle", "extract"} => recovery = target
  /\ pc = "rStaged" => keep # "recovery"
  /\ verb = "commit" /\ pc # "idle" => alias \in {target, None}
  /\ journal # None => alias \in {journal.new, None}
  /\ verb = "prepare" /\ pc \in {"fBackup", "next", "files", "filesWritten"} \cup Preparing
       => alias \in {target, None}
  /\ Verified \/ (verb = "install" /\ pc \in {"fJournal", "fBackup"})
       => recovery = target /\ alias \in {target, None}
  /\ pc = "iFinal" => \/ recovery = target /\ alias \in {target, None}
                      \/ journal = None /\ {recovery, alias} \subseteq {target, None}
  /\ pc = "iStaged" => {recovery, alias} \subseteq {stable, None}
  /\ pc \in Creating \/ (verb = "install" /\ pc = "rJournal") => recovery = None /\ alias = None
  /\ verb = "install" /\ pc \in {"residue"} \cup Retiring => keep = "none"
  /\ verb = "install" /\ pc \in {"iStart", "iGate", "iEntry", "fJournal", "fBackup", "iFinal", "iStaged",
                                 "lastResidue"} \cup Creating => keep = "none"
  /\ verb = "uninstall" /\ pc # "idle" /\ keep # "recovery"
       => recovery = None /\ (keep = "none" => alias = None)

\* The service and its directories
ServiceInv ==
  /\ pc \in Resuming \cup Preparing \cup Committing \cup Rolling \cup
            {"pRestart", "next", "commit", "fJournal", "sJournal", "fBackup", "sBackup", "iStart",
             "iGate", "iEntry", "nGate", "nEntry", "iFinal", "uSettle", "uDelete", "uRestart"}
       => ContractHolds
  /\ verb = "prepare" /\ pc \in {"files", "filesWritten", "residue"} \cup Retiring => ContractHolds
  /\ verb = "install" /\ pc \in {"iStaged", "lastResidue"} => ContractHolds
  /\ verb = "install" /\ pc \in {"files", "filesWritten", "residue", "uRoots", "nCreate", "nUndo"}
                                \cup Retiring => scm = "absent"
  /\ verb = "uninstall" /\ pc \in {"residue", "uRoots", "iStaged", "lastResidue", "uEntries",
                                   "uStaged", "uFiles"} \cup Retiring => scm = "absent"
  /\ verb = "install" /\ pc \in {"shortcuts", "install"} => scm = "absent" \/ ContractHolds
  /\ pc = "nMark" => scm = "unmarked"
  /\ pc \in {"nRoots", "nStart"} => scm \in Registered
  /\ pc = "nStart" => roots = Roots
  /\ pc = "nRollback" => scm \in Registered \cup {"unmarked"}
  /\ pc = "uWait" => scm = "deleting"
  /\ scm = "unmarked" => verb \in {"install", "uninstall"} /\ pc \in {"idle", "nMark", "nRollback"}
  /\ verb = "uninstall" /\ pc \in {"uStaged", "uFiles", "iStaged", "lastResidue"} => roots = {}

\* The journal on disk and the one in hand
JournalInv ==
  /\ pc \in Resuming \cup Committing \cup Rolling \cup Retiring \cup {"fJournal", "sJournal"}
       => mem # None /\ journal # None /\ mem.old = journal.old /\ mem.new = journal.new
  /\ pc \in {"fBackup", "sBackup"} => mem # None
  /\ pc \in {"residue", "pBackup", "pJournal", "fBackup", "sBackup", "iStaged", "lastResidue", "uRoots",
             "uStaged", "uFiles", "nUndo"} \cup Creating => journal = None
  /\ pc = "uWait" /\ verb = "install" => journal = None
  /\ pc \in {"prior", "pShortcuts", "pSettle"} =>
       IF prepared THEN journal # None /\ journal.new = target /\ journal.old \in backups
       ELSE journal = None
  /\ prepared /\ verb = "prepare"
       => pc \in {"idle", "prior", "pShortcuts", "pSettle", "pRestart", "next", "files", "filesWritten"}
  /\ Handed => journal # None /\ journal.new = target /\ journal.old \in backups
  /\ pc \in {"reuse", "vReady", "fJournal"} \cup Committing => mem.new = target
  /\ pc \in Rolling /\ after # "fail" => verb = "prepare"
  /\ pc \in Rolling /\ after \in {"prepared", "preparedAnyway"} => mem.new = target
  /\ pc \in {"reuse", "vGate", "vEntry", "vReady", "sReady"} => journal = mem
  /\ pc \in {"vGate", "vEntry", "vReady", "sReady", "fJournal"} => mem.phase = "Verified"
  /\ pc \in {"reuse", "check"} => mem.phase = "Prepared"
  /\ Verified \/ (pc = "iFinal" /\ journal # None)
       => journal # None /\ journal.phase = "Verified" /\ journal.new = target

\* The installed program and the rollback copies
ImageInv ==
  /\ journal # None => journal.old \in Sound
  /\ pc \in {"reuse", "check", "rbStart", "rbWrite"} => stable = mem.old
  /\ verb = "prepare" /\ pc \in Retiring => stable = mem.old
  /\ pc \in {"vReady", "sReady", "sJournal", "fJournal"} \cup Committing => stable = mem.new
  /\ pc \in {"reuse", "vReady", "rbMove", "rbStart", "rbWrite"} \cup Committing => mem.old \in backups
  /\ verb = "commit" /\ pc \in Rolling => mem.old \in backups
  /\ pc = "prior" /\ prepared => stable = journal.old
  /\ pc \in {"pShortcuts", "pSettle", "pBackup", "pJournal"} => stable \in Sound
  /\ pc = "pJournal" => stable \in backups
  /\ verb = "commit" /\ pc \in {"commit", "next"} => stable = target
  /\ verb = "install" /\ pc \notin {"idle", "files", "filesWritten"} \cup Rolling => stable = target
  /\ ImageIsNotLost

\* The launch entries
StartIsOwned == start \in {{}, {"receipt"}, {"stage", "receipt"}, Published}
Registration == appPath = "exact" /\ start = Published
LaunchInv ==
  /\ StartIsOwned \/ start \in {{"stage"}, {"stage", "torn"}}
  /\ appPath \in {"absent", "bare", "exact"} /\ entry \in {"inspect", "record", "publish"}
  /\ entry # "inspect" => pc \in {"vEntry", "iEntry", "nEntry"}
  /\ entry = "record" => start = {"stage"}
  /\ entry = "publish" => start = {"stage", "receipt"}
  /\ pc \in {"vEntry", "iEntry", "nEntry"} => appPath = "exact" /\ (entry = "inspect" => StartIsOwned)
  /\ pc \in {"vReady", "vGate", "iGate", "nGate"} => StartIsOwned
  /\ Handed \/ pc \in {"pShortcuts", "pSettle", "pBackup", "pJournal", "cSettle", "cMark", "cStart",
                       "cVerify", "nCreate", "nMark", "nRoots", "nStart"} => LaunchIsOwned
  /\ verb = "install" /\ pc \in {"residue"} \cup Retiring => LaunchIsOwned
  /\ (Verified /\ pc # "iGate" /\ pc # "iEntry") \/ pc \in {"iFinal", "fJournal", "fBackup"}
       \/ (verb = "install" /\ pc \in {"iStaged", "lastResidue"}) => Registration
  /\ verb = "uninstall" /\ pc \in {"residue", "uRoots", "iStaged", "lastResidue", "uStaged", "uFiles"}
                                  \cup Retiring => appPath = "absent" /\ start = {}

\* What an uninstaller leaves
ResidueInv ==
  /\ pc = "rJournal" \/ (verb = "uninstall" /\ pc \in {"uRoots", "uStaged", "uFiles"})
       => backups = {} /\ temps = {}

\* An attempt that nothing has disturbed
SteadyInv ==
  /\ pc \in {"rbWrite", "pShortcuts", "pSettle"} /\ ~faulted => scm = "running"
  /\ pc \in {"pBackup", "pJournal"} \/ (verb = "prepare" /\ pc \in {"next", "files"}) => scm # "running"
  /\ Handed \/ (prepared /\ pc \in {"prior", "pShortcuts", "pSettle"}) => journal.phase = "Prepared" \/ faulted
  /\ verb = "install" /\ pc \in {"iGate", "iEntry", "iFinal", "fJournal", "fBackup", "iStaged",
                                 "lastResidue", "nGate", "nEntry"} => scm = "running" \/ faulted
  /\ RejectedIsRolledBack

\* ... and that began before no obstacle
ClearInv ==
  ~faulted /\ ~obstructed =>
    /\ pc # "idle" /\ verb # "uninstall" => target \notin Broken
    /\ verb = "prepare" /\ pc \in {"extract", "shortcuts", "prepare"} =>
         /\ ContractHolds
         /\ journal # None /\ journal.old \notin backups => journal.new # target /\ Settled(journal)
    /\ verb = "prepare" /\ pc # "idle" => stable \notin Broken
    /\ verb = "prepare" /\ pc \notin {"idle", "vGate", "vEntry"} => LaunchIsOwned
    /\ pc \in Rolling => after \in {"prepared", "check"} /\ mem.old \in backups
    /\ verb = "install" /\ scm = "absent" /\ pc \in {"files", "filesWritten", "shortcuts", "install"} =>
         LaunchIsOwned /\ (journal # None => recovery \in {None, journal.new})
    /\ verb = "install" /\ pc \in Retiring => recovery \in {None, mem.new}
    /\ verb = "uninstall" /\ pc \in {"shortcuts", "uninstall"} =>
         LaunchIsOwned /\ (scm \in {"absent", "deleting"} \/ ContractHolds)
    /\ pc \notin {"pRestart", "uRestart", "nRollback", "nUndo"}
    /\ verb = "install" => pc \notin {"uWait", "uRoots"}
    /\ ~(pc = "idle" /\ verdict = "failed")

UpgradeInv ==
  /\ TypeOK /\ VerbInv /\ StagedInv /\ ServiceInv /\ JournalInv /\ ImageInv /\ LaunchInv
  /\ ResidueInv /\ SteadyInv /\ ClearInv
=============================================================================
