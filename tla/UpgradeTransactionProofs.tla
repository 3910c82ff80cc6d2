----------------------- MODULE UpgradeTransactionProofs -----------------------
(***************************************************************************)
(* The upgrade transaction, for every set of programs, every set of them   *)
(* that do not come up, every choice of installers, and any number of      *)
(* attempts, failures, crashes and restarts.                               *)
(*                                                                         *)
(* What a crash leaves behind is taken up by the next attempt, so nothing  *)
(* here can be shown of one attempt alone: the invariant UpgradeInv says   *)
(* of each place what is then known of the service, the files, the journal *)
(* and the launch entries, and says of an undisturbed attempt that began   *)
(* before no obstacle that no step of it can fail.                         *)
(***************************************************************************)
EXTENDS UpgradeTransaction, TLAPS

USE UpgradeAssumption DEF home, launch, exe, staging, spare, plan, Fine, Fault, Go, Fail, Done,
                          Rollback

\* The variables keep their types.
LEMMA NextType == UpgradeInv /\ [Next]_vars => TypeOK'
<1> SUFFICES ASSUME UpgradeInv, [Next]_vars PROVE TypeOK'
  OBVIOUS
<1> USE DEF UpgradeInv, TypeOK
<1>1. ASSUME NEW v \in Targets, BeginInstall(v) PROVE TypeOK'
  BY <1>1 DEF BeginInstall, Begin, InstallObstacle, HalfMadeLaunch
<1>2. CASE BeginUninstall
  BY <1>2 DEF BeginUninstall, Begin, ControllerName, Controller, UninstallObstacle,
     HalfMadeLaunch
<1>3. CASE Extract
  BY <1>3 DEF Extract, VerbInv
<1>4. CASE RetireShortcuts
  BY <1>4 DEF RetireShortcuts
<1>5. CASE BeginFiles
  BY <1>5 DEF BeginFiles
<1>6. CASE EndFiles
  BY <1>6 DEF EndFiles, VerbInv
<1>7. CASE NextVerb
  BY <1>7 DEF NextVerb
<1>8. CASE Prepare
  BY <1>8 DEF Prepare, ResumeMatching, ResolveSuperseded, DecideResume
<1>9. CASE ReusePrepared
  BY <1>9 DEF ReusePrepared, Ready, GoOn, Registered
<1>10. CASE VerifiedReady
  BY <1>10 DEF VerifiedReady, Ready, Registered
<1>11. CASE RegisterAppPath
  BY <1>11 DEF RegisterAppPath, GateFailed, TakeBackAppPath
<1>12. CASE EnsureEntry
  BY <1>12 DEF EnsureEntry, GatePassed
<1>13. CASE EnsureEntryFails
  BY <1>13 DEF EnsureEntryFails, GateFailed, TakeBackAppPath
<1>14. CASE DropJournal
  BY <1>14 DEF DropJournal
<1>15. CASE DropBackup
  BY <1>15 DEF DropBackup
<1>16. CASE RetireBackup
  BY <1>16 DEF RetireBackup
<1>17. CASE RetireStaged
  BY <1>17 DEF RetireStaged
<1>18. CASE RetireJournal
  BY <1>18 DEF RetireJournal, AfterTransaction
<1>19. CASE CleanResidue
  BY <1>19 DEF CleanResidue, AfterTransaction
<1>20. CASE PriorReady
  BY <1>20 DEF PriorReady, Ready, Registered
<1>21. CASE PrepareAlias
  BY <1>21 DEF PrepareAlias
<1>22. CASE PrepareSettle
  BY <1>22 DEF PrepareSettle, SettleCandidate, EndedWell, Settle, StopFails, Registered
<1>23. CASE PrepareBackup
  BY <1>23 DEF PrepareBackup, ImageInv, Sound
<1>24. CASE PrepareJournal
  BY <1>24 DEF PrepareJournal, WriteJournal, Journals, Phases, ImageInv, Sound, StagedInv,
     VerbInv, Preparing
<1>25. CASE PrepareRestart
  BY <1>25 DEF PrepareRestart, Ready, Registered
<1>26. CASE Commit
  BY <1>26 DEF Commit
<1>27. CASE CommitSettle
  BY <1>27 DEF CommitSettle, Settle, StopFails, Registered
<1>28. CASE CommitMark
  BY <1>28 DEF CommitMark, WriteJournal, Journals, Phases, JournalInv, Committing
<1>29. CASE CommitStart
  BY <1>29 DEF CommitStart, Ready, Registered
<1>30. CASE CommitVerify
  BY <1>30 DEF CommitVerify, WriteJournal, Journals, Phases, JournalInv, Committing
<1>31. CASE RollbackSettle
  BY <1>31 DEF RollbackSettle, Settle, StopFails, Registered
<1>32. CASE RollbackCopy
  <2>1. temps' \subseteq {"backup", "restore"}
    BY <1>32 DEF RollbackCopy
  <2> QED
    BY <1>32, <2>1 DEF RollbackCopy
<1>33. CASE RollbackMove
  BY <1>33 DEF RollbackMove, Journals, JournalInv, Rolling
<1>34. CASE RollbackStart
  BY <1>34 DEF RollbackStart, Ready, Registered
<1>35. CASE RollbackWrite
  BY <1>35 DEF RollbackWrite, GoOn, WriteJournal, Journals, Phases, JournalInv, Rolling
<1>36. CASE Install
  BY <1>36 DEF Install
<1>37. CASE InstallStart
  BY <1>37 DEF InstallStart, StartAndWait, Registered
<1>38. CASE InstallFinalize
  BY <1>38 DEF InstallFinalize
<1>39. CASE RetireStagedImages
  BY <1>39 DEF RetireStagedImages
<1>40. CASE CreateService
  BY <1>40 DEF CreateService, Registered
<1>41. CASE MarkService
  BY <1>41 DEF MarkService, Registered
<1>42. CASE ProvisionRoots
  BY <1>42 DEF ProvisionRoots, Roots
<1>43. CASE StartNewService
  BY <1>43 DEF StartNewService, StartAndWait, Registered
<1>44. CASE RollbackNewInstall
  BY <1>44 DEF RollbackNewInstall, EndedWell, StopFails, Registered
<1>45. CASE Uninstall
  BY <1>45 DEF Uninstall
<1>46. CASE UninstallSettle
  BY <1>46 DEF UninstallSettle, Settle, Restarting, StopFails, Registered
<1>47. CASE DeleteService
  BY <1>47 DEF DeleteService, Restarting, Registered
<1>48. CASE RestartAfterFailure
  BY <1>48 DEF RestartAfterFailure, StartAndWait, Registered
<1>49. CASE WaitDeleted
  BY <1>49 DEF WaitDeleted, Registered
<1>50. CASE RemoveEntries
  BY <1>50 DEF RemoveEntries, TakeBackAppPath
<1>51. CASE RemoveRoots
  BY <1>51 DEF RemoveRoots
<1>52. CASE UninstallStaged
  BY <1>52 DEF UninstallStaged
<1>53. CASE DeleteFiles
  BY <1>53 DEF DeleteFiles
<1>54. CASE Crash
  BY <1>54 DEF Crash, Killed
<1>55. CASE Restart
  BY <1>55 DEF Restart, Killed, Registered
<1>56. CASE ServiceFails
  BY <1>56 DEF ServiceFails, Registered
<1>57. CASE DeletionCompletes
  BY <1>57 DEF DeletionCompletes
<1>58. CASE EntryIsDeleted
  BY <1>58 DEF EntryIsDeleted
<1>59. CASE UNCHANGED vars
  BY <1>59 DEF vars
<1> QED
  BY <1>1, <1>2, <1>3, <1>4, <1>5, <1>6, <1>7, <1>8, <1>9, <1>10, <1>11, <1>12, <1>13, <1>14,
     <1>15, <1>16, <1>17, <1>18, <1>19, <1>20, <1>21, <1>22, <1>23, <1>24, <1>25, <1>26, <1>27,
     <1>28, <1>29, <1>30, <1>31, <1>32, <1>33, <1>34, <1>35, <1>36, <1>37, <1>38, <1>39, <1>40,
     <1>41, <1>42, <1>43, <1>44, <1>45, <1>46, <1>47, <1>48, <1>49, <1>50, <1>51, <1>52, <1>53,
     <1>54, <1>55, <1>56, <1>57, <1>58, <1>59 DEF Next, Verbs

\* Every step keeps what is known of the places: which verb is there, and with which
\* staged images, service, directories and launch entries.
LEMMA NextPlaces == UpgradeInv /\ [Next]_vars => (VerbInv /\ StagedInv /\ ServiceInv /\ LaunchInv /\ ResidueInv)'
<1> SUFFICES ASSUME UpgradeInv, [Next]_vars PROVE (VerbInv /\ StagedInv /\ ServiceInv /\ LaunchInv /\ ResidueInv)'
  OBVIOUS
<1> USE DEF UpgradeInv, VerbInv, StagedInv, ServiceInv, LaunchInv, ResidueInv, Places, Verified,
            ContractHolds, Registered, Handed, StartIsOwned, Registration, LaunchIsOwned, Published,
            Resuming, Preparing, Committing, Rolling, Retiring, Installing, Creating, Removing
<1>1. ASSUME NEW v \in Targets, BeginInstall(v) PROVE (VerbInv /\ StagedInv /\ ServiceInv /\ LaunchInv /\ ResidueInv)'
  BY <1>1 DEF BeginInstall, Begin
<1>2. CASE BeginUninstall
  BY <1>2 DEF BeginUninstall, Begin, ControllerName
<1>3. CASE Extract
  BY <1>3 DEF Extract
<1>4. CASE RetireShortcuts
  BY <1>4 DEF RetireShortcuts
<1>5. CASE BeginFiles
  BY <1>5 DEF BeginFiles
<1>6. CASE EndFiles
  BY <1>6 DEF EndFiles
<1>7. CASE NextVerb
  BY <1>7 DEF NextVerb
<1>8. CASE Prepare
  <2>1. (VerbInv /\ ServiceInv /\ ResidueInv)'
    BY <1>8 DEF Prepare, ResumeMatching, ResolveSuperseded, DecideResume
  <2>2. StagedInv'
    BY <1>8 DEF Prepare, ResumeMatching, ResolveSuperseded, DecideResume
  <2>3. LaunchInv'
    BY <1>8 DEF Prepare, ResumeMatching, ResolveSuperseded, DecideResume
  <2> QED
    BY <2>1, <2>2, <2>3
<1>9. CASE ReusePrepared
  BY <1>9 DEF ReusePrepared, Ready, GoOn, RunsAs, JournalInv
<1>10. CASE VerifiedReady
  BY <1>10 DEF VerifiedReady, Ready, RunsAs
<1>11. CASE RegisterAppPath
  BY <1>11 DEF RegisterAppPath, GateFailed, TakeBackAppPath
<1>12. CASE EnsureEntry
  BY <1>12 DEF EnsureEntry, GatePassed, JournalInv
<1>13. CASE EnsureEntryFails
  BY <1>13 DEF EnsureEntryFails, GateFailed, TakeBackAppPath
<1>14. CASE DropJournal
  BY <1>14 DEF DropJournal, JournalInv
<1>15. CASE DropBackup
  BY <1>15 DEF DropBackup, ImageInv, ImageIsNotLost, Sound
<1>16. CASE RetireBackup
  BY <1>16 DEF RetireBackup
<1>17. CASE RetireStaged
  BY <1>17 DEF RetireStaged
<1>18. CASE RetireJournal
  BY <1>18 DEF RetireJournal, AfterTransaction
<1>19. CASE CleanResidue
  BY <1>19 DEF CleanResidue, AfterTransaction
<1>20. CASE PriorReady
  BY <1>20 DEF PriorReady, Ready, RunsAs
<1>21. CASE PrepareAlias
  BY <1>21 DEF PrepareAlias, JournalInv
<1>22. CASE PrepareSettle
  BY <1>22 DEF PrepareSettle, SettleCandidate, EndedWell, Settle, StopFails
<1>23. CASE PrepareBackup
  BY <1>23 DEF PrepareBackup
<1>24. CASE PrepareJournal
  BY <1>24 DEF PrepareJournal, WriteJournal
<1>25. CASE PrepareRestart
  BY <1>25 DEF PrepareRestart, Ready, RunsAs
<1>26. CASE Commit
  BY <1>26 DEF Commit, DecideResume
<1>27. CASE CommitSettle
  BY <1>27 DEF CommitSettle, Settle, StopFails
<1>28. CASE CommitMark
  BY <1>28 DEF CommitMark, WriteJournal, JournalInv, TypeOK, Journals
<1>29. CASE CommitStart
  BY <1>29 DEF CommitStart, Ready, RunsAs
<1>30. CASE CommitVerify
  BY <1>30 DEF CommitVerify, WriteJournal, JournalInv, TypeOK, Journals
<1>31. CASE RollbackSettle
  BY <1>31 DEF RollbackSettle, Settle, StopFails
<1>32. CASE RollbackCopy
  BY <1>32 DEF RollbackCopy
<1>33. CASE RollbackMove
  BY <1>33 DEF RollbackMove
<1>34. CASE RollbackStart
  BY <1>34 DEF RollbackStart, Ready, RunsAs
<1>35. CASE RollbackWrite
  BY <1>35 DEF RollbackWrite, GoOn, WriteJournal, JournalInv, TypeOK, Journals
<1>36. CASE Install
  BY <1>36 DEF Install
<1>37. CASE InstallStart
  BY <1>37 DEF InstallStart, StartAndWait
<1>38. CASE InstallFinalize
  <2>1. (VerbInv /\ ServiceInv /\ LaunchInv /\ ResidueInv)'
    BY <1>38 DEF InstallFinalize
  <2>2. StagedInv'
    BY <1>38 DEF InstallFinalize, ImageInv, ImageIsNotLost, Sound
  <2> QED
    BY <2>1, <2>2
<1>39. CASE RetireStagedImages
  BY <1>39 DEF RetireStagedImages
<1>40. CASE CreateService
  BY <1>40 DEF CreateService
<1>41. CASE MarkService
  BY <1>41 DEF MarkService
<1>42. CASE ProvisionRoots
  BY <1>42 DEF ProvisionRoots
<1>43. CASE StartNewService
  BY <1>43 DEF StartNewService, StartAndWait
<1>44. CASE RollbackNewInstall
  BY <1>44 DEF RollbackNewInstall, EndedWell, StopFails
<1>45. CASE Uninstall
  BY <1>45 DEF Uninstall
<1>46. CASE UninstallSettle
  BY <1>46 DEF UninstallSettle, Settle, Restarting, StopFails
<1>47. CASE DeleteService
  BY <1>47 DEF DeleteService, Restarting
<1>48. CASE RestartAfterFailure
  BY <1>48 DEF RestartAfterFailure, StartAndWait
<1>49. CASE WaitDeleted
  BY <1>49 DEF WaitDeleted
<1>50. CASE RemoveEntries
  BY <1>50 DEF RemoveEntries, TakeBackAppPath
<1>51. CASE RemoveRoots
  BY <1>51 DEF RemoveRoots
<1>52. CASE UninstallStaged
  BY <1>52 DEF UninstallStaged
<1>53. CASE DeleteFiles
  BY <1>53 DEF DeleteFiles
<1>54. CASE Crash
  BY <1>54 DEF Crash, Killed
<1>55. CASE Restart
  BY <1>55 DEF Restart, Killed
<1>56. CASE ServiceFails
  BY <1>56 DEF ServiceFails
<1>57. CASE DeletionCompletes
  BY <1>57 DEF DeletionCompletes
<1>58. CASE EntryIsDeleted
  BY <1>58 DEF EntryIsDeleted
<1>59. CASE UNCHANGED vars
  BY <1>59 DEF vars
<1> QED
  BY <1>1, <1>2, <1>3, <1>4, <1>5, <1>6, <1>7, <1>8, <1>9, <1>10, <1>11, <1>12, <1>13, <1>14,
     <1>15, <1>16, <1>17, <1>18, <1>19, <1>20, <1>21, <1>22, <1>23, <1>24, <1>25, <1>26, <1>27,
     <1>28, <1>29, <1>30, <1>31, <1>32, <1>33, <1>34, <1>35, <1>36, <1>37, <1>38, <1>39, <1>40,
     <1>41, <1>42, <1>43, <1>44, <1>45, <1>46, <1>47, <1>48, <1>49, <1>50, <1>51, <1>52, <1>53,
     <1>54, <1>55, <1>56, <1>57, <1>58, <1>59 DEF Next, Verbs

\* Every step keeps what is known of the journal, the installed program and its copies,
\* and of the attempts that nothing disturbs.
LEMMA NextImages == UpgradeInv /\ [Next]_vars => (JournalInv /\ ImageInv /\ SteadyInv /\ ClearInv)'
<1> SUFFICES ASSUME UpgradeInv, [Next]_vars PROVE (JournalInv /\ ImageInv /\ SteadyInv /\ ClearInv)'
  OBVIOUS
<1> USE DEF UpgradeInv, JournalInv, ImageInv, SteadyInv, ClearInv, VerbInv, Handed, Verified,
            ImageIsNotLost, Registered, Sound, RejectedIsRolledBack, ContractHolds, LaunchIsOwned, Settled,
            Resuming, Preparing, Committing, Rolling, Retiring, Installing, Creating, Removing
<1>1. ASSUME NEW v \in Targets, BeginInstall(v) PROVE (JournalInv /\ ImageInv /\ SteadyInv /\ ClearInv)'
  BY <1>1 DEF BeginInstall, Begin, ServiceInv, InstallObstacle, UninstallObstacle,
     HalfMadeLaunch, StartIsOwned, Controller, ControllerName, LaunchInv, Registration, Published,
     TypeOK, Journals
<1>2. CASE BeginUninstall
  BY <1>2 DEF BeginUninstall, Begin, ControllerName, InstallObstacle, UninstallObstacle,
     HalfMadeLaunch, StartIsOwned, Controller, ServiceInv, LaunchInv, Registration, Published,
     TypeOK, Journals
<1>3. CASE Extract
  BY <1>3 DEF Extract
<1>4. CASE RetireShortcuts
  BY <1>4 DEF RetireShortcuts
<1>5. CASE BeginFiles
  BY <1>5 DEF BeginFiles, ServiceInv
<1>6. CASE EndFiles
  BY <1>6 DEF EndFiles, ServiceInv
<1>7. CASE NextVerb
  BY <1>7 DEF NextVerb, ServiceInv
<1>8. CASE Prepare
  BY <1>8 DEF Prepare, ResumeMatching, ResolveSuperseded, StagedInv, DecideResume
<1>9. CASE ReusePrepared
  BY <1>9 DEF ReusePrepared, Ready, GoOn, RunsAs, ServiceInv
<1>10. CASE VerifiedReady
  BY <1>10 DEF VerifiedReady, Ready, RunsAs, ServiceInv, TypeOK, Journals
<1>11. CASE RegisterAppPath
  BY <1>11 DEF RegisterAppPath, GateFailed, TakeBackAppPath
<1>12. CASE EnsureEntry
  BY <1>12 DEF EnsureEntry, GatePassed, ServiceInv, LaunchInv, StartIsOwned, Registration,
     Published
<1>13. CASE EnsureEntryFails
  BY <1>13 DEF EnsureEntryFails, GateFailed, TakeBackAppPath
<1>14. CASE DropJournal
  BY <1>14 DEF DropJournal, ServiceInv, TypeOK, Journals, StagedInv
<1>15. CASE DropBackup
  BY <1>15 DEF DropBackup
<1>16. CASE RetireBackup
  BY <1>16 DEF RetireBackup, ServiceInv
<1>17. CASE RetireStaged
  BY <1>17 DEF RetireStaged, StagedInv
<1>18. CASE RetireJournal
  BY <1>18 DEF RetireJournal, AfterTransaction, ServiceInv, TypeOK, Journals
<1>19. CASE CleanResidue
  BY <1>19 DEF CleanResidue, AfterTransaction, ServiceInv, TypeOK, Journals
<1>20. CASE PriorReady
  BY <1>20 DEF PriorReady, Ready, RunsAs, ServiceInv
<1>21. CASE PrepareAlias
  BY <1>21 DEF PrepareAlias
<1>22. CASE PrepareSettle
  BY <1>22 DEF PrepareSettle, SettleCandidate, EndedWell, Settle, StopFails
<1>23. CASE PrepareBackup
  BY <1>23 DEF PrepareBackup
<1>24. CASE PrepareJournal
  BY <1>24 DEF PrepareJournal, WriteJournal, StagedInv, Journals, Phases
<1>25. CASE PrepareRestart
  BY <1>25 DEF PrepareRestart, Ready, RunsAs, ServiceInv
<1>26. CASE Commit
  BY <1>26 DEF Commit, DecideResume, LaunchInv, StartIsOwned, Registration, Published,
     ServiceInv, StagedInv
<1>27. CASE CommitSettle
  BY <1>27 DEF CommitSettle, Settle, StopFails
<1>28. CASE CommitMark
  BY <1>28 DEF CommitMark, WriteJournal, TypeOK, Journals, Phases
<1>29. CASE CommitStart
  BY <1>29 DEF CommitStart, Ready, RunsAs, ServiceInv
<1>30. CASE CommitVerify
  BY <1>30 DEF CommitVerify, WriteJournal, TypeOK, Journals, Phases
<1>31. CASE RollbackSettle
  BY <1>31 DEF RollbackSettle, Settle, StopFails
<1>32. CASE RollbackCopy
  BY <1>32 DEF RollbackCopy
<1>33. CASE RollbackMove
  BY <1>33 DEF RollbackMove
<1>34. CASE RollbackStart
  BY <1>34 DEF RollbackStart, Ready, RunsAs, ServiceInv
<1>35. CASE RollbackWrite
  BY <1>35 DEF RollbackWrite, GoOn, WriteJournal, TypeOK, Journals, Phases
<1>36. CASE Install
  BY <1>36 DEF Install, ServiceInv, LaunchInv, StartIsOwned, Registration, Published, StagedInv
<1>37. CASE InstallStart
  BY <1>37 DEF InstallStart, StartAndWait, ServiceInv
<1>38. CASE InstallFinalize
  BY <1>38 DEF InstallFinalize
<1>39. CASE RetireStagedImages
  BY <1>39 DEF RetireStagedImages, StagedInv
<1>40. CASE CreateService
  BY <1>40 DEF CreateService
<1>41. CASE MarkService
  BY <1>41 DEF MarkService
<1>42. CASE ProvisionRoots
  BY <1>42 DEF ProvisionRoots
<1>43. CASE StartNewService
  BY <1>43 DEF StartNewService, StartAndWait, ServiceInv
<1>44. CASE RollbackNewInstall
  BY <1>44 DEF RollbackNewInstall, EndedWell, StopFails
<1>45. CASE Uninstall
  BY <1>45 DEF Uninstall
<1>46. CASE UninstallSettle
  BY <1>46 DEF UninstallSettle, Settle, Restarting, StopFails
<1>47. CASE DeleteService
  BY <1>47 DEF DeleteService, Restarting
<1>48. CASE RestartAfterFailure
  BY <1>48 DEF RestartAfterFailure, StartAndWait, ServiceInv
<1>49. CASE WaitDeleted
  BY <1>49 DEF WaitDeleted
<1>50. CASE RemoveEntries
  BY <1>50 DEF RemoveEntries, TakeBackAppPath
<1>51. CASE RemoveRoots
  BY <1>51 DEF RemoveRoots, ServiceInv
<1>52. CASE UninstallStaged
  BY <1>52 DEF UninstallStaged
<1>53. CASE DeleteFiles
  BY <1>53 DEF DeleteFiles, ServiceInv
<1>54. CASE Crash
  BY <1>54 DEF Crash, Killed
<1>55. CASE Restart
  BY <1>55 DEF Restart, Killed
<1>56. CASE ServiceFails
  BY <1>56 DEF ServiceFails
<1>57. CASE DeletionCompletes
  BY <1>57 DEF DeletionCompletes, ServiceInv
<1>58. CASE EntryIsDeleted
  BY <1>58 DEF EntryIsDeleted
<1>59. CASE UNCHANGED vars
  BY <1>59 DEF vars
<1> QED
  BY <1>1, <1>2, <1>3, <1>4, <1>5, <1>6, <1>7, <1>8, <1>9, <1>10, <1>11, <1>12, <1>13, <1>14,
     <1>15, <1>16, <1>17, <1>18, <1>19, <1>20, <1>21, <1>22, <1>23, <1>24, <1>25, <1>26, <1>27,
     <1>28, <1>29, <1>30, <1>31, <1>32, <1>33, <1>34, <1>35, <1>36, <1>37, <1>38, <1>39, <1>40,
     <1>41, <1>42, <1>43, <1>44, <1>45, <1>46, <1>47, <1>48, <1>49, <1>50, <1>51, <1>52, <1>53,
     <1>54, <1>55, <1>56, <1>57, <1>58, <1>59 DEF Next, Verbs

-----------------------------------------------------------------------------
\* The invariant holds of a machine without the product, and of one with a program
\* installed, whether that program comes up or not.
LEMMA InitUpgradeInv == Init => UpgradeInv
<1> SUFFICES ASSUME Init PROVE UpgradeInv
  OBVIOUS
<1>1. TypeOK
  BY DEF Init, TypeOK, Registered, Roots
<1>2. VerbInv /\ StagedInv /\ ServiceInv /\ ResidueInv
  BY DEF Init, VerbInv, StagedInv, ServiceInv, ResidueInv, Verified, Places, Resuming, Preparing,
     Committing, Rolling, Retiring, Installing, Creating, Removing, ContractHolds
<1>3. LaunchInv
  BY DEF Init, LaunchInv, StartIsOwned, Registration, Handed, Verified, Published, Retiring,
     Installing, LaunchIsOwned
<1>4. JournalInv /\ ImageInv
  BY DEF Init, JournalInv, ImageInv, ImageIsNotLost, Handed, Verified, Resuming, Preparing,
     Committing, Rolling, Retiring, Installing, Creating, Registered, Sound
<1>5. SteadyInv /\ ClearInv
  BY DEF Init, SteadyInv, ClearInv, RejectedIsRolledBack, Handed, Rolling, Retiring
<1> QED
  BY <1>1, <1>2, <1>3, <1>4, <1>5 DEF UpgradeInv

\* Every step of an attempt and of its surroundings preserves the invariant.
LEMMA NextUpgradeInv == UpgradeInv /\ [Next]_vars => UpgradeInv'
BY NextType, NextPlaces, NextImages DEF UpgradeInv

\* UpgradeInv holds throughout: whatever place an installer or an uninstaller has
\* reached, the disk, the registry and the service manager are as its verbs assume.
THEOREM UpgradeInvariance == Spec => []UpgradeInv
BY InitUpgradeInv, NextUpgradeInv, PTL DEF Spec

\* Whatever interrupts an upgrade, the program it replaces is not lost: the journal is
\* written after the rollback copy, retired after it only with the old program in
\* place, and no verb touches the stable file without it.
THEOREM ImageSafety == Spec => []ImageIsNotLost
<1>1. UpgradeInv => ImageIsNotLost
  BY DEF UpgradeInv, ImageInv
<1> QED
  BY <1>1, UpgradeInvariance, PTL

\* A rejected candidate is rolled back: commit_upgrade_candidate that fails without
\* further trouble leaves the old program running under a journal that says so.
THEOREM RollbackSafety == Spec => []RejectedIsRolledBack
<1>1. UpgradeInv => RejectedIsRolledBack
  BY DEF UpgradeInv, SteadyInv
<1> QED
  BY <1>1, UpgradeInvariance, PTL

\* An undisturbed attempt that began before none of the obstacles cannot fail, whatever
\* any number of interrupted attempts of any installers left behind.
THEOREM CleanAttempts == Spec => []CleanAttemptSucceeds
<1>1. UpgradeInv => CleanAttemptSucceeds
  BY DEF UpgradeInv, ClearInv, CleanAttemptSucceeds
<1> QED
  BY <1>1, UpgradeInvariance, PTL

\* Only two steps end an attempt in success: the last residue is gone after an
\* installation, the files are deleted after a removal.
LEMMA SuccessStep == UpgradeInv /\ [Next]_vars => (Succeeds => Complete)
<1> SUFFICES ASSUME UpgradeInv, [Next]_vars, Succeeds PROVE Complete
  OBVIOUS
<1> USE DEF Succeeds
<1>1. CASE Extract
  BY <1>1 DEF Extract
<1>2. CASE RetireShortcuts
  BY <1>2 DEF RetireShortcuts, UpgradeInv, VerbInv
<1>3. CASE BeginFiles
  BY <1>3 DEF BeginFiles
<1>4. CASE EndFiles
  BY <1>4 DEF EndFiles
<1>5. CASE NextVerb
  BY <1>5 DEF NextVerb
<1>6. CASE Prepare
  BY <1>6 DEF Prepare, DecideResume, ResumeMatching, ResolveSuperseded
<1>7. CASE ReusePrepared
  BY <1>7 DEF ReusePrepared, Ready, GoOn
<1>8. CASE VerifiedReady
  BY <1>8 DEF VerifiedReady, Ready
<1>9. CASE RegisterAppPath
  BY <1>9 DEF RegisterAppPath, GateFailed
<1>10. CASE EnsureEntry
  BY <1>10 DEF EnsureEntry, GatePassed
<1>11. CASE EnsureEntryFails
  BY <1>11 DEF EnsureEntryFails, GateFailed
<1>12. CASE DropJournal
  BY <1>12 DEF DropJournal
<1>13. CASE DropBackup
  BY <1>13 DEF DropBackup
<1>14. CASE RetireBackup
  BY <1>14 DEF RetireBackup
<1>15. CASE RetireStaged
  BY <1>15 DEF RetireStaged
<1>16. CASE RetireJournal
  BY <1>16 DEF RetireJournal, AfterTransaction
<1>17. CASE CleanResidue
  BY <1>17 DEF CleanResidue, Complete, UpgradeInv, VerbInv, ServiceInv, JournalInv, ImageInv,
     LaunchInv, Registration, ContractHolds, SteadyInv, StagedInv, AfterTransaction, Removing,
     Retiring, Rolling
<1>18. CASE PriorReady
  BY <1>18 DEF PriorReady, Ready
<1>19. CASE PrepareAlias
  BY <1>19 DEF PrepareAlias
<1>20. CASE PrepareSettle
  BY <1>20 DEF PrepareSettle, SettleCandidate, EndedWell, Settle, StopFails
<1>21. CASE PrepareBackup
  BY <1>21 DEF PrepareBackup
<1>22. CASE PrepareJournal
  BY <1>22 DEF PrepareJournal, WriteJournal
<1>23. CASE PrepareRestart
  BY <1>23 DEF PrepareRestart, Ready
<1>24. CASE Commit
  BY <1>24 DEF Commit
<1>25. CASE CommitSettle
  BY <1>25 DEF CommitSettle, Settle, StopFails
<1>26. CASE CommitMark
  BY <1>26 DEF CommitMark, WriteJournal
<1>27. CASE CommitStart
  BY <1>27 DEF CommitStart, Ready
<1>28. CASE CommitVerify
  BY <1>28 DEF CommitVerify, WriteJournal
<1>29. CASE RollbackSettle
  BY <1>29 DEF RollbackSettle, Settle, StopFails
<1>30. CASE RollbackCopy
  BY <1>30 DEF RollbackCopy
<1>31. CASE RollbackMove
  BY <1>31 DEF RollbackMove
<1>32. CASE RollbackStart
  BY <1>32 DEF RollbackStart, Ready
<1>33. CASE RollbackWrite
  BY <1>33 DEF RollbackWrite, GoOn, WriteJournal
<1>34. CASE Install
  BY <1>34 DEF Install
<1>35. CASE InstallStart
  BY <1>35 DEF InstallStart, StartAndWait
<1>36. CASE InstallFinalize
  BY <1>36 DEF InstallFinalize
<1>37. CASE RetireStagedImages
  BY <1>37 DEF RetireStagedImages
<1>38. CASE CreateService
  BY <1>38 DEF CreateService
<1>39. CASE MarkService
  BY <1>39 DEF MarkService
<1>40. CASE ProvisionRoots
  BY <1>40 DEF ProvisionRoots
<1>41. CASE StartNewService
  BY <1>41 DEF StartNewService, StartAndWait
<1>42. CASE RollbackNewInstall
  BY <1>42 DEF RollbackNewInstall, EndedWell, StopFails
<1>43. CASE Uninstall
  BY <1>43 DEF Uninstall
<1>44. CASE UninstallSettle
  BY <1>44 DEF UninstallSettle, Settle, Restarting, StopFails
<1>45. CASE DeleteService
  BY <1>45 DEF DeleteService, Restarting
<1>46. CASE RestartAfterFailure
  BY <1>46 DEF RestartAfterFailure, StartAndWait
<1>47. CASE WaitDeleted
  BY <1>47 DEF WaitDeleted
<1>48. CASE RemoveEntries
  BY <1>48 DEF RemoveEntries
<1>49. CASE RemoveRoots
  BY <1>49 DEF RemoveRoots
<1>50. CASE UninstallStaged
  BY <1>50 DEF UninstallStaged
<1>51. CASE DeleteFiles
  BY <1>51 DEF DeleteFiles, Complete, UpgradeInv, VerbInv, ServiceInv, JournalInv, LaunchInv,
     ResidueInv, Removing
<1>52. CASE Crash
  BY <1>52 DEF Crash, Killed
<1>53. CASE Restart
  BY <1>53 DEF Restart, Killed
<1>54. CASE ServiceFails
  BY <1>54 DEF ServiceFails
<1>55. CASE DeletionCompletes
  BY <1>55 DEF DeletionCompletes
<1>56. CASE EntryIsDeleted
  BY <1>56 DEF EntryIsDeleted
<1>57. CASE UNCHANGED vars
  BY <1>57 DEF vars
<1> QED
  BY <1>1, <1>2, <1>3, <1>4, <1>5, <1>6, <1>7, <1>8, <1>9, <1>10, <1>11, <1>12, <1>13, <1>14,
     <1>15, <1>16, <1>17, <1>18, <1>19, <1>20, <1>21, <1>22, <1>23, <1>24, <1>25, <1>26, <1>27,
     <1>28, <1>29, <1>30, <1>31, <1>32, <1>33, <1>34, <1>35, <1>36, <1>37, <1>38, <1>39, <1>40,
     <1>41, <1>42, <1>43, <1>44, <1>45, <1>46, <1>47, <1>48, <1>49, <1>50, <1>51, <1>52, <1>53,
     <1>54, <1>55, <1>56, <1>57 DEF Next, Verbs, BeginInstall, BeginUninstall, Begin

\* An attempt that succeeds is complete, and leaves nothing of the transaction.
THEOREM CompleteSuccess == Spec => SuccessIsComplete
<1>1. UpgradeInv /\ [Next]_vars => [Succeeds => Complete]_vars
  BY SuccessStep
<1> QED
  BY <1>1, UpgradeInvariance, PTL DEF Spec, SuccessIsComplete
=============================================================================
