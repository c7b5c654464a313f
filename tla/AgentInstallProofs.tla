------------------------- MODULE AgentInstallProofs -------------------------
(***************************************************************************)
(* Proofs about AgentInstall, for any number of versions, requests and     *)
(* faults.                                                                 *)
(***************************************************************************)
EXTENDS AgentInstall, TLAPS

-----------------------------------------------------------------------------
(***************************************************************************)
(* The worker that does what was asked for, and how far it is.             *)
(***************************************************************************)
Doer == IF pkg = Agent THEN Updater ELSE Agent
Copy == backup[request.image]

Asking  == {"image", "check", "enable", "handoff"}
Before  == {"stat", "unbackup", "backup", "unpack", "scripts"}
Removed == {"unlink", "rmdir"}
Putting == {"preinstall", "move", "link", "postinstall", "cleanup"}
Undoing == {"failed", "restore"}
Telling == {"refresh", "notify"}
Doing   == Before \cup Removed \cup Putting \cup Undoing \cup Telling
\* The stages at which the old version is in the copy.
Kept    == {"unpack", "scripts"} \cup Removed \cup Putting \cup Undoing
Ended   == Telling \cup {"ok"}

Unnoticed == "unnoticed" \in trouble

-----------------------------------------------------------------------------
(***************************************************************************)
(* The inductive strengthening.                                            *)
(***************************************************************************)
DiskTypes ==
  /\ dir \in Dirs /\ backup \in [Images -> Dirs] /\ links \in BOOLEAN /\ uuid \in BOOLEAN
  /\ service \in Images \cup {None} /\ updater \in BOOLEAN /\ cnapi \in Images \cup {None}

WorkerTypes ==
  /\ stage \in [Workers -> Stages] /\ blob \in {"none", "good", "bad"}
  /\ isUpdate \in [Workers -> BOOLEAN] /\ errs \in BOOLEAN

RunTypes ==
  /\ pkg \in {"agent", Agent} /\ request \in Requests /\ before \in Dirs
  /\ runs \in 0 .. MaxRuns /\ faults \in 0 .. MaxFaults /\ trouble \subseteq Troubles

Typed == DiskTypes /\ WorkerTypes /\ RunTypes

\* Who may be at which stage.  cn-agent's own installation starts in cn-agent's
\* worker, goes on in the updater's while the first one waits, and never returns
\* to the first one but after the other has ended.
Route ==
  /\ stage[Agent] = "idle" <=> runs = 0
  /\ runs = 0 => stage[Updater] = "idle"
  /\ pkg # Agent => stage[Updater] = "idle" /\ ~updater
  /\ pkg = Agent => before \in Images
  /\ request.task = "uninstall" =>
       /\ stage[Agent] \in Over \cup {"scripts", "unlink", "rmdir", "uuid", "refresh"}
       /\ stage[Updater] = "idle"
       /\ pkg = Agent => runs = 0
  /\ request.task = "refresh" =>
       stage[Agent] \in Over \cup {"refresh"} /\ stage[Updater] = "idle"
  /\ Installing /\ pkg # Agent =>
       stage[Agent] \in Over \cup {"image", "check"} \cup (Doing \ {"notify"})
  /\ Installing /\ pkg = Agent =>
       /\ stage[Agent] \in Over \cup Asking \cup {"waiting", "stat", "unbackup"}
       /\ stage[Updater] \in Over \cup Doing
       /\ stage[Agent] \in Asking => stage[Updater] = "idle"
       /\ stage[Agent] \in {"stat", "unbackup", "ok"} => stage[Updater] = "ok"
       /\ stage[Agent] = "fatal" => stage[Updater] \in Over
       /\ stage[Agent] = "waiting" => stage[Updater] # "idle"

\* The updater stops the worker that waits for it, unless it fails before that:
\* as long as one waits, the old version is there or will be put back.
Waits ==
  pkg = Agent /\ Installing /\ "uninstall" \notin trouble /\ ~Unnoticed =>
    /\ stage[Agent] \notin {"stat", "unbackup", "ok"}
    /\ stage[Agent] = "waiting" => stage[Updater] \in Before \cup Undoing \cup {"fatal", "dead"}
    /\ stage[Agent] = "waiting" /\ stage[Updater] \in Over /\ trouble \cap {"restore",
            "crash"} = {}
         => dir = before

\* The old version is in place until it is uninstalled, and in the copy from
\* before that until the end; without an old version there is no copy.
Place ==
  Installing =>
    /\ stage[Agent] \in Asking \/ stage[Doer] \in Before \cup Removed => dir = before
    /\ stage[Doer] \in {"unbackup", "backup"} \cup Kept => (isUpdate[Doer] <=> before # None)
    /\ stage[Doer] \in {"backup", "scripts", "restore"} => before # None
    /\ stage[Doer] \in Kept => Copy = before
    /\ stage[Agent] \in {"enable", "handoff",
            "waiting"} \/ stage[Doer] \in Doing => blob = "good"

\* How far the new version is in place.
Success ==
  Installing /\ "uninstall" \notin trouble =>
    /\ stage[Doer] \in {"preinstall", "move"} => dir = None
    /\ stage[Doer] \in {"link", "postinstall", "cleanup"} => dir = request.image
    /\ stage[Doer] = "postinstall" => links \/ Unnoticed
    /\ stage[Doer] = "cleanup" => Updated \/ Unnoticed
    /\ stage[Doer] \in Ended /\ before # None => dir = request.image /\ (Updated \/ Unnoticed)

\* How far an agent that was whole is removed.
Gone == dir = None /\ ~links /\ ~uuid /\ (service = None \/ Unnoticed)

Removal ==
  request.task = "uninstall" /\ before \in Images =>
    /\ stage[Agent] \in {"scripts", "unlink"} => dir = before
    /\ stage[Agent] \in {"unlink", "rmdir", "uuid"} => service = None \/ Unnoticed
    /\ stage[Agent] \in {"rmdir", "uuid"} => ~links
    /\ stage[Agent] = "uuid" => dir = None
    /\ stage[Agent] = "refresh" => errs \/ Gone
    /\ stage[Agent] = "ok" => Gone

\* A run in which nothing goes wrong: the workers that die are the one that waits
\* and, with everything done, the one whose service cn-agent has stopped.
Finished == Updated /\ cnapi = request.image /\ Copy = None /\ ~updater

Clean ==
  Installing /\ runs > 0 /\ trouble = {} /\ before # Damaged =>
    /\ stage[Agent] # "fatal" /\ stage[Doer] \notin {"fatal"} \cup Undoing
    /\ stage[Agent] = "check" => blob = "good"
    /\ stage[Doer] \in Ended => Updated /\ Copy = None
    /\ stage[Doer] = "notify" => cnapi = request.image
    /\ stage[Doer] \in {"ok", "dead"} => Finished
    /\ pkg = Agent => /\ stage[Agent] = "waiting" => stage[Updater] \in Before
                      /\ stage[Updater] = "idle" => stage[Agent] \in Asking

IInv ==
  /\ Typed /\ Route /\ Waits /\ Place /\ Success /\ Removal /\ Clean
  /\ CopyKept /\ FailureRestores

-----------------------------------------------------------------------------
(***************************************************************************)
(* What a step of a worker can change at all, and the types it keeps.      *)
(***************************************************************************)
History ==
  /\ UNCHANGED <<pkg, request, before, runs>>
  /\ faults' = faults \/ (faults < MaxFaults /\ faults' = faults + 1)
  /\ trouble \subseteq trouble' /\ trouble' \subseteq trouble \cup Troubles

LEMMA HistoryKept ==
  ASSUME RunTypes, History
  PROVE  RunTypes'
<1> USE AgentInstallAssumption DEF RunTypes, History
<1>1. faults' \in 0 .. MaxFaults
  OBVIOUS
<1>2. trouble' \subseteq Troubles
  OBVIOUS
<1> QED BY <1>1, <1>2 DEF runVars
LEMMA StepHistory ==
  ASSUME NEW w \in Workers, Step(w)
  PROVE  History
<1> USE DEF History, runVars, Troubles, Smoothly, Trouble, faultVars
<1>1. CASE \/ Download(w) \/ CheckImage(w) \/ EnableUpdater(w) \/ HandOff(w) \/ HandedOff(w)
           \/ IsUpdate(w)
  BY <1>1 DEF Download, CheckImage, EnableUpdater, HandOff, HandedOff, IsUpdate
<1>2. CASE \/ CleanupPreviousBackup(w) \/ BackupAgent(w) \/ CleanupFailedInstall(w)
           \/ RestoreBackup(w) \/ CleanupBackup(w)
  BY <1>2 DEF CleanupPreviousBackup, BackupAgent, CleanupFailedInstall, RestoreBackup,
     CleanupBackup
<1>3. CASE \/ Unpack(w) \/ UninstallScripts(w) \/ RmBinLinks(w) \/ RmPkgPath(w)
           \/ RemoveTheInstUuidFile(w)
  BY <1>3 DEF Unpack, UninstallScripts, RmBinLinks, RmPkgPath, RemoveTheInstUuidFile
<1>4. CASE Preinstall(w) \/ Move(w) \/ LinkBins(w) \/ Postinstall(w)
  BY <1>4 DEF Preinstall, Move, LinkBins, Postinstall
<1>5. CASE RefreshAgents(w) \/ Notify(w)
  BY <1>5 DEF RefreshAgents, Notify
<1> QED BY <1>1, <1>2, <1>3, <1>4, <1>5 DEF Step

LEMMA StepDisk ==
  ASSUME DiskTypes, RunTypes, NEW w \in Workers, Step(w)
  PROVE  DiskTypes'
<1> USE DEF DiskTypes, diskVars, svcVars, Dirs, RunTypes, Requests
<1>1. CASE \/ Download(w) \/ CheckImage(w) \/ EnableUpdater(w) \/ HandOff(w) \/ HandedOff(w)
           \/ IsUpdate(w)
  BY <1>1 DEF Download, CheckImage, EnableUpdater, HandOff, HandedOff, IsUpdate
<1>2. CASE \/ CleanupPreviousBackup(w) \/ BackupAgent(w) \/ CleanupFailedInstall(w)
           \/ RestoreBackup(w) \/ CleanupBackup(w)
  BY <1>2 DEF CleanupPreviousBackup, BackupAgent, CleanupFailedInstall, RestoreBackup,
     CleanupBackup, Backup, Cut
<1>3. CASE \/ Unpack(w) \/ UninstallScripts(w) \/ RmBinLinks(w) \/ RmPkgPath(w)
           \/ RemoveTheInstUuidFile(w)
  BY <1>3 DEF Unpack, UninstallScripts, RmBinLinks, RmPkgPath, RemoveTheInstUuidFile, Cut
<1>4. CASE Preinstall(w) \/ Move(w) \/ LinkBins(w) \/ Postinstall(w)
  BY <1>4 DEF Preinstall, Move, LinkBins, Postinstall, Cut, Unpacked
<1>5. CASE RefreshAgents(w) \/ Notify(w)
  BY <1>5 DEF RefreshAgents, Notify
<1> QED BY <1>1, <1>2, <1>3, <1>4, <1>5 DEF Step

LEMMA StepWorkers ==
  ASSUME WorkerTypes, NEW w \in Workers, Step(w)
  PROVE  WorkerTypes'
<1>1. stage' \in [Workers -> Stages]
  <2> USE DEF Go, WorkerTypes, Workers, Agent, Updater, Stages, InstallStages, Over
  <2>1. CASE \/ Download(w) \/ CheckImage(w) \/ EnableUpdater(w) \/ HandOff(w) \/ HandedOff(w)
             \/ IsUpdate(w)
    BY <2>1 DEF Download, CheckImage, EnableUpdater, HandOff, HandedOff, IsUpdate, DoUpdate
  <2>2. CASE \/ CleanupPreviousBackup(w) \/ BackupAgent(w) \/ CleanupFailedInstall(w)
             \/ RestoreBackup(w) \/ CleanupBackup(w)
    BY <2>2 DEF CleanupPreviousBackup, BackupAgent, CleanupFailedInstall, RestoreBackup,
       CleanupBackup, AfterUnbackup, DoUpdate
  <2>3. CASE Unpack(w) \/ RmBinLinks(w) \/ RmPkgPath(w) \/ RemoveTheInstUuidFile(w)
    BY <2>3 DEF Unpack, RmBinLinks, RmPkgPath, RemoveTheInstUuidFile, GivesUp, InstallFails
  <2>6. CASE UninstallScripts(w)
    BY <2>6 DEF UninstallScripts, Stopped, GivesUp
  <2>4. CASE Preinstall(w) \/ Move(w)
    BY <2>4 DEF Preinstall, Move, InstallFails
  <2>7. CASE LinkBins(w) \/ Postinstall(w)
    <3>1. \E s \in {"postinstall", "cleanup", "failed"} : stage' = [stage EXCEPT ![w] = s]
      BY <2>7, Zenon DEF LinkBins, Postinstall, InstallFails
    <3> QED BY <3>1
  <2>5. CASE RefreshAgents(w) \/ Notify(w)
    BY <2>5 DEF RefreshAgents, Notify, AfterRefresh
  <2> QED BY <2>1, <2>2, <2>3, <2>4, <2>5, <2>6, <2>7 DEF Step
<1>2. blob' \in {"none", "good",
        "bad"} /\ isUpdate' \in [Workers -> BOOLEAN] /\ errs' \in BOOLEAN
  <2> USE DEF WorkerTypes
  <2>1. CASE \/ Download(w) \/ CheckImage(w) \/ EnableUpdater(w) \/ HandOff(w) \/ HandedOff(w)
             \/ IsUpdate(w)
    BY <2>1 DEF Download, CheckImage, EnableUpdater, HandOff, HandedOff, IsUpdate
  <2>2. CASE \/ CleanupPreviousBackup(w) \/ BackupAgent(w) \/ CleanupFailedInstall(w)
             \/ RestoreBackup(w) \/ CleanupBackup(w)
    BY <2>2 DEF CleanupPreviousBackup, BackupAgent, CleanupFailedInstall, RestoreBackup,
       CleanupBackup
  <2>3. CASE \/ Unpack(w) \/ UninstallScripts(w) \/ RmBinLinks(w) \/ RmPkgPath(w)
             \/ RemoveTheInstUuidFile(w)
    BY <2>3 DEF Unpack, UninstallScripts, RmBinLinks, RmPkgPath, RemoveTheInstUuidFile
  <2>4. CASE Preinstall(w) \/ Move(w) \/ LinkBins(w) \/ Postinstall(w)
    BY <2>4 DEF Preinstall, Move, LinkBins, Postinstall
  <2>5. CASE RefreshAgents(w) \/ Notify(w)
    BY <2>5 DEF RefreshAgents, Notify
  <2> QED BY <2>1, <2>2, <2>3, <2>4, <2>5 DEF Step
<1> QED BY <1>1, <1>2 DEF WorkerTypes

-----------------------------------------------------------------------------
(***************************************************************************)
(* The steps of a worker.                                                  *)
(***************************************************************************)
USE DEF Workers, Agent, Updater, Doer, Unnoticed, Copy, Over, Asking, Before, Removed, Putting, Undoing,
        Telling, Doing, Kept, Ended, Installing, Updated

LEMMA DownloadStep ==
  ASSUME IInv, Typed', NEW w \in Workers, Download(w)
  PROVE  IInv'
<1> USE DEF IInv, Typed, Download, Go, Smoothly, Trouble, runVars, diskVars, svcVars, faultVars
<1>1. Route' /\ Waits' /\ Success' /\ Clean'
  BY DEF Route, Waits, Success, Clean, Finished, WorkerTypes
<1>2. Place'
  BY DEF Place, Route, WorkerTypes
<1>3. Removal'
  BY DEF Removal, Gone, Route
<1>4. CopyKept'
  BY DEF CopyKept
<1>5. FailureRestores'
  BY DEF FailureRestores, Place, Route
<1> QED BY <1>1, <1>2, <1>3, <1>4, <1>5

LEMMA CheckImageStep ==
  ASSUME IInv, Typed', NEW w \in Workers, CheckImage(w)
  PROVE  IInv'
<1> USE DEF IInv, Typed, CheckImage, Go, Smoothly, Trouble, DoUpdate, Checks, runVars,
        diskVars, svcVars, faultVars
<1>1. Route' /\ Waits' /\ Success'
  BY DEF Route, Waits, Success, WorkerTypes
<1>2. Place' /\ Clean'
  BY DEF Place, Clean, Finished, Route, WorkerTypes
<1>3. Removal'
  BY DEF Removal, Gone, Route
<1>4. CopyKept'
  BY DEF CopyKept
<1>5. FailureRestores'
  BY DEF FailureRestores, Place, Route
<1> QED BY <1>1, <1>2, <1>3, <1>4, <1>5

\* Only cn-agent's own worker comes here, and alone.
LEMMA EnableUpdaterRoute ==
  ASSUME IInv, NEW w \in Workers, EnableUpdater(w)
  PROVE  Route'
<1>1. /\ stage[w] = "enable" /\ UNCHANGED <<pkg, request, before, runs, dir>>
      /\ \E s \in {"handoff", "fatal"} : stage' = [stage EXCEPT ![w] = s]
  BY Zenon DEF EnableUpdater, Go, runVars, diskVars
<1>2. w = Agent /\ pkg = Agent /\ Installing /\ runs # 0 /\ stage[Updater] = "idle"
  BY <1>1 DEF IInv, Route, Typed, RunTypes, Requests
<1> QED BY <1>1, <1>2 DEF IInv, Typed, Route, WorkerTypes

LEMMA EnableUpdaterStep ==
  ASSUME IInv, Typed', NEW w \in Workers, EnableUpdater(w)
  PROVE  IInv'
<1>1. Route'
  BY EnableUpdaterRoute
<1> USE DEF IInv, Typed, EnableUpdater, Go, Smoothly, Trouble, runVars, diskVars, faultVars
<1>2. Waits' /\ Place' /\ Success'
  BY DEF Waits, Place, Success, WorkerTypes
<1>3. Removal'
  BY DEF Removal, Gone, Route
<1>4. Clean'
  BY DEF Clean, Finished, Route, WorkerTypes
<1>5. CopyKept'
  BY DEF CopyKept
<1>6. FailureRestores'
  BY DEF FailureRestores, Place, Route
<1> QED BY <1>1, <1>2, <1>3, <1>4, <1>5, <1>6

LEMMA HandOffStep ==
  ASSUME IInv, Typed', NEW w \in Workers, HandOff(w)
  PROVE  IInv'
<1> USE DEF IInv, Typed, HandOff, Go, Smoothly, Trouble, runVars, diskVars, svcVars, faultVars
<1>1. Route' /\ Waits' /\ Place' /\ Success' /\ Clean'
  BY DEF Route, Waits, Place, Success, Clean, Finished, WorkerTypes
<1>2. Removal'
  BY DEF Removal, Gone, Route
<1>3. CopyKept'
  BY DEF CopyKept
<1>4. FailureRestores'
  BY DEF FailureRestores, Place, Route
<1> QED BY <1>1, <1>2, <1>3, <1>4

LEMMA HandedOffStep ==
  ASSUME IInv, Typed', NEW w \in Workers, HandedOff(w)
  PROVE  IInv'
<1> USE DEF IInv, Typed, HandedOff, Go, Smoothly, runVars, diskVars, svcVars, faultVars
<1>1. Route' /\ Waits' /\ Success' /\ Removal' /\ CopyKept'
  BY DEF Route, Waits, Success, Removal, Gone, CopyKept
<1>2. Place' /\ Clean'
  BY DEF Place, Clean, Finished, Route
<1>3. FailureRestores'
  BY DEF FailureRestores, Route, Waits, WorkerTypes
<1> QED BY <1>1, <1>2, <1>3

\* Where the second worker asks again, the first one has ended.
LEMMA IsUpdatePlace ==
  ASSUME IInv, NEW w \in Workers, IsUpdate(w)
  PROVE  Place'
<1>1. /\ stage[w] = "stat" /\ UNCHANGED <<pkg, request, before, runs, dir, backup, blob>>
      /\ stage' = [stage EXCEPT ![w] = "unbackup"]
      /\ isUpdate' = [isUpdate EXCEPT ![w] = dir # None]
  BY DEF IsUpdate, Go, runVars, diskVars
<1>2. isUpdate'[w] <=> dir # None
  BY <1>1 DEF IInv, Typed, WorkerTypes
<1>3. CASE w = Doer
  BY <1>1, <1>2, <1>3 DEF IInv, Typed, Place, WorkerTypes
<1>4. CASE w # Doer
  <2>1. Installing => stage[Doer] = "ok"
    BY <1>1, <1>4 DEF IInv, Route
  <2> QED BY <1>1, <1>4, <2>1 DEF IInv, Typed, Place, WorkerTypes
<1> QED BY <1>3, <1>4

LEMMA IsUpdateStep ==
  ASSUME IInv, Typed', NEW w \in Workers, IsUpdate(w)
  PROVE  IInv'
<1>1. Place'
  BY IsUpdatePlace
<1> USE DEF IInv, Typed, IsUpdate, Go, Smoothly, runVars, diskVars, svcVars, faultVars
<1>2. Route' /\ Waits' /\ Success' /\ Removal' /\ Clean' /\ CopyKept' /\ FailureRestores'
  BY DEF Route, Waits, Success, Removal, Gone, Clean, Finished, CopyKept, FailureRestores
<1> QED BY <1>1, <1>2

\* The copy of a run before goes; there is none where nothing was installed.
LEMMA UnbackupPlace ==
  ASSUME IInv, NEW w \in Workers, CleanupPreviousBackup(w)
  PROVE  Place'
<1>1. /\ stage[w] = "unbackup" /\ UNCHANGED <<pkg, request, before, runs, dir, isUpdate, blob>>
      /\ \/ Backup(None) /\ Go(w, AfterUnbackup(w))
         \/ Go(w, "fatal")
         \/ Go(w, "dead")
  BY Zenon DEF CleanupPreviousBackup, runVars
<1>3. CASE w = Doer
  <2>1. Backup(None) => Copy' = None
    BY <1>1 DEF IInv, Typed, DiskTypes, RunTypes, Requests, Backup
  <2> QED BY <1>1, <1>3, <2>1 DEF IInv, Typed, Place, WorkerTypes, Go, AfterUnbackup, DoUpdate
<1>4. CASE w # Doer
  <2>1. Installing => stage[Doer] = "ok"
    BY <1>1, <1>4 DEF IInv, Route
  <2> QED BY <1>1, <1>4, <2>1 DEF IInv, Typed, Place, WorkerTypes, Go, AfterUnbackup, DoUpdate
<1> QED BY <1>3, <1>4

LEMMA CleanupPreviousBackupStep ==
  ASSUME IInv, Typed', NEW w \in Workers, CleanupPreviousBackup(w)
  PROVE  IInv'
<1>1. Place'
  BY UnbackupPlace
<1> USE DEF IInv, Typed, CleanupPreviousBackup, Go, Smoothly, Trouble, Backup, Cut, DoUpdate,
        AfterUnbackup, runVars, svcVars, faultVars
<1>2. Route' /\ Success'
  BY DEF Route, Success, WorkerTypes
<1>3. Waits'
  BY DEF Waits, Place, Route, WorkerTypes
<1>4. Removal'
  BY DEF Removal, Gone, Route
<1>5. Clean'
  BY DEF Clean, Finished, Route, Waits, WorkerTypes
<1>6. CopyKept'
  BY AgentInstallAssumption DEF CopyKept, Place, Route, Success, WorkerTypes
<1>7. FailureRestores'
  BY DEF FailureRestores, Place, Route, Waits, WorkerTypes, Unnoticed
<1> QED BY <1>1, <1>2, <1>3, <1>4, <1>5, <1>6, <1>7

\* From here on the old version is in the copy.
LEMMA BackupPlace ==
  ASSUME IInv, NEW w \in Workers, BackupAgent(w)
  PROVE  Place'
<1>1. /\ stage[w] = "backup" /\ UNCHANGED <<pkg, request, before, runs, dir, isUpdate, blob>>
      /\ \/ Backup(dir) /\ Go(w, "unpack")
         \/ Go(w, "fatal")
         \/ Go(w, "dead")
  BY Zenon DEF BackupAgent, runVars
<1>2. Backup(dir) => Copy' = dir
  BY <1>1 DEF IInv, Typed, DiskTypes, RunTypes, Requests, Backup
<1> QED BY <1>1, <1>2 DEF IInv, Typed, Route, Place, WorkerTypes, Go

LEMMA BackupAgentStep ==
  ASSUME IInv, Typed', NEW w \in Workers, BackupAgent(w)
  PROVE  IInv'
<1>1. Place'
  BY BackupPlace
<1> USE DEF IInv, Typed, BackupAgent, Go, Smoothly, Trouble, Backup, Cut, runVars, svcVars,
        faultVars
<1>2. Route' /\ Success'
  BY DEF Route, Success, WorkerTypes
<1>3. Waits'
  BY DEF Waits, Place, Route, WorkerTypes
<1>4. Removal'
  BY DEF Removal, Gone, Route
<1>5. Clean'
  BY DEF Clean, Finished, Route, WorkerTypes
<1>6. CopyKept' /\ FailureRestores'
  BY DEF CopyKept, FailureRestores, Place, Route
<1> QED BY <1>1, <1>2, <1>3, <1>4, <1>5, <1>6

\* cn-agent's own update is one: the old version comes back.
LEMMA FailedWaits ==
  ASSUME IInv, NEW w \in Workers, CleanupFailedInstall(w)
  PROVE  Waits'
<1>1. /\ stage[w] = "failed" /\ UNCHANGED <<pkg, request, before, runs, backup, isUpdate, blob>>
      /\ \/ dir' = None /\ Go(w,
              IF isUpdate[w] THEN "restore" ELSE "refresh") /\ UNCHANGED trouble
         \/ /\ \E s \in {"fatal", "dead"} : Go(w, s)
            /\ trouble' = trouble \cup {"restore"}
  BY Zenon DEF CleanupFailedInstall, runVars, diskVars, Smoothly, faultVars, Trouble
<1>2. pkg = Agent /\ Installing => w = Doer /\ isUpdate[w]
  BY <1>1, AgentInstallAssumption DEF IInv, Route, Place
<1>3. CASE UNCHANGED trouble
  BY <1>1, <1>2, <1>3 DEF IInv, Typed, Route, Waits, WorkerTypes, Go
<1>4. CASE trouble' = trouble \cup {"restore"}
  BY <1>1, <1>2, <1>4 DEF IInv, Typed, Route, Waits, WorkerTypes, Go
<1> QED BY <1>1, <1>3, <1>4

LEMMA CleanupFailedInstallStep ==
  ASSUME IInv, Typed', NEW w \in Workers, CleanupFailedInstall(w)
  PROVE  IInv'
<1>1. Waits'
  BY FailedWaits
<1> USE DEF IInv, Typed, CleanupFailedInstall, Go, Smoothly, Trouble, Cut, runVars, svcVars,
        faultVars
<1>2. Route'
  BY DEF Route, WorkerTypes
<1>3. Place' /\ FailureRestores'
  BY DEF Place, FailureRestores, Route, WorkerTypes
<1>4. Success'
  BY DEF Success, Place, Route, WorkerTypes
<1>5. Removal' /\ Clean'
  BY DEF Removal, Gone, Clean, Finished, Route
<1>6. CopyKept'
  BY DEF CopyKept, Place, Route
<1> QED BY <1>1, <1>2, <1>3, <1>4, <1>5, <1>6

LEMMA RestoreBackupStep ==
  ASSUME IInv, Typed', NEW w \in Workers, RestoreBackup(w)
  PROVE  IInv'
<1> USE DEF IInv, Typed, RestoreBackup, Go, Smoothly, Trouble, Cut, runVars, svcVars, faultVars
<1>1. Route'
  BY DEF Route, WorkerTypes
<1>2. Waits'
  BY DEF Waits, Place, Route, WorkerTypes
<1>3. Place' /\ Success'
  BY DEF Place, Success, Route, WorkerTypes
<1>4. Removal' /\ Clean'
  BY DEF Removal, Gone, Clean, Finished, Route
<1>5. CopyKept' /\ FailureRestores'
  BY DEF CopyKept, FailureRestores, Place, Route
<1> QED BY <1>1, <1>2, <1>3, <1>4, <1>5

\* A copy that cannot be removed is trouble.
LEMMA CleanupClean ==
  ASSUME IInv, NEW w \in Workers, CleanupBackup(w)
  PROVE  Clean'
<1>1. /\ stage[w] = "cleanup" /\ UNCHANGED <<pkg, request, before, runs, dir, links, uuid,
        service, updater, cnapi>>
      /\ \/ /\ Backup(IF isUpdate[w] THEN None ELSE backup[request.image])
            /\ Go(w, "refresh") /\ UNCHANGED trouble
         \/ trouble' = trouble \cup {"disk"}
  BY Zenon DEF CleanupBackup, runVars, svcVars, Smoothly, faultVars, Trouble
<1>2. CASE trouble' = trouble \cup {"disk"}
  BY <1>2 DEF Clean
<1>3. CASE /\ Backup(IF isUpdate[w] THEN None ELSE backup[request.image])
           /\ Go(w, "refresh") /\ UNCHANGED trouble
  <2>1. Installing => w = Doer
    BY <1>1 DEF IInv, Route
  <2>2. Copy' = IF isUpdate[w] THEN None ELSE Copy
    BY <1>1, <1>3 DEF Backup, IInv, Typed, DiskTypes, RunTypes, Requests
  <2>3. Installing => Copy' = None
    BY <1>1, <2>1, <2>2 DEF IInv, Place
  <2> QED BY <1>1, <1>3, <2>1, <2>3 DEF IInv, Typed, WorkerTypes, Clean, Success, Route,
     Place, Go
<1> QED BY <1>1, <1>2, <1>3

LEMMA CleanupBackupStep ==
  ASSUME IInv, Typed', NEW w \in Workers, CleanupBackup(w)
  PROVE  IInv'
<1>1. Clean'
  BY CleanupClean
<1> USE DEF IInv, Typed, CleanupBackup, Go, Smoothly, Trouble, Backup, Cut, runVars, svcVars,
        faultVars
<1>2. Route' /\ Waits' /\ Success' /\ FailureRestores'
  BY DEF Route, Waits, Success, FailureRestores, WorkerTypes
<1>3. Place'
  BY DEF Place, Route, WorkerTypes
<1>4. Removal'
  BY DEF Removal, Gone, Route
<1>5. CopyKept'
  BY DEF CopyKept, DiskTypes, Place, Route, RunTypes, Success, Waits, WorkerTypes
<1> QED BY <1>1, <1>2, <1>3, <1>4, <1>5

\* cn-agent's old version is there, and so its scripts come next.
LEMMA UnpackKeeps ==
  ASSUME IInv, NEW w \in Workers, Unpack(w)
  PROVE  Waits' /\ Clean'
<1>1. /\ stage[w] = "unpack"
      /\ UNCHANGED <<pkg, request, before, runs, dir, backup, links, uuid, service, updater,
              cnapi, blob>>
      /\ \/ Go(w, IF dir # None THEN "scripts" ELSE "preinstall") /\ UNCHANGED trouble
         \/ (Go(w, "dead") \/ Go(w, "failed")) /\ trouble' = trouble \cup {"refused"}
  BY Zenon DEF Unpack, InstallFails, runVars, diskVars, svcVars, Smoothly, faultVars, Trouble
<1>2. Installing /\ w = Doer /\ dir = before
  BY <1>1 DEF IInv, Route, Place, Typed, RunTypes, Requests
<1>3. pkg = Agent => dir # None
  BY <1>2, AgentInstallAssumption DEF IInv, Route
<1>4. Waits'
  BY <1>1, <1>2, <1>3 DEF IInv, Typed, WorkerTypes, Waits, Go
<1>5. Clean'
  BY <1>1, <1>2, <1>3 DEF IInv, Typed, WorkerTypes, Clean, Go
<1> QED BY <1>4, <1>5

LEMMA UnpackStep ==
  ASSUME IInv, Typed', NEW w \in Workers, Unpack(w)
  PROVE  IInv'
<1>1. Waits' /\ Clean'
  BY UnpackKeeps
<1> USE DEF IInv, Typed, Unpack, Go, Smoothly, Trouble, InstallFails, runVars, diskVars,
        svcVars, faultVars
<1>2. Route' /\ Place' /\ Success' /\ FailureRestores'
  BY DEF Route, Place, Success, FailureRestores, WorkerTypes
<1>3. Removal'
  BY DEF Removal, Gone, Route
<1>4. CopyKept'
  BY DEF CopyKept
<1> QED BY <1>1, <1>2, <1>3, <1>4

\* The service goes, or an error is kept.
LEMMA ScriptsRemoval ==
  ASSUME IInv, NEW w \in Workers, UninstallScripts(w)
  PROVE  Removal'
<1>1. SUFFICES ASSUME request'.task = "uninstall", before' \in Images
      PROVE  Removal'
  BY DEF Removal
<1>2. /\ stage[w] = "scripts" /\ UNCHANGED <<request, before, dir, links, uuid, pkg>>
      /\ \/ dir = None
         \/ service' = None /\ Stopped(w, "unlink") /\ UNCHANGED trouble
         \/ Go(w, "unlink") /\ trouble' = trouble \cup {"unnoticed"}
         \/ errs' = TRUE /\ (Go(w, "refresh") \/ Go(w, "dead"))
         \/ errs' = TRUE /\ Stopped(w, "refresh")
  BY <1>1, Zenon DEF UninstallScripts, GivesUp, Smoothly, Trouble, runVars, diskVars, faultVars
<1>3. w = Agent /\ dir = before /\ pkg # Agent
  BY <1>1, <1>2 DEF IInv, Route, Removal
<1> QED BY <1>1, <1>2, <1>3, AgentInstallAssumption DEF IInv, Typed, WorkerTypes, Removal,
   Stopped, Go

LEMMA UninstallScriptsStep ==
  ASSUME IInv, Typed', NEW w \in Workers, UninstallScripts(w)
  PROVE  IInv'
<1>1. Removal'
  BY ScriptsRemoval
<1> USE DEF IInv, Typed, UninstallScripts, Go, Smoothly, Trouble, GivesUp, Stopped, runVars,
        diskVars, faultVars
<1>2. Route'
  BY DEF Route, Place, WorkerTypes
<1>3. Waits' /\ Clean'
  BY DEF Waits, Clean, Finished, Place, Route
<1>4. Place'
  BY DEF Place, Route
<1>5. Success'
  BY DEF Success, Route, WorkerTypes
<1>6. CopyKept'
  BY DEF CopyKept
<1>7. FailureRestores'
  BY DEF FailureRestores, WorkerTypes
<1> QED BY <1>1, <1>2, <1>3, <1>4, <1>5, <1>6, <1>7

LEMMA RmBinLinksStep ==
  ASSUME IInv, Typed', NEW w \in Workers, RmBinLinks(w)
  PROVE  IInv'
<1> USE DEF IInv, Typed, RmBinLinks, Go, Smoothly, Trouble, GivesUp, runVars, svcVars, faultVars
<1>1. Route' /\ Waits'
  BY DEF Route, Waits, WorkerTypes, Unnoticed
<1>2. Place' /\ FailureRestores'
  BY DEF Place, Route, FailureRestores, WorkerTypes
<1>3. Removal'
  BY AgentInstallAssumption DEF Removal, Gone, Route, WorkerTypes, Unnoticed, RunTypes
<1>4. Success'
  BY DEF Success, Route, WorkerTypes, Unnoticed
<1>5. Clean'
  BY DEF Clean, Finished, Route, WorkerTypes
<1>6. CopyKept'
  BY DEF CopyKept
<1> QED BY <1>1, <1>2, <1>3, <1>4, <1>5, <1>6

LEMMA RmPkgPathStep ==
  ASSUME IInv, Typed', NEW w \in Workers, RmPkgPath(w)
  PROVE  IInv'
<1> USE DEF IInv, Typed, RmPkgPath, Go, Smoothly, Trouble, Cut, GivesUp, runVars, svcVars,
        faultVars
<1>1. Route' /\ Waits'
  BY DEF Route, Waits, WorkerTypes
<1>2. Place' /\ Success' /\ Removal' /\ Clean' /\ FailureRestores'
  BY DEF Place, Success, Removal, Gone, Clean, Finished, FailureRestores, Route, WorkerTypes
<1>3. CopyKept'
  BY DEF CopyKept, Place, Route
<1> QED BY <1>1, <1>2, <1>3

LEMMA RemoveTheInstUuidFileStep ==
  ASSUME IInv, Typed', NEW w \in Workers, RemoveTheInstUuidFile(w)
  PROVE  IInv'
<1> USE DEF IInv, Typed, RemoveTheInstUuidFile, Go, Smoothly, Trouble, runVars, svcVars,
        faultVars
<1>1. Route' /\ Waits' /\ Removal' /\ CopyKept' /\ FailureRestores'
  BY DEF Route, Waits, Removal, Gone, CopyKept, FailureRestores
<1>2. Place' /\ Success' /\ Clean'
  BY DEF Place, Success, Clean, Finished, Route
<1> QED BY <1>1, <1>2

LEMMA PreinstallStep ==
  ASSUME IInv, Typed', NEW w \in Workers, Preinstall(w)
  PROVE  IInv'
<1> USE DEF IInv, Typed, Preinstall, Go, Smoothly, Trouble, InstallFails, runVars, diskVars,
        svcVars, faultVars
<1>1. Route' /\ Waits' /\ Place' /\ Success' /\ Clean' /\ FailureRestores'
  BY DEF Route, Waits, Place, Success, Clean, Finished, FailureRestores, WorkerTypes
<1>2. Removal'
  BY DEF Removal, Gone, Route
<1>3. CopyKept'
  BY DEF CopyKept
<1> QED BY <1>1, <1>2, <1>3

LEMMA MoveStep ==
  ASSUME IInv, Typed', NEW w \in Workers, Move(w)
  PROVE  IInv'
<1> USE DEF IInv, Typed, Move, Go, Smoothly, Trouble, Cut, InstallFails, Unpacked, runVars,
        svcVars, faultVars
<1>1. Route' /\ Waits'
  BY DEF Route, Waits, WorkerTypes
<1>2. Place' /\ Clean' /\ FailureRestores'
  BY DEF Place, Clean, Finished, FailureRestores, Route, WorkerTypes
<1>3. Success'
  BY DEF Success, Place, Route, WorkerTypes
<1>4. Removal'
  BY DEF Removal, Gone, Route
<1>5. CopyKept'
  BY DEF CopyKept, Place, Route
<1> QED BY <1>1, <1>2, <1>3, <1>4, <1>5

LEMMA LinkBinsStep ==
  ASSUME IInv, Typed', NEW w \in Workers, LinkBins(w)
  PROVE  IInv'
<1>1. /\ stage[w] = "link"
      /\ UNCHANGED <<pkg, request, before, runs, dir, backup, uuid, service, updater, cnapi,
              blob, isUpdate, errs>>
      /\ \/ links' /\ stage' = [stage EXCEPT ![w] = "postinstall"] /\ UNCHANGED trouble
         \/ /\ stage' = [stage EXCEPT ![w] = "postinstall"]
            /\ trouble' = trouble \cup {"unnoticed"}
         \/ stage' = [stage EXCEPT ![w] = "failed"] /\ trouble' = trouble \cup {"refused"}
  BY Zenon DEF LinkBins, Go, Smoothly, Trouble, InstallFails, runVars, svcVars, faultVars
<1> USE DEF IInv, Typed
<1>2. Route' /\ Waits'
  BY <1>1 DEF Route, Waits, Place, WorkerTypes
<1>3. Place' 
  BY <1>1 DEF Route, Place, WorkerTypes
<1>4. Success'
  BY <1>1 DEF Route, Place, Success, WorkerTypes
<1>5. Clean'
  BY <1>1 DEF Route, Place, Success, Clean, WorkerTypes
<1>6. FailureRestores'
  BY <1>1 DEF Route, Place, Success, FailureRestores, WorkerTypes
<1>7. Removal' /\ CopyKept'
  BY <1>1 DEF Route, Removal, CopyKept, WorkerTypes
<1> QED BY <1>1, <1>2, <1>3, <1>4, <1>5, <1>6, <1>7

LEMMA PostinstallStep ==
  ASSUME IInv, Typed', NEW w \in Workers, Postinstall(w)
  PROVE  IInv'
<1>1. /\ stage[w] = "postinstall"
      /\ UNCHANGED <<pkg, request, before, runs, dir, backup, links, updater, cnapi, blob,
              isUpdate, errs>>
      /\ \/ /\ service' = dir /\ uuid' /\ UNCHANGED trouble
            /\ stage' = [stage EXCEPT ![w] = "cleanup"]
         \/ /\ stage' = [stage EXCEPT ![w] = "cleanup"]
            /\ trouble' = trouble \cup {"unnoticed"}
         \/ stage' = [stage EXCEPT ![w] = "failed"] /\ trouble' = trouble \cup {"refused"}
         \/ dir \notin Images /\ stage' = [stage EXCEPT ![w] = "failed"] /\ UNCHANGED trouble
         \/ dir \notin Images /\ stage' = [stage EXCEPT ![w] = "cleanup"] /\ UNCHANGED <<service,
                 uuid, trouble>>
  BY Zenon DEF Postinstall, Go, Smoothly, Trouble, InstallFails, runVars, svcVars, faultVars
<1> USE DEF IInv, Typed
<1>8. request.image \in Images
  BY DEF RunTypes, Requests
<1>2. Route' /\ Waits'
  BY <1>1 DEF Route, Waits, Place, WorkerTypes
<1>3. Place' 
  BY <1>1 DEF Route, Place, WorkerTypes
<1>4. Success'
  BY <1>1, <1>8 DEF Route, Place, Success, WorkerTypes
<1>5. Clean'
  BY <1>1, <1>8 DEF Route, Place, Success, Clean, WorkerTypes
<1>6. FailureRestores'
  BY <1>1 DEF Route, Place, Success, FailureRestores, WorkerTypes
<1>7. Removal' /\ CopyKept'
  BY <1>1 DEF Route, Removal, CopyKept, WorkerTypes
<1> QED BY <1>1, <1>2, <1>3, <1>4, <1>5, <1>6, <1>7

\* What CNAPI is told is what is there.
LEMMA RefreshClean ==
  ASSUME IInv, NEW w \in Workers, RefreshAgents(w)
  PROVE  Clean'
<1> SUFFICES ASSUME Installing, runs > 0, trouble' = {}, before # Damaged, 
                    UNCHANGED <<pkg, request, before, runs, dir, backup, links, uuid, service,
                            updater>>
    PROVE Clean'
  BY DEF RefreshAgents, Clean, runVars, diskVars, svcVars
<1>1. /\ stage[w] = "refresh" /\ UNCHANGED trouble
      /\ cnapi' \in (IF dir = Damaged THEN Images ELSE {dir})
      /\ Go(w, AfterRefresh(w, TRUE))
  <2>1. trouble' # trouble \cup {"refresh"}
    OBVIOUS
  <2> QED BY <2>1, Zenon DEF RefreshAgents, Smoothly, faultVars, Trouble
<1>2. w = Doer /\ Updated
  BY <1>1 DEF IInv, Route, Clean, Typed, RunTypes, Requests
<1>3. cnapi' = request.image
  BY <1>1, <1>2, AgentInstallAssumption DEF IInv, Typed, RunTypes, Requests
<1> QED BY <1>1, <1>2, <1>3 DEF IInv, Typed, WorkerTypes, Clean, Finished, Route, Go,
   AfterRefresh

LEMMA RefreshAgentsStep ==
  ASSUME IInv, Typed', NEW w \in Workers, RefreshAgents(w)
  PROVE  IInv'
<1>1. Clean'
  BY RefreshClean
<1> USE DEF IInv, Typed, RefreshAgents, Go, Smoothly, Trouble, Unreadable, AfterRefresh,
        runVars, diskVars, svcVars, faultVars
<1>2. Route' /\ Waits' /\ Place' /\ Success' /\ Removal' /\ FailureRestores'
  BY DEF Route, Waits, Place, Success, Removal, Gone, FailureRestores, WorkerTypes
<1>3. CopyKept'
  BY DEF CopyKept
<1> QED BY <1>1, <1>2, <1>3

\* The new version's service, which is asked to stop the updater, runs.
LEMMA NotifyKeeps ==
  ASSUME IInv, NEW w \in Workers, Notify(w)
  PROVE  Clean' /\ FailureRestores'
<1>1. /\ stage[w] = "notify"
      /\ UNCHANGED <<pkg, request, before, runs, dir, backup, links, uuid, service, cnapi>>
      /\ \/ TakesTasks /\ updater' = FALSE /\ (Go(w, "ok") \/ Go(w,
              "dead")) /\ UNCHANGED trouble
         \/ ~TakesTasks /\ Go(w, "fatal") /\ UNCHANGED <<updater, trouble>>
         \/ Go(w, "fatal") /\ trouble' = trouble \cup {"refused"}
  BY Zenon DEF Notify, runVars, diskVars, Smoothly, faultVars, Trouble
<1>2. Installing /\ pkg = Agent /\ w = Doer /\ before \in Images
  BY <1>1 DEF IInv, Route, Typed, RunTypes, Requests
<1>3. "uninstall" \notin trouble => dir = request.image /\ (Updated \/ Unnoticed)
  BY <1>1, <1>2, AgentInstallAssumption DEF IInv, Success
<1>4. trouble = {} => Updated /\ TakesTasks
  BY <1>3, AgentInstallAssumption DEF TakesTasks, Updated, Unnoticed, IInv, Typed, RunTypes, Requests
<1>5. Clean'
  <2> SUFFICES ASSUME trouble' = {}, runs > 0, before # Damaged PROVE Clean'
    BY <1>1 DEF Clean
  <2>1. trouble = {} /\ updater' = FALSE /\ (Go(w, "ok") \/ Go(w, "dead"))
    BY <1>1, <1>4
  <2>2. Finished'
    BY <1>1, <1>2, <2>1 DEF IInv, Clean, Finished
  <2>3. stage[Agent] # "fatal" /\ stage[Agent] # "check" /\ stage[Agent] # "waiting"
    BY <1>1, <1>2, <2>1 DEF IInv, Clean, Route
  <2> QED BY <1>1, <1>2, <2>1, <2>2, <2>3 DEF IInv, Typed, WorkerTypes, Clean, Go
<1>6. FailureRestores'
  BY <1>1, <1>2, <1>3 DEF IInv, Typed, WorkerTypes, FailureRestores, Go
<1> QED BY <1>5, <1>6

LEMMA NotifyStep ==
  ASSUME IInv, Typed', NEW w \in Workers, Notify(w)
  PROVE  IInv'
<1>1. Clean' /\ FailureRestores'
  BY NotifyKeeps
<1> USE DEF IInv, Typed, Notify, Go, Smoothly, Trouble, TakesTasks, runVars, diskVars, faultVars
<1>2. Route' /\ Place' /\ Success'
  BY DEF Route, Place, Success, WorkerTypes
<1>3. Waits'
  BY DEF Waits, Route, WorkerTypes
<1>4. Removal'
  BY DEF Removal, Gone, Route
<1>5. CopyKept'
  BY DEF CopyKept
<1> QED BY <1>1, <1>2, <1>3, <1>4, <1>5

LEMMA StepIInv ==
  ASSUME IInv, NEW w \in Workers, Step(w)
  PROVE  IInv'
<1>1. Typed'
  <2>1. History
    BY StepHistory
  <2> QED BY <2>1, HistoryKept, StepDisk, StepWorkers DEF IInv, Typed
<1> QED
  BY <1>1, DownloadStep, CheckImageStep, EnableUpdaterStep, HandOffStep, HandedOffStep,
     IsUpdateStep, CleanupPreviousBackupStep, BackupAgentStep, CleanupFailedInstallStep,
     RestoreBackupStep, CleanupBackupStep, UnpackStep, UninstallScriptsStep, RmBinLinksStep,
     RmPkgPathStep, RemoveTheInstUuidFileStep, PreinstallStep, MoveStep, LinkBinsStep,
     PostinstallStep, RefreshAgentsStep, NotifyStep DEF Step

-----------------------------------------------------------------------------
(***************************************************************************)
(* Requests and deaths.                                                    *)
(***************************************************************************)

\* Whatever is on disk, a request finds it as its own past: cn-agent only answers
\* when it is whole.
LEMMA RequestStep ==
  ASSUME IInv, NEW r \in Requests, Request(r)
  PROVE  IInv'
<1> USE DEF IInv, Request, diskVars, svcVars
<1>1. /\ stage'[Updater] = "idle" /\ runs' # 0 /\ trouble' = {} /\ before' = dir'
      /\ r.task \in {"install", "uninstall", "refresh"}
      /\ stage'[Agent] = CASE r.task = "install" -> "image" [] r.task = "uninstall" -> "scripts"
                           [] OTHER -> "refresh"
  BY DEF Typed, RunTypes, Requests
<1>2. /\ r.task = "install" => stage'[Agent] = "image"
      /\ r.task = "uninstall" => stage'[Agent] = "scripts"
      /\ r.task = "refresh" => stage'[Agent] = "refresh"
  BY <1>1
<1>3. DiskTypes'
  BY DEF Typed, DiskTypes
<1>4. WorkerTypes'
  <2>1. stage' \in [Workers -> Stages]
    BY DEF Stages, InstallStages
  <2> QED BY <2>1 DEF WorkerTypes
<1>5. RunTypes'
  BY AgentInstallAssumption DEF Typed, RunTypes, DiskTypes, faultVars
<1>6. pkg = Agent => dir \in Images
  BY DEF TakesTasks
<1>7. Route'
  BY <1>1, <1>2, <1>6 DEF Route
<1>8. Waits' /\ Place' /\ Success' /\ Removal' /\ Clean'
  BY <1>1, <1>2 DEF Waits, Place, Success, Removal, Clean
<1>9. CopyKept' /\ FailureRestores'
  BY <1>1, <1>2 DEF CopyKept, FailureRestores
<1> QED BY <1>3, <1>4, <1>5, <1>7, <1>8, <1>9 DEF Typed

\* What is on disk, and that there was trouble, is all that is left to tell.
LEMMA DeathStep ==
  ASSUME IInv, WorkersDie
  PROVE  IInv'
<1>1. PICK W \in SUBSET Workers :
        /\ W # {} /\ \A w \in W : stage[w] \notin Over
        /\ stage' = [w \in Workers |-> IF w \in W THEN "dead" ELSE stage[w]]
  BY DEF WorkersDie
<1>2. UNCHANGED <<runVars, diskVars, svcVars, cnapi, blob, isUpdate, errs>> /\ Trouble("crash")
  BY DEF WorkersDie
<1> USE DEF IInv, Typed, runVars, diskVars, svcVars, Trouble
<1>3. DiskTypes'
  BY <1>2 DEF DiskTypes
<1>4. WorkerTypes'
  <2>1. stage' \in [Workers -> Stages]
    BY <1>1 DEF WorkerTypes, Stages
  <2> QED BY <1>2, <2>1 DEF WorkerTypes
<1>5. RunTypes'
  <2>1. History
    BY <1>2 DEF History, Troubles
  <2> QED BY <2>1, HistoryKept
<1>6. /\ \A w \in Workers : stage'[w] # stage[w] => stage'[w] = "dead" /\ stage[w] \notin Over
      /\ "crash" \in trouble' /\ ("uninstall" \in trouble => "uninstall" \in trouble')
  BY <1>1, <1>2
<1>7. Route' /\ Waits'
  BY <1>2, <1>6 DEF Route, Waits
<1>8. Place' /\ Success' /\ Removal' /\ Clean'
  BY <1>2, <1>6 DEF Place, Success, Removal, Clean, Gone
<1>9. CopyKept' /\ FailureRestores'
  BY <1>2, <1>6 DEF CopyKept, FailureRestores
<1> QED BY <1>3, <1>4, <1>5, <1>7, <1>8, <1>9

LEMMA InitIInv == Init => IInv
<1> SUFFICES ASSUME Init PROVE IInv
  OBVIOUS
<1> USE DEF Init
<1>1. DiskTypes /\ WorkerTypes
  BY DEF DiskTypes, WorkerTypes, Dirs, Stages
<1>2. RunTypes
  BY AgentInstallAssumption DEF RunTypes, Dirs
<1>3. stage[Agent] = "idle" /\ stage[Updater] = "idle"
  OBVIOUS
<1>4. Route /\ Waits /\ Place /\ Success
  BY <1>3 DEF Route, Waits, Place, Success
<1>5. Removal /\ Clean /\ CopyKept /\ FailureRestores
  BY <1>3 DEF Removal, Clean, CopyKept, FailureRestores
<1> QED BY <1>1, <1>2, <1>4, <1>5 DEF IInv, Typed

LEMMA NextIInv == IInv /\ [Next]_vars => IInv'
<1>1. IInv /\ Next => IInv'
  BY StepIInv, RequestStep, DeathStep DEF Next
<1>2. IInv /\ UNCHANGED vars => IInv'
  BY DEF vars, diskVars, svcVars, workerVars, runVars, faultVars, IInv, Typed, DiskTypes,
     WorkerTypes, RunTypes, Route, Waits, Place, Success, Removal, Gone, Clean, Finished,
     CopyKept, FailureRestores
<1> QED BY <1>1, <1>2

LEMMA IInvAlways == Spec => []IInv
<1> QED BY InitIInv, NextIInv, PTL DEF Spec

-----------------------------------------------------------------------------
(***************************************************************************)
(* The results.                                                            *)
(***************************************************************************)

\* Every reachable state is well typed, and the second service is enabled, and has
\* a worker, for cn-agent's own update only (sendCNAgentTask of agent_install.js).
THEOREM TypeCorrect == Spec => []TypeOK
<1>1. IInv => TypeOK
  BY DEF IInv, Typed, DiskTypes, WorkerTypes, RunTypes, Route, TypeOK
<1> QED BY <1>1, IInvAlways, PTL

\* From the moment an update is asked for the version before or the new one is in
\* place, or the version before is in the copy, wherever workers die and commands
\* fail, but for those of the uninstallation, and however many runs came before
\* (backupAgent, restoreBackup and cleanupBackup of agent_install.js).
THEOREM OldVersionKept == Spec => []CopyKept
<1>1. IInv => CopyKept
  BY DEF IInv
<1> QED BY <1>1, IInvAlways, PTL

\* An installation that is reported as a failure has put the old version back
\* (restoreBackup of agent_install.js).
THEOREM FailureUndone == Spec => []FailureRestores
<1>1. IInv => FailureRestores
  BY DEF IInv
<1> QED BY <1>1, IInvAlways, PTL

\* What a reported success can be relied upon for, after an update and after a
\* removal (agent_install.js, uninstallPackages of apm.js).
THEOREM SuccessReliable == Spec => []SuccessMeans
<1>1. IInv => SuccessMeans
  <2> SUFFICES ASSUME IInv PROVE SuccessMeans
    OBVIOUS
  <2> USE DEF IInv
  <2>1. ASSUME NEW w \in Workers, stage[w] = "ok", Installing, before \in Images,
               "uninstall" \notin trouble
        PROVE  dir = request.image /\ (Updated \/ Unnoticed)
    <3>1. stage[Doer] = "ok"
      BY <2>1 DEF Route
    <3>2. before # None
      BY <2>1, AgentInstallAssumption
    <3> QED BY <2>1, <3>1, <3>2 DEF Success
  <2>2. stage[Agent] = "ok" /\ request.task = "uninstall" /\ before \in Images => Gone
    BY DEF Removal
  <2> QED BY <2>1, <2>2 DEF SuccessMeans, Gone
<1> QED BY <1>1, IInvAlways, PTL

\* Whatever other runs left on disk, a run in which nothing goes wrong ends with the
\* version installed, CNAPI told, the copy gone and the second service stopped
\* (agent_install.js:30).
THEOREM RunsAreIdempotent == Spec => []Idempotent
<1>1. IInv => Idempotent
  <2> SUFFICES ASSUME IInv, AllOver, runs > 0, Installing, trouble = {}, before # Damaged
               PROVE  Finished /\ \A w \in Workers : stage[w] # "fatal"
    BY DEF Idempotent, Finished
  <2> USE DEF IInv
  <2>1. runs # 0 /\ stage[Agent] # "idle"
    BY DEF Route, Typed, RunTypes
  <2>2. stage[Doer] \in {"ok", "dead"}
    BY <2>1 DEF AllOver, Clean
  <2>3. \A w \in Workers : stage[w] # "fatal"
    BY <2>2 DEF Clean, Route
  <2> QED BY <2>2, <2>3 DEF Clean
<1> QED BY <1>1, IInvAlways, PTL

=============================================================================
