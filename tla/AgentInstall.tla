---------------------------- MODULE AgentInstall ----------------------------
(***************************************************************************)
(* Installing, updating and removing one agent of the compute node: the    *)
(* tasks agent_install, agents_uninstall and refresh_agents, the package   *)
(* manager apm.js, getAgentImage() and cn-agent's own lifecycle scripts.   *)
(*                                                                         *)
(* An update copies the old version aside, replaces it and copies it back  *)
(* when that fails.  cn-agent's own update would stop the process that     *)
(* performs it, so cn-agent hands it to a second service, cn-agent-update, *)
(* which hands back the task of ending that service.                       *)
(*                                                                         *)
(* Any command may fail half way and any worker may die; what is on disk   *)
(* stays for the next run.  Requests come one after the other.             *)
(***************************************************************************)
EXTENDS Naturals

CONSTANTS
  Images,     \* the versions of the agent
  MaxRuns,    \* bound: requests
  MaxFaults   \* bound: commands that fail and workers that die

None == "none"
Damaged == "damaged"   \* what a copy, a move or a removal cut short leaves

ASSUME AgentInstallAssumption ==
  /\ None \notin Images /\ Damaged \notin Images
  /\ MaxRuns \in Nat /\ MaxFaults \in Nat

VARIABLES
  pkg,       \* the agent is cn-agent itself, or another
  dir,       \* lib/node_modules/<agent>
  backup,    \* lib/node_modules/<agent>.updating-to.<image>
  links,     \* bin/ links to its programs
  uuid,      \* etc/<agent>: its instance
  service,   \* the version whose postinstall set up the service
  updater,   \* the service cn-agent-update is enabled
  cnapi,     \* the version CNAPI was last told
  request,   \* what was asked for
  stage,     \* where the worker of each service is
  blob,      \* the archive in /var/tmp
  isUpdate,  \* is_update of each worker
  errs,      \* agents_uninstall has met an error
  runs, faults,
  \* History, for the properties.
  before,    \* dir when the request came
  trouble    \* what went wrong since

diskVars   == <<dir, backup, links, uuid>>
svcVars    == <<service, updater>>
workerVars == <<stage, blob, isUpdate, errs>>
runVars    == <<pkg, request, before, runs>>
faultVars  == <<faults, trouble>>
vars == <<diskVars, svcVars, cnapi, workerVars, runVars, faultVars>>

Agent == "cn-agent"
Updater == "cn-agent-update"
Workers == {Agent, Updater}

Over == {"idle", "ok", "fatal", "dead"}
InstallStages ==
  {"image", "check", "enable", "handoff", "waiting", "stat", "unbackup", "backup",
   "unpack", "scripts", "unlink", "rmdir", "preinstall", "move", "link", "postinstall",
   "failed", "restore", "cleanup", "notify"}
Stages == Over \cup InstallStages \cup {"uuid", "refresh"}

Dirs == Images \cup {None, Damaged}
\* "unnoticed": a step that failed is taken for one that succeeded.
Troubles == {"refused", "uninstall", "restore", "crash", "disk", "refresh", "unnoticed"}
Requests == [task : {"install", "uninstall", "refresh"}, image : Images]

TypeOK ==
  /\ pkg \in {"agent", Agent}
  /\ dir \in Dirs /\ backup \in [Images -> Dirs] /\ {links, uuid, updater} \subseteq BOOLEAN
  /\ service \in Images \cup {None} /\ cnapi \in Images \cup {None}
  /\ request \in Requests /\ stage \in [Workers -> Stages]
  /\ blob \in {"none", "good", "bad"} /\ isUpdate \in [Workers -> BOOLEAN] /\ errs \in BOOLEAN
  /\ runs \in 0 .. MaxRuns /\ faults \in 0 .. MaxFaults
  /\ before \in Dirs /\ trouble \subseteq Troubles
  \* The second service is there for cn-agent's own update only.
  /\ pkg # Agent => ~updater /\ stage[Updater] = "idle"

Init ==
  /\ pkg \in {"agent", Agent}
  /\ dir \in IF pkg = Agent THEN Images ELSE Images \cup {None}
  /\ service = dir /\ links = (dir # None) /\ uuid = (dir # None) /\ cnapi = dir
  /\ backup = [i \in Images |-> None]
  /\ updater = FALSE
  /\ request \in Requests /\ stage = [w \in Workers |-> "idle"]
  /\ blob = "none" /\ isUpdate = [w \in Workers |-> TRUE] /\ errs = FALSE
  /\ runs = 0 /\ faults = 0
  /\ before = dir /\ trouble = {}

Go(w, s) == stage' = [stage EXCEPT ![w] = s]

\* Something goes wrong, as often as the bound allows.
Trouble(kind) == faults < MaxFaults /\ faults' = faults + 1 /\ trouble' = trouble \cup {kind}
Smoothly == UNCHANGED faultVars

\* cn-agent runs, and its workers are forked from its own directory.
TakesTasks == pkg # Agent \/ (service # None /\ dir \in Images)

\* Requests come when nothing is under way.  cn-agent is not asked to remove itself.
Request(r) ==
  /\ runs < MaxRuns /\ runs' = runs + 1
  /\ \A w \in Workers : stage[w] \in Over
  /\ TakesTasks /\ (r.task = "uninstall" => pkg # Agent)
  /\ request' = r /\ before' = dir /\ trouble' = {} /\ blob' = "none"
  /\ stage' = [w \in Workers |->
       IF w = Updater THEN "idle"
       ELSE CASE r.task = "install" -> "image" [] r.task = "uninstall" -> "scripts"
              [] OTHER -> "refresh"]
  /\ isUpdate' = [w \in Workers |-> TRUE] /\ errs' = FALSE
  /\ UNCHANGED <<pkg, diskVars, svcVars, cnapi, faults>>

-----------------------------------------------------------------------------
(***************************************************************************)
(* Getting the image, and deciding who installs it.                        *)
(***************************************************************************)

\* The manifest and the file; a download may end early, or with other bytes.
Download(w) ==
  /\ stage[w] = "image"
  /\ \/ blob' = "good" /\ Go(w, "check") /\ Smoothly
     \/ blob' = "bad" /\ Go(w, "check") /\ Trouble("refused")
     \/ Go(w, "fatal") /\ Trouble("refused") /\ UNCHANGED blob
  /\ UNCHANGED <<runVars, diskVars, svcVars, cnapi, isUpdate, errs>>

\* Size, sha1, compression and the image_uuid within.
Checks == blob = "good"

DoUpdateAlways(w) == TRUE
DoUpdateByPort(w) == w = Updater
\* do_update: cn-agent leaves its own update to the other service.
DoUpdate(w) == pkg # Agent \/ w = Updater

CheckImage(w) ==
  /\ stage[w] = "check"
  /\ \/ Checks /\ Go(w, IF DoUpdate(w) THEN "stat" ELSE "enable") /\ Smoothly
     \/ ~Checks /\ Go(w, "fatal") /\ Smoothly
     \/ Go(w, "fatal") /\ Trouble("refused")
  /\ UNCHANGED <<runVars, diskVars, svcVars, cnapi, blob, isUpdate, errs>>

EnableUpdater(w) ==
  /\ stage[w] = "enable"
  /\ \/ updater' = TRUE /\ Go(w, "handoff") /\ Smoothly
     \/ Go(w, "fatal") /\ Trouble("refused") /\ UNCHANGED updater
  /\ UNCHANGED <<runVars, diskVars, service, cnapi, blob, isUpdate, errs>>

\* The updater's task has the file already.  It may not be up after 5 seconds.
HandOff(w) ==
  /\ stage[w] = "handoff"
  /\ \/ updater /\ stage' = [stage EXCEPT ![w] = "waiting", ![Updater] = "stat"] /\ Smoothly
     \/ Go(w, "fatal") /\ Trouble("refused")
  /\ UNCHANGED <<runVars, diskVars, svcVars, cnapi, blob, isUpdate, errs>>

HandedOffInTime(w) ==
  /\ stage[w] = "waiting" /\ stage[Updater] = "ok"
  /\ Go(w, "stat") /\ Smoothly
  /\ UNCHANGED <<runVars, diskVars, svcVars, cnapi, blob, isUpdate, errs>>
\* The answer to that POST: the task's end, or a broken connection.
HandedOff(w) ==
  /\ stage[w] = "waiting" /\ stage[Updater] \in Over
  /\ Go(w, IF stage[Updater] = "ok" THEN "stat" ELSE "fatal") /\ Smoothly
  /\ UNCHANGED <<runVars, diskVars, svcVars, cnapi, blob, isUpdate, errs>>

IsUpdate(w) ==
  /\ stage[w] = "stat"
  /\ isUpdate' = [isUpdate EXCEPT ![w] = dir # None]
  /\ Go(w, "unbackup") /\ Smoothly
  /\ UNCHANGED <<runVars, diskVars, svcVars, cnapi, blob, errs>>

-----------------------------------------------------------------------------
(***************************************************************************)
(* The copy.                                                               *)
(***************************************************************************)
Cut(d) == {d, Damaged}

Backup(d) == backup' = [backup EXCEPT ![request.image] = d]

AfterUnbackup(w) ==
  IF ~DoUpdate(w) THEN "ok" ELSE IF isUpdate[w] THEN "backup" ELSE "unpack"

CleanupPreviousBackup(w) ==
  /\ stage[w] = "unbackup"
  /\ \/ Backup(None) /\ Go(w, AfterUnbackup(w)) /\ Smoothly
     \/ /\ backup[request.image] # None
        /\ \E d \in Cut(backup[request.image]), s \in {"fatal", "dead"} : Backup(d) /\ Go(w, s)
        /\ Trouble("disk")
  /\ UNCHANGED <<runVars, dir, links, uuid, svcVars, cnapi, blob, isUpdate, errs>>

BackupAgentNot(w) ==
  /\ stage[w] = "backup"
  /\ Go(w, "unpack") /\ Smoothly
  /\ UNCHANGED <<runVars, diskVars, svcVars, cnapi, blob, isUpdate, errs>>
BackupAgent(w) ==
  /\ stage[w] = "backup"
  /\ \/ Backup(dir) /\ Go(w, "unpack") /\ Smoothly
     \/ /\ \E d \in Cut(None), s \in {"fatal", "dead"} : Backup(d) /\ Go(w, s)
        /\ Trouble("disk")
  /\ UNCHANGED <<runVars, dir, links, uuid, svcVars, cnapi, blob, isUpdate, errs>>

\* The failed version goes.
CleanupFailedInstall(w) ==
  /\ stage[w] = "failed"
  /\ \/ dir' = None /\ Go(w, IF isUpdate[w] THEN "restore" ELSE "refresh") /\ Smoothly
     \/ /\ dir' \in Cut(dir) /\ \E s \in {"fatal", "dead"} : Go(w, s)
        /\ Trouble("restore")
  /\ UNCHANGED <<runVars, backup, links, uuid, svcVars, cnapi, blob, isUpdate, errs>>

RestoreBackupNot(w) ==
  /\ stage[w] = "restore" /\ Go(w, "fatal") /\ Smoothly
  /\ UNCHANGED <<runVars, diskVars, svcVars, cnapi, blob, isUpdate, errs>>
\* The old directory comes back; its links and its service do not.
RestoreBackup(w) ==
  /\ stage[w] = "restore"
  /\ \/ dir' = backup[request.image] /\ Go(w, "fatal") /\ Smoothly
     \/ /\ dir' \in Cut(None) /\ \E s \in {"fatal", "dead"} : Go(w, s)
        /\ Trouble("restore")
  /\ UNCHANGED <<runVars, backup, links, uuid, svcVars, cnapi, blob, isUpdate, errs>>

\* A copy that cannot be removed is left.
CleanupBackup(w) ==
  /\ stage[w] = "cleanup"
  /\ \/ Backup(IF isUpdate[w] THEN None ELSE backup[request.image]) /\ Go(w, "refresh") /\ Smoothly
     \/ /\ isUpdate[w] /\ \E d \in Cut(backup[request.image]), s \in {"refresh", "dead"} :
                             Backup(d) /\ Go(w, s)
        /\ Trouble("disk")
  /\ UNCHANGED <<runVars, dir, links, uuid, svcVars, cnapi, blob, isUpdate, errs>>

-----------------------------------------------------------------------------
(***************************************************************************)
(* apm.js: installPackage() and uninstallPackage().                        *)
(***************************************************************************)

\* The error goes to agent_install, which cleans up.
InstallFails(w) == Go(w, "failed")

\* A tar that fails calls back twice, which is an exception; a directory that
\* cannot be made is an error.
Unpack(w) ==
  /\ stage[w] = "unpack"
  /\ \/ Go(w, IF dir # None THEN "scripts" ELSE "preinstall") /\ Smoothly
     \/ Go(w, "dead") /\ Trouble("refused")
     \/ InstallFails(w) /\ Trouble("refused")
  /\ UNCHANGED <<runVars, diskVars, svcVars, cnapi, blob, isUpdate, errs>>

\* Where a failing uninstallPackage() leads: an install ignores it, the task
\* agents_uninstall tells CNAPI what is left and fails.
GivesUp(w) == IF request.task = "install" THEN "preinstall" ELSE "refresh"

\* The service of the old version goes, and with cn-agent's all its workers.
Stopped(w, s) ==
  stage' = [v \in Workers |->
    IF pkg = Agent /\ v = Agent /\ stage[v] \notin Over THEN "dead"
    ELSE IF v = w THEN s ELSE stage[v]]

\* preuninstall and postuninstall.  A script that a signal ended has no exit code,
\* and so counts as a success, with the service still there.  A damaged version
\* may have no scripts, or no package.json, the reading of which is an exception.
UninstallScripts(w) ==
  /\ stage[w] = "scripts"
  /\ \/ /\ dir = None /\ Go(w, "uuid") /\ Smoothly /\ UNCHANGED <<service, errs>>
     \/ /\ dir # None /\ service' = None /\ Stopped(w, "unlink") /\ Smoothly /\ UNCHANGED errs
     \/ /\ dir # None /\ UNCHANGED <<service, errs>> /\ Go(w, "unlink") /\ Trouble("unnoticed")
     \/ /\ dir # None /\ errs' = TRUE /\ Trouble("uninstall")
        /\ \/ UNCHANGED service /\ Go(w, GivesUp(w))
           \/ service' = None /\ Stopped(w, GivesUp(w))
     \/ /\ dir = Damaged /\ (Go(w, GivesUp(w)) \/ Go(w, "dead")) /\ errs' = TRUE
        /\ trouble' = trouble \cup {"uninstall"} /\ UNCHANGED <<faults, service>>
  /\ UNCHANGED <<runVars, diskVars, updater, cnapi, blob, isUpdate>>

\* A link whose program is lost is not found by fs.stat(), and stays.
RmBinLinks(w) ==
  /\ stage[w] = "unlink"
  /\ \/ links' = FALSE /\ Go(w, "rmdir") /\ Smoothly /\ UNCHANGED errs
     \/ dir = Damaged /\ Go(w, "rmdir") /\ Smoothly /\ UNCHANGED <<links, errs>>
     \/ links /\ Go(w, GivesUp(w)) /\ errs' = TRUE /\ Trouble("uninstall") /\ UNCHANGED links
  /\ UNCHANGED <<runVars, dir, backup, uuid, svcVars, cnapi, blob, isUpdate>>

RmPkgPathUnnoticed(w) ==
  /\ stage[w] = "rmdir"
  /\ \/ /\ dir' = None /\ Smoothly
        /\ Go(w, IF request.task = "install" THEN "preinstall" ELSE "uuid")
     \/ /\ dir' \in Cut(dir) /\ Trouble("uninstall")
        /\ (Go(w, GivesUp(w)) \/ Go(w, "dead"))
  /\ UNCHANGED <<runVars, backup, links, uuid, svcVars, cnapi, blob, isUpdate, errs>>
RmPkgPath(w) ==
  /\ stage[w] = "rmdir"
  /\ \/ /\ dir' = None /\ Smoothly /\ UNCHANGED errs
        /\ Go(w, IF request.task = "install" THEN "preinstall" ELSE "uuid")
     \/ /\ dir' \in Cut(dir) /\ errs' = TRUE /\ Trouble("uninstall")
        /\ (Go(w, GivesUp(w)) \/ Go(w, "dead"))
  /\ UNCHANGED <<runVars, backup, links, uuid, svcVars, cnapi, blob, isUpdate>>

\* removeInstanceUuidFile: only agents_uninstall asks for it.
RemoveTheInstUuidFile(w) ==
  /\ stage[w] = "uuid" /\ Go(w, "refresh")
  /\ \/ uuid' = FALSE /\ Smoothly /\ UNCHANGED errs
     \/ uuid /\ errs' = TRUE /\ Trouble("uninstall") /\ UNCHANGED uuid
  /\ UNCHANGED <<runVars, dir, backup, links, svcVars, cnapi, blob, isUpdate>>

\* The new version may refuse this platform.
Preinstall(w) ==
  /\ stage[w] = "preinstall"
  /\ \/ Go(w, "move") /\ Smoothly
     \/ InstallFails(w) /\ Trouble("refused")
  /\ UNCHANGED <<runVars, diskVars, svcVars, cnapi, blob, isUpdate, errs>>

Unpacked == IF blob = "good" THEN request.image ELSE Damaged

\* mv, to another file system.  Where the old directory still is, the new one
\* comes to lie within it.
Move(w) ==
  /\ stage[w] = "move"
  /\ \/ dir' = (IF dir = None THEN Unpacked ELSE dir) /\ Go(w, "link") /\ Smoothly
     \/ /\ dir' \in (IF dir = None THEN Cut(None) ELSE {dir})
        /\ (InstallFails(w) \/ Go(w, "dead")) /\ Trouble("refused")
  /\ UNCHANGED <<runVars, backup, links, uuid, svcVars, cnapi, blob, isUpdate, errs>>

\* Only fs.chmod() can fail this step: any error of fs.symlink() is dropped, be it
\* that the link is there already or that it cannot be made.
LinkBins(w) ==
  /\ stage[w] = "link"
  /\ \/ links' = TRUE /\ Go(w, "postinstall") /\ Smoothly
     \/ UNCHANGED links /\ Go(w, "postinstall") /\ Trouble("unnoticed")
     \/ links' \in {links, TRUE} /\ InstallFails(w) /\ Trouble("refused")
  /\ UNCHANGED <<runVars, dir, backup, uuid, svcVars, cnapi, blob, isUpdate, errs>>

\* The script of the directory that is there; its service starts before SAPI
\* has taken the instance.  When a signal ends it, what it has done so far counts
\* as a success.  updateSysinfo() after it cannot fail the task.
Postinstall(w) ==
  /\ stage[w] = "postinstall"
  /\ \/ /\ dir \in Images /\ service' = dir /\ uuid' = TRUE /\ Go(w, "cleanup") /\ Smoothly
     \/ /\ dir \in Images /\ service' \in {service, dir} /\ uuid' \in {uuid, TRUE}
        /\ Go(w, "cleanup") /\ Trouble("unnoticed")
     \/ /\ dir \in Images /\ service' \in {service, dir} /\ uuid' \in {uuid, TRUE}
        /\ InstallFails(w) /\ Trouble("refused")
     \/ /\ dir \notin Images /\ UNCHANGED <<service, uuid>>
        /\ (InstallFails(w) \/ Go(w, "cleanup")) /\ Smoothly
  /\ UNCHANGED <<runVars, dir, backup, links, updater, cnapi, blob, isUpdate, errs>>

-----------------------------------------------------------------------------
(***************************************************************************)
(* The end: CNAPI is told, and the second service stopped.                 *)
(***************************************************************************)

\* A damaged directory in lib/node_modules may lack the image_uuid that is read.
Unreadable == dir = Damaged \/ \E i \in Images : backup[i] = Damaged

\* agent_install does not fail for want of it, the other two tasks do.
AfterRefresh(w, fine) ==
  IF request.task # "install" /\ (errs \/ ~fine) THEN "fatal"
  ELSE IF request.task = "install" /\ pkg = Agent THEN "notify" ELSE "ok"

\* A request CNAPI does not take is no error; everything before it is.
RefreshAgents(w) ==
  /\ stage[w] = "refresh"
  /\ \/ /\ cnapi' \in (IF dir = Damaged THEN Images ELSE {dir})
        /\ Go(w, AfterRefresh(w, TRUE)) /\ Smoothly
     \/ UNCHANGED cnapi /\ (\E fine \in BOOLEAN : Go(w, AfterRefresh(w, fine))) /\ Trouble("refresh")
     \/ /\ Unreadable /\ UNCHANGED <<cnapi, faults>> /\ Go(w, AfterRefresh(w, FALSE))
        /\ trouble' = trouble \cup {"refresh"}
  /\ UNCHANGED <<runVars, diskVars, svcVars, blob, isUpdate, errs>>

\* shutdown_cn_agent_update, asked of cn-agent: the answer and the end of the
\* asking service race.
Notify(w) ==
  /\ stage[w] = "notify"
  /\ \/ TakesTasks /\ updater' = FALSE /\ \E s \in {"ok", "dead"} : Go(w, s) /\ Smoothly
     \/ ~TakesTasks /\ Go(w, "fatal") /\ Smoothly /\ UNCHANGED updater
     \/ Go(w, "fatal") /\ Trouble("refused") /\ UNCHANGED updater
  /\ UNCHANGED <<runVars, diskVars, service, cnapi, blob, isUpdate, errs>>

\* Any set of workers dies between two steps.
WorkersDie ==
  /\ \E W \in SUBSET Workers :
       /\ W # {} /\ \A w \in W : stage[w] \notin Over
       /\ stage' = [w \in Workers |-> IF w \in W THEN "dead" ELSE stage[w]]
  /\ Trouble("crash")
  /\ UNCHANGED <<runVars, diskVars, svcVars, cnapi, blob, isUpdate, errs>>

Step(w) ==
  \/ Download(w) \/ CheckImage(w) \/ EnableUpdater(w) \/ HandOff(w) \/ HandedOff(w) \/ IsUpdate(w)
  \/ CleanupPreviousBackup(w) \/ BackupAgent(w) \/ CleanupFailedInstall(w) \/ RestoreBackup(w)
  \/ CleanupBackup(w)
  \/ Unpack(w) \/ UninstallScripts(w) \/ RmBinLinks(w) \/ RmPkgPath(w) \/ RemoveTheInstUuidFile(w)
  \/ Preinstall(w) \/ Move(w) \/ LinkBins(w) \/ Postinstall(w)
  \/ RefreshAgents(w) \/ Notify(w)

Next == (\E r \in Requests : Request(r)) \/ (\E w \in Workers : Step(w)) \/ WorkersDie

\* A worker goes on: every command and request it waits for ends.
Spec == Init /\ [][Next]_vars /\ \A w \in Workers : WF_vars(Step(w))

-----------------------------------------------------------------------------
(***************************************************************************)
(* Properties.  Reports of success are not always true.  installPackage()  *)
(* ignores an uninstallation that goes wrong within an update: the new     *)
(* version then comes to lie inside the old directory.  It does not notice *)
(* a link that cannot be made and a script that a signal ended.  A first   *)
(* installation that fails is reported as a success, too.  The properties  *)
(* name these cases, and say what holds beside them.                       *)
(***************************************************************************)
Installing == request.task = "install"
AllOver == \A w \in Workers : stage[w] \in Over
Updated ==
  dir = request.image /\ service = request.image /\ links /\ uuid

\* What a reported success can be relied upon for.  After an update whose
\* uninstallation did not fail the whole, verified version is in place; after
\* agents_uninstall the agent's directory, links and instance are gone.  The
\* rest, an update's service, links and instance and a removal's service, are as
\* they should be unless a failure of a link or a script went unnoticed
\* (agent_install.js, agents_uninstall.js, apm.js).
SuccessMeans ==
  LET noticed == "unnoticed" \notin trouble
  IN  /\ \A w \in Workers :
           stage[w] = "ok" /\ Installing /\ before \in Images /\ "uninstall" \notin trouble =>
             dir = request.image /\ (noticed => Updated)
      /\ stage[Agent] = "ok" /\ request.task = "uninstall" /\ before \in Images =>
           dir = None /\ ~links /\ ~uuid /\ (noticed => service = None)

\* An installation that is reported as a failure leaves the version that was
\* there, unless putting it back failed or was cut off too; only cn-agent's own may
\* also have been updated, when the other service could not be stopped
\* (restoreBackup, sendCNAgentTask).
FailureRestores ==
  \A w \in Workers :
    stage[w] = "fatal" /\ Installing /\ trouble \cap {"restore", "crash"} = {} =>
      \/ dir = before
      \/ pkg = Agent /\ (dir = request.image \/ trouble \cap {"uninstall", "unnoticed"} # {})

\* From the moment an update is asked for the version before or the new one is
\* in place, or the version before is in the copy, wherever workers die and
\* commands fail, whatever copies earlier runs have left.  Not so once the
\* uninstallation has failed: what is left of the old version then stays in
\* place, and its copy is removed all the same.
CopyKept ==
  Installing /\ before \in Images /\ "uninstall" \notin trouble =>
    dir \in {before, request.image} \/ backup[request.image] = before

\* "running multiple times with the same image_uuid should result in that
\* version of the agent being installed" (agent_install.js:30): whatever other
\* runs left on disk, a run in which nothing goes wrong, and which does not find
\* a damaged directory in place, ends with the version installed, CNAPI told, the
\* copy gone and the second service stopped.
Idempotent ==
  AllOver /\ runs > 0 /\ Installing /\ trouble = {} /\ before # Damaged =>
    /\ Updated /\ cnapi = request.image
    /\ backup[request.image] = None /\ ~updater
    /\ \A w \in Workers : stage[w] # "fatal"

\* Every task ends, also the one that waits for the other service's answer,
\* from a service that may die or stop the one that waits.
RunEnds == \A w \in Workers : stage[w] \notin Over ~> stage[w] \in Over
=============================================================================
