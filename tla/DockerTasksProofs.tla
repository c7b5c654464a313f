-------------------------- MODULE DockerTasksProofs --------------------------
(***************************************************************************)
(* Proofs about DockerTasks, for any number of sessions, copies and steps  *)
(* of a build, and any bounds.                                             *)
(***************************************************************************)
EXTENDS DockerTasks, TLAPS

\* Every step is one of the three scenarios', or none.
LEMMA Steps ==
  ASSUME [Next]_dockerVars
  PROVE  \/ ExecNext /\ scenario = "exec" /\ UNCHANGED <<scenario, copyVars, buildVars>>
         \/ CopyNext /\ scenario = "copy" /\ UNCHANGED <<scenario, execVars, buildVars>>
         \/ BuildNext /\ UNCHANGED <<scenario, zoneVars, execVars, copyVars>>
         \/ UNCHANGED <<scenario, zoneVars, execVars, copyVars, buildVars>>
<1> QED BY DEF Next, Exec, Copy, Build, dockerVars

-----------------------------------------------------------------------------
(***************************************************************************)
(* A build starts once, when it is ready.                                  *)
(***************************************************************************)

\* The inductive strengthening: who of the two connections is still to come is
\* told by what is there, and before the start nothing but them happens.
Building == phase \notin {"wait", "gone"}

ConnInv ==
  /\ connectCount \in 0 .. 2 /\ starts \in 0 .. 1
  /\ phase = "wait" => starts = 0
  /\ Building => starts = 1 /\ ContextOver /\ connectCount = 2
  /\ listening => phase = "wait" /\ connectCount < 2
  /\ context = "receiving" => phase = "wait" /\ connectCount > 0 /\ command = "build"
  /\ context = "ended" => connectCount > 0
  /\ buildSocket # "none" => connectCount = 2

LEMMA InitConn == Init => ConnInv
<1> QED BY DEF Init, BuildInit, ConnInv, Building

\* The steps of the build itself change none of it.
BuildGoesOn ==
  /\ Building /\ phase' \notin {"wait", "gone"}
  /\ UNCHANGED connVars

LEMMA OnlyBuilding ==
  ASSUME \/ From \/ CachedStep \/ UncachedStep \/ NoMoreSteps \/ DoPostStep
         \/ CreateZfsSnapshot \/ CreatePlaceholder \/ ImportSnapshot \/ DoImgapiValidate
         \/ UpdateImgapiMetadata \/ ImgapiActivate \/ CreateSdcDockerImage
         \/ NotifySuccess \/ Cleanup
  PROVE  BuildGoesOn
<1> USE DEF BuildGoesOn, Building, Goto, Failure
<1>1. CASE From
  BY <1>1 DEF From
<1>2. CASE CachedStep
  BY <1>2 DEF CachedStep
<1>3. CASE UncachedStep
  BY <1>3 DEF UncachedStep
<1>4. CASE NoMoreSteps
  BY <1>4 DEF NoMoreSteps
<1>5. CASE DoPostStep
  BY <1>5 DEF DoPostStep
<1>6. CASE CreateZfsSnapshot
  BY <1>6 DEF CreateZfsSnapshot
<1>7. CASE CreatePlaceholder
  BY <1>7 DEF CreatePlaceholder
<1>8. CASE ImportSnapshot
  BY <1>8 DEF ImportSnapshot
<1>9. CASE DoImgapiValidate
  BY <1>9 DEF DoImgapiValidate
<1>10. CASE UpdateImgapiMetadata
  BY <1>10 DEF UpdateImgapiMetadata
<1>11. CASE ImgapiActivate
  BY <1>11 DEF ImgapiActivate
<1>12. CASE CreateSdcDockerImage
  BY <1>12 DEF CreateSdcDockerImage
<1>13. CASE NotifySuccess
  BY <1>13 DEF NotifySuccess
<1>14. CASE Cleanup
  BY <1>14 DEF Cleanup
<1> QED BY <1>1, <1>2, <1>3, <1>4, <1>5, <1>6, <1>7, <1>8, <1>9, <1>10, <1>11, <1>12,
           <1>13, <1>14

LEMMA ConnStep ==
  ASSUME ConnInv, BuildNext
  PROVE  ConnInv'
<1> USE DEF ConnInv, Building, ContextOver
<1>1. CASE BuildGoesOn
  BY <1>1 DEF BuildGoesOn, connVars
<1>2. CASE ServerTimesOut
  BY <1>2 DEF ServerTimesOut
<1>3. CASE FirstConnection
  BY <1>3 DEF FirstConnection
<1>4. CASE SecondConnection
  BY <1>4 DEF SecondConnection, ContextDownloadFinished, RunBuild, StillWaits
<1>5. CASE ContextEnd
  BY <1>5 DEF ContextEnd, RunBuild, StillWaits
<1>6. CASE ContextBreaks
  BY <1>6 DEF ContextBreaks
<1>7. CASE ClientGoes
  BY <1>7 DEF ClientGoes
<1>8. CASE ContextFlushed
  BY <1>8 DEF ContextFlushed
<1> QED BY OnlyBuilding, <1>1, <1>2, <1>3, <1>4, <1>5, <1>6, <1>7, <1>8 DEF BuildNext, BuildStep

LEMMA ConnAlways == Spec => []ConnInv
<1>1. ConnInv /\ [Next]_dockerVars => ConnInv'
  <2> SUFFICES ASSUME ConnInv, [Next]_dockerVars PROVE ConnInv'
    OBVIOUS
  <2>1. CASE BuildNext
    BY <2>1, ConnStep
  <2>2. CASE UNCHANGED buildVars
    BY <2>2 DEF ConnInv, Building, ContextOver, buildVars, connVars
  <2> QED BY <2>1, <2>2, Steps
<1> QED BY InitConn, <1>1, PTL DEF Spec

\* A build starts once, after the end of its context's stream and with the connection
\* to build over, in whatever order the two come (docker-build.js:175); whether the
\* context's file is written by then is left open.
THEOREM BuildStartsReady == Spec => []StartsOnceReady
<1>1. ConnInv => StartsOnceReady
  BY DEF ConnInv, Building, StartsOnceReady
<1> QED BY <1>1, ConnAlways, PTL

-----------------------------------------------------------------------------
(***************************************************************************)
(* A copy's mount.                                                         *)
(***************************************************************************)

\* The inductive strengthening: a connection is ended last of all, only a copy
\* that did not see its zone running mounts it, and whoever believes to have the
\* zone mounted has it, or has lost it to machine_boot or to such a copy.
MountInv ==
  /\ CopyTypeOK
  /\ mounter \in Copies \cup {None}
  /\ scenario = "exec" => mounter = None
  /\ \A c \in Copies :
       /\ told[c] # "none" =>
            stage[c] \in {"closing", "over", "dead"} /\ (mounter # c \/ c \in kept)
       /\ stage[c] = "mount" => ~saw[c]
       /\ zoneMounted[c] => ~saw[c] /\ (mounter = c \/ c \in taken)

LEMMA InitMount == Init => MountInv
<1> QED BY DockerCopyAssumption DEF Init, ZoneInit, CopyInit, MountInv, CopyTypeOK, Running

LEMMA MountStep ==
  ASSUME MountInv, NEW c \in Copies,
         scenario = "copy", UNCHANGED scenario,
         CopyStep(c) \/ AskCopy(c) \/ Connect(c) \/ TarExits(c) \/ LinkEnds(c) \/ LinkResets(c)
  PROVE  MountInv'
<1> USE DockerCopyAssumption DEF MountInv, CopyTypeOK, At, CopyFault, NoCopyFault,
        askVars, workVars, mountVars, bootVars
<1>1. CASE AskCopy(c)
  BY <1>1 DEF AskCopy
<1>2. CASE PathStat(c)
  BY <1>2 DEF PathStat
<1>3. CASE LoadVm(c)
  <2>1. Running \in BOOLEAN
    BY DEF Running
  <2>2. saw' \in [Copies -> BOOLEAN] /\ \A d \in Copies \ {c} : saw'[d] = saw[d]
    BY <1>3, <2>1 DEF LoadVm
  <2> QED BY <1>3, <2>2 DEF LoadVm
<1>4. CASE NobodyComes(c)
  BY <1>4 DEF NobodyComes
<1>5. CASE Connect(c)
  BY <1>5 DEF Connect
<1>6. CASE ZoneadmMount(c)
  <2>1. CASE zone = "installed" /\ zone' = "mounted" /\ mounter' = c
    <3>1. mounter = None
      BY <2>1
    <3>3. CASE /\ zoneMounted' = [zoneMounted EXCEPT ![c] = TRUE]
               /\ stage' = [stage EXCEPT ![c] = "tar"] /\ tar' = [tar EXCEPT ![c] = "running"]
               /\ UNCHANGED <<copyFaults, askVars, link, told, taken, kept, bootVars>>
      <4>1. stage[c] = "mount" /\ ~saw[c]
        BY <1>6 DEF ZoneadmMount
      <4>2. /\ stage' \in [Copies -> {"idle", "stat", "load", "listen", "mount", "tar", "unmount",
                                       "closing", "over", "dead"}]
            /\ tar' \in [Copies -> {"none", "running", "ok", "failed"}]
            /\ zoneMounted' \in [Copies -> BOOLEAN]
        BY <3>3
      <4>3. zoneMounted'[c] = TRUE /\ \A d \in Copies \ {c} : zoneMounted'[d] = zoneMounted[d]
        BY <3>3
      <4>4. stage'[c] = "tar" /\ \A d \in Copies \ {c} : stage'[d] = stage[d]
        BY <3>3
      <4> QED BY <2>1, <3>1, <3>3, <4>1, <4>2, <4>3, <4>4
    <3> QED BY <1>6, <2>1, <3>3 DEF ZoneadmMount
  <2>2. CASE UNCHANGED <<zone, mounter, zoneMounted>>
    BY <1>6, <2>2 DEF ZoneadmMount
  <2> QED BY <1>6, <2>1, <2>2 DEF ZoneadmMount
<1>7. CASE TarExits(c)
  BY <1>7 DEF TarExits, AfterTar
<1>8. CASE DataTimeout(c)
  BY <1>8 DEF DataTimeout, AfterTar
<1>9. CASE ZoneadmUnmount(c)
  BY <1>9 DEF ZoneadmUnmount, TryUnmountLocal, Unmounts, TakenFrom
<1>10. CASE CopyIsOver(c)
  BY <1>10 DEF CopyIsOver
<1>11. CASE LinkEnds(c)
  BY <1>11 DEF LinkEnds, HelperDies
<1>12. CASE LinkResets(c)
  BY <1>12 DEF LinkResets, HelperDies
<1> QED BY <1>1, <1>2, <1>3, <1>4, <1>5, <1>6, <1>7, <1>8, <1>9, <1>10, <1>11, <1>12
           DEF CopyStep

\* The zone's own steps leave a mount alone, machine_boot's unmount apart.
LEMMA MountZone ==
  ASSUME MountInv, ZoneChanges, scenario = "copy", UNCHANGED scenario
  PROVE  MountInv'
<1> USE DockerCopyAssumption DEF MountInv, CopyTypeOK, ZoneChanges, TakenFrom, askVars, workVars
<1>1. CASE BootUnmount
  BY <1>1 DEF BootUnmount, Unmounts
<1>2. CASE Boot
  BY <1>2 DEF Boot
<1>3. CASE Shutdown
  BY <1>3 DEF Shutdown, Running
<1> QED BY <1>1, <1>2, <1>3

\* The sessions of exec, attach and logs never touch the zone themselves.
LEMMA ExecLeavesZone ==
  ASSUME NEW s \in Sessions, ExecStep(s) \/ ExecOthers(s)
  PROVE  UNCHANGED <<zone, mounter, boot>>
<1> USE DEF zoneVars
<1>1. CASE Ask(s)
  BY <1>1 DEF Ask
<1>2. CASE TimePasses(s)
  BY <1>2 DEF TimePasses
<1>3. CASE SetWaitFlag(s)
  BY <1>3 DEF SetWaitFlag
<1>4. CASE ExecWhenRunning(s)
  BY <1>4 DEF ExecWhenRunning
<1>5. CASE SpawnExecFails(s)
  BY <1>5 DEF SpawnExecFails
<1>6. CASE SetupDockerExecution(s)
  BY <1>6 DEF SetupDockerExecution
<1>7. CASE ServerTimeout(s)
  BY <1>7 DEF ServerTimeout
<1>8. CASE SpawnProcess(s)
  BY <1>8 DEF SpawnProcess
<1>9. CASE UnsetWaitFlag(s)
  BY <1>9 DEF UnsetWaitFlag
<1>10. CASE DockerExecLines(s)
  BY <1>10 DEF DockerExecLines
<1>11. CASE PtyInput(s)
  BY <1>11 DEF PtyInput
<1>12. CASE ClientLeaves(s)
  BY <1>12 DEF ClientLeaves
<1>13. CASE ClientResets(s)
  BY <1>13 DEF ClientResets
<1>14. CASE CommandCloses(s)
  BY <1>14 DEF CommandCloses
<1>15. CASE ChildEnds(s)
  BY <1>15 DEF ChildEnds
<1> QED BY <1>1, <1>2, <1>3, <1>4, <1>5, <1>6, <1>7, <1>8, <1>9, <1>10, <1>11, <1>12,
           <1>13, <1>14, <1>15 DEF ExecStep, ExecOthers

LEMMA MountElsewhere ==
  ASSUME MountInv, scenario = "exec", ExecNext, UNCHANGED <<scenario, copyVars>>
  PROVE  MountInv'
<1>1. CASE UNCHANGED <<zone, mounter>>
  BY <1>1 DEF MountInv, CopyTypeOK, copyVars, askVars, workVars
<1>2. CASE ZoneNext
  <2>1. UNCHANGED mounter /\ (zone = "mounted" <=> zone' = "mounted")
    BY <1>2, DockerCopyAssumption DEF MountInv, CopyTypeOK, ZoneNext, BootUnmount, Unmounts,
       Boot, Shutdown, Kill, Reboot, DockerInit, Running
  <2> QED BY <2>1 DEF MountInv, CopyTypeOK, copyVars, askVars, workVars
<1> QED BY <1>1, <1>2, ExecLeavesZone DEF ExecNext

LEMMA MountAlways == Spec => []MountInv
<1>1. MountInv /\ [Next]_dockerVars => MountInv'
  <2> SUFFICES ASSUME MountInv, [Next]_dockerVars PROVE MountInv'
    OBVIOUS
  <2>1. CASE CopyNext /\ scenario = "copy" /\ UNCHANGED scenario
    BY <2>1, MountStep, MountZone DEF CopyNext
  <2>2. CASE ExecNext /\ scenario = "exec" /\ UNCHANGED <<scenario, copyVars>>
    BY <2>2, MountElsewhere
  <2>3. CASE UNCHANGED <<scenario, zoneVars, copyVars>>
    BY <2>3 DEF MountInv, CopyTypeOK, zoneVars, copyVars, askVars, workVars
  <2> QED BY <2>1, <2>2, <2>3, Steps
<1> QED BY InitMount, <1>1, PTL DEF Spec

\* A copy that has ended its connection no longer has the zone mounted, unless
\* unmounting has failed (docker-stdio.js:478).
THEOREM UnmountsFirst == Spec => []UnmountedBeforeEnd
<1>1. MountInv => UnmountedBeforeEnd
  BY DEF MountInv, UnmountedBeforeEnd
<1> QED BY <1>1, MountAlways, PTL

\* Who takes a mount away in one step of a copy: its own copy, or one of those
\* that believe to have a mount that was taken from them.
LEMMA MountLost ==
  ASSUME MountInv, NEW c \in Copies, mounter = c, mounter' # c, NEW d \in Copies,
         CopyStep(d) \/ AskCopy(d) \/ Connect(d) \/ TarExits(d) \/ LinkEnds(d) \/ LinkResets(d)
  PROVE  zoneMounted[d] /\ ~zoneMounted'[d] /\ (d = c \/ d \in taken)
<1> USE DockerCopyAssumption DEF MountInv, CopyTypeOK, mountVars
<1>1. zone = "mounted"
  OBVIOUS
<1>2. CASE ZoneadmUnmount(d)
  BY <1>2 DEF ZoneadmUnmount, TryUnmountLocal, At
<1>3. CASE ZoneadmMount(d)
  BY <1>1, <1>3 DEF ZoneadmMount
<1>4. CASE LinkEnds(d)
  BY <1>1, <1>4 DEF LinkEnds, HelperDies
<1>5. CASE LinkResets(d)
  BY <1>1, <1>5 DEF LinkResets, HelperDies
<1> QED BY <1>2, <1>3, <1>4, <1>5
           DEF CopyStep, AskCopy, PathStat, LoadVm, NobodyComes, Connect, TarExits, DataTimeout,
               CopyIsOver

LEMMA BootTakes ==
  ASSUME ZoneNext \/ ZoneChanges
  PROVE  UNCHANGED mounter \/ boot' # boot
<1> QED BY DEF ZoneNext, ZoneChanges, BootUnmount, Boot, Shutdown, Kill, Reboot, DockerInit

\* The zone is unmounted under a copy only by machine_boot, or by a copy that takes
\* the mount for its own because that one was removed before (tryUnmountLocal).
THEOREM UnmountsOnlyOwn == Spec => UnmountsOwn
<1> DEFINE Lost(c) ==
      \/ zoneMounted[c] /\ ~zoneMounted'[c]
      \/ boot' # boot
      \/ \E d \in taken : zoneMounted[d] /\ ~zoneMounted'[d]
<1>1. ASSUME MountInv, [Next]_dockerVars, NEW c \in Copies, mounter = c, mounter' # c
      PROVE  Lost(c)
  <2>1. CASE CopyNext
    BY <1>1, <2>1, MountLost, BootTakes DEF CopyNext
  <2>2. CASE ExecNext
    BY <1>1, <2>2, ExecLeavesZone, BootTakes DEF ExecNext
  <2> QED BY <1>1, <2>1, <2>2, Steps DEF zoneVars
<1>2. MountInv /\ [Next]_dockerVars =>
        [\A c \in Copies : mounter = c /\ mounter' # c => Lost(c)]_<<zoneVars, copyVars>>
  BY <1>1
<1> QED BY <1>2, MountAlways, PTL DEF Spec, UnmountsOwn

-----------------------------------------------------------------------------
(***************************************************************************)
(* An attach and the program.                                              *)
(***************************************************************************)

\* The inductive strengthening: an attach that is still to start its zlogin has its
\* flag, another's that came after it, or was robbed; it asks for the removal
\* only once its client has come and its zlogin is there.
FlagInv ==
  /\ ExecTypeOK
  /\ \A s \in Sessions :
       /\ AwaitsStart(s) => flag # None \/ s \in robbed
       /\ unset[s] = "asked" => proc[s] # "none"
       /\ unset[s] # "no" => client[s] # "none"
       /\ client[s] # "none" \/ server[s] # "none" => task[s] = "done"

LEMMA InitFlag == Init => FlagInv
<1> QED BY DockerExecAssumption DEF Init, ZoneInit, ExecInit, FlagInv, ExecTypeOK, AwaitsStart, Kinds

\* A child that ends leaves no lock behind.
LockHeld == lock # None => child[lock] = "up" /\ unset[lock] = "failed"

LEMMA DiesReleases ==
  ASSUME ExecTypeOK, NEW s \in Sessions, NEW how \in {"over", "dead"}, Dies(s, how),
         UNCHANGED unset
  PROVE  /\ child' \in [Sessions -> {"none", "up", "over", "dead"}]
         /\ lock' \in Sessions \cup {None} /\ LockHeld'
<1> USE DockerExecAssumption DEF ExecTypeOK, Dies, Released, To, LockHeld
<1>1. CASE lock = s
  BY <1>1
<1>2. CASE lock # s
  <2>1. lock' = lock /\ \A r \in Sessions \ {s} : child'[r] = child[r]
    BY <1>2
  <2> QED BY <1>2, <2>1
<1> QED BY <1>1, <1>2

LEMMA FlagStep ==
  ASSUME FlagInv, NEW s \in Sessions, ExecStep(s) \/ ExecOthers(s)
  PROVE  FlagInv'
<1> USE DockerExecAssumption DEF FlagInv, ExecTypeOK, AwaitsStart, Kinds, To, ExecFault, NoExecFault,
        taskVars, flagVars, childVars, zoneVars
<1>1. CASE Ask(s)
  BY <1>1 DEF Ask
<1>2. CASE TimePasses(s)
  BY <1>2 DEF TimePasses, execVars
<1>3. CASE SetWaitFlag(s)
  BY <1>3 DEF SetWaitFlag
<1>4. CASE ExecWhenRunning(s)
  BY <1>4 DEF ExecWhenRunning
<1>5. CASE SpawnExecFails(s)
  BY <1>5 DEF SpawnExecFails
<1>6. CASE SetupDockerExecution(s)
  BY <1>6 DEF SetupDockerExecution, FirstProc
<1>7. CASE ServerTimeout(s)
  BY <1>7 DEF ServerTimeout
<1>8. CASE SpawnProcess(s)
  BY <1>8 DEF SpawnProcess, FirstProc, UnsetsFor
<1>9. CASE UnsetWaitFlag(s)
  BY <1>9 DEF UnsetWaitFlag
<1>10. CASE DockerExecLines(s)
  BY <1>10 DEF DockerExecLines
<1>11. CASE PtyInput(s)
  BY <1>11 DEF PtyInput
<1>12. CASE ClientLeaves(s)
  BY <1>12 DEF ClientLeaves, Alive, Connected
<1>13. CASE ClientResets(s)
  <2>1. CASE Dies(s, "dead")
    BY <1>13, <2>1, DiesReleases DEF ClientResets, Connected, LockHeld
  <2>2. CASE UNCHANGED <<child, lock>>
    BY <1>13, <2>2 DEF ClientResets, Connected
  <2> QED BY <1>13, <2>1, <2>2 DEF ClientResets
<1>14. CASE CommandCloses(s)
  <2>1. CASE Dies(s, "dead") /\ UNCHANGED <<client, server>>
    BY <1>14, <2>1, DiesReleases DEF CommandCloses, LockHeld
  <2>2. CASE UNCHANGED <<child, lock>>
    BY <1>14, <2>2 DEF CommandCloses
  <2> QED BY <1>14, <2>1, <2>2 DEF CommandCloses
<1>15. CASE ChildEnds(s)
  BY <1>15, DiesReleases DEF ChildEnds, LockHeld
<1> QED BY <1>1, <1>2, <1>3, <1>4, <1>5, <1>6, <1>7, <1>8, <1>9, <1>10, <1>11, <1>12,
           <1>13, <1>14, <1>15 DEF ExecStep, ExecOthers

\* The zone and the copies do not touch the flag.
LEMMA CopiesLeaveFlag ==
  ASSUME CopyNext
  PROVE  UNCHANGED <<flag, expired>> /\ (zone' = "program" => zone = "program")
<1> USE DEF bootVars, mountVars
<1>1. ASSUME NEW c \in Copies, LinkEnds(c) \/ LinkResets(c)
      PROVE  UNCHANGED <<flag, expired>> /\ (zone' = "program" => zone = "program")
  BY <1>1 DEF LinkEnds, LinkResets, HelperDies
<1>2. ASSUME NEW c \in Copies, CopyStep(c) \/ AskCopy(c) \/ Connect(c) \/ TarExits(c)
      PROVE  UNCHANGED <<flag, expired>> /\ (zone' = "program" => zone = "program")
  BY <1>2 DEF CopyStep, AskCopy, PathStat, LoadVm, NobodyComes, Connect, TarExits, DataTimeout,
              CopyIsOver, ZoneadmMount, ZoneadmUnmount, Unmounts
<1>3. CASE ZoneChanges
  BY <1>3 DEF ZoneChanges, BootUnmount, Unmounts, Boot, Shutdown
<1> QED BY <1>1, <1>2, <1>3 DEF CopyNext

LEMMA FlagAlways == Spec => []FlagInv
<1> USE DEF FlagInv, ExecTypeOK, AwaitsStart, execVars, taskVars, flagVars, childVars
<1>1. FlagInv /\ [Next]_dockerVars => FlagInv'
  <2> SUFFICES ASSUME FlagInv, [Next]_dockerVars PROVE FlagInv'
    OBVIOUS
  <2>1. CASE \E s \in Sessions : ExecStep(s) \/ ExecOthers(s)
    BY <2>1, FlagStep
  <2>2. CASE UNCHANGED <<flag, expired, execVars>>
    BY <2>2
  <2>3. CASE ZoneNext /\ UNCHANGED execVars
    BY <2>2, <2>3 DEF ZoneNext, BootUnmount, Boot, Shutdown, Kill, Reboot, DockerInit
  <2>4. CASE CopyNext /\ UNCHANGED execVars
    BY <2>2, <2>4, CopiesLeaveFlag
  <2> QED BY <2>1, <2>2, <2>3, <2>4, Steps DEF ExecNext, zoneVars
<1> QED BY InitFlag, <1>1, PTL DEF Spec

\* The program of a zone starts only when every attach whose flag was set has spawned
\* its zlogin, unless another attach took its flag away (update-wait-flag.js:28-46).
THEOREM AttachesFirst == Spec => AttachedBeforeRun
<1>1. ASSUME FlagInv, [Next]_dockerVars, zone = "init", zone' = "program",
             NEW s \in Sessions, AwaitsStart(s)
      PROVE  s \in robbed
  <2>1. ~CopyNext /\ zone' # zone
    BY <1>1, CopiesLeaveFlag
  <2>2. ZoneNext
    BY <1>1, <2>1, Steps, ExecLeavesZone DEF ExecNext, zoneVars
  <2>3. flag = None
    BY <1>1, <2>2 DEF ZoneNext, BootUnmount, Unmounts, Boot, Shutdown, Kill, Reboot, DockerInit
  <2> QED BY <1>1, <2>3 DEF FlagInv
<1>2. FlagInv /\ [Next]_dockerVars =>
        [zone = "init" /\ zone' = "program" =>
           \A s \in Sessions : AwaitsStart(s) => s \in robbed]_<<zone, execVars>>
  BY <1>1
<1> QED BY <1>2, FlagAlways, PTL DEF Spec, AttachedBeforeRun

-----------------------------------------------------------------------------
(***************************************************************************)
(* The end of a build.                                                     *)
(***************************************************************************)

\* The inductive strengthening: the snapshots on disk are those of this build and
\* the one it found, the first of which it could not take over; and once it has
\* taken a snapshot its last image is recorded whenever no step is under way.
Leftover == IF "leftover" \in notes THEN {1} ELSE {}
Recorded == \E i \in images : i.expected = expected
WholeImage == gSnapshots = <<>> \/ Recorded
StepUnderWay ==
  {"post", "snapshot", "placeholder", "stream", "validate", "update", "activate", "image"}

SnapsInv ==
  /\ "leftover" \in notes => gSnapshots = <<>>
  /\ phase # "ended" => zfsSnaps = Leftover \cup DOMAIN gSnapshots
  /\ phase = "ended" => "cleanup" \in notes \/ zfsSnaps = Leftover

RecordInv ==
  /\ phase \in {"wait", "from"} => gSnapshots = <<>> /\ cacheable
  /\ phase = "step" => command = "build" /\ (IF cacheable THEN gSnapshots = <<>> ELSE Recorded)
  /\ phase \in StepUnderWay /\ cacheable => command = "commit"
  /\ phase = "finish" => WholeImage
  /\ phase = "cleanup" /\ ~err => WholeImage
  /\ phase = "ended" /\ endEvent = "ok" => WholeImage

EndInv ==
  /\ command \in {"build", "commit"}
  /\ stepNo \in Nat /\ fs \in SUBSET Nat /\ gSnapshots \in Seq(SUBSET Nat)
  /\ SnapsInv /\ RecordInv

LEMMA InitEnd == Init => EndInv
<1> SUFFICES ASSUME Init PROVE EndInv
  OBVIOUS
<1>1. /\ phase = "wait" /\ gSnapshots = <<>> /\ stepNo = 0 /\ fs = {} /\ cacheable
      /\ command \in {"build", "commit"}
      /\ zfsSnaps = {} \/ zfsSnaps = {1}
      /\ notes = IF zfsSnaps = {} THEN {} ELSE {"leftover"}
  BY DEF Init, BuildInit
<1>2. <<>> \in Seq(SUBSET Nat) /\ DOMAIN <<>> = {}
  OBVIOUS
<1>3. zfsSnaps = Leftover
  BY <1>1 DEF Leftover
<1> QED BY <1>1, <1>2, <1>3 DEF EndInv, SnapsInv, RecordInv, StepUnderWay

\* The connections come before the first snapshot.
LEMMA EndConn ==
  ASSUME EndInv, ConnInv,
         FirstConnection \/ SecondConnection \/ ContextEnd \/ ContextFlushed \/ ContextBreaks
           \/ ClientGoes \/ ServerTimesOut
  PROVE  EndInv'
<1>1. UNCHANGED <<command, stepVars, layerVars, endVars, notes>>
  BY DEF FirstConnection, SecondConnection, ContextEnd, ContextFlushed, ContextBreaks, ClientGoes,
         ServerTimesOut
<1>2. UNCHANGED phase \/ (phase = "wait" /\ phase' \in {"from", "gone"})
  BY DEF FirstConnection, SecondConnection, ContextEnd, ContextFlushed, ContextBreaks, ClientGoes,
         ServerTimesOut, ConnInv, RunBuild, StillWaits
<1> QED BY <1>1, <1>2 DEF EndInv, SnapsInv, RecordInv, Leftover, Recorded, WholeImage,
           StepUnderWay, stepVars, layerVars, endVars

LEMMA EndStep ==
  ASSUME EndInv,
         From \/ CachedStep \/ UncachedStep \/ NoMoreSteps \/ DoPostStep
         \/ CreateZfsSnapshot \/ CreatePlaceholder \/ ImportSnapshot \/ DoImgapiValidate
         \/ UpdateImgapiMetadata \/ ImgapiActivate \/ CreateSdcDockerImage
         \/ NotifySuccess \/ Cleanup
  PROVE  EndInv'
<1> USE DEF EndInv, SnapsInv, RecordInv, Leftover, Recorded, WholeImage, StepUnderWay,
        Goto, Failure, ContextShort, Fine, Fails, connVars, stepVars, layerVars, endVars
<1>1. CASE From
  <2>1. /\ phase = "from" /\ gSnapshots = <<>> /\ cacheable
        /\ UNCHANGED <<command, cacheable, gSnapshots, zfsSnaps, endEvent, notes>>
    BY <1>1 DEF From
  <2>2. stepNo' \in Nat /\ fs' \in SUBSET Nat
    <3>1. stepNo' = 1 \/ stepNo' = stepNo
      BY <1>1 DEF From
    <3>2. fs' = fs \/ fs' = {0} \/ fs' = {0, 1}
      BY <1>1, Zenon DEF From
    <3> HIDE DEF EndInv
    <3>3. fs \in SUBSET Nat /\ stepNo \in Nat
      BY DEF EndInv
    <3>4. {0} \in SUBSET Nat /\ {0, 1} \in SUBSET Nat
      OBVIOUS
    <3> QED BY <3>1, <3>2, <3>3, <3>4
  <2>3. \/ phase' = "step" /\ command = "build"
        \/ phase' = "post" /\ command = "commit"
        \/ phase' = "cleanup" /\ err'
    BY <1>1 DEF From
  <2> QED BY <2>1, <2>2, <2>3
<1>2. CASE CachedStep
  BY <1>2 DEF CachedStep, Changes
<1>3. CASE UncachedStep
  BY <1>3 DEF UncachedStep, Changes
<1>4. CASE NoMoreSteps
  BY <1>4 DEF NoMoreSteps
<1>5. CASE DoPostStep
  BY <1>5 DEF DoPostStep
<1>6. CASE CreateZfsSnapshot
  <2> DEFINE id == Len(gSnapshots) + 1
  <2>1. CASE /\ id \notin zfsSnaps /\ zfsSnaps' = zfsSnaps \cup {id}
             /\ gSnapshots' = Append(gSnapshots, fs) /\ Goto("placeholder")
    <3>1. "leftover" \notin notes
      BY <1>6, <2>1 DEF CreateZfsSnapshot
    <3>2. gSnapshots' \in Seq(SUBSET Nat) /\ DOMAIN gSnapshots' = DOMAIN gSnapshots \cup {id}
      BY <2>1
    <3> QED BY <1>6, <2>1, <3>1, <3>2 DEF CreateZfsSnapshot
  <2>2. CASE Failure /\ UNCHANGED <<zfsSnaps, gSnapshots>>
    BY <1>6, <2>2 DEF CreateZfsSnapshot
  <2> QED BY <1>6, <2>1, <2>2 DEF CreateZfsSnapshot
<1>7. CASE CreatePlaceholder
  BY <1>7 DEF CreatePlaceholder
<1>8. CASE ImportSnapshot
  BY <1>8 DEF ImportSnapshot
<1>9. CASE DoImgapiValidate
  BY <1>9 DEF DoImgapiValidate
<1>10. CASE UpdateImgapiMetadata
  BY <1>10 DEF UpdateImgapiMetadata
<1>11. CASE ImgapiActivate
  BY <1>11 DEF ImgapiActivate
<1>12. CASE CreateSdcDockerImage
  <2>1. /\ phase = "image"
        /\ UNCHANGED <<command, cacheable, fs, expected, gSnapshots, zfsSnaps, endEvent, notes>>
    BY <1>12 DEF CreateSdcDockerImage
  <2>2. \/ /\ stepNo' = stepNo + 1 /\ UNCHANGED err
           /\ phase' = (IF command = "commit" THEN "finish" ELSE "step")
           /\ \E u : images' = images \cup {[uuid |-> u, expected |-> expected]}
        \/ phase' = "cleanup" /\ err' /\ UNCHANGED <<images, stepNo>>
    BY <1>12, Zenon DEF CreateSdcDockerImage
  <2>3. ASSUME \E u : images' = images \cup {[uuid |-> u, expected |-> expected]}
        PROVE  Recorded'
    <3>1. PICK u : images' = images \cup {[uuid |-> u, expected |-> expected]}
      BY <2>3
    <3>2. [uuid |-> u, expected |-> expected] \in images'
      BY <3>1
    <3>3. [uuid |-> u, expected |-> expected].expected = expected'
      BY <2>1
    <3> QED BY <3>2, <3>3
  <2>4. CASE stepNo' = stepNo + 1 /\ phase' = (IF command = "commit" THEN "finish" ELSE "step") /\ Recorded'
    BY <2>1, <2>4
  <2>5. CASE phase' = "cleanup" /\ err' /\ UNCHANGED stepNo
    BY <2>1, <2>5
  <2> QED BY <2>2, <2>3, <2>4, <2>5
<1>13. CASE NotifySuccess
  BY <1>13 DEF NotifySuccess
<1>14. CASE Cleanup
  BY <1>14 DEF Cleanup, Destroyed
<1> QED BY <1>1, <1>2, <1>3, <1>4, <1>5, <1>6, <1>7, <1>8, <1>9, <1>10, <1>11, <1>12,
           <1>13, <1>14

LEMMA EndAlways == Spec => []EndInv
<1>1. EndInv /\ ConnInv /\ [Next]_dockerVars => EndInv'
  <2> SUFFICES ASSUME EndInv, ConnInv, [Next]_dockerVars PROVE EndInv'
    OBVIOUS
  <2>1. CASE BuildNext
    BY <2>1, EndConn, EndStep DEF BuildNext, BuildStep
  <2>2. CASE UNCHANGED buildVars
    BY <2>2 DEF EndInv, SnapsInv, RecordInv, Leftover, Recorded, WholeImage, buildVars, connVars,
       stepVars, layerVars, endVars
  <2> QED BY <2>1, <2>2, Steps
<1> QED BY InitEnd, ConnAlways, <1>1, PTL DEF Spec

\* A build that ends has destroyed its snapshots, failed or not, unless that has
\* failed, and reports success only when its last image is recorded (cleanup).
THEOREM BuildCleansUp == Spec => []EndCleansUp
<1>1. EndInv => EndCleansUp
  BY DEF EndInv, SnapsInv, RecordInv, Leftover, Recorded, WholeImage, EndCleansUp
<1> QED BY <1>1, EndAlways, PTL

=============================================================================
