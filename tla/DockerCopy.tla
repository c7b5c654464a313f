----------------------------- MODULE DockerCopy -----------------------------
(***************************************************************************)
(* docker cp: the task docker_copy, the process it forks                   *)
(* (bin/docker-copy.js) and the stream servers in lib/docker-stdio.js.     *)
(*                                                                         *)
(* The zone's state is read when the copy is asked for and used when its   *)
(* client connects, up to 30 seconds later.  In a running zone tar runs    *)
(* through zlogin; a stopped one is mounted, tar runs in it, and it is     *)
(* unmounted again, while other copies and machine_boot do the same.       *)
(***************************************************************************)
EXTENDS Zone, Naturals

CONSTANTS
  Copies,
  MaxCopyFaults   \* bound: commands that fail

ASSUME DockerCopyAssumption == None \notin Copies /\ MaxCopyFaults \in Nat

VARIABLES
  mode,         \* read, write or stat
  saw,          \* zoneState: it was running
  stage,        \* where the helper is; "closing": only tar may be left
  answer,       \* the task's
  link,         \* the connection to sdc-docker; "half": it has sent all
  tar,
  zoneMounted,
  told,         \* how the connection was closed
  copyFaults,
  \* History.
  taken,        \* copies whose mount machine_boot, or then one of them, has removed
  kept          \* copies whose own unmount has failed

askVars  == <<mode, saw, answer>>
workVars == <<stage, link, tar, zoneMounted, told>>
mountVars == <<zone, mounter, taken, kept>>
bootVars == <<boot, flag, expired>>
copyVars == <<askVars, workVars, copyFaults, taken, kept>>

CopyTypeOK ==
  /\ mode \in [Copies -> {"read", "write", "stat"}] /\ saw \in [Copies -> BOOLEAN]
  /\ stage \in [Copies -> {"idle", "stat", "load", "listen", "mount", "tar", "unmount",
                           "closing", "over", "dead"}]
  /\ answer \in [Copies -> {"none", "done", "fatal"}]
  /\ link \in [Copies -> {"none", "on", "half", "gone"}]
  /\ tar \in [Copies -> {"none", "running", "ok", "failed"}]
  /\ zoneMounted \in [Copies -> BOOLEAN] /\ told \in [Copies -> {"none", "end", "destroyed"}]
  /\ copyFaults \in 0 .. MaxCopyFaults /\ taken \subseteq Copies /\ kept \subseteq Copies
  \* A zone is mounted by somebody, and that one knows, or has died or failed.
  /\ zone = "mounted" <=> mounter \in Copies
  /\ mounter # None =>
       zoneMounted[mounter] \/ stage[mounter] = "dead" \/ mounter \in kept
  /\ \A c \in Copies : zoneMounted[c] => stage[c] \in {"tar", "unmount", "dead"}

CopyInit ==
  /\ mode \in [Copies -> {"read", "write", "stat"}] /\ saw = [c \in Copies |-> FALSE]
  /\ stage = [c \in Copies |-> "idle"] /\ answer = [c \in Copies |-> "none"]
  /\ link = [c \in Copies |-> "none"] /\ tar = [c \in Copies |-> "none"]
  /\ zoneMounted = [c \in Copies |-> FALSE] /\ told = [c \in Copies |-> "none"]
  /\ copyFaults = 0 /\ taken = {} /\ kept = {}

CopyFault == copyFaults < MaxCopyFaults /\ copyFaults' = copyFaults + 1
NoCopyFault == UNCHANGED copyFaults
At(f, c, v) == f' = [f EXCEPT ![c] = v]

-----------------------------------------------------------------------------
(***************************************************************************)
(* Until somebody connects.                                                *)
(***************************************************************************)

AskCopy(c) ==
  /\ stage[c] = "idle" /\ At(stage, c, "stat")
  /\ UNCHANGED <<askVars, link, tar, zoneMounted, told, mountVars, bootVars, copyFaults>>

\* "try to fail early": the path may not be there, or not be a directory.  That
\* is all of the mode stat.
PathStat(c) ==
  /\ stage[c] = "stat"
  /\ \/ mode[c] = "stat" /\ At(stage, c, "over") /\ At(answer, c, "done") /\ NoCopyFault
     \/ mode[c] # "stat" /\ At(stage, c, "load") /\ NoCopyFault /\ UNCHANGED answer
     \/ At(stage, c, "over") /\ At(answer, c, "fatal") /\ CopyFault
  /\ UNCHANGED <<mode, saw, link, tar, zoneMounted, told, mountVars, bootVars>>

\* The state of the zone decides how the stream will be made.
LoadVm(c) ==
  /\ stage[c] = "load"
  /\ \/ /\ At(saw, c, Running) /\ At(stage, c, "listen") /\ At(answer, c, "done") /\ NoCopyFault
     \/ /\ At(stage, c, "over") /\ At(answer, c, "fatal") /\ CopyFault /\ UNCHANGED saw
  /\ UNCHANGED <<mode, link, tar, zoneMounted, told, mountVars, bootVars>>

NobodyComes(c) ==
  /\ stage[c] = "listen" /\ At(stage, c, "over")
  /\ UNCHANGED <<askVars, link, tar, zoneMounted, told, mountVars, bootVars, copyFaults>>

Connect(c) ==
  /\ stage[c] = "listen" /\ At(link, c, "on")
  /\ IF saw[c] THEN At(stage, c, "tar") /\ At(tar, c, "running")
     ELSE At(stage, c, "mount") /\ UNCHANGED tar
  /\ UNCHANGED <<askVars, zoneMounted, told, mountVars, bootVars, copyFaults>>

-----------------------------------------------------------------------------
(***************************************************************************)
(* The stream.                                                             *)
(***************************************************************************)

\* zoneadm mount works on a zone that is neither running nor mounted.
ZoneadmMount(c) ==
  /\ stage[c] = "mount"
  /\ \/ /\ zone = "installed" /\ zone' = "mounted" /\ mounter' = c
        /\ At(zoneMounted, c, TRUE) /\ At(stage, c, "tar") /\ At(tar, c, "running") /\ NoCopyFault
     \/ /\ At(stage, c, "unmount") /\ At(tar, c, "failed")
        /\ (IF zone = "installed" THEN CopyFault ELSE NoCopyFault)
        /\ UNCHANGED <<zone, mounter, zoneMounted>>
  /\ UNCHANGED <<askVars, link, told, taken, kept, bootVars>>

\* tar is over.  In a running zone its end is the end of the connection, a stopped
\* one is unmounted first.
AfterTarEndsSocket(c) ==
  At(told, c, "end") /\ At(stage, c, IF saw[c] THEN "closing" ELSE "unmount")
AfterTarCloses(c) == At(told, c, "end") /\ At(stage, c, "closing")
AfterTar(c) ==
  IF saw[c] THEN At(told, c, "end") /\ At(stage, c, "closing")
  ELSE At(stage, c, "unmount") /\ UNCHANGED told

\* By itself, well or with an error, also when its client has left or the zone
\* is no longer there.  A tar that a writer's reset left behind may end late.
TarExits(c) ==
  /\ tar[c] = "running" /\ stage[c] # "dead"
  /\ \E how \in {"ok", "failed"} : At(tar, c, how)
  /\ IF stage[c] = "tar" THEN AfterTar(c) ELSE UNCHANGED <<stage, told>>
  /\ UNCHANGED <<askVars, link, zoneMounted, mountVars, bootVars, copyFaults>>

DataTimeoutRunning(c) ==
  /\ mode[c] = "read" /\ stage[c] = "tar" /\ saw[c]
  /\ At(tar, c, "ok") /\ AfterTar(c)
  /\ UNCHANGED <<askVars, link, zoneMounted, mountVars, bootVars, copyFaults>>
\* A read that moves nothing for 30 seconds is killed; an end by a signal is not
\* taken for an error.
DataTimeout(c) ==
  /\ mode[c] = "read" /\ stage[c] = "tar"
  /\ At(tar, c, "ok") /\ AfterTar(c)
  /\ UNCHANGED <<askVars, link, zoneMounted, mountVars, bootVars, copyFaults>>

TryUnmountAlways(c) == TRUE
TryUnmountLocal(c) == zoneMounted[c]

\* Whose mount goes by another's doing.
TakenFrom(c) == IF mounter # None /\ mounter' = None THEN taken \cup ({mounter} \ {c}) ELSE taken

\* The connection is closed once zoneadm unmount is over, well or not.
ZoneadmUnmount(c) ==
  /\ stage[c] = "unmount" /\ At(stage, c, "closing") /\ At(zoneMounted, c, FALSE)
  /\ \/ ~TryUnmountLocal(c) /\ UNCHANGED <<zone, mounter, kept, copyFaults>>
     \/ TryUnmountLocal(c) /\ Unmounts /\ UNCHANGED <<kept, copyFaults>>
     \/ /\ TryUnmountLocal(c) /\ kept' = kept \cup {c} /\ UNCHANGED <<zone, mounter>>
        /\ (IF zone = "mounted" /\ tar[c] # "running" THEN CopyFault ELSE NoCopyFault)
  /\ At(told, c, IF mode[c] = "read" /\ tar[c] = "failed" THEN "destroyed" ELSE "end")
  /\ taken' = TakenFrom(c)
  /\ UNCHANGED <<askVars, link, tar, bootVars>>

\* Server, connection and tar are gone.  A connection that this side has ended stays
\* until the client has closed its own, unless that came first or it was destroyed.
CopyIsOver(c) ==
  /\ stage[c] = "closing" /\ tar[c] # "running" /\ At(stage, c, "over")
  /\ told[c] = "destroyed" \/ link[c] \in {"half", "gone"}
  /\ UNCHANGED <<askVars, link, tar, zoneMounted, told, mountVars, bootVars, copyFaults>>

-----------------------------------------------------------------------------
(***************************************************************************)
(* The client leaves.                                                      *)
(***************************************************************************)

\* A helper that dies within zoneadm mount leaves it to end by itself.
HelperDies(c) ==
  /\ At(stage, c, "dead")
  /\ \/ UNCHANGED <<zone, mounter>>
     \/ stage[c] = "mount" /\ zone = "installed" /\ zone' = "mounted" /\ mounter' = c

\* The end of a writer's stream ends tar's input.  A reader that closes is no
\* longer written to, or the helper dies of writing after the end.
LinkEnds(c) ==
  /\ link[c] = "on" /\ stage[c] \in {"mount", "tar", "unmount", "closing"}
  /\ \/ mode[c] = "write" /\ At(link, c, "half") /\ UNCHANGED <<stage, zone, mounter>>
     \/ mode[c] = "read" /\ At(link, c, "gone") /\ UNCHANGED <<stage, zone, mounter>>
     \/ mode[c] = "read" /\ stage[c] = "tar" /\ At(link, c, "gone") /\ HelperDies(c)
  /\ UNCHANGED <<askVars, tar, zoneMounted, told, taken, kept, bootVars, copyFaults>>

\* Only a write to a stopped zone listens to errors of its connection, and
\* only once tar runs: it then unmounts, and leaves tar waiting for input.
LinkResets(c) ==
  /\ link[c] \in {"on", "half"} /\ stage[c] \in {"mount", "tar", "unmount", "closing"}
  /\ At(link, c, "gone")
  /\ IF mode[c] = "write" /\ ~saw[c] /\ tar[c] # "none"
       THEN /\ At(stage, c, IF stage[c] = "tar" THEN "unmount" ELSE stage[c])
            /\ UNCHANGED <<zone, mounter>>
       ELSE HelperDies(c)
  /\ UNCHANGED <<askVars, tar, zoneMounted, told, taken, kept, bootVars, copyFaults>>

\* machine_boot's unmount is not asked for by any copy.  Bound: a copy tells only
\* running from not running, so that dockerinit's and the signals' part is left out.
ZoneChanges ==
  /\ BootUnmount \/ Boot \/ Shutdown
  /\ taken' = TakenFrom(None)
  /\ UNCHANGED <<askVars, workVars, copyFaults, kept>>

CopyStep(c) ==
  \/ PathStat(c) \/ LoadVm(c) \/ NobodyComes(c) \/ ZoneadmMount(c) \/ DataTimeout(c)
  \/ (link[c] = "half" /\ TarExits(c)) \/ ZoneadmUnmount(c) \/ CopyIsOver(c)

CopyNext ==
  \/ \E c \in Copies :
       CopyStep(c) \/ AskCopy(c) \/ Connect(c) \/ TarExits(c) \/ LinkEnds(c) \/ LinkResets(c)
  \/ ZoneChanges

-----------------------------------------------------------------------------
(***************************************************************************)
(* Properties.                                                             *)
(***************************************************************************)

\* The zone is unmounted under a copy only by machine_boot, or by a copy that takes
\* the mount for its own because that one was removed before by machine_boot or in
\* turn by such a copy (tryUnmountLocal): one whose mount was refused unmounts nothing.
UnmountsOwn ==
  [][\A c \in Copies : mounter = c /\ mounter' # c =>
       \/ zoneMounted[c] /\ ~zoneMounted'[c]
       \/ boot' # boot
       \/ \E d \in taken : zoneMounted[d] /\ ~zoneMounted'[d]]_<<zoneVars, copyVars>>

\* "we want to properly unmount the zone before we end - that way any other
\* calls to docker copy will wait" (docker-stdio.js:478): a copy that has ended its
\* connection no longer has the zone mounted, unless unmounting has failed.  A helper
\* that dies closes its connection too, and leaves the zone mounted: it ended nothing.
UnmountedBeforeEnd ==
  \A c \in Copies : told[c] # "none" => mounter # c \/ c \in kept

\* A copy's helper goes on to its end: without a client after 30 seconds, a read as
\* soon as its client has closed, and to where only that is missing whatever the client
\* does (DATA_TIMEOUT_MS).  A write has no such limit: its client has to end its stream,
\* and a reset leaves its tar behind.  A helper that dies has ended as well, though the
\* zone stays mounted where it was, and tar may run on.
CopyEnds ==
  \A c \in Copies :
    stage[c] \notin {"idle", "over", "dead"} ~>
      \/ stage[c] \in {"over", "dead"}
      \/ stage[c] = "closing" /\ link[c] = "on"
      \/ mode[c] = "write" /\ link[c] \in {"on", "gone"}
=============================================================================
