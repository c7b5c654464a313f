----------------------------- MODULE DockerBuild ----------------------------
(***************************************************************************)
(* docker build and docker commit: the task docker_build and the process   *)
(* it forks (bin/docker-build.js).  It listens for sdc-docker, which sends *)
(* the build context over a first connection (a commit has none) and works *)
(* with the builder over a second: it looks for cached images, reprovisions*)
(* and runs the container and records the images.  The agent makes a layer *)
(* of every step that changes the file system: a snapshot, its difference  *)
(* to the one before as an image in IMGAPI, checked and then activated.    *)
(*                                                                         *)
(* An image's uuid is made of the digests of its layers: here it is their  *)
(* sequence, a layer being the set of the steps whose changes are in it.   *)
(* The builder itself is a library, as its use in docker-build.js shows it:*)
(* one FROM, then steps of which a first part may be cached.               *)
(***************************************************************************)
EXTENDS Naturals, Sequences, SequencesExt

CONSTANTS
  MaxSteps,       \* bound: steps after FROM
  MaxBuildFaults  \* bound: commands, requests and uploads that fail

ASSUME DockerBuildAssumption == MaxSteps \in Nat \ {0} /\ MaxBuildFaults \in Nat

VARIABLES
  command,      \* build or commit
  connectCount, buildSocket, listening,   \* the connections
  context,      \* of a build: "ended", its stream has; "done", its file is written too;
                \* "lost", writing it has failed when the build had begun
  phase,        \* where the build is
  err,          \* it has failed
  stepNo, cacheable,
  fs,           \* the steps whose changes are in the container
  gBase,        \* gBaseImageUuid
  layers,       \* builder.layers
  setScratch,   \* setScratchImageUuid
  gSnapshots,   \* what each snapshot of this build holds
  zfsSnaps,     \* the snapshots on disk, by number
  upload,       \* what became of the layer's file
  active,       \* the images activated in IMGAPI
  endEvent,     \* the 'end' event
  buildFaults,
  \* History.
  starts,       \* calls of runBuild()
  expected,     \* the uuid made of the steps' own changes
  images,       \* what sdc-docker was told of: uuid, and the uuid expected
  torn,         \* images whose file is not whole
  notes         \* what the properties make allowance for

connVars  == <<command, connectCount, context, buildSocket, listening, starts>>
stepVars  == <<stepNo, cacheable, fs, gBase, setScratch, expected>>
layerVars == <<gSnapshots, zfsSnaps, upload, active, torn>>
endVars   == <<err, endEvent, images>>
buildVars == <<connVars, phase, stepVars, layers, layerVars, endVars, buildFaults, notes>>

Unset == <<{MaxSteps + 1}>>   \* no uuid yet
Scratch == <<>>
BaseImage == <<{0}>>

Phases ==
  {"wait", "from", "step", "post", "snapshot", "placeholder", "stream", "validate", "update",
   "activate", "image", "finish", "cleanup", "ended", "hung", "gone"}

\* The snapshots a build has taken are on disk until its end, and a layer that has
\* got its uuid is made of layers that have been uploaded.
BuildTypeOK ==
  /\ command \in {"build", "commit"} /\ connectCount \in 0 .. 2 /\ starts \in 0 .. 1
  /\ context \in {"none", "receiving", "failed", "ended", "done", "lost"}
  /\ buildSocket \in {"none", "on", "gone"} /\ listening \in BOOLEAN
  /\ phase \in Phases /\ {err, cacheable, setScratch} \subseteq BOOLEAN
  /\ stepNo \in 0 .. MaxSteps + 1 /\ fs \subseteq 0 .. MaxSteps
  /\ upload \in {"none", "good", "corrupt", "failed", "unnoticed"}
  /\ endEvent \in {"none", "ok", "error"} /\ buildFaults \in 0 .. MaxBuildFaults
  /\ phase # "ended" =>
       \A i \in DOMAIN gSnapshots : i \in zfsSnaps /\ gSnapshots[i] \subseteq fs
  /\ \A l \in Range(layers) : l.uuid # Unset => Range(l.uuid) \subseteq SUBSET (0 .. MaxSteps)

BuildInit ==
  /\ command \in {"build", "commit"}
  /\ connectCount = 0 /\ listening = TRUE /\ buildSocket = "none" /\ context = "none"
  /\ phase = "wait" /\ err = FALSE
  /\ stepNo = 0 /\ cacheable = TRUE /\ fs = {} /\ gBase = Scratch /\ setScratch = FALSE
  /\ layers = <<>> /\ gSnapshots = <<>>
  \* A commit may follow another one of the container that was cut off.
  /\ zfsSnaps \in {{}} \cup (IF command = "commit" THEN {{1}} ELSE {})
  /\ upload = "none" /\ active = {} /\ endEvent = "none" /\ buildFaults = 0
  /\ starts = 0 /\ expected = Scratch /\ images = {} /\ torn = {}
  /\ notes = IF zfsSnaps = {} THEN {} ELSE {"leftover"}

Fails == buildFaults < MaxBuildFaults /\ buildFaults' = buildFaults + 1
Fine == UNCHANGED buildFaults

-----------------------------------------------------------------------------
(***************************************************************************)
(* The connections.                                                        *)
(***************************************************************************)

RunBuild == phase' = "from" /\ starts' = starts + 1
StillWaits == UNCHANGED <<phase, starts>>

\* The first connection of a build brings the context; its timer is the only
\* one there is.  A directory that cannot be made is answered by nothing.
FirstConnection ==
  /\ listening /\ command = "build" /\ connectCount = 0 /\ connectCount' = 1
  /\ (context' = "receiving" /\ Fine) \/ (context' = "failed" /\ Fails)
  /\ UNCHANGED <<command, buildSocket, listening, starts, phase, stepVars, layers, layerVars,
                 endVars, notes>>

StartsUnready == TRUE
ContextDownloadFinished == command = "commit" \/ context \in {"ended", "done"}

SecondConnection ==
  /\ listening /\ (command = "commit" \/ connectCount = 1)
  /\ connectCount' = 2 /\ buildSocket' = "on" /\ listening' = FALSE
  /\ IF ContextDownloadFinished THEN RunBuild ELSE StillWaits
  /\ UNCHANGED <<command, context, stepVars, layers, layerVars, endVars, buildFaults, notes>>

ContextEndForgets ==
  /\ context = "receiving" /\ context' = "ended" /\ StillWaits
  /\ UNCHANGED <<command, connectCount, buildSocket, listening, stepVars, layers, layerVars,
                 endVars, buildFaults, notes>>
\* downloadContext(), the socket's 'end': the other connection may have come before,
\* and what was piped to the file need not be on disk yet.
ContextEnd ==
  /\ context = "receiving" /\ context' = "ended"
  /\ IF buildSocket # "none" THEN RunBuild ELSE StillWaits
  /\ UNCHANGED <<command, connectCount, buildSocket, listening, stepVars, layers, layerVars,
                 endVars, buildFaults, notes>>

\* Nobody listens for the error of a context that breaks off: the process ends.
ContextBreaks ==
  /\ context = "receiving" /\ context' = "failed" /\ phase' = "gone" /\ listening' = FALSE
  /\ UNCHANGED <<command, connectCount, buildSocket, starts, stepVars, layers, layerVars,
                 endVars, buildFaults, notes>>

\* The rest of the file gets written, which nobody waits for, or not.  Nobody listens
\* for that error either: before the start it ends the process, afterwards runBuild()
\* tells the client of a failure and the build goes on.
ContextFlushed ==
  /\ context = "ended"
  /\ \/ context' \in {"done", IF phase = "wait" THEN "done" ELSE "lost"}
        /\ UNCHANGED <<phase, listening>>
     \/ phase = "wait" /\ context' = "failed" /\ phase' = "gone" /\ listening' = FALSE
  /\ UNCHANGED <<command, connectCount, buildSocket, starts, stepVars, layers, layerVars,
                 endVars, buildFaults, notes>>

ServerTimesOut ==
  /\ listening /\ connectCount = 0 /\ listening' = FALSE /\ phase' = "gone"
  /\ UNCHANGED <<command, connectCount, context, buildSocket, starts, stepVars, layers, layerVars,
                 endVars, buildFaults, notes>>

\* No callback will be answered any more; nothing else is made of it.
ClientGoes ==
  /\ buildSocket = "on" /\ buildSocket' = "gone"
  /\ UNCHANGED <<command, connectCount, context, listening, starts, phase, stepVars, layers,
                 layerVars, endVars, buildFaults, notes>>

Answered == buildSocket = "on"

-----------------------------------------------------------------------------
(***************************************************************************)
(* The builder's steps.                                                    *)
(***************************************************************************)
Goto(p) == phase' = p /\ UNCHANGED err
Failure == phase' = "cleanup" /\ err' = TRUE

\* Files that a step looks for in the context may be missing from what is on disk of
\* it.  Which files a step finds is otherwise left out.
ContextShort == command = "build" /\ context # "done" /\ Fine

Layer(changes, uuid, meta) == [changes |-> changes, uuid |-> uuid, meta |-> meta]

SetBaseImgNot(uuid) == UNCHANGED gBase
\* builderSetBaseImg(): an image of sdc-docker becomes what the next difference is
\* made against.
BuilderSetBaseImg(uuid) == gBase' = uuid

\* FROM: the image's history, which may end with an empty layer, becomes the
\* builder's, and the container is reprovisioned.  A commit starts from the
\* container's image and finds the changes that were made in it.
From ==
  /\ phase = "from"
  /\ \/ /\ command = "build" /\ Answered /\ setScratch' = TRUE /\ Goto("step") /\ Fine
        /\ stepNo' = 1 /\ UNCHANGED <<fs, gBase, layers, expected>>
     \/ /\ BuilderSetBaseImg(BaseImage) /\ stepNo' = 1 /\ Fine
        /\ \/ /\ command = "build" /\ Answered /\ fs' = {0} /\ expected' = BaseImage /\ Goto("step")
              /\ layers' \in {<<Layer({0}, BaseImage, FALSE)>>,
                             <<Layer({0}, BaseImage, FALSE), Layer({}, BaseImage, TRUE)>>}
           \/ /\ command = "commit" /\ fs' = {0, 1} /\ Goto("post")
              /\ expected' = BaseImage \o <<{1}>>
              /\ layers' = <<Layer({0}, BaseImage, FALSE), Layer({}, Unset, FALSE)>>
        /\ UNCHANGED setScratch
     \/ Failure /\ (Fails \/ ContextShort)
        /\ UNCHANGED <<stepNo, fs, gBase, layers, setScratch, expected>>
  /\ UNCHANGED <<connVars, cacheable, layerVars, endEvent, images, notes>>

Changes(meta) == IF meta THEN {} ELSE {stepNo}
Longer(uuid, meta) == IF meta THEN uuid ELSE Append(uuid, Changes(meta))

\* A cached step: find_cached_image found the image of it, and the container is
\* made from that one.  doPostStep() makes no layer.
CachedStep ==
  /\ phase = "step" /\ stepNo <= MaxSteps /\ cacheable /\ Answered
  /\ \E meta \in BOOLEAN :
       LET uuid == Longer(expected, meta) IN
       /\ BuilderSetBaseImg(uuid) /\ expected' = uuid /\ fs' = fs \cup Changes(meta)
       /\ layers' = Append(layers, Layer(Changes(meta), uuid, meta))
  /\ stepNo' = stepNo + 1
  /\ notes' = IF setScratch THEN notes \cup {"scratch"} ELSE notes
  /\ UNCHANGED <<connVars, phase, err, cacheable, setScratch, layerVars, endEvent, images,
                 buildFaults>>

\* ADD, COPY and RUN change the container (handleExtractTarfileEvent, the task
\* 'run'), other steps only the image.  updateContainerMetadata() may throw: the
\* client is told of a failure, and the build stands still, or has ended at a second
\* exception: "hung" is both.
UncachedStep ==
  /\ phase = "step" /\ stepNo <= MaxSteps
  /\ \/ /\ Answered /\ Goto("post") /\ Fine
        /\ \E meta \in BOOLEAN :
             /\ fs' = fs \cup Changes(meta) /\ expected' = Longer(expected, meta)
             /\ layers' = Append(layers, Layer({}, Unset, meta))
     \/ Failure /\ (Fails \/ ContextShort) /\ UNCHANGED <<fs, expected, layers>>
     \/ Goto("hung") /\ Fails /\ UNCHANGED <<fs, expected, layers>>
  /\ cacheable' = FALSE
  /\ UNCHANGED <<connVars, stepNo, gBase, setScratch, layerVars, endEvent, images, notes>>

NoMoreSteps ==
  /\ phase = "step" /\ stepNo > 1 /\ Goto("finish")
  /\ UNCHANGED <<connVars, stepVars, layers, layerVars, endEvent, images, buildFaults, notes>>

Top == Len(layers)

\* doPostStep(): after FROM scratch the next layer made has scratch's uuid.  Where
\* steps were cached in between, it is no longer the one that needs it.
DoPostStep ==
  /\ phase = "post"
  /\ layers' = IF setScratch THEN [layers EXCEPT ![Top].uuid = Scratch] ELSE layers
  /\ setScratch' = FALSE
  /\ Goto(IF layers[Top].meta THEN "image" ELSE "snapshot")
  /\ UNCHANGED <<connVars, stepNo, cacheable, fs, gBase, expected, layerVars, endEvent, images,
                 buildFaults, notes>>

-----------------------------------------------------------------------------
(***************************************************************************)
(* createDockerLayer().                                                    *)
(***************************************************************************)

\* The numbers start at 1 in every process; a name that exists is an error.
CreateZfsSnapshot ==
  /\ phase = "snapshot"
  /\ LET id == Len(gSnapshots) + 1 IN
       \/ /\ id \notin zfsSnaps /\ zfsSnaps' = zfsSnaps \cup {id}
          /\ gSnapshots' = Append(gSnapshots, fs) /\ Goto("placeholder") /\ Fine
       \/ id \in zfsSnaps /\ Failure /\ Fine /\ UNCHANGED <<zfsSnaps, gSnapshots>>
       \/ Failure /\ Fails /\ UNCHANGED <<zfsSnaps, gSnapshots>>
  /\ UNCHANGED <<connVars, stepVars, layers, upload, active, torn, endEvent, images, notes>>

\* An image with a uuid of its own, not activated.  An error later leaves it there.
CreatePlaceholder ==
  /\ phase = "placeholder"
  /\ \/ Goto("stream") /\ Fine
     \/ Failure /\ Fails
  /\ UNCHANGED <<connVars, stepVars, layers, layerVars, endEvent, images, notes>>

Contents(uuid) == UNION Range(uuid)

IsAgainstBaseImage == Len(gSnapshots) = 1
ParentSnapshot ==
  IF IsAgainstBaseImage THEN Contents(gBase) ELSE gSnapshots[Len(gSnapshots) - 1]

\* How zfs_snapshot_tar fails: noticed by its exit code in time, or not, because it
\* was ended by a signal or exits after IMGAPI has answered.
TarFailures == {"failed", "unnoticed"}

\* The tar is compressed and digested on its way into IMGAPI, and may arrive there
\* with other bytes.
ImportSnapshot ==
  /\ phase = "stream"
  /\ \/ /\ Goto("validate") /\ upload' = "good" /\ Fine
     \/ /\ Goto("validate") /\ upload' \in TarFailures \cup {"corrupt"} /\ Fails
     \/ Failure /\ Fails /\ upload' = "none"
  /\ layers' = [layers EXCEPT ![Top].changes = gSnapshots[Len(gSnapshots)] \ ParentSnapshot]
  /\ UNCHANGED <<connVars, stepVars, gSnapshots, zfsSnaps, active, torn, endEvent, images, notes>>

ValidSha1Only == upload # "corrupt"
\* zfsProcessError, then the file's sha1 against the one computed on the way.
ValidImage == upload \in {"good", "unnoticed"}

DoImgapiValidate ==
  /\ phase = "validate"
  /\ IF ValidImage THEN Goto("update") ELSE Failure
  /\ UNCHANGED <<connVars, stepVars, layers, layerVars, endEvent, images, buildFaults, notes>>

\* builder.layers.filter(): the layers that have a file, one after the other.
Uploaded(ls) == {i \in DOMAIN ls : ls[i].changes # {}}
Nth(places, n) == CHOOSE i \in places : Cardinality({j \in places : j <= i}) = n
DigestsOf(ls) == [n \in 1 .. Cardinality(Uploaded(ls)) |-> ls[Nth(Uploaded(ls), n)].changes]
LayerDigests == DigestsOf(layers)

\* The placeholder gets the uuid its layers make.
UpdateImgapiMetadata ==
  /\ phase = "update"
  /\ \/ Goto("activate") /\ layers' = [layers EXCEPT ![Top].uuid = LayerDigests] /\ Fine
     \/ Failure /\ Fails /\ UNCHANGED layers
  /\ UNCHANGED <<connVars, stepVars, layerVars, endEvent, images, notes>>

ImgapiActivate ==
  /\ phase = "activate"
  /\ \/ /\ Goto("image") /\ Fine /\ active' = active \cup {layers[Top].uuid}
        /\ torn' = IF upload = "good" THEN torn ELSE torn \cup {layers[Top].uuid}
     \/ Failure /\ Fails /\ UNCHANGED <<active, torn>>
  /\ notes' = IF upload = "unnoticed" THEN notes \cup {"unnoticed"} ELSE notes
  /\ UNCHANGED <<connVars, stepVars, layers, gSnapshots, zfsSnaps, upload, endEvent, images>>

\* createSdcDockerImage(): a metadata layer keeps the image below; sdc-docker
\* records the image and answers.
CreateSdcDockerImage ==
  /\ phase = "image" /\ Answered
  /\ LET uuid == IF layers[Top].uuid # Unset THEN layers[Top].uuid ELSE layers[Top - 1].uuid IN
       \/ /\ layers' = [layers EXCEPT ![Top].uuid = uuid] /\ Fine
          /\ images' = images \cup {[uuid |-> uuid, expected |-> expected]}
          /\ Goto(IF command = "commit" THEN "finish" ELSE "step") /\ stepNo' = stepNo + 1
       \/ Failure /\ Fails /\ UNCHANGED <<layers, images, stepNo>>
  /\ UNCHANGED <<connVars, cacheable, fs, gBase, setScratch, expected, layerVars, endEvent, notes>>

-----------------------------------------------------------------------------
(***************************************************************************)
(* The end.                                                                *)
(***************************************************************************)

\* build_finished or commit_finished, answered before the cleanup.
NotifySuccess ==
  /\ phase = "finish" /\ Answered
  /\ \/ Goto("cleanup") /\ Fine
     \/ Failure /\ Fails
  /\ UNCHANGED <<connVars, stepVars, layers, layerVars, endEvent, images, notes>>

CleanupOnSuccess == IF err THEN {} ELSE DOMAIN gSnapshots
Destroyed == DOMAIN gSnapshots

\* cleanup(): the snapshots, then the directory of the context; and the 'end'
\* event with whatever error there was first.
Cleanup ==
  /\ phase = "cleanup" /\ phase' = "ended"
  /\ \/ /\ zfsSnaps' = zfsSnaps \ Destroyed /\ UNCHANGED notes
        /\ \/ endEvent' = (IF err THEN "error" ELSE "ok") /\ Fine
           \/ command = "build" /\ endEvent' = "error" /\ Fails
     \/ /\ gSnapshots # <<>> /\ Fails /\ endEvent' = "error"
        /\ notes' = notes \cup {"cleanup"} /\ UNCHANGED zfsSnaps
  /\ UNCHANGED <<connVars, stepVars, layers, err, gSnapshots, upload, active, torn, images>>

BuildStep ==
  \/ ServerTimesOut \/ From \/ CachedStep \/ UncachedStep \/ NoMoreSteps \/ DoPostStep
  \/ CreateZfsSnapshot \/ CreatePlaceholder \/ ImportSnapshot \/ DoImgapiValidate
  \/ UpdateImgapiMetadata \/ ImgapiActivate \/ CreateSdcDockerImage \/ NotifySuccess \/ Cleanup

BuildNext ==
  \/ BuildStep \/ FirstConnection \/ SecondConnection
  \/ ContextEnd \/ ContextFlushed \/ ContextBreaks \/ ClientGoes

-----------------------------------------------------------------------------
(***************************************************************************)
(* Properties.                                                             *)
(***************************************************************************)

ContextOver == command = "commit" \/ context \in {"ended", "done", "lost"}

\* "we must wait for the context download to complete, before starting the build"
\* (docker-build.js:175): it starts once, after the end of the context's stream and
\* with the connection to build over, in whatever order these two come.  It does not
\* wait for the file that the context is written to.
StartsOnceReady ==
  /\ starts <= 1
  /\ phase \notin {"wait", "gone"} => starts = 1 /\ ContextOver /\ connectCount = 2

\* Every image sdc-docker is told of is activated, or was there before, and its
\* layers are exactly the changes of the steps up to it, each in one layer, in their
\* order: metadata steps and cached ones in between make no difference
\* (importImageSnapshotIntoImgapi, createSdcDockerImage), and none whose file is not
\* whole is ever activated (doImgapiValidate), unless zfs_snapshot_tar ended by a
\* signal or too late.  Not so where cached steps follow FROM scratch: a metadata
\* step after them names scratch itself.
ImagesAreTheSteps ==
  /\ "scratch" \notin notes =>
       \A i \in images :
         /\ i.uuid = i.expected
         /\ i.uuid \in active \cup {Scratch, BaseImage, gBase}
  /\ torn = {} \/ "unnoticed" \in notes

\* A build that ends has destroyed its snapshots, failed or not, unless that has
\* failed; and it is a success only when its last image is recorded (cleanup).
EndCleansUp ==
  phase = "ended" =>
    /\ "cleanup" \in notes \/ zfsSnaps = (IF "leftover" \in notes THEN {1} ELSE {})
    /\ endEvent = "ok" => gSnapshots = <<>> \/ \E i \in images : i.expected = expected

\* A build whose context has ended and that has its client ends, in whichever order
\* the two came, unless the client goes or an exception stops it (ContextEnd).
BuildEnds ==
  ContextOver /\ buildSocket = "on" ~> phase \in {"ended", "hung"} \/ buildSocket # "on"
=============================================================================
