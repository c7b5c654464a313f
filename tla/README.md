# cn-agent in TLA+

cn-agent runs on every compute node of a Triton data center. It takes tasks over
HTTP and runs each in a process of its own, and it keeps CNAPI, the compute node
API, informed of the node's state. This directory holds TLA+ models of the
agent's concurrent parts, the TLC configurations that check them and proofs of
their main theorems. Paths below are relative to the repository, `src/`.

## The system

| Part | Source | State it keeps | Operations | Hard behaviour |
|---|---|---|---|---|
| HTTP server, task agent, runner, worker | `lib/server.js`, `lib/task_agent/` | handlers by uuid, `stopped`; `taskHistory`, `children`; per request `cbcount`, `error`, a timer, an entry; the worker process and its IPC channel | POST /tasks, GET /history, POST /pause and /resume, fork, messages, timeout, exit, SIGTERM | three handlers answer one request in any order; exit before the last messages; kills; agent crashes |
| CNAPI synchronization | `lib/app.js`, `lib/heartbeater.js` | `cnapiQueue` of concurrency one, `statusQueued`, `sysinfoQueued`, `sysinfoCount`, `latestStatus`; the reporter's `isDirty`, throttle, `samplerLock` | register, update agents, heartbeat, post status, sample, watch | changes during a post or a sample; retries; lost requests; watchers that die; restarts |
| Provision guard | `lib/backends/smartos/common.js`, `tasks/machine_create.js`, `machine_reprovision.js`, `machine_destroy.js`, `index.js` | a file in /var/tmp, with its ctime | create, reprovision, destroy, clean-up at start | tasks of one machine in different processes; hangs and crashes that leave the file |
| Sysinfo file watcher | `lib/backends/common.js` | `watching`, `retryTimer`, `prevMtime` | fs.watch, stat, retry | events and failures in any order |
| Agent installation | `lib/apm.js`, `tasks/agent_install.js`, `agents_uninstall.js`, `refresh_agents.js`, `lib/backends/common.js` | the directories of agents, images, backups; SAPI's instances | download, back up, unpack, restore, adopt | failing half way; two installs at once; the agent replacing itself |
| Machine migration | `bin/machine-migrate-send.js`, `bin/machine-migrate-receive.js`, `tasks/machine_migrate.js` | the snapshots of each dataset on both servers, the target's resume token; in the sender `datasets`, `syncAborted`, its watchers | sync, stop, kill; list, ask, snapshot, send, receive, prune | a sync failing between any two steps on two servers; lost answers; a stop during the transfer; the next sync knows snapshot names only |
| Docker exec, attach, logs | `lib/docker-stdio.js`, `bin/docker-exec.js`, `tasks/docker_exec.js`, `lib/update-wait-flag.js` | the flag wait_for_attach in metadata.json and its lock; a helper with a server, a connection, a command | set and remove the flag, wait for the zone, serve, detach, close | attach racing the machine's start; clients that leave or reset; helpers that outlive their task |
| Docker copy | `lib/docker-stdio.js`, `bin/docker-copy.js`, `tasks/docker_copy.js` | the zone's state as it was, `zoneMounted`, a tar | stat, read, write; mount, unmount | other copies and machine_boot mount and unmount the same zone |
| Docker build, commit | `bin/docker-build.js`, `tasks/docker_build.js` | two connections; `gBaseImageUuid`, `gSnapshots`, the builder's layers; images in IMGAPI | receive the context, run steps, snapshot, import, activate, record | two connections in any order; a failure in any of a dozen steps; what a layer is the difference to |
| Docker stats | `bin/docker-stats.js`, `tasks/docker_stats.js` | the last sample | sample each second | none |
| Machine boot, shutdown, reboot, kill | `tasks/machine_*.js` | the zone's | unmount, start, stop | meeting the docker tasks in the zone |
| Other vmadm tasks, snapshots, zfs tasks, server tasks | `tasks/` | none of their own | one or two external commands each | none beyond what the task runner has |
| Images | `imgadm.js`, `tasks/image_*.js` | the imported images | import with retries, quick import | retries, a peer that fails |
| Samples | `smartos/index.js` | none | pools, memory, disk usage, VMs | arithmetic |
| Dummy backend | `lib/backends/dummy/` | machines in files | the same tasks, for development | none of interest |

How they interact: the server hands a request to the task agent, which forks a
worker through the runner; worker and agent talk over an IPC channel. Nothing
serializes tasks, so that two tasks on one machine meet only through the file
system and vmadm. The startup pipeline of `app.js` starts the watchers, waits
until CNAPI has taken the first sysinfo, and only then opens the task routes and
starts the reporter. SMF restarts the agent; its contract (`ctrun -o noorphan`)
ends every process under it.

What makes each part correct: a client gets one answer, in time and true; no
worker is forgotten; CNAPI's picture becomes right and the queue stays short; a
destroy does not delete a machine under the task that makes it, ends, and tells
the truth; a sync or an update that broke off anywhere leaves something to go on
from; the copy of a machine that is migrated is never set back; a container's
program does not run before whoever attached listens; a zone is not left
mounted; an image holds what its build steps changed, and no helper is left
behind. `PROJECT.json` lists the hazards at their lines.

## Modules

`TaskRpc` is the abstract promise to a client of POST /tasks: idle, pending,
then one reply; "ok" only in the step in which the task reports success, never
after it reported a failure.

`TaskExec` is the implementation, one action per handler. The closure of a
request is `resp`, `cbcount`, `errored`, `timer`, `startSent`; its entry in
/history is `status`. Every handler that ends a task emits the message 'finish'
and the event 'finish', so that `Conclude` runs `fcb()` twice. `out` is what a
worker has put on its channel and `got` how much of it was read: a dying worker
may lose what was not read (`Dies`), and the exit may be handled before the
rest. `ReapChildren` is SIGTERM from somebody else than the task's own handlers:
the exported `reapChildren()`, which nothing in the repository calls, or an
operator. A task is an arbitrary sender of messages: what tasks compute is not
in it. Left out: a client that goes away early (nobody looks), the size limits
of a request, `subTask()` (the runner only records its message), `dtrace`
probes. A failing fork is one of the causes of `AgentCrash`. `MCTaskExec` names
the instances; `TaskExecProofs` has the invariants' proofs, `TaskExecRefinement`
the proof that `TaskExec` implements `TaskRpc`.

`CnapiSync` has the server's VMs and sysinfo as versions. `queue`, `flight` and
the two flags are `app.js`; `isDirty`, `throttle`, `samplerLock`, `loaded`,
`sample` are `heartbeater.js`. An update in flight goes through the stages
"gather" (sysinfo is read), "posted", "taken", "backoff". Every request may be
lost before or after CNAPI took it; zoneevent may die with news it had not told;
a sample may fail; the agent may restart at any time. `Cnapis` says which CNAPIs
are considered: an old one has no sysinfo route, and answers 404; every other
error of the registration is retried, whatever the CNAPI. What a status holds
besides the VMs is not distinguished; the second watcher (fs.watch on
/etc/zones) has the effect of zoneevent's and is the same action; the instance
of the agent that only updates agents (`cn-agent-update`) posts nothing.
`CnapiSyncProofs` has the proofs.

`ProvisionGuard` has any number of creates, reprovisions and destroys of one
machine. A task's place in its waterfall is its `stage`; "stuck" is the path
that calls nobody back, "orphaned" a vmadm whose worker is gone. A guard written
later has a higher number, and `aged` says up to which number guards are over
ten minutes old: that is all of ctime that matters. Each unlink of the guard may
fail, which every task ignores. `ProvisionGuardProofs` has the proofs.

`MigrateSync` is the sync of one migration, again and again. `stage` and `ds`
say where the sender is in its three pipelines (collect, sync, clean up, each
for one dataset after the other), `ctx` what it found out. The receiver keeps
nothing between requests, so each of its handlers is part of the step that asks
it: carried out and answered, carried out with the answer lost, or lost. zfs is
external: a stream is a set of snapshots, of which an interruption lets the
oldest arrive and may leave a token for the next. What getZfsSyncArgs() asks for
decides what is in the stream. A machine's datasets lie beside one another (KVM
disks) or, with a delegate dataset (`nested`), the second lies within the first:
the agent synchronises it as one of its own, while `zfs snapshot -r`, `zfs
destroy -r` and `zfs send --replicate` of the first act on it as well (`Within`,
`Carried`), and a stream may break off between the two. `strayed`, `synced`,
`lastOk` and `start` are history. Assumed: a sync starts when the processes of
the one before are gone, and the owner neither deletes snapshots nor takes them
of a docker machine (a resume token of a deleted one would fail every later
sync, and one older than a failed first sync's would break an assertion). A
docker machine has one dataset here: its shared volumes, which lie within it as
a delegate does, are not modelled. bhyve disks, children that nothing but `-r`
and `--replicate` ever touches, are taken for one with their parent: a stream
that breaks off between the two is left out. Progress events, the bandwidth
limit and the task's one-shot helpers are left out. `Replica` is the abstract
promise: of each disk the moment of the source's newest snapshot and the moment
of the target's copy, and steps that take a snapshot, bring a copy up to date or
answer. There is no step that sets a copy back and none that takes a second
snapshot before the copy has the first; all is void once one of the owner's
snapshots was resumed, and for a machine with a delegate dataset.
`MigrateSyncProofs` has the proofs, also that `MigrateSync` implements
`Replica`.

`AgentInstall` is one agent of the node, cn-agent itself or another, and what
its installation leaves on disk: its directory, the copies beside it, its links,
its instance, its service. `stage` is where the worker is that carries the
request out; cn-agent's own update has a second worker under the service
cn-agent-update. A command may fail half way (`Damaged`) and a worker may die
(`WorkersDie`); cn-agent's does when cn-agent is stopped by its own update. A
link that cannot be made and a lifecycle script that a signal ended are failures
that the code takes for successes ("unnoticed" in `trouble`). SAPI, svcadm and
the agents' other scripts are there by their effect. Requests come one after the
other: nothing in the repository sees to that. `AgentInstallProofs` has the
proofs.

`Zone` is the zone of one docker container: booted, stopped, mounted, with the
flag wait_for_attach. `DockerExec`, `DockerCopy` and `DockerBuild` are the
docker tasks, each with the process it forks; `DockerTasks` composes them, and
`DockerTasksProofs` holds the proofs about them, `DockerBuildProofs` those about
the images a build makes. In `DockerExec`, `task` is the worker, `child` the
helper, with its `server`, its `client` and its command `proc`; `unset` is the
removal of the flag, which waits for `lock`. In `DockerCopy`, `saw` is
`zoneState`, `told` how the client's connection was ended; `taken` and `kept`
are history. In both, `socket.end()` ends this side only: the connection is
closed when the client closes its own, which nothing makes it do. In
`DockerBuild` the builder is external: FROM, then steps of which a first part is
cached. An image's uuid is computed from its layers' digests and so is the
sequence of its layers here, and a layer the set of the steps whose changes it
holds: `ImagesAreTheSteps` compares what the agent made with what the steps
changed. Assumed: one FROM; a RUN changes something; one connection to each
server; IMGAPI keeps what it activated. The context's stream ends ("ended")
before the file it is piped to is written ("done") or fails to be
(`ContextFlushed`); which of its files a step then misses is one failure of that
step. Output, encodings and Docker's metadata are left out.

Definitions that begin like another and are used nowhere (`OnFinishUnrecorded`
beside `OnFinish`) are that definition with a plausible slip in it. Each stands
before the one it alters; `PROJECT.json` says which property finds it out.

## What is checked

| Run | Instance | Distinct states | What it shows |
|---|---|---|---|
| `task_exec` | two tasks, three messages of one and none of the other, one crash, a history of one | 238,240 | one answer, none forgotten, `TaskRpc` implemented, the history survives all races, who was answered has a worker that was stopped, every request answered, every worker ended |
| `timed_out_task_active` | one task | violated | a task that timed out stays active in /history |
| `cnapi_sync` | two VM changes, one sysinfo change, one restart, both CNAPIs | 883,187 | no kind of update twice, no noticed change dropped |
| `cnapi_liveness` | one VM change, one restart, both CNAPIs | 30,335 | CNAPI's picture converges, heartbeats go on |
| `sysinfo_change_lost` | one sysinfo change | violated | a sysinfo change during a post is never sent |
| `guard` | two destroys, one provision, one crash | 71,632 | a reported destroy is true, ten minutes are given, every destroy ends, be the guard removed or not |
| `migrate_sync` | two datasets, beside one another or one within the other (one for docker), four syncs, three failures, one snapshot of the owner's | 355,548 | a reported success is worth something; without a delegate dataset `Replica` is implemented and the next sync goes on from whatever a failed one left |
| `migrate_nested` | a dataset and a delegate, two syncs, one failure | violated | what a failed sync left of the delegate makes every later one fail |
| `migrate_own_snapshot` | one dataset, two syncs, one failure | violated | success without the migration snapshot |
| `migrate_abort` | one dataset, one sync | violated | a stop does not end the transfer |
| `agents` | an agent or cn-agent, two versions, three requests, two failures or deaths | 76,018 | unless its uninstallation fails, an update that began with a whole version keeps it, in place or as the copy, or has the new one, and restores it when it fails; what a reported success means; an undisturbed run repairs what earlier ones left; every task ends |
| `docker` | two sessions, two copies or one build of three steps, one failure each | 154,853 | an attach has spawned its zlogin before the program starts, mounts are given back, layers are the steps, snapshots go, helpers end when their clients have closed |

Why the bounds are enough: requests share nothing but /history, the drain flag
and the agent's life, so two of them with a history of one have every
interaction; three messages are enough for an error and two finishes in any
order. CNAPI's queue has one place per kind, so the third change meets no state
the second did not. Three tasks on one machine are the least in which a
provision, a destroy and an interfering third task meet (`MaxProvisions` bounds
how many provisions are started at all, so that there is one in the run: with
two, `GivesTenMinutes` is false); the proofs have any number. A sync looks at
the newest two migration snapshots only, so three failures in a row before a
last sync reach every pair of states the two servers can be left in. Three
requests are a run that is cut off, one that meets what it left, and one after
that. In `docker` two of a kind meet each other; only attaches share more than
the zone, the flag and its lock, so an attach meets an attach and any other
session meets logs, and no pair of copies is taken twice with the names
exchanged (`ExecCases`, `CopyCases`; the proofs have any number); a copy tells
only running from not running, so that signals and dockerinit are left out
beside copies (`ZoneChanges`). Three steps have every order of a cached step, a
metadata step and one that changes files. One crash lets every stage be cut off;
a second crash only repeats that.

`CHECK_DEADLOCK FALSE` stands in every configuration because the systems do
stop: clients make no more requests, the tasks of a machine are over, changes
and crashes are bounded, and what is left is waiting for the next one.

Fairness. `TaskExec`: timers fire, exits and SIGTERM are handled (weak fairness
of each); nothing is assumed of tasks, clients or operators. `CnapiSync`: timers
and callbacks run and every request ends (weak); CNAPI takes and answers a
status and a sysinfo, and a sample succeeds, if tried again and again (strong:
without it no agent can keep CNAPI informed). `ProvisionGuard`: time passes, a
destroy polls and vmadm's delete answers (weak); nothing is assumed of the
provisions. `MigrateSync`: the sender's step of the moment is taken (weak): its
socket has a timeout of five minutes, and every command it runs ends.
`AgentInstall`: a worker's step is taken, and the timers run (weak).
`DockerTasks`: tasks, helpers and their timers go on (weak, each session, copy
and build for itself); nothing is assumed of the zone, of the commands in it, or
of the clients, which may keep a connection that was ended, but that sdc-docker
answers a build while it is connected.

### What the violations say

* `timed_out_task_active`: `onTimeout()` (`lib/task_agent/task_runner.js:111`)
  kills and answers but does not touch the entry, and the killed worker exits
  with 0, which the exit handler takes for a clean end.
* `sysinfo_change_lost`: `lib/app.js:204` drops a change while an update that
  has read the older sysinfo is in flight.
* `migrate_own_snapshot`: a first sync of a machine with a snapshot of its
  owner's breaks off in that snapshot; the next finds its token and sends that
  snapshot alone (`machine-migrate-send.js:935`), is told of a success and
  reports one. No migration snapshot is on the target. The sync after it starts
  from scratch.
* `migrate_nested`: a first transfer of a machine with a delegate dataset breaks
  off after the first dataset's snapshot, before the delegate's. The next sync
  takes the second snapshot of both (`-r`) before it looks at the delegate: of
  its two snapshots neither is on the target, where there is nothing to resume,
  and the sync ends with "Migration snapshots are missing from the target
  server" (`machine-migrate-send.js:802`), as does every later one. Without a
  failure, too, the delegate is sent twice: what came with the first dataset is
  destroyed by the delegate's own first sync (`machine-migrate-receive.js:339`).
* `migrate_abort`: `abortSyncOperation()` calls `this.abortFn` of the handler,
  which nobody sets: lines 236 and 295 set it on the `this` of a plain function.

Three more things the models make plain, without a run of their own. The agent's
start removes machine-creation-*, while the guards are called
machine-provision-* (`lib/backends/smartos/index.js:909`): in `ProvisionGuard`
it leaves every guard that an agent's death has left, and only its age ends the
wait for it. Two provisions of one machine share one guard, so `GivesTenMinutes`
is false for them: the first to end removes the other's guard. And the queue
`agents_tasks` asks for `maxConcurrent: 1`, which no code reads.

The properties of `agents` and `docker` name what they leave out, because there
the code does otherwise:

* Agents. A first installation that fails is removed and reported as a success
  (`install_failed` without `is_update`). When the uninstallation within an
  update fails, `mv` puts the new version inside the old directory, and success
  is reported (`apm.js:411`). So it is when a link cannot be made, since the
  error of `fs.symlink()` is dropped (`apm.js:483`), and when a lifecycle script
  is ended by a signal, whose exit code is null (`apm.js:156`). A run after a
  worker that died between removal and move takes the agent for not installed
  and removes the only copy. What `restoreBackup()` puts back is the directory:
  neither the service nor the links, so that cn-agent may be left without its
  service. A tar that fails calls back twice, which ends the worker.
* Exec. A second attach removes the first one's flag; an attach whose client
  never comes leaves its flag, and a start in that minute or after ends in
  dockerinit; an error while the flag is removed leaves the lock with the helper
  until it ends; a helper whose command ends after its client left dies of an
  assertion (`docker-stdio.js:966`). Commands without a tty get no stdin:
  `AttachStdin` is never handed on. What comes before the program is the
  spawning of zlogin: nobody waits until it is connected to the console
  (`docker-stdio.js:1074`).
* Exec and copy. A client that neither reads nor closes its side keeps the
  helper for as long (`docker-stdio.js:496`, `784`, `940`).
* Copy. A read that the data timeout kills ends like a complete one; a reader's
  reset kills the helper, and the zone stays mounted until the next boot; a
  write to a stopped zone has no timeout, and a reset leaves its tar behind.
* Build. It starts at the end of the context's stream and does not wait for the
  file (`docker-build.js:277`): a file cut short, by a full disk say, is built
  from, and its late error only tells the client of a failure. Cached steps
  after FROM scratch followed by a metadata step name scratch as the image
  (`docker-build.js:512`); a tar that ends by a signal, or after IMGAPI
  answered, is not noticed; a client that leaves, or an exception, leaves the
  build standing with its snapshots, and a snapshot left of a commit makes the
  next one fail; a second connection that never comes leaves the server open.

## What is proved

For every value of the constants, from the assumptions named in the modules
(bounds are natural numbers, kinds of tasks do not overlap):

* `TaskExecProofs`: `TypeOK`, `OneAnswer`, `AnsweredOrWatched`, `HistoryAgrees`,
  `NoOrphan`, `AnsweredIsStopped`. The inductive invariant says how one
  request's counter, answer, timer, worker and entry hang together. `OneAnswer`
  alone is not inductive: that `sends` is 0 or 1 depends on `cbcount` never
  being 1, since `fcb()` answers at the second call and is always called twice.
  That somebody watches a pending request depends on exit code 0 implying a
  SIGTERM, and a SIGTERM to a pending request implying `reaped`.
* `TaskExecRefinement`: `Spec => RpcSpec`. It needs besides that while a client
  waits no finish has been read and `errored` is set exactly when an error was.
* `ProvisionGuardProofs`: `TypeOK`, `DestroyTrue` for any number of tasks;
  `GivesTenMinutes` for any number of destroys and crashes when there is one
  provision (the assumption `OneProvision`). The invariant for the last says
  that there is at most guard number 1, and that whoever removed it while the
  provision is under way did so after ten minutes.

* `DockerTasksProofs`: `AttachedBeforeRun`, `UnmountedBeforeEnd`, `UnmountsOwn`,
  `StartsOnceReady`, `EndCleansUp`, for any number of sessions, copies, steps
  and failures. `FlagInv`: an attach asks for the removal of the flag only once
  its client has come and its zlogin is there, so that an attach still to start
  has a flag, its own or a later one's, or was robbed of it. `MountInv`: a copy
  that believes to have the zone mounted has it or was robbed of it, and closes
  its connection only when it no longer believes so. Two copies are too few to
  see that one robbed by machine_boot may rob another, which may rob a third:
  the proof has the chain, in the history `taken`. `ConnInv`: which connection
  is still to come can be told from what is there. `EndInv`: the snapshots on
  disk are those of the build and the one it found, and between two steps the
  last image is recorded.

* `CnapiSyncProofs`: `TypeOK`, `OneOfEach`, `NoChangeForgotten`, for any number
  of changes and restarts. A flag alone does not say that there is one update of
  its kind: the invariant has for each kind where its one instance is. An update
  of VMs or sysinfo is queued or under way only under its flag; "agents" only
  between the registration and the first report; a heartbeat is queued, or under
  way, or its timer runs, and no two of these. And nothing that was loaded,
  sampled, sent or kept by CNAPI is newer than the machines themselves, so that
  the latest version is a bound of all of them.
* `MigrateSyncProofs`: `TypeOK`, `SuccessReplicates` (which `Replica` contains
  and no run repeats), `SuccessIsFresh`, `OneKept`, `CommonBase`,
  `FailsOnlyDisturbed`, for any number of datasets, syncs, failures and
  snapshots of the owner. All are proved of machines without a delegate dataset
  (`~ nested`); for those with one TLC checks `TypeOK`, `SuccessIsFresh` and
  `OneKept`, and the other two as long as nothing fails. None is inductive,
  since each sync knows only the snapshots: the invariant says what any two
  failed syncs can leave. `Ordered`: names of migration snapshots grow with
  their age, on both sides together. `Tokens`: a receipt that broke off is of a
  snapshot that the target lacks, and then the newest is one it lacks. `Bases`:
  the target has nothing newer than the source, and of the source's newest two
  it has one. `Settlement`: from what `determineSnapshotNames()` decided till
  the end of the sync, which snapshot is the subject and what the increment goes
  on from, then that it arrived, then that it is the only one. `Fresh` and
  `Replicated` carry the two ends to the moment of the answer, also past the
  death of the sender.
* `MigrateSyncProofs` too: `Spec => ReplicaSpec` (of which nothing is left for a
  machine with a delegate dataset), with one lemma for each action. The moment
  of a side is that of its newest relevant snapshot. Besides the invariant the
  proof needs that a part of a stream never brings the snapshot the sync is
  about, which is its last; that a dataset of which nothing was received to the
  end has nothing relevant on the target (`Unreceived`), so that the first sync
  destroys nothing that counts; and that who waits for an answer has a sender
  (`Attended`).
* `AgentInstallProofs`: `TypeOK`, `CopyKept`, `FailureRestores`, `SuccessMeans`,
  `Idempotent`, for any number of versions, requests and failures. `Route`:
  which of the two workers can be where, and who waits for whom. `Waits`:
  cn-agent's first worker lives only as long as the old version is there or will
  be put back. `Place`: at which stages the old version is in place, and at
  which in the copy. `Success` and `Removal`: how much of the new version is
  there, or of the old one gone, after each step.
* `DockerBuildProofs`: `ImagesAreTheSteps` for any number of steps and failures,
  and `DockerTypeOK`. The digests of the layers are proved to tell layers apart
  by what was uploaded and by nothing else (`SameDigests`, `MoreDigests`). Then:
  the files made so far are those of the steps but for the one under way
  (`Digested`); what the next difference is made to holds exactly those
  (`Compared`); and the last layer between two steps has their uuid (`Named`),
  unless the known mistake with a metadata step after cached steps on scratch
  was met (`notes`).

With these every invariant and action property of every passing run, and both
refinements, are theorems, but for the machines with a delegate dataset. Each
inductive invariant was checked on its run by TLC before it was proved.

Only model-checked: liveness (`Answered`, `WorkerEnds`, `StatusConverges`,
`SyncEnds`, `HeartbeatsGoOn`, `DestroyEnds`, `RunEnds`, `DockerEnds`). tlapm
proves no liveness under fairness, no ENABLED, and no induction over data.

## Plan

Done: `TaskRpc`, `TaskExec` with proofs and refinement, `Replica`, `MigrateSync`
with the same, `CnapiSync`, `ProvisionGuard`, `AgentInstall` and the docker
modules with proofs. Next, in this order:

1. The volumes of docker machines in `MigrateSync`, and proofs about delegate
   datasets.
2. An abstract agent that is replaced or left as it was, implemented by
   `AgentInstall`.
3. `SysinfoWatch`: the watcher under `CnapiSync`'s sysinfo event.
4. `ImageImport`; `DiskUsage` as a pure function against a reference definition.

## Not modelled

zfs, snapshot and single-command tasks (nothing but an answer, which `TaskExec`
has); docker stats (a computation on counters, for one client); the watcher of
sysinfo and the import of images, which are planned; samples and disk usage
(arithmetic on the output of commands); the interpreter of Dockerfiles, which is
a library outside the repository; the dummy backend, packaging and tools.
