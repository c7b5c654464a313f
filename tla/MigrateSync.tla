---------------------------- MODULE MigrateSync ----------------------------
(***************************************************************************)
(* The incremental synchronisation of a machine that is being migrated     *)
(* (bin/machine-migrate-send.js on the source, machine-migrate-receive.js  *)
(* on the target).  Every sync takes a snapshot vm-migration-<n> of each   *)
(* dataset, sends what the target lacks, and prunes what it no longer      *)
(* needs.  Nothing but the snapshots themselves tells the next sync what   *)
(* the last one did, so a sync that failed anywhere must leave snapshots   *)
(* from which the next one goes on.                                        *)
(*                                                                         *)
(* A snapshot is its name and the moment it was taken.  The code sees only *)
(* names; zfs, which is external, matches the snapshots themselves.  The   *)
(* requests to the receiver are single steps: each is carried out or not,  *)
(* and when it is, its answer may still be lost.  A run begins when the    *)
(* two processes of the run before are gone.                               *)
(*                                                                         *)
(* A machine's datasets lie beside one another (a KVM machine and its      *)
(* disks) or, when there is a delegate dataset, one within the other.  The *)
(* code synchronises the delegate like every other dataset, but what it    *)
(* has zfs do with the first dataset takes the delegate along: -r takes    *)
(* and destroys its snapshots, --replicate sends them.  The volumes of a   *)
(* docker machine lie within it in the same way, and are not modelled; the *)
(* disks of a bhyve machine are taken for one with their parent.           *)
(***************************************************************************)
EXTENDS Integers, FiniteSets

CONSTANTS
  NumDatasets,  \* a KVM machine has one for itself and one for each disk
  MaxRuns,      \* bound: syncs of the migration
  MaxFaults,    \* bound: failures, stops and second sync commands
  MaxOwn        \* bound: snapshots the machine's owner takes

ASSUME MigrateSyncAssumption ==
  NumDatasets \in Nat \ {0} /\ {MaxRuns, MaxFaults, MaxOwn} \subseteq Nat

VARIABLES
  docker,   \* a docker machine: one dataset, which may have an image snapshot
  nested,   \* the second of two datasets, a delegate, lies within the first
  clock,    \* the snapshots taken, on all datasets
  own,      \* how many of them the owner took
  src, tgt, \* the snapshots of each dataset on the source and on the target
  token,    \* the snapshot whose receipt broke off, if any (receive_resume_token)
  stage,    \* where the sender is; "down" when there is none
  ds,       \* the dataset it is at
  ctx,      \* what it found out about each dataset (this.datasets)
  aborted,  \* syncAborted
  failed,   \* the error run() ends with
  client,   \* the connection of the one who asked for the sync
  runs, faults,
  \* History, for the properties.
  disturbed,  \* a failure, a stop or a second command fell into this run
  lastOk,     \* the run before this one ended well (or this is the first)
  start,      \* the clock when this run was asked for
  synced,     \* the datasets the target has once received to the end
  strayed     \* a sync has resumed one of the owner's snapshots

zfsVars     == <<src, tgt, token>>
senderVars  == <<stage, ds, ctx, aborted, failed>>
boundVars   == <<runs, faults>>
historyVars == <<disturbed, lastOk, start, synced, strayed>>
machineVars == <<docker, nested>>
vars == <<machineVars, clock, own, zfsVars, senderVars, client, boundVars, historyVars>>

Datasets == IF docker THEN {1} ELSE 1 .. NumDatasets
\* What a recursive command about the dataset d acts on.
Within(d) == IF nested /\ d = 1 THEN Datasets ELSE {d}

\* Migration snapshots have the names 1, 2, ... (SNAPSHOT_NAME_PREFIX), the
\* owner's and an image's snapshots names below 1.
Migration(s) == s.name > 0
Names(S) == {s.name : s \in S}
Newest(S) == CHOOSE s \in S : \A r \in S : r.at <= s.at
Oldest(S) == CHOOSE s \in S : \A r \in S : s.at <= r.at
AllButNewest(S) == S \ {Newest(S)}

(***************************************************************************)
(* The names the sync goes by: the migration snapshots and, for docker,    *)
(* the oldest snapshot of all, which stands in for vm-migration-1.         *)
(***************************************************************************)
Relevant(S) == {s \in S : Migration(s) \/ (docker /\ s = Oldest(S))}

NothingKnown ==
  [names |-> {}, first |-> TRUE, resume |-> FALSE, wrong |-> FALSE, prev |-> {}, snap |-> 1]

\* What determineSnapshotNames() makes of the source's relevant snapshots S
\* and the names T of the target's.
NothingSent(S, T) ==
  [NothingKnown EXCEPT !.wrong = S = {} /\ T # {}]

FirstDocker(S) ==
  [NothingKnown EXCEPT !.names = S, !.wrong = Cardinality(S) # 1, !.snap = Newest(S).name]

NextSnapshotSame(S, T) ==
  [names |-> S, first |-> FALSE, resume |-> TRUE, wrong |-> FALSE,
   prev |-> {Newest(S)}, snap |-> Newest(S).name]
NextSnapshot(S, T) ==
  LET last == Newest(S)
      next == IF Migration(last) THEN last.name + 1 ELSE 2
  IN [names |-> S, first |-> FALSE, resume |-> TRUE, wrong |-> next \in T,
      prev |-> {last}, snap |-> next]

SendLastAgainNot(S, T) == NextSnapshot(S, T)
SendLastAgain(S, T) ==
  LET before == IF Cardinality(S) > 1 THEN {Newest(AllButNewest(S))} ELSE {}
  IN [names |-> S, first |-> before = {}, resume |-> TRUE,
      wrong |-> ~ Names(before) \subseteq T, prev |-> before, snap |-> Newest(S).name]

Determined(S, T) ==
  CASE S = {}                     -> NothingSent(S, T)
    [] S # {} /\ T = {} /\ docker -> FirstDocker(S)
    [] OTHER -> IF Newest(S).name \in T THEN NextSnapshot(S, T) ELSE SendLastAgain(S, T)

(***************************************************************************)
(* zfs, as the sync uses it.                                               *)
(***************************************************************************)

\* The snapshot the sync of dataset d is about.
Subject(d) == {s \in src[d] : s.name = ctx[d].snap}

\* The snapshots in the stream of getZfsSyncArgs(): the one that broke off,
\* everything up to the subject (--replicate; only the subject with --props),
\* or everything between the previous snapshot and the subject (-I).
Stream(d) ==
  LET c == ctx[d]
      upTo == {s \in src[d] : \A t \in Subject(d) : s.at <= t.at}
  IN CASE c.resume            -> token[d]
       [] ~c.resume /\ c.first -> IF docker THEN Subject(d) ELSE upTo
       [] OTHER               -> {s \in upTo : \A p \in c.prev : s.at > p.at}

\* The datasets in the stream that is sent of ds, and the snapshots it holds of
\* each: of the one within, what was taken together with the others.  What a token
\* stands for is one snapshot of one dataset.
Carried == IF ctx[ds].resume THEN {ds} ELSE Within(ds)
Share(e) ==
  IF e = ds THEN Stream(ds)
  ELSE {s \in src[e] : /\ \A t \in Subject(ds) : s.at <= t.at
                       /\ \A p \in ctx[ds].prev : s.at > p.at}

\* zfs send finds what it is told to send.
Sendable(d) == Subject(d) # {} /\ Stream(d) \subseteq src[d] /\ ctx[d].prev \subseteq src[d]
\* zfs receive has what an increment goes on from.
Receivable(d) ==
  ctx[d].first \/ ctx[d].resume \/ \A e \in Within(d) : ctx[d].prev \subseteq tgt[e]

\* A --replicate stream received with -F may take the snapshots along that the
\* source no longer has.
MayDrop == IF ctx[ds].first \/ ctx[ds].resume \/ docker THEN {FALSE} ELSE BOOLEAN

-----------------------------------------------------------------------------
Image == [name |-> 0, at |-> 0]

Init ==
  /\ docker \in BOOLEAN /\ nested \in BOOLEAN /\ (nested => ~ docker /\ NumDatasets = 2)
  /\ clock = 0 /\ own = 0
  /\ \E image \in IF docker THEN {{}, {Image}} ELSE {{}} :
       src = [d \in 1 .. NumDatasets |-> IF d = 1 THEN image ELSE {}]
  /\ tgt = [d \in 1 .. NumDatasets |-> {}]
  /\ token = [d \in 1 .. NumDatasets |-> {}]
  /\ stage = "down" /\ ds = 1 /\ ctx = [d \in 1 .. NumDatasets |-> NothingKnown]
  /\ aborted = FALSE /\ failed = FALSE
  /\ client = "none"
  /\ runs = 0 /\ faults = 0
  /\ disturbed = FALSE /\ lastOk = TRUE /\ start = 0 /\ synced = {} /\ strayed = FALSE

\* Something goes wrong, as often as the bound allows.
Fault == faults < MaxFaults /\ faults' = faults + 1 /\ disturbed' = TRUE
NoFault == UNCHANGED <<faults, disturbed>>

\* The pipeline goes on at stage s of dataset d, or ends with an error: the
\* rest of it is skipped, the receiver is told to stop and run() calls back.
At(s, d) == stage' = s /\ ds' = d /\ UNCHANGED failed
Fails == stage' = "shutdown" /\ failed' = TRUE /\ UNCHANGED ds
OnToPast(s, after) == IF ds \in Datasets THEN At(s, ds + 1) ELSE At(after, 1)
OnTo(s, after) == IF ds + 1 \in Datasets THEN At(s, ds + 1) ELSE At(after, 1)

ReplyLostHangs == Fault /\ stage' = "hung" /\ UNCHANGED <<ds, failed>>
\* The error of a request whose answer is lost: the socket's error or timeout.
ReplyLost == Fault /\ Fails

\* What the process kept in memory goes with it.
Forgotten ==
  /\ stage' = "down" /\ ds' = 1 /\ aborted' = FALSE /\ failed' = FALSE
  /\ ctx' = [d \in DOMAIN ctx |-> NothingKnown]

\* Conditions and effects most steps of the pipeline share.
Running(s) == stage = s /\ UNCHANGED <<machineVars, own, client, runs, lastOk, start, aborted>>
NoZfs == UNCHANGED <<clock, zfsVars, synced, strayed>>

\* machine_migrate starts both processes; the sender listens for its commands.
Listen ==
  /\ stage = "down" /\ runs < MaxRuns
  /\ runs' = runs + 1
  /\ stage' = "listening" /\ client' = "none"
  /\ disturbed' = FALSE /\ lastOk' = (client \in {"none", "ok"})
  /\ UNCHANGED <<machineVars, clock, own, zfsVars, ds, ctx, aborted, failed, faults, start,
                 synced, strayed>>

\* The sync command: its socket becomes a watcher and run() begins.
CommandSync ==
  /\ stage = "listening"
  /\ stage' = "list" /\ client' = "waiting"
  /\ start' = clock
  /\ UNCHANGED <<machineVars, clock, own, zfsVars, ds, ctx, aborted, failed, boundVars,
                 disturbed, lastOk, synced, strayed>>

\* A second sync command is refused, and endProcess() closes every watcher,
\* the first one's socket too.
CommandSyncAgain ==
  /\ stage \notin {"down", "listening", "done"}
  /\ client = "waiting" /\ Fault
  /\ client' = "cut"
  /\ UNCHANGED <<machineVars, clock, own, zfsVars, senderVars, runs, lastOk, start, synced, strayed>>

\* The stop command: abortSyncOperation() sets syncAborted and calls abortFn,
\* which nobody has set on the handler; endProcess() closes the watchers.
CommandStop ==
  /\ stage \notin {"down", "listening", "done"}
  /\ ~ aborted /\ Fault
  /\ aborted' = TRUE
  /\ client' = IF client = "waiting" THEN "cut" ELSE client
  /\ UNCHANGED <<machineVars, clock, own, zfsVars, stage, ds, ctx, failed, runs, lastOk, start,
                 synced, strayed>>

\* The process that has answered ends when it is told to.
End ==
  /\ stage = "done" /\ Forgotten
  /\ UNCHANGED <<machineVars, clock, own, zfsVars, client, boundVars, historyVars>>

-----------------------------------------------------------------------------
(***************************************************************************)
(* collectSyncInfo(), for one dataset after the other.                     *)
(***************************************************************************)

\* getSourceZfsSnapshotNames()
SourceNames ==
  /\ Running("list") /\ NoZfs
  /\ \/ ctx' = [ctx EXCEPT ![ds].names = Relevant(src[ds])] /\ At("names", ds) /\ NoFault
     \/ Fails /\ Fault /\ UNCHANGED ctx

\* connectToReceiver(), getTargetZfsSnapshotNames() and, with the answer,
\* determineSnapshotNames().
TargetNames ==
  /\ Running("names") /\ NoZfs
  /\ \/ LET c == Determined(ctx[ds].names, Names(Relevant(tgt[ds]))) IN
          /\ ctx' = [ctx EXCEPT ![ds] = c] /\ NoFault
          /\ IF aborted \/ c.wrong THEN Fails ELSE At("token", ds)
     \/ ReplyLost /\ UNCHANGED ctx

\* getZfsSendToken(): there may be something to resume.
SendToken ==
  /\ Running("token") /\ NoZfs
  /\ \/ /\ ctx' = [ctx EXCEPT ![ds].resume = @ /\ token[ds] # {}] /\ NoFault
        /\ IF aborted /\ ctx[ds].resume THEN Fails ELSE At("snapshot", ds)
     \/ ctx[ds].resume /\ ReplyLost /\ UNCHANGED ctx

\* createMigrationSnapshot(), zfs snapshot -r, which leaves alone what is there
\* already.
MigrationSnapshot ==
  LET new == [name |-> ctx[ds].snap, at |-> clock + 1]
      needed == ~ ctx[ds].resume /\ new.name \notin Names(ctx[ds].names)
  IN /\ Running("snapshot") /\ UNCHANGED <<tgt, token, synced, strayed>>
     /\ IF aborted
        THEN Fails /\ NoFault /\ UNCHANGED <<clock, src, ctx>>
        ELSE \/ /\ needed /\ At("estimate", ds) /\ NoFault
                /\ clock' = clock + 1
                /\ src' = [e \in DOMAIN src |-> IF e \in Within(ds) THEN src[e] \cup {new} ELSE src[e]]
                /\ ctx' = [ctx EXCEPT ![ds].names = @ \cup {new}]
             \/ ~ needed /\ At("estimate", ds) /\ NoFault /\ UNCHANGED <<clock, src, ctx>>
             \/ needed /\ Fails /\ Fault /\ UNCHANGED <<clock, src, ctx>>

\* getEstimate(), a dry run of zfs send.
Estimate ==
  /\ Running("estimate") /\ NoZfs /\ UNCHANGED ctx
  /\ \/ NoFault /\ IF Sendable(ds) THEN OnTo("list", "setup") ELSE Fails
     \/ Fails /\ Fault

-----------------------------------------------------------------------------
(***************************************************************************)
(* syncDatasets()                                                          *)
(***************************************************************************)

(***************************************************************************)
(* setupSync() and the target's commandSync(): a first sync that resumes   *)
(* nothing destroys what the target has of the dataset, and of the one     *)
(* within.  zfs receive runs before the answer leaves, so it may be left   *)
(* without a sender.                                                       *)
(***************************************************************************)
DestroysAlways == ~ ctx[ds].resume
DestroysFirst == ctx[ds].first /\ ~ ctx[ds].resume

TargetSetUp ==
  /\ tgt' = [e \in DOMAIN tgt |-> IF DestroysFirst /\ e \in Within(ds) THEN {} ELSE tgt[e]]
  /\ token' = [e \in DOMAIN token |-> IF DestroysFirst /\ e \in Within(ds) THEN {} ELSE token[e]]

SetupSync ==
  /\ Running("setup") /\ UNCHANGED <<clock, src, ctx, synced, strayed>>
  /\ IF aborted
     THEN Fails /\ NoFault /\ UNCHANGED <<tgt, token>>
     ELSE \/ TargetSetUp /\ At("stream", ds) /\ NoFault
          \/ TargetSetUp /\ ReplyLost
          \/ UNCHANGED <<tgt, token>> /\ ReplyLost

(***************************************************************************)
(* startSync() and the target's zfs receive: the whole stream arrives, or  *)
(* its oldest snapshots do and the next one may break off on the way.  A   *)
(* dataset comes before the one within it.                                 *)
(***************************************************************************)
Receives ==
  /\ \E drop \in MayDrop :
       tgt' = [e \in DOMAIN tgt |->
         IF e \in Carried THEN (IF drop THEN tgt[e] \cap src[e] ELSE tgt[e]) \cup Share(e)
         ELSE tgt[e]]
  /\ token' = [e \in DOMAIN token |-> IF e \in Carried THEN {} ELSE token[e]]
  /\ synced' = synced \cup {ds}
  /\ strayed' = (strayed \/ (ctx[ds].resume /\ \E s \in token[ds] : ~ Migration(s)))

ReceivesPart ==
  \E d \in Carried : \E part \in SUBSET (Share(d) \ tgt[d]) :
    LET rest == Share(d) \ (tgt[d] \cup part) IN
    /\ rest # {}
    /\ \A s \in part, r \in rest : s.at < r.at
    /\ tgt' = [e \in DOMAIN tgt |->
         CASE e = d                   -> tgt[e] \cup part
           [] e \in Carried /\ e < d  -> tgt[e] \cup Share(e)
           [] OTHER                   -> tgt[e]]
    /\ \/ token' = [token EXCEPT ![d] = {Oldest(rest)}]
       \/ part # {} /\ token' = [token EXCEPT ![d] = {}]
       \/ part = {} /\ UNCHANGED token
    /\ UNCHANGED <<synced, strayed>>

ZfsSend ==
  /\ Running("stream") /\ UNCHANGED <<clock, src, ctx>>
  /\ IF Receivable(ds)
     THEN \/ Receives /\ At("received", ds) /\ NoFault
          \/ ReceivesPart /\ Fails /\ Fault
     ELSE Fails /\ NoFault /\ UNCHANGED <<tgt, token, synced, strayed>>

\* The sync-success event ends waitForSyncSuccess(), unless it comes too late.
SyncSuccess ==
  /\ Running("received") /\ NoZfs /\ UNCHANGED ctx
  /\ \/ NoFault /\ IF aborted THEN Fails ELSE OnTo("setup", "prune")
     \/ ReplyLost

-----------------------------------------------------------------------------
(***************************************************************************)
(* cleanupSnapshots(), for one dataset after the other.                    *)
(***************************************************************************)

ToPrunePrevious == {s \in ctx[ds].prev \cap src[ds] : Migration(s)}
\* The snapshots cleanupSourceSnapshots() is still to destroy, oldest first.
ToPrune == {s \in AllButNewest(ctx[ds].names) \cap src[ds] : Migration(s)}

SourceDestroyed ==
  src' = [e \in DOMAIN src |->
    IF e \in Within(ds) THEN {s \in src[e] : s.name # Oldest(ToPrune).name} ELSE src[e]]

PruneSource ==
  /\ Running("prune") /\ UNCHANGED <<clock, tgt, token, synced, strayed, ctx>>
  /\ \/ ToPrune = {} /\ At("pruneTarget", ds) /\ NoFault /\ UNCHANGED src
     \/ ToPrune # {} /\ SourceDestroyed /\ At("prune", ds) /\ NoFault
     \/ ToPrune # {} /\ Fails /\ Fault /\ UNCHANGED src

\* cleanupTargetSnapshots() and the target's commandZfsDestroy().
ObsoleteOnTarget == IF ctx[ds].first THEN {} ELSE {s \in ctx[ds].prev : Migration(s)}

TargetPruned == tgt' = [e \in DOMAIN tgt |->
  IF e \in Within(ds) THEN {s \in tgt[e] : s.name \notin Names(ObsoleteOnTarget)} ELSE tgt[e]]

PruneTarget ==
  /\ Running("pruneTarget") /\ UNCHANGED <<clock, src, token, synced, strayed, ctx>>
  /\ IF aborted
     THEN Fails /\ NoFault /\ UNCHANGED tgt
     ELSE \/ TargetPruned /\ OnTo("prune", "shutdown") /\ NoFault
          \/ TargetPruned /\ ReplyLost
          \/ UNCHANGED tgt /\ ReplyLost

FinishIgnoresError ==
  /\ stage = "shutdown" /\ stage' = "done"
  /\ client' = IF client = "waiting" THEN "ok" ELSE client
  /\ UNCHANGED <<machineVars, clock, own, zfsVars, ds, ctx, aborted, failed, boundVars, historyVars>>

\* shutdownReceiver(), whose errors are ignored, and the answer to the client.
Finish ==
  /\ stage = "shutdown"
  /\ client' = IF client = "waiting" THEN IF failed THEN "error" ELSE "ok" ELSE client
  /\ IF failed THEN Forgotten
     ELSE stage' = "done" /\ UNCHANGED <<ds, ctx, aborted, failed>>
  /\ UNCHANGED <<machineVars, clock, own, zfsVars, boundVars, historyVars>>

-----------------------------------------------------------------------------
\* The sender dies, by itself or by the task's kill_migration_process.
SenderDies ==
  /\ stage \notin {"down", "listening", "done"}
  /\ Fault /\ Forgotten
  /\ client' = IF client = "waiting" THEN "cut" ELSE client
  /\ IF stage = "stream" /\ Receivable(ds)
     THEN Receives \/ ReceivesPart
     ELSE UNCHANGED <<tgt, token, synced, strayed>>
  /\ UNCHANGED <<machineVars, clock, own, src, runs, lastOk, start>>

\* The owner of a machine that is not docker takes a snapshot, of all its
\* datasets.
OwnSnapshot ==
  /\ own < MaxOwn /\ ~ docker
  /\ own' = own + 1 /\ clock' = clock + 1
  /\ src' = [d \in DOMAIN src |->
       IF d \in Datasets THEN src[d] \cup {[name |-> -own', at |-> clock']} ELSE src[d]]
  /\ UNCHANGED <<machineVars, tgt, token, senderVars, client, boundVars, historyVars>>

Sender ==
  \/ SourceNames \/ TargetNames \/ SendToken \/ MigrationSnapshot \/ Estimate
  \/ SetupSync \/ ZfsSend \/ SyncSuccess
  \/ PruneSource \/ PruneTarget \/ Finish

Next ==
  \/ Listen \/ CommandSync \/ CommandSyncAgain \/ CommandStop \/ End
  \/ Sender \/ SenderDies \/ OwnSnapshot

\* Every step of the sender is under way by itself; the timeout of five
\* minutes on its sockets ends the wait for an answer that does not come.
Spec == Init /\ [][Next]_vars /\ WF_vars(Sender)

-----------------------------------------------------------------------------
Snapshots == [name : Int, at : 0 .. clock]

Stages == {"down", "listening", "list", "names", "token", "snapshot", "estimate",
           "setup", "stream", "received", "prune", "pruneTarget", "shutdown", "done"}

\* Types, and what comes with them: a snapshot that broke off on its way to
\* the target is one the source still has and the target does not.
TypeOK ==
  /\ docker \in BOOLEAN /\ {clock, own, start, runs, faults} \subseteq Nat
  /\ {src, tgt, token} \subseteq [1 .. NumDatasets -> SUBSET Snapshots]
  /\ stage \in Stages /\ ds \in Datasets
  /\ \A d \in Datasets :
       /\ ctx[d].names \subseteq Snapshots /\ ctx[d].prev \subseteq Snapshots
       /\ {ctx[d].first, ctx[d].resume, ctx[d].wrong} \subseteq BOOLEAN /\ ctx[d].snap \in Int
       /\ Cardinality(token[d]) <= 1 /\ token[d] \subseteq src[d] \ tgt[d]
  /\ {aborted, failed, disturbed, lastOk, strayed} \subseteq BOOLEAN
  /\ client \in {"none", "waiting", "ok", "error", "cut"}
  /\ synced \subseteq Datasets

\* Each successful sync replicates the snapshots: when it is reported, the
\* newest one it goes by, of every dataset, is on the target
\* (run(), commandSync(), the comment on cleanupTargetSnapshots()).
EachSyncReplicates ==
  client = "ok" => \A d \in Datasets :
    \E s \in Relevant(src[d]) \cap tgt[d] : \A r \in Relevant(src[d]) : r.at <= s.at

\* It does, unless a sync has resumed one of the owner's snapshots.
SuccessReplicates == ~ strayed => EachSyncReplicates

\* A sync that ends well, after one that did, has taken what the machine
\* wrote before it was asked for (determineSnapshotNames() adds one to the
\* last name; the first sync of a docker machine sends its image).
SuccessIsFresh ==
  client = "ok" /\ lastOk /\ ~ strayed /\ (docker => runs > 1) =>
    \A d \in Datasets : \E s \in tgt[d] : Migration(s) /\ s.at > start

\* After a successful sync the source keeps only the most recent migration
\* snapshot (cleanupSourceSnapshots()), whatever earlier syncs left behind.
OneKept ==
  client = "ok" => \A d \in Datasets : Cardinality({s \in src[d] : Migration(s)}) <= 1

\* Once the target has received a dataset, there is at all times a snapshot on
\* both sides from which an increment can go on, though a sync may break off
\* between any two of its steps, its clean-up on the two sides included.
CommonBase ==
  ~ strayed /\ (nested => faults = 0) =>
    \A d \in synced : \E s \in src[d] \cap tgt[d] : docker \/ Migration(s)

\* A sync in which nothing fails ends well, whatever the syncs before left
\* behind: none of the states that determineSnapshotNames() calls wrong is
\* ever reached, and zfs has what it is told to send and to receive.
FailsOnlyDisturbed == failed => disturbed \/ (nested /\ faults > 0)

\* "mark it as a continue, and if that fails then fall back to just sending the
\* previous snapshot name": so a sync goes on from whatever the one before it has left
\* (determineSnapshotNames()).
FallsBack == failed => disturbed

\* Whoever asks for a sync gets an answer or sees the connection close.
SyncEnds == client = "waiting" ~> client # "waiting"

\* The target's copy of each dataset keeps the promises of Replica.  The moment
\* of a copy is that of the newest snapshot the sync goes by.
Moment(S) == IF S = {} THEN -1 ELSE Newest(S).at
Moments(side) == [d \in 1 .. NumDatasets |->
  IF d \in Datasets /\ ~ nested THEN Moment(Relevant(side[d])) ELSE -1]

Copies == INSTANCE Replica WITH
  Disks <- 1 .. NumDatasets, latest <- Moments(src), held <- Moments(tgt), void <- strayed \/ nested

\* A copy is never set back to an older moment, nor more than one snapshot behind,
\* and up to date when success is reported, whatever syncs broke off before.
ReplicaSpec == Copies!Spec

\* "When asked to abort the sync operation, shutdown the send socket": what is
\* still on its way is not received any more (abortSyncOperation()).
AbortStopsStream == [][aborted /\ stage = "stream" => tgt' = tgt]_vars

=============================================================================
