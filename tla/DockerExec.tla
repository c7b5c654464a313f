----------------------------- MODULE DockerExec -----------------------------
(***************************************************************************)
(* docker exec, attach and logs: the task docker_exec, the process it      *)
(* forks (bin/docker-exec.js) and the server in it (lib/docker-stdio.js)   *)
(* that relays one connection of sdc-docker to zlogin, cat or tail.        *)
(*                                                                         *)
(* An attach sets the flag wait_for_attach before it waits for the zone,   *)
(* and removes it when it has spawned its zlogin, so that the program does *)
(* not run before somebody listens.  Whether that zlogin is connected to   *)
(* the console by then is not looked at, neither there nor here.           *)
(*                                                                         *)
(* One connection comes to each server; it ends orderly or with a reset,   *)
(* and is closed when the client has closed its side, whenever that is.    *)
(***************************************************************************)
EXTENDS Zone, Naturals

CONSTANTS
  Sessions,    \* requests of docker_exec for this zone
  MaxExecFaults   \* bound: commands and file operations that fail

ASSUME DockerExecAssumption == None \notin Sessions /\ MaxExecFaults \in Nat

VARIABLES
  kind, tty,    \* what was asked for
  task,         \* the docker_exec task
  child,        \* the process it has forked
  server,       \* its listening socket
  client,       \* the connection to sdc-docker; "ending": this side has ended it
  proc,         \* zlogin, cat or tail; "helper" while dockerexec prepares
  prev,         \* the key before was ^P
  unset,        \* the removal of the flag
  lock,         \* the lock of the zone's configuration
  execFaults,
  robbed        \* history: attaches whose flag another one has removed

taskVars  == <<kind, tty, task>>
flagVars  == <<unset, lock, robbed>>
childVars == <<child, server, client, proc, prev>>
execVars  == <<taskVars, flagVars, childVars, execFaults>>

Kinds == {"attach", "exec", "detach", "logs"}

ExecTypeOK ==
  /\ kind \in [Sessions -> Kinds] /\ tty \in [Sessions -> BOOLEAN]
  /\ task \in [Sessions -> {"idle", "set", "poll", "forked", "done", "fatal"}]
  /\ child \in [Sessions -> {"none", "up", "over", "dead"}]
  /\ server \in [Sessions -> {"none", "listening", "closed"}]
  /\ client \in [Sessions -> {"none", "on", "ending", "gone"}]
  /\ proc \in [Sessions -> {"none", "helper", "running", "killed", "gone"}]
  /\ prev \in [Sessions -> BOOLEAN]
  /\ unset \in [Sessions -> {"no", "asked", "done", "failed"}]
  /\ lock \in Sessions \cup {None} /\ execFaults \in 0 .. MaxExecFaults
  /\ robbed \subseteq Sessions /\ flag \in Sessions \cup {None} /\ expired \subseteq Sessions
  \* Only an attach touches the flag, and only one that fails keeps the lock.
  /\ \A s \in Sessions : unset[s] # "no" => kind[s] = "attach"
  /\ lock # None => child[lock] = "up" /\ unset[lock] = "failed"

ExecInit ==
  /\ kind \in [Sessions -> Kinds] /\ tty \in [Sessions -> BOOLEAN]
  /\ \A s \in Sessions : tty[s] => kind[s] \in {"attach", "exec"}
  /\ task = [s \in Sessions |-> "idle"] /\ child = [s \in Sessions |-> "none"]
  /\ server = [s \in Sessions |-> "none"] /\ client = [s \in Sessions |-> "none"]
  /\ proc = [s \in Sessions |-> "none"] /\ prev = [s \in Sessions |-> FALSE]
  /\ unset = [s \in Sessions |-> "no"]
  /\ lock = None /\ execFaults = 0 /\ robbed = {}

ExecFault == execFaults < MaxExecFaults /\ execFaults' = execFaults + 1
NoExecFault == UNCHANGED execFaults

To(f, s, v) == [f EXCEPT ![s] = v]

-----------------------------------------------------------------------------
(***************************************************************************)
(* The task.                                                               *)
(***************************************************************************)

\* Attaches set the flag first; the 60 seconds begin.
Ask(s) ==
  /\ task[s] = "idle"
  /\ task' = To(task, s, IF kind[s] = "attach" THEN "set" ELSE "poll")
  /\ UNCHANGED <<kind, tty, childVars, flagVars, execFaults, zoneVars>>

\* WAIT_TIMEOUT of an attach; only its own task and dockerinit look at the time.
TimePasses(s) ==
  /\ s \notin expired /\ kind[s] = "attach" /\ (task[s] \in {"set", "poll"} \/ flag = s)
  /\ expired' = expired \cup {s}
  /\ UNCHANGED <<execVars, zone, mounter, boot, flag>>

\* setWaitFlag().  The lock goes with the worker when this fails.
SetWaitFlag(s) ==
  /\ task[s] = "set" /\ lock = None
  /\ \/ flag' = s /\ task' = To(task, s, "poll") /\ NoExecFault
     \/ task' = To(task, s, "fatal") /\ ExecFault /\ UNCHANGED flag
  /\ UNCHANGED <<kind, tty, childVars, flagVars, zone, mounter, boot, expired>>

TimedOutNever(s) == FALSE
TimedOut(s) == s \in expired

\* execWhenRunning(): logs never wait, only attaches do.
ExecWhenRunning(s) ==
  /\ task[s] = "poll"
  /\ \/ /\ kind[s] = "logs" \/ Running
        /\ task' = To(task, s, "forked") /\ child' = To(child, s, "up") /\ NoExecFault
     \/ /\ kind[s] # "logs" /\ ~Running /\ (kind[s] = "attach" => TimedOut(s))
        /\ task' = To(task, s, "fatal") /\ NoExecFault /\ UNCHANGED child
     \/ kind[s] # "logs" /\ task' = To(task, s, "fatal") /\ ExecFault /\ UNCHANGED child
  /\ UNCHANGED <<kind, tty, server, client, proc, prev, flagVars, zoneVars>>

\* A child that is sent nothing, for want of sysinfo or an admin NIC, ends with
\* its task.
SpawnExecFails(s) ==
  /\ task[s] = "forked" /\ ExecFault
  /\ task' = To(task, s, "fatal") /\ child' = To(child, s, "over")
  /\ UNCHANGED <<kind, tty, server, client, proc, prev, flagVars, zoneVars>>

-----------------------------------------------------------------------------
(***************************************************************************)
(* The child: its server and its command.                                  *)
(***************************************************************************)
FirstProc(s) == IF kind[s] \in {"exec", "detach"} THEN "helper" ELSE "running"

\* It runs a detached command at once and listens for the others; the port is
\* the task's answer.
SetupEarly(s) ==
  /\ task[s] = "forked" /\ task' = To(task, s, "done")
  /\ \/ kind[s] = "detach" /\ proc' = To(proc, s, FirstProc(s)) /\ UNCHANGED <<server, unset>>
     \/ /\ kind[s] # "detach" /\ server' = To(server, s, "listening") /\ UNCHANGED proc
        /\ unset' = IF kind[s] = "attach" THEN To(unset, s, "asked") ELSE unset
  /\ UNCHANGED <<kind, tty, child, client, prev, lock, robbed, execFaults, zoneVars>>
SetupDockerExecution(s) ==
  /\ task[s] = "forked" /\ task' = To(task, s, "done")
  /\ \/ kind[s] = "detach" /\ proc' = To(proc, s, FirstProc(s)) /\ UNCHANGED server
     \/ kind[s] # "detach" /\ server' = To(server, s, "listening") /\ UNCHANGED proc
  /\ UNCHANGED <<kind, tty, child, client, prev, flagVars, execFaults, zoneVars>>

\* Nobody comes within 30 seconds.
ServerTimeout(s) ==
  /\ server[s] = "listening" /\ client[s] = "none"
  /\ server' = To(server, s, "closed")
  /\ UNCHANGED <<taskVars, child, client, proc, prev, flagVars, execFaults, zoneVars>>

UnsetsFor(s) == kind[s] = "attach"

\* onConnection(), spawnProcess(): first the command is spawned, then the removal of
\* the flag begins; a zlogin is then still on its way to the console.
SpawnProcess(s) ==
  /\ server[s] = "listening" /\ client[s] = "none"
  /\ client' = To(client, s, "on") /\ proc' = To(proc, s, FirstProc(s))
  /\ unset' = IF UnsetsFor(s) THEN To(unset, s, "asked") ELSE unset
  /\ UNCHANGED <<taskVars, child, server, prev, lock, robbed, execFaults, zoneVars>>

AwaitsStart(s) ==
  kind[s] = "attach" /\ task[s] \in {"poll", "forked", "done"} /\ proc[s] = "none"

\* unsetWaitFlag() without a timestamp removes whatever flag is there.  It may
\* fail to get the lock; when reading or writing fails the lock stays with the child.
UnsetWaitFlag(s) ==
  /\ child[s] = "up" /\ unset[s] = "asked" /\ lock = None
  /\ \/ /\ flag' = None /\ unset' = To(unset, s, "done") /\ NoExecFault
        /\ robbed' = robbed \cup {r \in Sessions \ {s} : AwaitsStart(r)} /\ UNCHANGED lock
     \/ /\ unset' = To(unset, s, "failed") /\ lock' \in {s, None} /\ ExecFault
        /\ UNCHANGED <<flag, robbed>>
  /\ UNCHANGED <<taskVars, childVars, zone, mounter, boot, expired>>

\* dockerexec is ready, says EXEC and becomes the user's command.
DockerExecLines(s) ==
  /\ proc[s] = "helper" /\ proc' = To(proc, s, "running")
  /\ UNCHANGED <<taskVars, child, server, client, prev, flagVars, execFaults, zoneVars>>

\* A pty's line from the client: keys, its end, or something unknown.  ^P is held
\* back, ^Q after it sends the signals that detach; the last two close the pty.
PtyInput(s) ==
  /\ child[s] = "up" /\ client[s] = "on" /\ tty[s] /\ proc[s] \in {"helper", "running"}
  /\ \E key \in {"^P", "^Q", "other", "end"} :
       /\ prev' = To(prev, s, key = "^P")
       /\ proc' = IF key = "end" \/ (key = "^Q" /\ prev[s]) THEN To(proc, s, "killed") ELSE proc
  /\ UNCHANGED <<taskVars, child, server, client, flagVars, execFaults, zoneVars>>

HangUpPtyOnly(s) == tty[s]
\* The client's leaving ends a pty and kills cat or tail.
HangUp(s) == tty[s] \/ kind[s] = "logs"

Alive(s) == proc[s] \in {"helper", "running"}

Connected(s) == client[s] \in {"on", "ending"}

\* 'end', then 'close', of the connection: stdin is ended, and the server closed.
ClientLeaves(s) ==
  /\ child[s] = "up" /\ Connected(s)
  /\ client' = To(client, s, "gone") /\ server' = To(server, s, "closed")
  /\ proc' = IF Alive(s) /\ HangUp(s) THEN To(proc, s, "killed") ELSE proc
  /\ UNCHANGED <<taskVars, child, prev, flagVars, execFaults, zoneVars>>

\* A process's locks and sockets go with it.
Released(s) == IF lock = s THEN None ELSE lock
Dies(s, how) == child' = To(child, s, how) /\ lock' = Released(s)

\* 'error', then 'close', without an 'end': the command is left as it is.  For logs
\* nobody listens to the error, and the child dies of it.
ClientResets(s) ==
  /\ child[s] = "up" /\ Connected(s)
  /\ client' = To(client, s, "gone") /\ server' = To(server, s, "closed")
  /\ IF kind[s] = "logs" THEN Dies(s, "dead") ELSE UNCHANGED <<child, lock>>
  /\ UNCHANGED <<taskVars, proc, prev, unset, robbed, execFaults, zoneVars>>

\* The command has ended: the client is told its code, and this side of the connection
\* ended.  writeEnd() asserts that the client is still there.
CommandCloses(s) ==
  /\ proc[s] # "none" /\ proc[s] # "gone" /\ proc' = To(proc, s, "gone")
  /\ prev' = To(prev, s, FALSE)
  /\ IF child[s] = "up" /\ client[s] = "gone" /\ kind[s] # "logs"
       THEN Dies(s, "dead") /\ UNCHANGED <<client, server>>
       ELSE /\ client' = IF client[s] = "on" THEN To(client, s, "ending") ELSE client
            /\ UNCHANGED <<server, child, lock>>
  /\ UNCHANGED <<taskVars, unset, robbed, execFaults, zoneVars>>

\* Nothing is left to wait for.
ChildEnds(s) ==
  /\ child[s] = "up" /\ task[s] \in {"done", "fatal"}
  /\ server[s] # "listening" /\ ~Connected(s) /\ proc[s] \in {"none", "gone"}
  /\ unset[s] # "asked"
  /\ Dies(s, "over")
  /\ UNCHANGED <<taskVars, server, client, proc, prev, unset, robbed, execFaults, zoneVars>>

-----------------------------------------------------------------------------
\* What goes on by itself.  A command ends when it is killed.
ExecStep(s) ==
  \/ TimePasses(s) \/ SetWaitFlag(s) \/ ExecWhenRunning(s) \/ SpawnExecFails(s)
  \/ SetupDockerExecution(s) \/ ServerTimeout(s) \/ UnsetWaitFlag(s)
  \/ (proc[s] = "killed" /\ CommandCloses(s)) \/ ChildEnds(s)

\* What others do: sdc-docker, and the command itself.
ExecOthers(s) ==
  \/ Ask(s) \/ SpawnProcess(s) \/ DockerExecLines(s) \/ PtyInput(s) \/ ClientLeaves(s)
  \/ ClientResets(s) \/ CommandCloses(s)

ExecNext ==
  \/ \E s \in Sessions : ExecStep(s) \/ ExecOthers(s)
  \/ ZoneNext /\ UNCHANGED execVars

-----------------------------------------------------------------------------
(***************************************************************************)
(* Properties.                                                             *)
(***************************************************************************)

\* An attach whose flag is set comes before the program: its zlogin has been spawned,
\* though not necessarily connected to the console (docker_exec.js,
\* update-wait-flag.js:28-46), unless another attach of the zone took its flag away.
\* The second attach does take it.
AttachedBeforeRun ==
  [][zone = "init" /\ zone' = "program" =>
       \A s \in Sessions : AwaitsStart(s) => s \in robbed]_<<zone, execVars>>

\* A task that was asked for something ends, after its 60 seconds at the latest,
\* unless a helper keeps the lock of the configuration.
ExecAnswers ==
  \A s \in Sessions : task[s] # "idle" ~> task[s] \in {"done", "fatal"} \/ lock # None

\* The helper and its server are gone when nobody is connected and the command
\* has ended; cat and tail end with the client (ServerTimeout, onSocketClose).
\* A client that is told of the end and does not close keeps its helper, and a
\* removal of the flag may wait for a lock that is never released.
Unwanted(s) ==
  /\ task[s] = "done" /\ ~Connected(s)
  /\ kind[s] = "logs" \/ proc[s] \in {"none", "killed", "gone"}
HelperEnds ==
  \A s \in Sessions :
    child[s] = "up" /\ Unwanted(s) ~>
      child[s] # "up" \/ Connected(s) \/ (unset[s] = "asked" /\ lock # None)
=============================================================================
