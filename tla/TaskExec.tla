------------------------------ MODULE TaskExec ------------------------------
(***************************************************************************)
(* Task execution in cn-agent: lib/server.js takes a POST /tasks, the      *)
(* handler of lib/task_agent/task_agent.js builds the closure that will    *)
(* answer it, lib/task_agent/task_runner.js forks a worker (task_worker.js *)
(* running a Task of task.js) and turns what the worker says, its exit and *)
(* a one hour timer into that answer and into the /history entry.          *)
(*                                                                         *)
(* The agent is one JavaScript thread: each of its handlers is one action. *)
(* What interleaves is the agent, one worker process per task, the timers, *)
(* the IPC channel, the operator (pause, resume, kill) and agent crashes.  *)
(***************************************************************************)
EXTENDS Naturals, Sequences, FiniteSets

CONSTANTS
  Tasks,        \* the requests clients make, one per POST /tasks
  MaxMessages,  \* bound for each task: messages its worker sends, 'ready' included
  MaxCrashes,   \* bound: times the agent process dies
  MaxHistory    \* task_runner.js: maxHistory, entries /history keeps

ASSUME TaskExecAssumption ==
  /\ MaxMessages \in [Tasks -> Nat] /\ MaxCrashes \in Nat
  /\ MaxHistory \in Nat \ {0}

VARIABLES
  \* The agent.
  registered,  \* server.js: handleTasks has the handler of our uuid
  draining,    \* server.js: stop accepting new tasks
  history,     \* task_runner.js: taskHistory, the last tasks dispatched
  children,    \* task_runner.js: children, tasks whose worker has not exited
  crashes,     \* how often the agent died
  \* The agent's closure for one request.
  resp,        \* what the client has been answered
  sends,       \* number of answers written to the client's connection
  cbcount,     \* task_agent.js: cbcount, calls of fcb()
  errored,     \* task_agent.js: error has been set
  timer,       \* task_runner.js: timeout
  startSent,   \* task_runner.js: the start message was sent to the worker
  status,      \* task_runner.js: entry.status
  \* The worker process and what the agent has read from it.
  proc,        \* life of the process
  term,        \* a SIGTERM was sent to it
  code,        \* its exit code, null when a signal killed it
  out,         \* every message it put on the IPC channel
  got,         \* how many of them the agent has received
  reaped       \* somebody but a finished or timed out task's handler sent SIGTERM

agentVars   == <<registered, draining, crashes>>
closureVars == <<resp, sends, cbcount, errored>>
workerVars  == <<proc, code, out>>
vars == <<registered, draining, history, children, crashes, resp, sends,
          cbcount, errored, timer, startSent, status, proc, term, code, out,
          got, reaped>>

\* hungUp: the connection timed out; lost: the agent died.
Refusals == {"notFound", "unavailable", "badRequest"}
Answers  == {"ok", "error"} \cup Refusals
Messages == {"ready", "error", "finish", "note"}
Alive    == {"booting", "waiting", "running"}

TypeOK ==
  /\ registered \in BOOLEAN /\ draining \in BOOLEAN
  /\ history \in Seq(Tasks) /\ Len(history) <= MaxHistory
  /\ children \in SUBSET Tasks
  /\ crashes \in Nat
  /\ resp \in [Tasks -> {"idle", "pending", "hungUp", "lost"} \cup Answers]
  /\ sends \in [Tasks -> Nat] /\ cbcount \in [Tasks -> Nat]
  /\ errored \in [Tasks -> BOOLEAN]
  /\ timer \in [Tasks -> {"unset", "armed", "fired", "cleared"}]
  /\ startSent \in [Tasks -> BOOLEAN]
  /\ status \in [Tasks -> {"none", "active", "finished", "failed"}]
  /\ proc \in [Tasks -> {"none", "exited"} \cup Alive]
  /\ term \in [Tasks -> BOOLEAN]
  /\ code \in [Tasks -> {"none", "zero", "nonzero", "null"}]
  /\ out \in [Tasks -> Seq(Messages)]
  /\ got \in [Tasks -> Nat] /\ \A t \in Tasks : got[t] <= Len(out[t])
  /\ reaped \in [Tasks -> BOOLEAN]

Init ==
  /\ registered = FALSE /\ draining = FALSE
  /\ history = <<>> /\ children = {} /\ crashes = 0
  /\ resp = [t \in Tasks |-> "idle"]
  /\ sends = [t \in Tasks |-> 0]
  /\ cbcount = [t \in Tasks |-> 0]
  /\ errored = [t \in Tasks |-> FALSE]
  /\ timer = [t \in Tasks |-> "unset"]
  /\ startSent = [t \in Tasks |-> FALSE]
  /\ status = [t \in Tasks |-> "none"]
  /\ proc = [t \in Tasks |-> "none"]
  /\ term = [t \in Tasks |-> FALSE]
  /\ code = [t \in Tasks |-> "none"]
  /\ out = [t \in Tasks |-> <<>>]
  /\ got = [t \in Tasks |-> 0]
  /\ reaped = [t \in Tasks |-> FALSE]
-----------------------------------------------------------------------------
(* The HTTP server.                                                        *)

\* task_agent.js setupTaskRoutes(): run once the startup pipeline is done.
SetupTaskRoutes ==
  /\ ~registered
  /\ registered' = TRUE
  /\ UNCHANGED <<draining, history, children, crashes, closureVars, timer,
                 startSent, status, workerVars, term, got, reaped>>

Pause ==
  /\ ~draining
  /\ draining' = TRUE
  /\ UNCHANGED <<registered, history, children, crashes, closureVars, timer,
                 startSent, status, workerVars, term, got, reaped>>

Resume ==
  /\ draining
  /\ draining' = FALSE
  /\ UNCHANGED <<registered, history, children, crashes, closureVars, timer,
                 startSent, status, workerVars, term, got, reaped>>

\* The refusals, in the order in which the handlers test for them.
Refusal(why) ==
  CASE why = "notFound"    -> TRUE  \* no handler yet, other uuid, unknown task
    [] why = "unavailable" -> registered /\ draining
    [] why = "badRequest"  -> registered /\ ~draining

Refuse(t, why) ==
  /\ resp[t] = "idle"
  /\ Refusal(why)
  /\ resp' = [resp EXCEPT ![t] = why]
  /\ sends' = [sends EXCEPT ![t] = @ + 1]
  /\ UNCHANGED <<agentVars, history, children, cbcount, errored, timer,
                 startSent, status, workerVars, term, got, reaped>>

\* taskHistory.push() and the splice() that keeps its last maxHistory entries.
RememberAll(h, t) == Append(h, t)
Remember(h, t) ==
  IF Len(h) < MaxHistory THEN Append(h, t)
  ELSE Append(SubSeq(h, Len(h) - MaxHistory + 2, Len(h)), t)

Accepting == registered /\ ~draining

\* The handler with a well formed request: build the closure, fork, arm.
Dispatch(t) ==
  /\ resp[t] = "idle"
  /\ Accepting
  /\ resp' = [resp EXCEPT ![t] = "pending"]
  /\ proc' = [proc EXCEPT ![t] = "booting"]
  /\ timer' = [timer EXCEPT ![t] = "armed"]
  /\ children' = children \cup {t}
  /\ history' = Remember(history, t)
  /\ status' = [status EXCEPT ![t] = "active"]
  /\ UNCHANGED <<agentVars, sends, cbcount, errored, startSent, term, code,
                 out, got, reaped>>
-----------------------------------------------------------------------------
(* The answer.  Every handler that ends a task emits both 'finish' and the *)
(* event 'finish', and each of the two runs fcb() once.                    *)

AnswersFrom(n) == n >= 2
AnswersAt(n) == n = 2

\* fcb() twice, with the closure's error set or not.
Conclude(t, failed) ==
  LET first  == AnswersAt(cbcount[t] + 1)
      second == AnswersAt(cbcount[t] + 2)
  IN  /\ cbcount' = [cbcount EXCEPT ![t] = @ + 2]
      /\ sends' = [sends EXCEPT ![t] = @ + (IF first THEN 1 ELSE 0)
                                         + (IF second THEN 1 ELSE 0)]
      /\ resp' = IF (first \/ second) /\ resp[t] = "pending"
                 THEN [resp EXCEPT ![t] = IF failed THEN "error" ELSE "ok"]
                 ELSE resp

-----------------------------------------------------------------------------
(* The agent receives from a worker: child.on('message').                  *)

Receives(t, m) ==
  /\ got[t] < Len(out[t])
  /\ out[t][got[t] + 1] = m
  /\ got' = [got EXCEPT ![t] = @ + 1]
  /\ UNCHANGED <<agentVars, history, children, timer, workerVars, reaped>>

OnReady(t) ==
  /\ Receives(t, "ready")
  /\ startSent' = [startSent EXCEPT ![t] = TRUE]
  /\ UNCHANGED <<closureVars, status, term>>

OnErrorCountOnly(t) ==
  /\ Receives(t, "error")
  /\ UNCHANGED <<closureVars, startSent, status, term>>

OnError(t) ==
  /\ Receives(t, "error")
  /\ errored' = [errored EXCEPT ![t] = TRUE]
  /\ UNCHANGED <<resp, sends, cbcount, startSent, status, term>>

OnFinishUnrecorded(t) ==
  /\ Receives(t, "finish")
  /\ Conclude(t, errored[t])
  /\ term' = [term EXCEPT ![t] = TRUE]
  /\ UNCHANGED <<errored, startSent, status>>

OnFinishKeepsWorker(t) ==
  /\ Receives(t, "finish")
  /\ status' = [status EXCEPT ![t] = "finished"]
  /\ Conclude(t, errored[t])
  /\ UNCHANGED <<errored, startSent, term>>

OnFinish(t) ==
  /\ Receives(t, "finish")
  /\ status' = [status EXCEPT ![t] = "finished"]
  /\ Conclude(t, errored[t])
  /\ term' = [term EXCEPT ![t] = TRUE]
  /\ UNCHANGED <<errored, startSent>>

\* progress, subtask, exception, log and other events: only recorded.
OnNote(t) ==
  /\ Receives(t, "note")
  /\ UNCHANGED <<closureVars, startSent, status, term>>
-----------------------------------------------------------------------------
(* Timers, and the worker's exit as the agent sees it.                     *)

OnTimeoutOnlyKill(t) ==
  /\ timer[t] = "armed"
  /\ timer' = [timer EXCEPT ![t] = "fired"]
  /\ term' = [term EXCEPT ![t] = TRUE]
  /\ UNCHANGED <<agentVars, history, children, closureVars, startSent, status,
                 workerVars, got, reaped>>

OnTimeoutNoKill(t) ==
  /\ timer[t] = "armed"
  /\ timer' = [timer EXCEPT ![t] = "fired"]
  /\ errored' = [errored EXCEPT ![t] = TRUE]
  /\ Conclude(t, TRUE)
  /\ UNCHANGED <<agentVars, history, children, startSent, status, workerVars,
                 term, got, reaped>>

\* onTimeout(): the entry of /history is left as it is.
OnTimeout(t) ==
  /\ timer[t] = "armed"
  /\ timer' = [timer EXCEPT ![t] = "fired"]
  /\ term' = [term EXCEPT ![t] = TRUE]
  /\ errored' = [errored EXCEPT ![t] = TRUE]
  /\ Conclude(t, TRUE)
  /\ UNCHANGED <<agentVars, history, children, startSent, status, workerVars,
                 got, reaped>>

\* The test of the exit handler: a signal leaves no code, and counts.
UncleanIfCode(c) == c = "nonzero"
Unclean(c) == c # "zero"

\* child.on('exit'): it may come before the last messages are read.
OnExit(t) ==
  /\ t \in children
  /\ proc[t] = "exited"
  /\ timer' = [timer EXCEPT ![t] = IF @ = "armed" THEN "cleared" ELSE @]
  /\ children' = children \ {t}
  /\ IF Unclean(code[t])
     THEN /\ status' = [status EXCEPT ![t] = "failed"]
          /\ errored' = [errored EXCEPT ![t] = TRUE]
          /\ Conclude(t, TRUE)
     ELSE UNCHANGED <<status, closureVars>>
  /\ UNCHANGED <<agentVars, history, startSent, workerVars, term, got, reaped>>

\* The connection's timeout is five minutes longer than the task's: the timer
\* of a pending request has fired or was cleared long before.
ConnTimeout(t) ==
  /\ resp[t] = "pending"
  /\ timer[t] # "armed"
  /\ resp' = [resp EXCEPT ![t] = "hungUp"]
  /\ UNCHANGED <<agentVars, history, children, sends, cbcount, errored, timer,
                 startSent, status, workerVars, term, got, reaped>>
-----------------------------------------------------------------------------
(* The worker process.                                                     *)

Sends(t, m) ==
  /\ Len(out[t]) < MaxMessages[t]
  /\ out' = [out EXCEPT ![t] = Append(@, m)]

WorkerUnchanged(t) ==
  UNCHANGED <<agentVars, history, children, closureVars, timer, startSent,
              status, got>>

\* task_worker.js: the module is loaded, 'ready' goes to the agent.
WorkerReady(t) ==
  /\ proc[t] = "booting"
  /\ Sends(t, "ready")
  /\ proc' = [proc EXCEPT ![t] = "waiting"]
  /\ UNCHANGED <<code, term, reaped>> /\ WorkerUnchanged(t)

\* The start message arrives: the Task is built and its start() runs.
WorkerStart(t) ==
  /\ proc[t] = "waiting" /\ startSent[t]
  /\ proc' = [proc EXCEPT ![t] = "running"]
  /\ UNCHANGED <<out, code, term, reaped>> /\ WorkerUnchanged(t)

\* task.js: error(), finish(), progress(), log...  fatal() is an error and a
\* finish.  Nothing stops a task that has finished from saying more.
WorkerSays(t, m) ==
  /\ proc[t] = "running"
  /\ Sends(t, m)
  /\ UNCHANGED <<proc, code, term, reaped>> /\ WorkerUnchanged(t)

\* The process is gone; what had not left its IPC queue goes with it.
Dies(t, c) ==
  /\ proc' = [proc EXCEPT ![t] = "exited"]
  /\ code' = [code EXCEPT ![t] = c]
  /\ \E n \in got[t] .. Len(out[t]) :
       out' = [out EXCEPT ![t] = SubSeq(@, 1, n)]
  /\ UNCHANGED <<term, reaped>> /\ WorkerUnchanged(t)

\* SIGTERM: process.exit(0) once task_worker.js has set up its handler, the
\* default action before that.
WorkerTerminated(t) ==
  /\ proc[t] \in Alive /\ term[t]
  /\ Dies(t, IF proc[t] = "booting" THEN "null" ELSE "zero")

\* An uncaught exception (or a task module that does not load), or a signal.
WorkerCrash(t) ==
  /\ proc[t] \in Alive
  /\ \E c \in {"nonzero", "null"} : Dies(t, c)

\* task_runner.js reapChildren(): SIGTERM to every child.
ReapChildren ==
  /\ \E t \in children : ~reaped[t]
  /\ term' = [t \in Tasks |-> term[t] \/ t \in children]
  /\ reaped' = [t \in Tasks |-> reaped[t] \/ t \in children]
  /\ UNCHANGED <<registered, draining, crashes, history, children, closureVars,
                 timer, startSent, status, workerVars, got>>
-----------------------------------------------------------------------------
(* The whole system.                                                       *)

AgentCrashOrphans ==
  /\ crashes < MaxCrashes
  /\ crashes' = crashes + 1
  /\ registered' = FALSE /\ draining' = FALSE
  /\ history' = <<>> /\ children' = {}
  /\ resp' = [t \in Tasks |-> IF resp[t] = "pending" THEN "lost" ELSE resp[t]]
  /\ timer' = [t \in Tasks |-> IF timer[t] = "armed" THEN "cleared" ELSE timer[t]]
  /\ UNCHANGED <<sends, cbcount, errored, startSent, status, workerVars, term,
                 got, reaped>>

\* The agent dies.  It runs under ctrun -l child -o noorphan, so its workers
\* die with it; SMF starts a new one, which accepts tasks when it is set up.
AgentCrash ==
  /\ crashes < MaxCrashes
  /\ crashes' = crashes + 1
  /\ registered' = FALSE /\ draining' = FALSE
  /\ history' = <<>> /\ children' = {}
  /\ resp' = [t \in Tasks |-> IF resp[t] = "pending" THEN "lost" ELSE resp[t]]
  /\ timer' = [t \in Tasks |-> IF timer[t] = "armed" THEN "cleared" ELSE timer[t]]
  /\ proc' = [t \in Tasks |-> IF proc[t] \in Alive THEN "exited" ELSE proc[t]]
  /\ code' = [t \in Tasks |-> IF proc[t] \in Alive THEN "null" ELSE code[t]]
  /\ out' = [t \in Tasks |-> SubSeq(out[t], 1, got[t])]
  /\ UNCHANGED <<sends, cbcount, errored, startSent, status, term, got, reaped>>

\* What the agent's event loop runs for one task.
Handler(t) ==
  \/ OnReady(t) \/ OnError(t) \/ OnFinish(t) \/ OnNote(t)
  \/ OnTimeout(t) \/ OnExit(t) \/ ConnTimeout(t)

Worker(t) ==
  \/ WorkerReady(t) \/ WorkerStart(t)
  \/ \E m \in {"error", "finish", "note"} : WorkerSays(t, m)
  \/ WorkerTerminated(t) \/ WorkerCrash(t)

Next ==
  \/ SetupTaskRoutes \/ Pause \/ Resume \/ ReapChildren \/ AgentCrash
  \/ \E t \in Tasks :
       \/ \E why \in Refusals : Refuse(t, why)
       \/ Dispatch(t) \/ Handler(t) \/ Worker(t)

Spec == Init /\ [][Next]_vars

\* Timers fire, events are delivered and a worker that got SIGTERM handles it;
\* a task is not obliged to say anything, nor the operator to do anything.
Fairness ==
  \A t \in Tasks :
    /\ WF_vars(OnTimeout(t)) /\ WF_vars(OnExit(t)) /\ WF_vars(ConnTimeout(t))
    /\ WF_vars(WorkerTerminated(t))

FairSpec == Spec /\ Fairness
-----------------------------------------------------------------------------
(* Properties.                                                             *)

Live == {t \in Tasks : proc[t] \in Alive}

\* However a worker's finish, the timeout and the exit race (each of them runs
\* fcb() twice), the client's connection gets one answer and no second one.
OneAnswer == \A t \in Tasks : sends[t] <= 1

\* As long as a client waits, the timer that will answer it is armed: no order
\* of messages, kill and exit clears the timer and leaves the request hanging.
\* The exception is a worker stopped from outside (reapChildren, an operator's
\* SIGTERM): it exits with 0, which the exit handler takes for a clean end.
AnsweredOrWatched ==
  \A t \in Tasks : resp[t] = "pending" => timer[t] = "armed" \/ reaped[t]

\* /history and the answers agree: a task that was answered with success is not
\* shown as active, and no client still waits for one that is shown as over.
HistoryAgrees ==
  \A t \in Tasks :
    /\ resp[t] = "ok" => status[t] # "active"
    /\ status[t] \in {"finished", "failed"} => resp[t] # "pending"

\* Every running worker can be reached (reapChildren) and will be stopped: it is
\* in children, and its timer is armed or it has been sent SIGTERM.  An agent
\* that died has left no worker behind.
NoOrphan ==
  \A t \in Live : t \in children /\ (timer[t] = "armed" \/ term[t])

\* A client that knows the outcome, or has lost its connection, may send its task
\* again at once: the worker of the first try has been told to stop by then.
AnsweredIsStopped == \A t \in Live : resp[t] # "pending" => term[t]

Says(t, m) == \E i \in 1 .. got[t] : out[t][i] = m

\* The task's own verdict is the first of its errors and finishes: tasks report
\* an error, then finish.
Verdict(t) ==
  IF \E i \in 1 .. got[t] :
       out[t][i] = "finish" /\ \A j \in 1 .. i : out[t][j] # "error"
  THEN "succeeded"
  ELSE IF Says(t, "error") THEN "failed" ELSE "none"

\* What the client has seen of a request.
Seen(t) ==
  CASE resp[t] \in Refusals           -> "refused"
    [] resp[t] \in {"hungUp", "lost"} -> "dropped"
    [] OTHER                          -> resp[t]

ClientCall == [t \in Tasks |-> Seen(t)]
Verdicts   == [t \in Tasks |-> Verdict(t)]

Rpc == INSTANCE TaskRpc WITH call <- ClientCall, verdict <- Verdicts

\* The promise made to clients: answered at most once, "ok" only when the task
\* reported success, in the very step that reads it, and never when the task
\* failed, crashed or timed out first.
RpcSpec == Rpc!Spec

\* Every accepted request is answered by the agent itself, before its connection
\* times out, unless the agent died or the worker was stopped from outside.
Answered ==
  \A t \in Tasks :
    resp[t] = "pending" ~> resp[t] \in Answers \cup {"lost"} \/ reaped[t]

\* Every worker ends and is forgotten, so a draining agent does become idle.
WorkerEnds ==
  \A t \in Tasks : proc[t] \in Alive ~> proc[t] = "exited" /\ t \notin children

\* What the connection timeout of task_agent.js is there for: a task that timed
\* out is killed and cleaned up, so that once its worker is gone /history does
\* not show it running.
EndedIsNotActive ==
  \A t \in Tasks :
    timer[t] = "fired" /\ t \in {history[i] : i \in DOMAIN history} \ children
      => status[t] # "active"
=============================================================================
