----------------------------- MODULE CnapiSync ------------------------------
(***************************************************************************)
(* How cn-agent keeps CNAPI's picture of its server current: the startup   *)
(* pipeline and the queue of updates of lib/app.js, and the StatusReporter *)
(* of lib/heartbeater.js.                                                  *)
(*                                                                         *)
(* The state of the VMs and the sysinfo file are versions, 1 at boot; 0 is *)
(* no version at all.  One action is one callback of the agent, one change *)
(* on the server, or what CNAPI does with a request.  What the reporter    *)
(* samples besides the VMs (pools, memory, disks) is not distinguished.    *)
(***************************************************************************)
EXTENDS Naturals, Sequences, FiniteSets

CONSTANTS
  Cnapis,        \* the CNAPIs there may be: "new", or too "old" for sysinfo
  MaxVmChanges,  \* bound: changes of the VMs' state
  MaxSysChanges, \* bound: changes of the sysinfo file
  MaxCrashes     \* bound: restarts of the agent

ASSUME CnapiSyncAssumption ==
  /\ Cnapis \subseteq {"new", "old"}
  /\ MaxVmChanges \in Nat /\ MaxSysChanges \in Nat /\ MaxCrashes \in Nat

VARIABLES
  \* The server.
  vms,            \* version of the state of the VMs
  sysinfo,        \* version of the sysinfo file
  crashes,        \* how often the agent was restarted
  \* app.js
  queue,          \* cnapiQueue: updates that wait
  flight,         \* the updates given to sendToCnapi() and not called back
  statusQueued, sysinfoQueued,
  registered,     \* sysinfoCount > 0
  latestStatus,   \* version in latestStatus
  heartbeatTimer, \* the timer for the next heartbeat runs
  sysinfoEvent,   \* the sysinfo watcher has a change to tell
  \* heartbeater.js
  reporting,      \* start() was called
  isDirty, throttle, samplerLock,
  loaded,         \* version that loadVms() returned to the running update
  sample,         \* version in the last complete sample
  zoneevent,      \* the zoneevent process: "down", "up" or "news"
  \* CNAPI
  cnapi,          \* which of Cnapis it is; an old one answers sysinfo with 404
  cnapiStatus,    \* version of the last status it took
  cnapiSysinfo,   \* version of the last sysinfo it took
  \* History, for the properties.
  noticedVms,     \* version of the VMs when the reporter was last marked dirty
  noticedSysinfo  \* version of sysinfo at the watcher's last event

serverVars   == <<vms, sysinfo, crashes, cnapi>>
queuedVars   == <<queue, statusQueued, sysinfoQueued>>
reporterVars == <<reporting, isDirty, throttle, samplerLock, loaded, sample,
                  zoneevent, noticedVms>>
cnapiVars    == <<cnapiStatus, cnapiSysinfo>>
vars == <<serverVars, queuedVars, flight, registered, latestStatus,
          heartbeatTimer, sysinfoEvent, reporterVars, cnapiVars,
          noticedSysinfo>>

Kinds == {"agents", "heartbeat", "status", "sysinfo"}

\* An update in flight: it gathers what it will send, is posted, was taken by
\* CNAPI, or waits to be tried again.
Updates == [kind : Kinds, stage : {"gather", "posted", "taken", "backoff"},
            version : Nat]

TypeOK ==
  /\ vms \in 1 .. MaxVmChanges + 1 /\ sysinfo \in 1 .. MaxSysChanges + 1
  /\ crashes \in 0 .. MaxCrashes /\ cnapi \in Cnapis
  /\ queue \in Seq(Kinds) /\ flight \in SUBSET Updates
  /\ {statusQueued, sysinfoQueued, registered, heartbeatTimer, sysinfoEvent,
      reporting, isDirty, throttle, samplerLock} \subseteq BOOLEAN
  /\ zoneevent \in {"down", "up", "news"}
  /\ {latestStatus, loaded, sample, cnapiStatus, noticedVms} \subseteq 0 .. vms
  /\ {cnapiSysinfo, noticedSysinfo} \subseteq 0 .. sysinfo
  \* postStatus(): assert.object(self.latestStatus).
  /\ \A u \in flight : u.kind = "status" => u.version # 0

\* The state App() and StatusReporter() set up.  watchSysinfo() always tells of
\* a first change.
Init ==
  /\ vms = 1 /\ sysinfo = 1 /\ crashes = 0
  /\ cnapi \in Cnapis /\ cnapiStatus = 0 /\ cnapiSysinfo = 0
  /\ queue = <<>> /\ flight = {}
  /\ statusQueued = FALSE /\ sysinfoQueued = FALSE /\ registered = FALSE
  /\ latestStatus = 0 /\ heartbeatTimer = FALSE /\ sysinfoEvent = TRUE
  /\ reporting = FALSE /\ isDirty = TRUE /\ throttle = FALSE
  /\ samplerLock = FALSE /\ loaded = 0 /\ sample = 0 /\ zoneevent = "down"
  /\ noticedVms = 0 /\ noticedSysinfo = 0
-----------------------------------------------------------------------------
(* The server changes under the agent.                                     *)

VmChange ==
  /\ vms <= MaxVmChanges
  /\ vms' = vms + 1
  /\ zoneevent' = IF zoneevent = "up" THEN "news" ELSE zoneevent
  /\ UNCHANGED <<sysinfo, crashes, cnapi, queuedVars, flight, registered, latestStatus,
                 heartbeatTimer, sysinfoEvent, reporting, isDirty, throttle,
                 samplerLock, loaded, sample, noticedVms, cnapiVars,
                 noticedSysinfo>>

SysinfoChange ==
  /\ sysinfo <= MaxSysChanges
  /\ sysinfo' = sysinfo + 1
  /\ sysinfoEvent' = TRUE
  /\ UNCHANGED <<vms, crashes, cnapi, queuedVars, flight, registered, latestStatus,
                 heartbeatTimer, reporterVars, cnapiVars, noticedSysinfo>>

\* SMF restarts the agent; CNAPI has taken what was in flight, or never will.
AgentRestart ==
  /\ crashes < MaxCrashes
  /\ crashes' = crashes + 1
  /\ queue' = <<>> /\ flight' = {}
  /\ statusQueued' = FALSE /\ sysinfoQueued' = FALSE /\ registered' = FALSE
  /\ latestStatus' = 0 /\ heartbeatTimer' = FALSE /\ sysinfoEvent' = TRUE
  /\ reporting' = FALSE /\ isDirty' = TRUE /\ throttle' = FALSE
  /\ samplerLock' = FALSE /\ loaded' = 0 /\ sample' = 0 /\ zoneevent' = "down"
  /\ noticedVms' = 0 /\ noticedSysinfo' = 0
  /\ UNCHANGED <<vms, sysinfo, cnapi, cnapiVars>>
-----------------------------------------------------------------------------
(* app.js: what puts updates on the queue.                                 *)

\* _onSysinfoChange() and queueSysinfoUpdateIfNotAlreadyQueued().
OnSysinfoChange ==
  /\ sysinfoEvent
  /\ sysinfoEvent' = FALSE
  /\ noticedSysinfo' = sysinfo
  /\ queue' = IF sysinfoQueued THEN queue ELSE Append(queue, "sysinfo")
  /\ sysinfoQueued' = TRUE
  /\ UNCHANGED <<serverVars, statusQueued, flight, registered, latestStatus,
                 heartbeatTimer, reporterVars, cnapiVars>>

\* HEARTBEAT_INTERVAL after the last one was answered: queueHeartbeat().
QueueHeartbeat ==
  /\ heartbeatTimer
  /\ heartbeatTimer' = FALSE
  /\ queue' = Append(queue, "heartbeat")
  /\ UNCHANGED <<serverVars, statusQueued, sysinfoQueued, flight, registered,
                 latestStatus, sysinfoEvent, reporterVars, cnapiVars,
                 noticedSysinfo>>

\* queueStatusUpdateIfNotAlreadyQueued().
QueueStatusAlways ==
  /\ queue' = Append(queue, "status")
  /\ statusQueued' = TRUE
QueueStatus ==
  /\ queue' = IF statusQueued THEN queue ELSE Append(queue, "status")
  /\ statusQueued' = TRUE
-----------------------------------------------------------------------------
(* app.js: the queue, of concurrency one, and sendToCnapi().               *)

HasRoom == flight = {}

\* sendToCnapi(): the status that goes out is the latest at this moment;
\* registerServer() first gathers the sysinfo.
SendToCnapi ==
  /\ queue # <<>>
  /\ HasRoom
  /\ LET kind == Head(queue)
     IN  flight' = flight \cup
           {[kind    |-> kind,
             stage   |-> IF kind = "sysinfo" THEN "gather" ELSE "posted",
             version |-> IF kind = "status" THEN latestStatus ELSE 0]}
  /\ queue' = Tail(queue)
  /\ UNCHANGED <<serverVars, statusQueued, sysinfoQueued, registered,
                 latestStatus, heartbeatTimer, sysinfoEvent, reporterVars,
                 cnapiVars, noticedSysinfo>>

\* One update in flight goes from one stage to the next.
Advance(u, stage, version) ==
  flight' = (flight \ {u}) \cup {[u EXCEPT !.stage = stage, !.version = version]}

Sending ==
  UNCHANGED <<serverVars, queuedVars, registered, latestStatus, heartbeatTimer,
              sysinfoEvent, reporterVars, noticedSysinfo>>

GatherSysinfo(u) ==
  /\ u.kind = "sysinfo" /\ u.stage = "gather"
  /\ Advance(u, "posted", sysinfo)
  /\ UNCHANGED cnapiVars /\ Sending

\* The request arrives.
CnapiTakes(u) ==
  /\ u.stage = "posted"
  /\ u.kind = "sysinfo" => cnapi = "new"
  /\ cnapiStatus' = IF u.kind = "status" THEN u.version ELSE cnapiStatus
  /\ cnapiSysinfo' = IF u.kind = "sysinfo" THEN u.version ELSE cnapiSysinfo
  /\ Advance(u, "taken", u.version)
  /\ Sending

\* Register again, after a pause, with sysinfo gathered again.
RegisterAgain(u) ==
  /\ u.stage = "backoff"
  /\ Advance(u, "gather", 0)
  /\ UNCHANGED cnapiVars /\ Sending

\* Any error of a sysinfo POST but the 404, from an old CNAPI too: the request was
\* lost or refused, or taken and answered too late.  The update stays in flight.
SysinfoFails(u) ==
  /\ u.kind = "sysinfo" /\ u.stage \in {"posted", "taken"}
  /\ Advance(u, "backoff", u.version)
  /\ UNCHANGED cnapiVars /\ Sending

\* The callbacks given to cnapiQueue.push(), and those of the pipeline behind
\* them: after the first sysinfo update comes the agents update, after that the
\* first heartbeat and the start of the reporter.
StatusDone ==
  /\ statusQueued' = FALSE
  /\ UNCHANGED <<queue, sysinfoQueued, registered, heartbeatTimer, reporterVars>>

SysinfoDone ==
  /\ sysinfoQueued' = FALSE
  /\ registered' = TRUE
  /\ queue' = IF registered THEN queue ELSE Append(queue, "agents")
  /\ UNCHANGED <<statusQueued, heartbeatTimer, reporterVars>>

AgentsDone ==
  /\ queue' = Append(queue, "heartbeat")
  /\ reporting' = TRUE /\ zoneevent' = "up"
  /\ UNCHANGED <<statusQueued, sysinfoQueued, registered, heartbeatTimer,
                 isDirty, throttle, samplerLock, loaded, sample, noticedVms>>

HeartbeatDone ==
  /\ heartbeatTimer' = TRUE
  /\ UNCHANGED <<queuedVars, registered, reporterVars>>

Callback(u) ==
  /\ flight' = flight \ {u}
  /\ CASE u.kind = "status"    -> StatusDone
       [] u.kind = "sysinfo"   -> SysinfoDone
       [] u.kind = "agents"    -> AgentsDone
       [] u.kind = "heartbeat" -> HeartbeatDone
  /\ UNCHANGED <<serverVars, latestStatus, sysinfoEvent, cnapiVars, noticedSysinfo>>

Answered(u) == u.stage = "taken" /\ Callback(u)

\* A heartbeat that is only queued again when it was posted.
FailsForGood(u) ==
  /\ u.stage = "posted"
  /\ u.kind = "sysinfo" => cnapi = "old"
  /\ IF u.kind = "heartbeat"
     THEN flight' = flight \ {u} /\ UNCHANGED cnapiVars /\ Sending
     ELSE Callback(u)

\* The error of any other POST is only logged, and so is an old CNAPI's 404 for
\* sysinfo.
FailsQuietly(u) ==
  /\ u.stage = "posted"
  /\ u.kind = "sysinfo" => cnapi = "old"
  /\ Callback(u)
-----------------------------------------------------------------------------
(* heartbeater.js                                                          *)

ReporterOnly ==
  UNCHANGED <<serverVars, flight, registered, heartbeatTimer, sysinfoEvent,
              sysinfoQueued, reporting, cnapiVars, noticedSysinfo>>

\* dirtyFn: zoneevent said something.
WatcherMarksDirty ==
  /\ zoneevent = "news"
  /\ zoneevent' = "up"
  /\ isDirty' = TRUE /\ noticedVms' = vms
  /\ UNCHANGED <<queue, statusQueued, latestStatus, throttle, samplerLock,
                 loaded, sample>>
  /\ ReporterOnly

\* zoneevent exits, what it had not said is lost, and is started again later.
ZoneeventExits ==
  /\ zoneevent \in {"up", "news"}
  /\ zoneevent' = "down"
  /\ UNCHANGED <<queue, statusQueued, latestStatus, isDirty, throttle,
                 samplerLock, loaded, sample, noticedVms>>
  /\ ReporterOnly

ZoneeventRestarts ==
  /\ reporting /\ zoneevent = "down"
  /\ zoneevent' = "up"
  /\ UNCHANGED <<queue, statusQueued, latestStatus, isDirty, throttle,
                 samplerLock, loaded, sample, noticedVms>>
  /\ ReporterOnly

\* Every max_interval.
MaxIntervalOnce ==
  /\ reporting /\ sample = 0
  /\ isDirty' = TRUE /\ noticedVms' = vms
  /\ UNCHANGED <<queue, statusQueued, latestStatus, throttle, samplerLock,
                 loaded, sample, zoneevent>>
  /\ ReporterOnly

MaxIntervalMarksDirty ==
  /\ reporting
  /\ isDirty' = TRUE /\ noticedVms' = vms
  /\ UNCHANGED <<queue, statusQueued, latestStatus, throttle, samplerLock,
                 loaded, sample, zoneevent>>
  /\ ReporterOnly

\* updateSample() clears the mark before it looks at the VMs.
UpdateSample ==
  IF samplerLock
  THEN UNCHANGED <<isDirty, samplerLock, loaded>>
  ELSE isDirty' = FALSE /\ samplerLock' = TRUE /\ loaded' = 0

\* Every status_interval: checkEmitStatus().
CheckEmitStatus ==
  /\ reporting /\ isDirty /\ ~throttle
  /\ throttle' = TRUE
  /\ UpdateSample
  /\ UNCHANGED <<queue, statusQueued, latestStatus, sample, zoneevent, noticedVms>>
  /\ ReporterOnly

ThrottleEnds ==
  /\ throttle
  /\ throttle' = FALSE
  /\ UNCHANGED <<queue, statusQueued, latestStatus, isDirty, samplerLock, loaded,
                 sample, zoneevent, noticedVms>>
  /\ ReporterOnly

LoadVms ==
  /\ samplerLock /\ loaded = 0
  /\ loaded' = vms
  /\ UNCHANGED <<queue, statusQueued, latestStatus, isDirty, throttle,
                 samplerLock, sample, zoneevent, noticedVms>>
  /\ ReporterOnly

\* onPipelineComplete() with a sample, and the 'status' event it emits.
SampleReadyKeptBack ==
  /\ samplerLock /\ loaded # 0
  /\ samplerLock' = FALSE
  /\ sample' = loaded
  /\ QueueStatus
  /\ UNCHANGED <<latestStatus, isDirty, throttle, loaded, zoneevent, noticedVms>>
  /\ ReporterOnly

SampleReadyCleared ==
  /\ samplerLock /\ loaded # 0
  /\ samplerLock' = FALSE /\ isDirty' = FALSE
  /\ sample' = loaded /\ latestStatus' = loaded
  /\ QueueStatus
  /\ UNCHANGED <<throttle, loaded, zoneevent, noticedVms>>
  /\ ReporterOnly

SampleReady ==
  /\ samplerLock /\ loaded # 0
  /\ samplerLock' = FALSE
  /\ sample' = loaded /\ latestStatus' = loaded
  /\ QueueStatus
  /\ UNCHANGED <<isDirty, throttle, loaded, zoneevent, noticedVms>>
  /\ ReporterOnly

\* onPipelineComplete() with an error: marked dirty, to try again.
SampleFails ==
  /\ samplerLock
  /\ samplerLock' = FALSE
  /\ isDirty' = TRUE
  /\ UNCHANGED <<queue, statusQueued, latestStatus, throttle, loaded, sample,
                 zoneevent, noticedVms>>
  /\ ReporterOnly
-----------------------------------------------------------------------------
Request(u) ==
  \/ GatherSysinfo(u) \/ CnapiTakes(u) \/ SysinfoFails(u) \/ RegisterAgain(u)
  \/ Answered(u) \/ FailsQuietly(u)

Next ==
  \/ VmChange \/ SysinfoChange \/ AgentRestart
  \/ OnSysinfoChange \/ QueueHeartbeat \/ SendToCnapi
  \/ \E u \in flight : Request(u)
  \/ WatcherMarksDirty \/ ZoneeventExits \/ ZoneeventRestarts
  \/ MaxIntervalMarksDirty \/ CheckEmitStatus \/ ThrottleEnds
  \/ LoadVms \/ SampleReady \/ SampleFails

Spec == Init /\ [][Next]_vars

\* Timers fire and callbacks run; every request ends.  CNAPI does not refuse
\* one kind of update for ever, nor is the 404 of an old one lost every time, nor
\* does taking a sample always fail.
Fairness ==
  /\ WF_vars(OnSysinfoChange) /\ WF_vars(QueueHeartbeat) /\ WF_vars(SendToCnapi)
  /\ WF_vars(\E u \in flight : Request(u))
  /\ \A k \in {"status", "sysinfo"} :
       /\ SF_vars(\E u \in flight : u.kind = k /\ CnapiTakes(u))
       /\ SF_vars(\E u \in flight : u.kind = k /\ Answered(u))
  /\ SF_vars(\E u \in flight : u.kind = "sysinfo" /\ FailsQuietly(u))
  /\ WF_vars(MaxIntervalMarksDirty) /\ WF_vars(CheckEmitStatus)
  /\ WF_vars(ThrottleEnds) /\ SF_vars(LoadVms) /\ SF_vars(SampleReady)

FairSpec == Spec /\ Fairness
-----------------------------------------------------------------------------
(* Properties.                                                             *)

\* However samples, sysinfo changes, retries and timers interleave, CNAPI has at
\* most one update of a kind ahead of it: a slow CNAPI is not flooded.
OneOfEach ==
  \A k \in Kinds :
    Cardinality({i \in DOMAIN queue : queue[i] = k}) +
    Cardinality({u \in flight : u.kind = k}) <= 1

\* A change the reporter was told of is never forgotten: it is in the sample, or
\* the running update will see it, or the reporter is dirty and will look again.
NoChangeForgotten ==
  LET covered == CASE samplerLock /\ loaded = 0 -> vms
                   [] samplerLock /\ loaded # 0 -> loaded
                   [] OTHER                     -> sample
  IN  noticedVms > covered => isDirty

\* Once the VMs stay as they are, CNAPI's picture of them becomes and stays
\* right, whatever posts, samples and zoneevent processes were lost before.
StatusConverges == <>[](cnapiStatus = vms)

\* Heartbeats never stop, whatever happens to any of them.
HeartbeatsGoOn == []<>(\E u \in flight : u.kind = "heartbeat")

\* app.js: "when sysinfo changes we want to ensure we've updated the sysinfo in
\* CNAPI": with no update pending, CNAPI has the last change that was noticed.
SysinfoUpdated ==
  registered /\ ~sysinfoQueued => cnapiSysinfo >= noticedSysinfo
=============================================================================
