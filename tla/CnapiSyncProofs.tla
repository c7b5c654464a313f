--------------------------- MODULE CnapiSyncProofs ---------------------------
(***************************************************************************)
(* Proofs about CnapiSync, for any number of changes and restarts.         *)
(***************************************************************************)
EXTENDS CnapiSync, SequenceTheorems, FiniteSetTheorems, TLAPS

-----------------------------------------------------------------------------
(***************************************************************************)
(* What the queue does with kinds of updates.                              *)
(***************************************************************************)
In(q, k) == \E i \in 1 .. Len(q) : q[i] = k
Distinct(q) == \A i, j \in 1 .. Len(q) : q[i] = q[j] => i = j

LEMMA PushKeeps ==
  ASSUME NEW q \in Seq(Kinds), NEW k \in Kinds, Distinct(q), ~In(q, k)
  PROVE  /\ Append(q, k) \in Seq(Kinds) /\ Distinct(Append(q, k))
         /\ \A x : In(Append(q, k), x) <=> In(q, x) \/ x = k
<1> DEFINE r == Append(q, k)
<1>1. /\ r \in Seq(Kinds) /\ Len(r) = Len(q) + 1 /\ Len(q) \in Nat
      /\ \A i \in 1 .. Len(q) : r[i] = q[i]
      /\ r[Len(q) + 1] = k
  BY AppendProperties
<1> HIDE DEF r
<1>2. Distinct(r)
  BY <1>1 DEF Distinct, In
<1>3. \A x : In(r, x) <=> In(q, x) \/ x = k
  <2>1. ASSUME NEW x, In(r, x) PROVE In(q, x) \/ x = k
    BY <1>1, <2>1 DEF In
  <2>2. ASSUME NEW x, In(q, x) \/ x = k PROVE In(r, x)
    BY <1>1, <2>2 DEF In
  <2> QED BY <2>1, <2>2
<1> QED BY <1>1, <1>2, <1>3 DEF r

LEMMA PopKeeps ==
  ASSUME NEW q \in Seq(Kinds), q # <<>>, Distinct(q)
  PROVE  /\ Head(q) \in Kinds /\ Tail(q) \in Seq(Kinds) /\ Distinct(Tail(q))
         /\ In(q, Head(q)) /\ ~In(Tail(q), Head(q))
         /\ \A x : In(Tail(q), x) => In(q, x)
<1> DEFINE r == Tail(q)
<1>1. /\ Head(q) \in Kinds /\ Head(q) = q[1] /\ r \in Seq(Kinds)
      /\ Len(q) \in Nat \ {0} /\ Len(r) = Len(q) - 1
      /\ \A i \in 1 .. Len(r) : r[i] = q[i + 1]
  BY HeadTailProperties, EmptySeq
<1> HIDE DEF r
<1>2. Distinct(r) /\ In(q, Head(q)) /\ ~In(r, Head(q))
  BY <1>1 DEF Distinct, In
<1>3. \A x : In(r, x) => In(q, x)
  BY <1>1 DEF In
<1> QED BY <1>1, <1>2, <1>3 DEF r

-----------------------------------------------------------------------------
(***************************************************************************)
(* The inductive strengthening.                                            *)
(***************************************************************************)
Flying(k) == \E u \in flight : u.kind = k
Pending(k) == In(queue, k) \/ Flying(k)

\* No kind is twice among the updates that wait and the one that flies.
Single ==
  /\ Distinct(queue)
  /\ \A u, v \in flight : u = v
  /\ \A k \in Kinds : ~(In(queue, k) /\ Flying(k))

\* What is pending can be told from the flags and from how far the startup is:
\* sysinfo, once agents, then heartbeats, one at a time or the timer for one.
Flags ==
  /\ Pending("status") => statusQueued
  /\ Pending("sysinfo") => sysinfoQueued
  /\ statusQueued => latestStatus # 0
  /\ Pending("agents") => registered /\ ~reporting
  /\ Pending("heartbeat") \/ heartbeatTimer => reporting
  /\ reporting => registered
  /\ ~(Pending("heartbeat") /\ heartbeatTimer)

\* Nothing is sent that was not there, and only sysinfo is sent again.
Versions ==
  \A u \in flight :
    /\ u.stage \in {"gather", "backoff"} => u.kind = "sysinfo"
    /\ u.kind = "status" => u.version \in 1 .. vms
    /\ u.kind = "sysinfo" => u.version \in 0 .. sysinfo

Types ==
  /\ vms \in 1 .. MaxVmChanges + 1 /\ sysinfo \in 1 .. MaxSysChanges + 1
  /\ crashes \in 0 .. MaxCrashes /\ cnapi \in Cnapis
  /\ queue \in Seq(Kinds) /\ flight \in SUBSET Updates

FlagTypes ==
  {statusQueued, sysinfoQueued, registered, heartbeatTimer, sysinfoEvent,
      reporting, isDirty, throttle, samplerLock} \subseteq BOOLEAN

Samples ==
  /\ zoneevent \in {"down", "up", "news"}
  /\ {latestStatus, loaded, sample, cnapiStatus, noticedVms} \subseteq 0 .. vms
  /\ {cnapiSysinfo, noticedSysinfo} \subseteq 0 .. sysinfo

IInv ==
  Types /\ FlagTypes /\ Samples /\ Single /\ Flags /\ Versions

LEMMA InitIInv == Init => IInv
<1> SUFFICES ASSUME Init PROVE IInv
  OBVIOUS
<1> USE CnapiSyncAssumption DEF Init
<1>1. queue \in Seq(Kinds) /\ Distinct(queue) /\ \A k : ~In(queue, k)
  BY DEF In, Distinct
<1>2. flight = {}
  OBVIOUS
<1>3. Types /\ Samples
  BY <1>1 DEF Types, Samples
<1>4. FlagTypes
  BY DEF FlagTypes
<1>5. Single /\ Flags /\ Versions
  BY <1>1, <1>2 DEF Single, Flags, Versions, Pending, Flying
<1> QED BY <1>3, <1>4, <1>5 DEF IInv

-----------------------------------------------------------------------------
(***************************************************************************)
(* The server, the timers and the queue.                                   *)
(***************************************************************************)
LEMMA ServerSteps ==
  ASSUME IInv, VmChange \/ SysinfoChange
  PROVE  IInv'
<1> USE CnapiSyncAssumption DEF IInv, queuedVars, reporterVars, cnapiVars
<1>1. vms \in Nat /\ sysinfo \in Nat /\ vms <= vms' /\ sysinfo <= sysinfo'
  BY DEF VmChange, SysinfoChange, Types
<1>4. Types'
  BY DEF VmChange, SysinfoChange, Types
<1>5. zoneevent' \in {"down", "up", "news"}
  BY DEF VmChange, SysinfoChange, Samples
<1>6. UNCHANGED <<latestStatus, loaded, sample, cnapiStatus, noticedVms, cnapiSysinfo,
                  noticedSysinfo, flight>>
  BY DEF VmChange, SysinfoChange
<1>7. vms' \in Nat /\ sysinfo' \in Nat
  BY <1>4 DEF Types
<1>8. Samples'
  BY <1>1, <1>5, <1>6, <1>7 DEF Samples
<1>9. Versions'
  BY <1>1, <1>6, <1>7 DEF Versions
<1>2. FlagTypes'
  BY DEF VmChange, SysinfoChange, FlagTypes
<1>3. Single' /\ Flags'
  BY DEF VmChange, SysinfoChange, Single, Flags, Pending, Flying
<1> QED BY <1>2, <1>3, <1>4, <1>8, <1>9

LEMMA RestartStep ==
  ASSUME IInv, AgentRestart
  PROVE  IInv'
<1> USE CnapiSyncAssumption DEF IInv, AgentRestart, cnapiVars
<1>1. queue' \in Seq(Kinds) /\ Distinct(queue') /\ \A k : ~In(queue', k)
  BY DEF In, Distinct
<1>2. Types' /\ Samples' /\ Versions'
  BY <1>1 DEF Types, Samples, Versions
<1>3. FlagTypes'
  BY DEF FlagTypes
<1>4. Single' /\ Flags'
  BY <1>1 DEF Single, Flags, Pending, Flying
<1> QED BY <1>2, <1>3, <1>4

LEMMA SysinfoEventStep ==
  ASSUME IInv, OnSysinfoChange
  PROVE  IInv'
<1> USE DEF IInv, OnSysinfoChange, serverVars, reporterVars, cnapiVars
<1>1. queue \in Seq(Kinds) /\ Distinct(queue) /\ "sysinfo" \in Kinds
  BY DEF Types, Single, Kinds
<1>2. CASE sysinfoQueued
  <2>1. Types' /\ Samples' /\ Versions'
    BY <1>2 DEF Types, Samples, Versions
  <2>2. FlagTypes'
    BY DEF FlagTypes
  <2>3. Single' /\ Flags'
    BY <1>2 DEF Single, Flags, Pending, Flying
  <2> QED BY <2>1, <2>2, <2>3
<1>3. CASE ~sysinfoQueued
  <2>1. ~In(queue, "sysinfo") /\ ~Flying("sysinfo")
    BY <1>3 DEF Flags, Pending
  <2>2. /\ queue' \in Seq(Kinds) /\ Distinct(queue')
        /\ \A x : In(queue', x) <=> In(queue, x) \/ x = "sysinfo"
    BY <1>1, <1>3, <2>1, PushKeeps
  <2>3. Types' /\ Samples' /\ Versions'
    BY <2>2 DEF Types, Samples, Versions
  <2>4. FlagTypes'
    BY DEF FlagTypes
  <2>5. Single' /\ Flags'
    BY <2>1, <2>2 DEF Single, Flags, Pending, Flying
  <2> QED BY <2>3, <2>4, <2>5
<1> QED BY <1>2, <1>3

LEMMA HeartbeatStep ==
  ASSUME IInv, QueueHeartbeat
  PROVE  IInv'
<1> USE DEF IInv, QueueHeartbeat, serverVars, reporterVars, cnapiVars
<1>1. /\ queue \in Seq(Kinds) /\ Distinct(queue) /\ "heartbeat" \in Kinds
      /\ ~In(queue, "heartbeat") /\ ~Flying("heartbeat")
  BY DEF Types, Single, Flags, Pending, Kinds
<1>2. /\ queue' \in Seq(Kinds) /\ Distinct(queue')
      /\ \A x : In(queue', x) <=> In(queue, x) \/ x = "heartbeat"
  BY <1>1, PushKeeps
<1>3. Types' /\ Samples' /\ Versions'
  BY <1>2 DEF Types, Samples, Versions
<1>4. FlagTypes'
  BY DEF FlagTypes
<1>5. Single' /\ Flags'
  BY <1>1, <1>2 DEF Single, Flags, Pending, Flying
<1> QED BY <1>3, <1>4, <1>5

LEMMA SendStep ==
  ASSUME IInv, SendToCnapi
  PROVE  IInv'
<1> DEFINE kind == Head(queue)
           new == [kind    |-> kind,
                   stage   |-> IF kind = "sysinfo" THEN "gather" ELSE "posted",
                   version |-> IF kind = "status" THEN latestStatus ELSE 0]
<1> USE DEF IInv, serverVars, reporterVars, cnapiVars
<1>1. /\ kind \in Kinds /\ queue' \in Seq(Kinds) /\ Distinct(queue')
      /\ In(queue, kind) /\ ~In(queue', kind)
      /\ \A x : In(queue', x) => In(queue, x)
  BY PopKeeps DEF Types, Single, SendToCnapi
<1>2. flight = {} /\ flight' = {new}
  BY DEF SendToCnapi, HasRoom
<1>3. kind = "status" => latestStatus # 0
  BY <1>1 DEF Flags, Pending
<1>4. latestStatus \in 0 .. vms /\ sysinfo \in Nat /\ vms \in Nat
  BY CnapiSyncAssumption DEF Samples, Types
<1>5. UNCHANGED <<serverVars, statusQueued, sysinfoQueued, registered, latestStatus,
                  heartbeatTimer, sysinfoEvent, reporterVars, cnapiVars, noticedSysinfo>>
  BY DEF SendToCnapi
<1>6. new \in Updates /\ new.kind = kind
  BY <1>1, <1>4 DEF Updates
<1>7. /\ new.stage \in {"gather", "backoff"} => new.kind = "sysinfo"
      /\ new.kind = "status" => new.version \in 1 .. vms
      /\ new.kind = "sysinfo" => new.version \in 0 .. sysinfo
  BY <1>3, <1>4
<1> HIDE DEF kind, new
<1>8. Types' /\ Samples' /\ Versions'
  BY <1>1, <1>2, <1>5, <1>6, <1>7 DEF Types, Samples, Versions
<1>9. FlagTypes'
  BY <1>5 DEF FlagTypes
<1>10. \A k : Flying(k)' <=> k = kind
  BY <1>2, <1>6 DEF Flying
<1>11. Single'
  BY <1>1, <1>2, <1>10 DEF Single
<1>12. Flags'
  BY <1>1, <1>5, <1>10 DEF Flags, Pending
<1> QED BY <1>8, <1>9, <1>11, <1>12

-----------------------------------------------------------------------------
(***************************************************************************)
(* Requests.                                                               *)
(***************************************************************************)
LEMMA AloneInFlight ==
  ASSUME IInv, NEW u \in flight
  PROVE  flight = {u} /\ u \in Updates /\ \A k : Flying(k) <=> k = u.kind
<1> QED BY DEF IInv, Types, Single, Flying

LEMMA AdvanceStep ==
  ASSUME IInv, NEW u \in flight, NEW s \in {"gather", "posted", "taken", "backoff"},
         NEW v \in Nat, Advance(u, s, v), Sending,
         u.kind = "status" => v \in 1 .. vms, u.kind = "sysinfo" => v \in 0 .. sysinfo,
         s \in {"gather", "backoff"} => u.kind = "sysinfo",
         cnapiStatus' \in 0 .. vms, cnapiSysinfo' \in 0 .. sysinfo
  PROVE  IInv'
<1> DEFINE w == [u EXCEPT !.stage = s, !.version = v]
<1>1. flight = {u} /\ u \in Updates /\ \A k : Flying(k) <=> k = u.kind
  BY AloneInFlight
<1>2. flight' = {w}
  BY <1>1 DEF Advance
<1>3. w \in Updates /\ w.kind = u.kind /\ w.version = v /\ w.stage = s
  BY <1>1 DEF Updates
<1> HIDE DEF w
<1>4. \A k : Flying(k)' <=> Flying(k)
  BY <1>1, <1>2, <1>3 DEF Flying
<1> USE DEF IInv, Sending, serverVars, queuedVars, reporterVars
<1>5. Types'
  BY <1>2, <1>3 DEF Types
<1>6. Samples'
  BY DEF Samples
<1>7. Versions'
  BY <1>2, <1>3 DEF Versions
<1>8. FlagTypes'
  BY DEF FlagTypes
<1>9. Single' /\ Flags'
  BY <1>2, <1>4 DEF Single, Flags, Pending
<1> QED BY <1>5, <1>6, <1>7, <1>8, <1>9

\* With an update's callback nothing is in flight, and what it pushes is not
\* pending: the agents update comes once, and a heartbeat after the one before.
LEMMA CallbackStep ==
  ASSUME IInv, NEW u \in flight, Callback(u)
  PROVE  IInv'
<1>1. flight = {u} /\ u \in Updates /\ \A k : Flying(k) <=> k = u.kind
  BY AloneInFlight
<1>2. flight' = {} /\ \A k : ~Flying(k)'
  BY <1>1 DEF Callback, Flying
<1>3. UNCHANGED <<serverVars, latestStatus, sysinfoEvent, cnapiVars, noticedSysinfo>>
  BY DEF Callback
<1>4. queue \in Seq(Kinds) /\ Distinct(queue) /\ {"agents", "heartbeat"} \subseteq Kinds
  BY DEF IInv, Types, Single, Kinds
<1>5. u.kind \in Kinds /\ ~In(queue, u.kind) /\ Pending(u.kind)
  BY <1>1 DEF IInv, Single, Pending, Updates
<1> USE DEF IInv, serverVars, reporterVars, cnapiVars, queuedVars
<1>6. CASE u.kind = "status"
  <2>1. StatusDone
    BY <1>6 DEF Callback
  <2>2. Types' /\ Samples' /\ Versions'
    BY <1>2, <1>3, <2>1 DEF Types, Samples, Versions, StatusDone
  <2>3. FlagTypes'
    BY <1>3, <2>1 DEF FlagTypes, StatusDone
  <2>4. Single' /\ Flags'
    BY <1>2, <1>3, <1>5, <1>6, <2>1 DEF Single, Flags, Pending, StatusDone
  <2> QED BY <2>2, <2>3, <2>4
<1>7. CASE u.kind = "sysinfo"
  <2>1. SysinfoDone
    BY <1>7 DEF Callback
  <2>2. ~registered => ~In(queue, "agents")
    BY DEF Flags, Pending
  <2>3. /\ queue' \in Seq(Kinds) /\ Distinct(queue')
        /\ \A x : In(queue', x) <=> In(queue, x) \/ (~registered /\ x = "agents")
    <3>1. CASE registered
      BY <1>4, <2>1, <3>1 DEF SysinfoDone
    <3>2. CASE ~registered
      BY <1>4, <2>1, <2>2, <3>2, PushKeeps DEF SysinfoDone
    <3> QED BY <3>1, <3>2
  <2>4. Types' /\ Samples' /\ Versions'
    BY <1>2, <1>3, <2>1, <2>3 DEF Types, Samples, Versions, SysinfoDone
  <2>5. FlagTypes'
    BY <1>3, <2>1 DEF FlagTypes, SysinfoDone
  <2>6. Single' /\ Flags'
    BY <1>2, <1>3, <1>5, <1>7, <2>1, <2>3 DEF Single, Flags, Pending, SysinfoDone
  <2> QED BY <2>4, <2>5, <2>6
<1>8. CASE u.kind = "agents"
  <2>1. AgentsDone
    BY <1>8 DEF Callback
  <2>2. registered /\ ~reporting /\ ~In(queue, "heartbeat") /\ ~heartbeatTimer
    BY <1>5, <1>8 DEF Flags, Pending
  <2>3. /\ queue' \in Seq(Kinds) /\ Distinct(queue')
        /\ \A x : In(queue', x) <=> In(queue, x) \/ x = "heartbeat"
    BY <1>4, <2>1, <2>2, PushKeeps DEF AgentsDone
  <2>4. Types' /\ Samples' /\ Versions'
    BY <1>2, <1>3, <2>1, <2>3 DEF Types, Samples, Versions, AgentsDone
  <2>5. FlagTypes'
    BY <1>3, <2>1 DEF FlagTypes, AgentsDone
  <2>6. Single' /\ Flags'
    BY <1>2, <1>3, <1>5, <1>8, <2>1, <2>2, <2>3 DEF Single, Flags, Pending, AgentsDone
  <2> QED BY <2>4, <2>5, <2>6
<1>9. CASE u.kind = "heartbeat"
  <2>1. HeartbeatDone
    BY <1>9 DEF Callback
  <2>2. Types' /\ Samples' /\ Versions'
    BY <1>2, <1>3, <2>1 DEF Types, Samples, Versions, HeartbeatDone
  <2>3. FlagTypes'
    BY <1>3, <2>1 DEF FlagTypes, HeartbeatDone
  <2>4. Single' /\ Flags'
    BY <1>2, <1>3, <1>5, <1>9, <2>1 DEF Single, Flags, Pending, HeartbeatDone
  <2> QED BY <2>2, <2>3, <2>4
<1> QED BY <1>5, <1>6, <1>7, <1>8, <1>9 DEF Kinds

LEMMA RequestStep ==
  ASSUME IInv, NEW u \in flight, Request(u)
  PROVE  IInv'
<1>1. u \in Updates /\ u.version \in Nat /\ u.kind \in Kinds
  BY AloneInFlight DEF Updates
<1>2. /\ u.stage \in {"gather", "backoff"} => u.kind = "sysinfo"
      /\ cnapiStatus \in 0 .. vms /\ cnapiSysinfo \in 0 .. sysinfo
      /\ vms \in Nat /\ sysinfo \in Nat
      /\ u.kind = "status" => u.version \in 1 .. vms
      /\ u.kind = "sysinfo" => u.version \in 0 .. sysinfo
  BY CnapiSyncAssumption DEF IInv, Types, Samples, Versions
<1>3. CASE GatherSysinfo(u)
  BY <1>2, <1>3, AdvanceStep DEF GatherSysinfo, cnapiVars
<1>4. CASE CnapiTakes(u)
  BY <1>1, <1>2, <1>4, AdvanceStep DEF CnapiTakes
<1>5. CASE SysinfoFails(u)
  BY <1>1, <1>2, <1>5, AdvanceStep DEF SysinfoFails, cnapiVars
<1>6. CASE RegisterAgain(u)
  BY <1>1, <1>2, <1>6, AdvanceStep DEF RegisterAgain, cnapiVars
<1>7. CASE Answered(u)
  BY <1>7, CallbackStep DEF Answered
<1>8. CASE FailsQuietly(u)
  BY <1>8, CallbackStep DEF FailsQuietly
<1> QED BY <1>3, <1>4, <1>5, <1>6, <1>7, <1>8 DEF Request

-----------------------------------------------------------------------------
(***************************************************************************)
(* The reporter.                                                           *)
(***************************************************************************)

\* A step of the reporter that queues nothing: the types of what it keeps are all
\* that has to be seen to.
LEMMA ReporterKeeps ==
  ASSUME IInv, ReporterOnly, UNCHANGED <<queue, statusQueued, latestStatus>>, Samples', FlagTypes'
  PROVE  IInv'
<1> QED BY DEF IInv, ReporterOnly, serverVars, Types, Versions, Single, Flags, Pending, Flying

LEMMA SampleReadyStep ==
  ASSUME IInv, SampleReady
  PROVE  IInv'
<1>1. queue \in Seq(Kinds) /\ Distinct(queue) /\ "status" \in Kinds
  BY DEF IInv, Types, Single, Kinds
<1>2. ~statusQueued => ~In(queue, "status") /\ ~Flying("status")
  BY DEF IInv, Flags, Pending
<1>3. /\ queue' \in Seq(Kinds) /\ Distinct(queue')
      /\ \A x : In(queue', x) <=> In(queue, x) \/ (~statusQueued /\ x = "status")
  <2>1. CASE statusQueued
    BY <1>1, <2>1 DEF SampleReady, QueueStatus
  <2>2. CASE ~statusQueued
    BY <1>1, <1>2, <2>2, PushKeeps DEF SampleReady, QueueStatus
  <2> QED BY <2>1, <2>2
<1> USE DEF IInv, SampleReady, QueueStatus, ReporterOnly, serverVars, cnapiVars
<1>4. Types' /\ Samples' /\ Versions'
  BY <1>3 DEF Types, Samples, Versions
<1>5. FlagTypes'
  BY DEF FlagTypes
<1>6. Single' /\ Flags'
  BY <1>2, <1>3 DEF Single, Flags, Pending, Flying
<1> QED BY <1>4, <1>5, <1>6

LEMMA ReporterStep ==
  ASSUME IInv,
         \/ WatcherMarksDirty \/ ZoneeventExits \/ ZoneeventRestarts \/ MaxIntervalMarksDirty
         \/ CheckEmitStatus \/ ThrottleEnds \/ LoadVms \/ SampleFails
  PROVE  IInv'
<1> USE DEF WatcherMarksDirty, ZoneeventExits, ZoneeventRestarts, MaxIntervalMarksDirty,
        CheckEmitStatus, UpdateSample, ThrottleEnds, LoadVms, SampleFails, ReporterOnly,
        serverVars, cnapiVars
<1>1. ReporterOnly /\ UNCHANGED <<queue, statusQueued, latestStatus>>
  OBVIOUS
<1>2. vms \in Nat
  BY CnapiSyncAssumption DEF IInv, Types
<1>3. Samples'
  BY <1>2 DEF IInv, Samples
<1>4. FlagTypes'
  BY DEF IInv, FlagTypes
<1> QED BY <1>1, <1>3, <1>4, ReporterKeeps

-----------------------------------------------------------------------------
LEMMA NextIInv == IInv /\ [Next]_vars => IInv'
<1> SUFFICES ASSUME IInv, [Next]_vars PROVE IInv'
  OBVIOUS
<1>1. CASE UNCHANGED vars
  BY <1>1 DEF IInv, vars, serverVars, queuedVars, reporterVars, cnapiVars, Types, FlagTypes,
     Samples, Versions, Single, Flags, Pending, Flying
<1>2. CASE \E u \in flight : Request(u)
  BY <1>2, RequestStep
<1> QED BY <1>1, <1>2, ServerSteps, RestartStep, SysinfoEventStep, HeartbeatStep, SendStep,
           SampleReadyStep, ReporterStep DEF Next

LEMMA IInvAlways == Spec => []IInv
<1> QED BY InitIInv, NextIInv, PTL DEF Spec

\* Every reachable state is well typed: no version is sent, sampled or taken that
\* the server has not had, and no status is posted before there is one.
THEOREM TypeCorrect == Spec => []TypeOK
<1>1. IInv => TypeOK
  <2> SUFFICES ASSUME IInv PROVE TypeOK
    OBVIOUS
  <2>1. \A u \in flight : u.kind = "status" => u.version # 0
    BY DEF IInv, Versions
  <2> QED BY <2>1 DEF IInv, Types, FlagTypes, Samples, TypeOK
<1> QED BY <1>1, IInvAlways, PTL

LEMMA AtMostOneElement ==
  ASSUME NEW S, \A x, y \in S : x = y
  PROVE  Cardinality(S) \in 0 .. 1
<1>1. CASE S = {}
  BY <1>1, FS_EmptySet
<1>2. CASE S # {}
  <2>1. PICK x \in S : TRUE
    BY <1>2
  <2>2. S = {x}
    BY <2>1
  <2> QED BY <2>2, FS_Singleton
<1> QED BY <1>1, <1>2

\* However samples, sysinfo changes, retries and timers interleave, CNAPI has at
\* most one update of a kind ahead of it (sendToCnapi, queueStatusUpdateIfNotAlreadyQueued).
THEOREM NeverFlooded == Spec => []OneOfEach
<1>1. ASSUME IInv, NEW k \in Kinds
      PROVE  Cardinality({i \in DOMAIN queue : queue[i] = k}) +
             Cardinality({u \in flight : u.kind = k}) <= 1
  <2> DEFINE W == {i \in DOMAIN queue : queue[i] = k}
             F == {u \in flight : u.kind = k}
  <2>1. DOMAIN queue = 1 .. Len(queue)
    BY <1>1 DEF IInv, Types
  <2>2. (\A i, j \in W : i = j) /\ (\A u, v \in F : u = v)
    BY <1>1, <2>1 DEF IInv, Single, Distinct
  <2>3. W = {} \/ F = {}
    BY <1>1, <2>1 DEF IInv, Single, In, Flying
  <2>4. Cardinality(W) \in 0 .. 1 /\ Cardinality(F) \in 0 .. 1
    BY <2>2, AtMostOneElement
  <2>5. (W = {} => Cardinality(W) = 0) /\ (F = {} => Cardinality(F) = 0)
    BY FS_EmptySet
  <2> QED BY <2>3, <2>4, <2>5
<1>2. IInv => OneOfEach
  BY <1>1 DEF OneOfEach
<1> QED BY <1>2, IInvAlways, PTL

-----------------------------------------------------------------------------
(***************************************************************************)
(* Nothing is forgotten: what the reporter has, or will have when the      *)
(* running update ends, against what it was told of.                       *)
(***************************************************************************)
Covered == IF samplerLock THEN IF loaded = 0 THEN vms ELSE loaded ELSE sample

Remembers == noticedVms > Covered => isDirty

LEMMA RemembersIs == IInv => (Remembers <=> NoChangeForgotten)
<1> SUFFICES ASSUME IInv PROVE Remembers <=> NoChangeForgotten
  OBVIOUS
<1>1. samplerLock \in BOOLEAN
  BY DEF IInv, FlagTypes
<1>2. CASE samplerLock /\ loaded = 0
  BY <1>2 DEF Remembers, Covered, NoChangeForgotten
<1>3. CASE samplerLock /\ loaded # 0
  BY <1>3 DEF Remembers, Covered, NoChangeForgotten
<1>4. CASE ~samplerLock
  BY <1>4 DEF Remembers, Covered, NoChangeForgotten
<1> QED BY <1>1, <1>2, <1>3, <1>4

\* Only the reporter, a restart and the VMs themselves have a say in it.
LEMMA RequestsForgetNothing ==
  ASSUME NEW u, u.kind \in Kinds, Request(u)
  PROVE  UNCHANGED <<vms, isDirty, samplerLock, loaded, sample, noticedVms>>
<1> USE DEF serverVars, queuedVars, reporterVars, Sending
<1>1. CASE GatherSysinfo(u) \/ CnapiTakes(u) \/ SysinfoFails(u) \/ RegisterAgain(u)
  BY <1>1 DEF GatherSysinfo, CnapiTakes, SysinfoFails, RegisterAgain
<1>2. CASE Answered(u) \/ FailsQuietly(u)
  BY <1>2 DEF Answered, FailsQuietly, Callback, Kinds, StatusDone, SysinfoDone, AgentsDone,
     HeartbeatDone
<1> QED BY <1>1, <1>2 DEF Request

LEMMA NextRemembers == IInv /\ Remembers /\ [Next]_vars => Remembers'
<1> SUFFICES ASSUME IInv, Remembers, [Next]_vars PROVE Remembers'
  OBVIOUS
<1>1. /\ vms \in Nat \ {0} /\ samplerLock \in BOOLEAN /\ isDirty \in BOOLEAN
      /\ {loaded, sample, noticedVms} \subseteq 0 .. vms
  BY CnapiSyncAssumption DEF IInv, Types, FlagTypes, Samples
<1> USE DEF Remembers, Covered
<1> HIDE DEF IInv
<1>2. ASSUME UNCHANGED <<vms, isDirty, samplerLock, loaded, sample, noticedVms>>
      PROVE  Remembers'
  BY <1>2
<1>3. CASE \E u \in flight : Request(u)
  <2>1. \A u \in flight : u.kind \in Kinds
    BY AloneInFlight DEF Updates
  <2> QED BY <1>2, <1>3, <2>1, RequestsForgetNothing
<1>4. CASE VmChange
  BY <1>1, <1>4 DEF VmChange
<1>5. CASE AgentRestart
  BY <1>1, <1>5 DEF AgentRestart
<1>6. CASE UNCHANGED vars \/ SysinfoChange \/ OnSysinfoChange \/ QueueHeartbeat \/ SendToCnapi
  BY <1>2, <1>6 DEF vars, serverVars, reporterVars, SysinfoChange, OnSysinfoChange,
     QueueHeartbeat, SendToCnapi
<1>7. CASE \/ WatcherMarksDirty \/ MaxIntervalMarksDirty \/ SampleFails
  BY <1>7 DEF WatcherMarksDirty, MaxIntervalMarksDirty, SampleFails
<1>8. CASE ZoneeventExits \/ ZoneeventRestarts \/ ThrottleEnds
  BY <1>2, <1>8 DEF ZoneeventExits, ZoneeventRestarts, ThrottleEnds, ReporterOnly, serverVars
\* The update that begins will load the VMs as they are now, or as they are later.
<1>9. CASE CheckEmitStatus
  <2>1. UNCHANGED <<vms, sample, noticedVms>> /\ noticedVms \in 0 .. vms
    BY <1>1, <1>9 DEF CheckEmitStatus, ReporterOnly, serverVars
  <2>2. CASE samplerLock
    BY <1>2, <1>9, <2>1, <2>2 DEF CheckEmitStatus, UpdateSample
  <2>3. CASE ~samplerLock
    <3>1. samplerLock' /\ loaded' = 0
      BY <1>9, <2>3 DEF CheckEmitStatus, UpdateSample
    <3> QED BY <1>1, <2>1, <3>1
  <2> QED BY <2>2, <2>3
<1>10. CASE LoadVms
  BY <1>1, <1>10 DEF LoadVms, ReporterOnly, serverVars
<1>11. CASE SampleReady
  BY <1>1, <1>11 DEF SampleReady, ReporterOnly, serverVars
<1> QED BY <1>3, <1>4, <1>5, <1>6, <1>7, <1>8, <1>9, <1>10, <1>11 DEF Next

\* However changes, failing samples, zoneevent's deaths and restarts interleave,
\* a change the reporter was told of is in its sample, will be seen by the running
\* update, or leaves it dirty (updateSample and onPipelineComplete of heartbeater.js).
THEOREM ChangesRemembered == Spec => []NoChangeForgotten
<1>1. Init => Remembers
  BY DEF Init, Remembers, Covered
<1>2. IInv /\ Remembers => NoChangeForgotten
  BY RemembersIs
<1> QED BY <1>1, <1>2, NextRemembers, IInvAlways, PTL DEF Spec

=============================================================================
